--------------------------- MODULE AgentLoop_proofs ---------------------------
(***************************************************************************)
(* What the turn loop promises for every iteration budget, continuation    *)
(* limit, batch size and number of crashes: its types, that no observer row*)
(* outlives its turn, that an answer is never turned into a MaxIterations  *)
(* error, and that calls and results stay paired.                          *)
(***************************************************************************)
EXTENDS AgentLoop, SequenceTheorems, FiniteSetTheorems, TLAPS

-----------------------------------------------------------------------------
(* The inductive invariant.                                                *)

InIteration == {"prepare", "model", "final", "stop", "serve", "authorizing",
                "running", "post"}
InToolBatch == {"serve", "authorizing", "running", "post"}

(* The counters stay below their limits while a step may still raise them, *)
(* and the calls being served were issued.                                 *)
Counters ==
    /\ turn.index >= 1
    /\ \A j \in DOMAIN turn.calls : turn.calls[j] \in 1..IssuedCalls
    /\ turn.phase \in InIteration => turn.iteration < MaxIterations
    /\ At("stop") => turn.stops < StopLimit /\ turn.iteration + 1 < MaxIterations

(* Which row is open is a function of the phase, but while unwinding: the  *)
(* call the turn failed in may or may not have started.                    *)
Rows ==
    /\ turn.phase \in {"authorizing", "running"} => InBatch /\ open = {Call}
    /\ At("post") => InBatch
    /\ At("model") => open = {0}
    /\ At("unwind") => open = {} \/ (InBatch /\ open = {Call})
    /\ turn.phase \notin {"authorizing", "running", "model", "unwind"} => open = {}

(* The last message of the model calls tools.                              *)
CallingLast(s) ==
    \E p \in DOMAIN s :
        /\ s[p].kind = "assistant" /\ s[p].calls # <<>>
        /\ \A q \in (p + 1)..Len(s) : s[q].kind # "assistant"

(* Where the budget can run out the model is still calling tools.          *)
Calling ==
    /\ turn.phase \in InToolBatch => CallingLast(msgs)
    /\ At("head") /\ turn.iteration >= MaxIterations /\ MaxIterations > 0 => CallingLast(msgs)
    /\ At("idle") /\ turn.result = "max_iterations" /\ MaxIterations > 0 => CallingLast(msgs)
    /\ turn.result = "max_iterations" => At("idle")
    /\ turn.phase \in {"prompt", "human", "context"} => turn.iteration = 0

IInv == TypeOK /\ Counters /\ Rows /\ Calling

-----------------------------------------------------------------------------
(* Shared effects.                                                         *)

(* Ids are counted by the ToolEnd table.                                   *)
LEMMA CallFacts ==
    ASSUME IInv
    PROVE  /\ IssuedCalls \in Nat /\ DOMAIN ends = 1..IssuedCalls
           /\ turn.calls \in Seq(Nat) /\ turn.index \in Nat /\ turn.index >= 1
           /\ InBatch => turn.index \in DOMAIN turn.calls /\ Call \in 1..IssuedCalls
  <1>1. IssuedCalls \in Nat /\ DOMAIN ends = 1..IssuedCalls
    BY LenProperties DEF IInv, TypeOK, IssuedCalls
  <1>2. turn.calls \in Seq(Nat) /\ turn.index \in Nat /\ turn.index >= 1
    BY DEF IInv, TypeOK, Turn, Counters
  <1>3. Len(turn.calls) \in Nat /\ DOMAIN turn.calls = 1..Len(turn.calls)
    BY <1>2, LenProperties
  <1>4. InBatch => turn.index \in DOMAIN turn.calls
    BY <1>2, <1>3 DEF InBatch
  <1> QED BY <1>1, <1>2, <1>4 DEF IInv, Counters, Call

(* A written message keeps the transcript and its journal frontier typed.  *)
LEMMA RecordType ==
    ASSUME TypeOK, NEW m \in Message, Record(m)
    PROVE  /\ msgs' \in Seq(Message) /\ msgs' = Append(msgs, m)
           /\ durable' \in 0..Len(msgs') /\ authority' \in BOOLEAN
  <1>1. /\ msgs \in Seq(Message) /\ Len(msgs) \in Nat
        /\ durable \in 0..Len(msgs) /\ authority \in BOOLEAN
    BY LenProperties DEF TypeOK
  <1>2. /\ msgs' = Append(msgs, m) /\ msgs' \in Seq(Message)
        /\ Len(msgs') = Len(msgs) + 1
    BY <1>1, AppendProperties DEF Record
  <1>3. durable' \in {durable, durable + 1} /\ authority' \in BOOLEAN
    BY <1>1 DEF Record
  <1> QED BY <1>1, <1>2, <1>3

(* What the loop writes are messages.                                      *)
LEMMA MessageTypes ==
    /\ Human \in Message /\ User \in Message
    /\ \A id \in Nat : Result(id) \in Message
    /\ \A calls \in Seq(Nat) : Assistant(calls) \in Message
  <1>1. <<>> \in Seq(Nat)
    BY EmptySeq
  <1> QED BY <1>1 DEF Human, User, Result, Assistant, Message

(* An answer closes the call's row, counts one ToolEnd and issues no call. *)
LEMMA AnswerType ==
    ASSUME IInv, InBatch, Answer
    PROVE  /\ msgs' \in Seq(Message) /\ msgs' = Append(msgs, Result(Call))
           /\ durable' \in 0..Len(msgs') /\ authority' \in BOOLEAN
           /\ ends' \in Seq(Nat) /\ Len(ends') = Len(ends)
           /\ open' = open \ {Call}
  <1>1. Call \in Nat /\ TypeOK /\ Result(Call) \in Message
    BY CallFacts, MessageTypes DEF IInv
  <1>2. Record(Result(Call)) /\ open' = open \ {Call} /\ ends' = [ends EXCEPT ![Call] = @ + 1]
    BY DEF Answer
  <1>3. ends \in [1..Len(ends) -> Nat] /\ Len(ends) \in Nat
    BY <1>1, LenProperties DEF TypeOK
  <1>4. ends' \in [1..Len(ends) -> Nat]
    <2> PICK n, c : n = Len(ends) /\ c = Call
      OBVIOUS
    <2>1. ends \in [1..n -> Nat] /\ ends' = [ends EXCEPT ![c] = @ + 1] /\ c \in 1..n
      BY <1>2, <1>3, CallFacts DEF IssuedCalls
    <2>2. ends[c] + 1 \in Nat
      BY <2>1
    <2>3. ends' \in [1..n -> Nat]
      BY <2>1, <2>2
    <2> QED BY <2>3
  <1>5. ends' \in Seq(Nat) /\ Len(ends') = Len(ends)
    BY <1>3, <1>4, SeqDef, LenProperties
  <1> QED BY <1>1, <1>2, <1>5, RecordType

(* Only an answer without tool calls ends the model's calling.             *)
LEMMA CallingAppend ==
    ASSUME NEW s \in Seq(Message), NEW m \in Message,
           m.kind = "assistant" => m.calls # <<>>,
           CallingLast(s) \/ m.kind = "assistant"
    PROVE  CallingLast(Append(s, m))
  <1> DEFINE t == Append(s, m)
  <1>1. /\ Len(s) \in Nat /\ DOMAIN s = 1..Len(s)
        /\ t \in Seq(Message) /\ Len(t) = Len(s) + 1 /\ DOMAIN t = 1..(Len(s) + 1)
        /\ t[Len(s) + 1] = m /\ \A i \in 1..Len(s) : t[i] = s[i]
    BY AppendProperties, LenProperties
  <1> HIDE DEF t
  <1>2. CASE m.kind = "assistant"
    <2>1. Len(s) + 1 \in DOMAIN t /\ t[Len(s) + 1].kind = "assistant"
          /\ t[Len(s) + 1].calls # <<>>
      BY <1>1, <1>2
    <2>2. \A q \in (Len(s) + 1 + 1)..Len(t) : t[q].kind # "assistant"
      BY <1>1
    <2> QED BY <2>1, <2>2 DEF t, CallingLast
  <1>3. CASE m.kind # "assistant"
    <2>1. PICK p \in DOMAIN s :
              /\ s[p].kind = "assistant" /\ s[p].calls # <<>>
              /\ \A q \in (p + 1)..Len(s) : s[q].kind # "assistant"
      BY <1>3 DEF CallingLast
    <2>2. p \in DOMAIN t /\ t[p] = s[p]
      BY <1>1, <2>1
    <2>3. ASSUME NEW q \in (p + 1)..Len(t) PROVE t[q].kind # "assistant"
      <3>1. CASE q = Len(s) + 1
        BY <1>1, <1>3, <3>1
      <3>2. CASE q # Len(s) + 1
        <4>1. q \in (p + 1)..Len(s) /\ q \in 1..Len(s)
          BY <1>1, <2>1, <3>2
        <4> QED BY <1>1, <2>1, <4>1
      <3> QED BY <3>1, <3>2
    <2> QED BY <2>1, <2>2, <2>3 DEF t, CallingLast
  <1> QED BY <1>2, <1>3

-----------------------------------------------------------------------------
(* Types and counters.                                                     *)

(* Turns with some fields replaced are turns.                              *)
LEMMA TurnUpdates ==
    ASSUME turn \in Turn, 0 \in 0..MaxRestarts
    PROVE  /\ \A k \in Nat : [turn EXCEPT !.index = k] \in Turn
           /\ \A k \in Nat : [turn EXCEPT !.phase = "serve", !.index = k, !.restarts = 0] \in Turn
           /\ \A k \in Nat, f \in Nat :
                  [turn EXCEPT !.phase = "serve", !.index = k, !.feedback = f] \in Turn
           /\ \A k \in Nat : [turn EXCEPT !.phase = "prepare", !.planMoved = FALSE, !.idle = k] \in Turn
           /\ \A k \in Nat, p \in Phases, b \in BOOLEAN :
                  [turn EXCEPT !.phase = p, !.index = k, !.restarts = 0, !.planMoved = b] \in Turn
           /\ \A k \in 0..MaxRestarts : [turn EXCEPT !.restarts = k] \in Turn
           /\ \A p \in Phases : [turn EXCEPT !.phase = p] \in Turn
           /\ \A r \in {"ok", "blocked", "cancelled", "failed", "max_iterations"} :
                  [turn EXCEPT !.phase = "idle", !.result = r] \in Turn
  <1>1. \A k \in Nat : [turn EXCEPT !.index = k] \in Turn
    BY DEF Turn, Phases
  <1>2. \A k \in Nat : [turn EXCEPT !.phase = "serve", !.index = k, !.restarts = 0] \in Turn
    BY DEF Turn, Phases
  <1>3. \A k \in Nat, f \in Nat :
           [turn EXCEPT !.phase = "serve", !.index = k, !.feedback = f] \in Turn
    BY DEF Turn, Phases
  <1>4. \A k \in Nat : [turn EXCEPT !.phase = "prepare", !.planMoved = FALSE, !.idle = k] \in Turn
    BY DEF Turn, Phases
  <1>5. \A k \in Nat, p \in Phases, b \in BOOLEAN :
           [turn EXCEPT !.phase = p, !.index = k, !.restarts = 0, !.planMoved = b] \in Turn
    BY DEF Turn, Phases
  <1>6. \A k \in 0..MaxRestarts : [turn EXCEPT !.restarts = k] \in Turn
    BY DEF Turn, Phases
  <1>7. \A p \in Phases : [turn EXCEPT !.phase = p] \in Turn
    BY DEF Turn, Phases
  <1>8. \A r \in {"ok", "blocked", "cancelled", "failed", "max_iterations"} :
           [turn EXCEPT !.phase = "idle", !.result = r] \in Turn
    BY DEF Turn, Phases
  <1> QED BY <1>1, <1>2, <1>3, <1>4, <1>5, <1>6, <1>7, <1>8

(* What a turn starts from.                                                *)
LEMMA NewTurns ==
    ASSUME LoopAssumption
    PROVE  /\ NewTurn \in Turn
           /\ \A p \in Phases : [NewTurn EXCEPT !.phase = p] \in Turn
           /\ [NewTurn EXCEPT !.result = "empty"] \in Turn
  <1>1. /\ 0 \in 0..MaxIterations /\ 0 \in 0..StopLimit /\ 0 \in 0..MaxRestarts
        /\ <<>> \in Seq(Nat)
    BY EmptySeq DEF LoopAssumption
  <1>2. NewTurn \in Turn
    BY <1>1 DEF NewTurn, Turn, Phases
  <1>3. \A p \in Phases : [NewTurn EXCEPT !.phase = p] \in Turn
    BY <1>2 DEF Turn, Phases
  <1>4. [NewTurn EXCEPT !.result = "empty"] \in Turn
    BY <1>2 DEF Turn
  <1> QED BY <1>2, <1>3, <1>4

(* Every step keeps the types; the budget, the continuation limit and the  *)
(* restart limit bound their counters.                                     *)
LEMMA TypeStep ==
    ASSUME IInv, Next
    PROVE  TypeOK'
  <1> USE DEF Silent, Quiet, Same, At
  <1>0. /\ TypeOK /\ Rows
        /\ msgs \in Seq(Message) /\ durable \in 0..Len(msgs) /\ authority \in BOOLEAN
        /\ turn \in Turn /\ cancelled \in BOOLEAN /\ ends \in Seq(Nat)
        /\ open \subseteq 0..IssuedCalls /\ turns \in 0..MaxTurns /\ crashes \in 0..MaxCrashes
    BY DEF IInv, TypeOK
  <1>n. /\ IssuedCalls \in Nat /\ turn.index \in Nat /\ turn.index >= 1
        /\ turn.calls \in Seq(Nat) /\ Human \in Message /\ User \in Message
    BY CallFacts, MessageTypes
  <1>b. /\ 0 \in 0..MaxIterations /\ 0 \in 0..StopLimit /\ 0 \in 0..MaxRestarts
        /\ <<>> \in Seq(Nat) /\ MaxTurns \in Nat /\ MaxCrashes \in Nat
        /\ MaxIterations \in Nat /\ StopLimit \in Nat /\ MaxRestarts \in Nat
    BY LoopAssumption, EmptySeq DEF LoopAssumption
  <1>i. /\ turn.phase \in InIteration => turn.iteration < MaxIterations
        /\ turn.phase = "stop" => turn.stops < StopLimit
        /\ turn.iteration \in Nat /\ turn.stops \in Nat /\ turn.idle \in Nat
        /\ turn.feedback \in Nat /\ turn.restarts \in Nat
    BY <1>0 DEF IInv, Counters, Turn
  <1>w. /\ \A p \in Phases : [NewTurn EXCEPT !.phase = p] \in Turn
        /\ [NewTurn EXCEPT !.result = "empty"] \in Turn
        /\ \A p \in Phases : [turn EXCEPT !.phase = p] \in Turn
        /\ \A r \in {"ok", "blocked", "cancelled", "failed", "max_iterations"} :
               [turn EXCEPT !.phase = "idle", !.result = r] \in Turn
    BY <1>0, <1>b, LoopAssumption, TurnUpdates, NewTurns
  <1>e. ASSUME turn' \in Turn, turns < MaxTurns, turns' = turns + 1, cancelled' = FALSE,
               UNCHANGED <<msgs, durable, authority, open, ends, crashes>>
        PROVE  TypeOK'
    <2>1. turns' \in 0..MaxTurns
      BY <1>0, <1>b, <1>e
    <2> QED BY <1>0, <1>e, <2>1 DEF TypeOK, IssuedCalls
  <1>1. CASE RunTurn
    <2> PICK p \in Phases : p = IF Hooks THEN "prompt" ELSE "human"
      BY DEF Phases
    <2>1. turn' = [NewTurn EXCEPT !.phase = p]
      BY <1>1 DEF RunTurn
    <2>2. turn' \in Turn
      BY <1>w, <2>1
    <2>3. /\ turns < MaxTurns /\ turns' = turns + 1 /\ cancelled' = FALSE
          /\ UNCHANGED <<msgs, durable, authority, open, ends, crashes>>
      BY <1>1 DEF RunTurn
    <2> QED BY <1>e, <2>2, <2>3
  <1>2. CASE ContinueSession
    <2>1. turn' \in Turn
      <3>1. /\ turn' = [NewTurn EXCEPT !.result = "empty"]
               \/ turn' = [NewTurn EXCEPT !.phase = "head"]
            /\ "head" \in Phases
        BY <1>2 DEF ContinueSession, Phases
      <3> QED BY <1>w, <3>1
    <2>2. /\ turns < MaxTurns /\ turns' = turns + 1 /\ cancelled' = FALSE
          /\ UNCHANGED <<msgs, durable, authority, open, ends, crashes>>
      BY <1>2 DEF ContinueSession
    <2> QED BY <1>e, <2>1, <2>2
  <1>f. ASSUME NEW r \in {"ok", "blocked", "cancelled", "failed", "max_iterations"},
               Finish(r), Same
        PROVE  TypeOK'
    <2>1. turn' \in Turn
      BY <1>f, <1>w DEF Finish, Phases
    <2> QED BY <1>0, <1>f, <2>1 DEF Finish, TypeOK, IssuedCalls
  <1>3. CASE PromptHook
    <2>1. CASE Silent /\ Quiet /\ \E adds \in BOOLEAN :
                    turn' = [turn EXCEPT !.phase = "human", !.context = adds]
      <3>1. turn' \in Turn
        BY <1>0, <2>1 DEF Turn, Phases
      <3> QED BY <1>0, <1>3, <2>1, <3>1 DEF PromptHook, TypeOK, IssuedCalls
    <2> QED BY <1>3, <1>f, <2>1 DEF PromptHook
  <1>4. CASE PushHuman \/ PushContext
    <2>1. turn' \in Turn
      BY <1>4, <1>w DEF PushHuman, PushContext, Goto, Phases
    <2>2. /\ Record(Human) \/ Record(User)
          /\ UNCHANGED <<open, ends, cancelled, turns, crashes>>
      BY <1>4 DEF PushHuman, PushContext
    <2> QED BY <1>0, <1>n, <2>1, <2>2, RecordType DEF TypeOK, IssuedCalls
  <1>5. CASE LoopHead
    <2>1. turn' \in Turn
      <3> PICK k \in Nat : k = IF IdleNow >= ReminderInterval THEN 1 ELSE IdleNow + 1
        BY <1>i DEF IdleNow
      <3>1. turn' = [turn EXCEPT !.phase = "prepare", !.planMoved = FALSE, !.idle = k]
        BY <1>5 DEF LoopHead
      <3> QED BY <1>0, <1>b, <3>1, TurnUpdates
    <2>2. /\ Record(User) \/ UNCHANGED <<msgs, durable, authority>>
          /\ UNCHANGED <<open, ends, cancelled, turns, crashes>>
      BY <1>5 DEF LoopHead
    <2> QED BY <1>0, <1>n, <2>1, <2>2, RecordType DEF TypeOK, IssuedCalls
  <1>6. CASE BudgetExhausted
    BY <1>6, <1>f DEF BudgetExhausted
  <1>7. CASE PrepareRequest
    <2>1. CASE Goto("model") /\ open' = open \cup {0} /\ UNCHANGED ends /\ Silent
      <3>1. turn' \in Turn
        BY <1>w, <2>1 DEF Goto, Phases
      <3>2. open' \subseteq 0..IssuedCalls
        BY <1>0, <1>n, <2>1
      <3> QED BY <1>0, <1>7, <2>1, <3>1, <3>2 DEF PrepareRequest, TypeOK, IssuedCalls
    <2> QED BY <1>7, <1>f, <2>1 DEF PrepareRequest
  <1>8. CASE ModelCancelled
    BY <1>8, <1>f DEF ModelCancelled
  <1>9. CASE ModelFails
    BY <1>9, <1>f DEF ModelFails
  <1>10. ASSUME NEW n \in 0..MaxBatch, ModelAnswers(n) PROVE TypeOK'
    <2> PICK k : k = IssuedCalls
      OBVIOUS
    <2> DEFINE calls == [i \in 1..n |-> k + i]
               zeros == [i \in 1..n |-> 0]
    <2>1. calls \in Seq(Nat) /\ zeros \in Seq(Nat) /\ Len(zeros) = n /\ n \in Nat
      <3>1. n \in Nat /\ k \in Nat
        BY <1>n
      <3>2. calls \in [1..n -> Nat] /\ zeros \in [1..n -> Nat]
        BY <3>1
      <3> QED BY <3>1, <3>2, SeqDef, LenProperties
    <2>2. /\ Record(Assistant(calls)) /\ open' = open \ {0} /\ ends' = ends \o zeros
          /\ turn' = [turn EXCEPT !.phase = IF n = 0 THEN "final" ELSE "serve",
                                  !.calls = calls, !.index = 1]
          /\ UNCHANGED <<cancelled, turns, crashes>>
      BY <1>10 DEF ModelAnswers
    <2> HIDE DEF calls, zeros
    <2>3. turn' \in Turn
      BY <1>0, <2>1, <2>2 DEF Turn, Phases
    <2>4. ends' \in Seq(Nat) /\ Len(ends') = Len(ends) + n
      BY <1>0, <2>1, <2>2, ConcatProperties
    <2>5. open' \subseteq 0..Len(ends')
      BY <1>0, <1>n, <2>1, <2>2, <2>4 DEF IssuedCalls
    <2>6. Assistant(calls) \in Message
      BY <2>1, MessageTypes
    <2> QED BY <1>0, <2>2, <2>3, <2>4, <2>5, <2>6, RecordType DEF TypeOK, IssuedCalls
  <1>11. CASE FinalAnswer
    <2>1. CASE Goto("stop") /\ Silent /\ Quiet
      <3>1. turn' \in Turn
        BY <1>w, <2>1 DEF Goto, Phases
      <3> QED BY <1>0, <1>11, <2>1, <3>1 DEF FinalAnswer, TypeOK, IssuedCalls
    <2> QED BY <1>11, <1>f, <2>1 DEF FinalAnswer
  <1>12. CASE StopHook
    <2>1. CASE Record(User) /\ Quiet /\
               turn' = [turn EXCEPT !.phase = "head", !.stops = @ + 1, !.iteration = @ + 1]
      <3>1. turn.stops + 1 \in 0..StopLimit /\ turn.iteration + 1 \in 0..MaxIterations
        BY <1>b, <1>i, <1>12 DEF StopHook, InIteration
      <3>2. turn' \in Turn
        BY <1>0, <2>1, <3>1 DEF Turn, Phases
      <3> QED BY <1>0, <1>n, <1>12, <2>1, <3>2, RecordType DEF StopHook, TypeOK, IssuedCalls
    <2> QED BY <1>12, <1>f, <2>1 DEF StopHook
  <1>c. ASSUME InBatch, Answer, turn' \in Turn, Same PROVE TypeOK'
    <2>1. /\ msgs' \in Seq(Message) /\ durable' \in 0..Len(msgs') /\ authority' \in BOOLEAN
          /\ ends' \in Seq(Nat) /\ Len(ends') = Len(ends) /\ open' = open \ {Call}
      BY <1>c, AnswerType
    <2> QED BY <1>0, <1>c, <2>1 DEF TypeOK, IssuedCalls
  <1>t. /\ [turn EXCEPT !.phase = "serve", !.index = @ + 1, !.restarts = 0] \in Turn
        /\ [turn EXCEPT !.index = @ + 1] \in Turn
    <2> PICK k \in Nat : k = turn.index + 1
      BY <1>n
    <2>1. /\ [turn EXCEPT !.phase = "serve", !.index = k, !.restarts = 0] \in Turn
          /\ [turn EXCEPT !.index = k] \in Turn
      BY <1>0, <1>b, TurnUpdates
    <2> QED BY <2>1
  <1>s. ASSUME turn' \in Turn, Silent, Quiet, Same PROVE TypeOK'
    BY <1>0, <1>s DEF TypeOK, IssuedCalls
  <1>u. ASSUME NEW k \in Nat, NEW r \in {"cancelled", "failed"}, Unwind(k, r), Same
        PROVE  TypeOK'
    <2>1. turn' \in Turn
      BY <1>0, <1>u DEF Unwind, Turn, Phases
    <2> QED BY <1>s, <1>u, <2>1 DEF Unwind
  <1>13. CASE RejectEarly
    BY <1>13, <1>c, <1>t DEF RejectEarly, NextCall
  <1>14. CASE ToolStart
    <2>1. turn' \in Turn
      BY <1>14, <1>w DEF ToolStart, Goto, Phases
    <2>2. open' \subseteq 0..IssuedCalls
      <3>1. Call \in 1..IssuedCalls /\ IssuedCalls \in Nat /\ open' = open \cup {Call}
        BY <1>14, CallFacts DEF ToolStart
      <3> PICK c : c = Call
        OBVIOUS
      <3> QED BY <1>0, <1>n, <3>1
    <2> QED BY <1>0, <1>14, <2>1, <2>2 DEF ToolStart, TypeOK, IssuedCalls
  <1>15. CASE AuthorizationError \/ CallCancelled \/ ApprovalCancels \/ ToolFails
    BY <1>n, <1>15, <1>u DEF AuthorizationError, CallCancelled, ApprovalCancels, ToolFails
  <1>16. CASE Denied
    BY <1>0, <1>16, <1>c, <1>t DEF Denied, NextCall, Rows
  <1>17. CASE StaleReceipt
    <2>1. CASE turn.restarts < MaxRestarts
      <3>1. turn' \in Turn
        <4> PICK k \in 0..MaxRestarts : k = turn.restarts + 1
          BY <1>b, <1>i, <2>1
        <4>1. turn' = [turn EXCEPT !.restarts = k]
          BY <1>17, <2>1 DEF StaleReceipt
        <4> QED BY <1>0, <1>b, <4>1, TurnUpdates
      <3> QED BY <1>s, <1>17, <2>1, <3>1 DEF StaleReceipt
    <2>2. CASE ~(turn.restarts < MaxRestarts)
      BY <1>0, <1>17, <1>c, <1>t, <2>2 DEF StaleReceipt, NextCall, Rows
    <2> QED BY <2>1, <2>2
  <1>18. CASE ToolRuns
    <2>1. turn' \in Turn
      BY <1>18, <1>w DEF ToolRuns, Goto, Phases
    <2> QED BY <1>s, <1>18, <2>1 DEF ToolRuns
  <1>19. ASSUME NEW plan \in BOOLEAN, ToolCompletes(plan) PROVE TypeOK'
    <2>1. turn' \in Turn
      <3> PICK k \in Nat : k = IF Hooks THEN turn.index ELSE turn.index + 1
        BY <1>n
      <3> PICK p \in Phases : p = IF Hooks THEN "post" ELSE "serve"
        BY DEF Phases
      <3> PICK b \in BOOLEAN : b = (turn.planMoved \/ plan)
        OBVIOUS
      <3>1. turn' = [turn EXCEPT !.phase = p, !.index = k, !.restarts = 0, !.planMoved = b]
        BY <1>19 DEF ToolCompletes
      <3> QED BY <1>0, <1>b, <3>1, TurnUpdates
    <2> QED BY <1>0, <1>c, <1>19, <2>1 DEF ToolCompletes, Rows
  <1>20. CASE PostHook
    <2>1. CASE turn' = [turn EXCEPT !.phase = "serve", !.index = @ + 1, !.feedback = @ + 1]
               /\ Silent /\ Quiet
      <3>1. turn' \in Turn
        <4>2. turn.feedback + 1 \in Nat /\ turn.index + 1 \in Nat
          BY <1>i, <1>n
        <4> PICK k \in Nat : k = turn.index + 1
          BY <4>2
        <4> PICK f \in Nat : f = turn.feedback + 1
          BY <4>2
        <4>1. turn' = [turn EXCEPT !.phase = "serve", !.index = k, !.feedback = f]
          BY <2>1
        <4> QED BY <1>0, <1>b, <4>1, TurnUpdates
      <3> QED BY <1>s, <1>20, <2>1, <3>1 DEF PostHook
    <2>2. CASE Unwind(turn.index + 1, "cancelled")
      BY <1>n, <1>u, <1>20, <2>2 DEF PostHook
    <2>3. CASE NextCall /\ Silent /\ Quiet
      BY <1>s, <1>t, <1>20, <2>3 DEF PostHook, NextCall
    <2> QED BY <1>20, <2>1, <2>2, <2>3 DEF PostHook
  <1>21. CASE FlushFeedback
    <2>1. turn.feedback - 1 \in Nat
      BY <1>i, <1>21 DEF FlushFeedback
    <2>2. turn' \in Turn
      BY <1>0, <1>21, <2>1 DEF FlushFeedback, Turn, Phases
    <2> QED BY <1>0, <1>n, <1>21, <2>2, RecordType DEF FlushFeedback, TypeOK, IssuedCalls
  <1>22. CASE BatchDone
    <2>1. turn.iteration + 1 \in 0..MaxIterations
      BY <1>b, <1>i, <1>22 DEF BatchDone, InIteration
    <2>2. turn' \in Turn
      BY <1>0, <1>22, <2>1 DEF BatchDone, Turn, Phases
    <2> QED BY <1>s, <1>22, <2>2 DEF BatchDone
  <1>23. CASE PairUnpaired
    BY <1>23, <1>c, <1>t DEF PairUnpaired
  <1>24. CASE Unwound
    <2>1. turn' \in Turn
      BY <1>0, <1>24 DEF Unwound, Finish, Turn, Phases
    <2> QED BY <1>0, <1>24, <2>1 DEF Unwound, Finish, TypeOK, IssuedCalls
  <1>25. CASE Cancel
    BY <1>0, <1>25 DEF Cancel, TypeOK, IssuedCalls
  <1>26. CASE Crash
    <2>1. SubSeq(msgs, 1, durable) \in Seq(Message) /\ Len(SubSeq(msgs, 1, durable)) = durable
      <3>1. durable \in Int /\ durable >= 0 /\ durable <= Len(msgs) /\ Len(msgs) \in Nat
        BY <1>0, LenProperties
      <3>2. \A i \in 1..durable : msgs[i] \in Message
        BY <1>0, <3>1, ElementOfSeq
      <3> QED BY <3>1, <3>2, SubSeqProperties
    <2>2. NewTurn \in Turn
      BY LoopAssumption, NewTurns
    <2>3. durable \in 0..durable /\ crashes + 1 \in 0..MaxCrashes
      BY <1>0, <1>b, <1>26 DEF Crash
    <2> QED BY <1>0, <1>26, <2>1, <2>2, <2>3 DEF Crash, TypeOK, IssuedCalls
  <1> QED BY <1>1, <1>2, <1>3, <1>4, <1>5, <1>6, <1>7, <1>8, <1>9, <1>10, <1>11, <1>12, <1>13,
             <1>14, <1>15, <1>16, <1>17, <1>18, <1>19, <1>20, <1>21, <1>22, <1>23, <1>24,
             <1>25, <1>26
          DEF Next, Runner, Environment

(* Every step leaves room for the next increment of its counters, and      *)
(* serves only calls the model issued.                                     *)
LEMMA CountersStep ==
    ASSUME IInv, Next
    PROVE  Counters'
  <1> USE LoopAssumption DEF Silent, Quiet, Same, At, InIteration
  <1>0. /\ turn \in Turn /\ ends \in Seq(Nat) /\ Counters
        /\ MaxIterations \in Nat /\ StopLimit \in Nat
    BY DEF IInv, TypeOK
  <1>n. /\ IssuedCalls \in Nat /\ turn.index \in Nat /\ turn.index >= 1
        /\ turn.iteration \in Nat /\ turn.stops \in Nat
    BY <1>0, CallFacts DEF Turn
  <1>w. ASSUME NEW t, turn' = t, t.index \in Nat, t.index >= 1, t.calls = turn.calls,
               t.phase \in InIteration => t.iteration < MaxIterations,
               t.phase = "stop" => t.stops < StopLimit /\ t.iteration + 1 < MaxIterations,
               Len(ends') = Len(ends)
        PROVE  Counters'
    BY <1>0, <1>w DEF Counters, IssuedCalls
  <1>v. ASSUME NEW t, turn' = t, t.index = 1, t.calls = <<>>, t.phase \notin InIteration
        PROVE  Counters'
    BY <1>v DEF Counters
  <1>1. CASE RunTurn \/ ContinueSession \/ Crash
    <2>1. /\ turn'.index = 1 /\ turn'.calls = <<>>
          /\ turn'.phase \in {"prompt", "human", "idle", "head"}
      BY <1>1 DEF RunTurn, ContinueSession, Crash, NewTurn
    <2> QED BY <1>v, <2>1
  <1>f. ASSUME NEW r, Finish(r) PROVE Counters'
    <2>1. /\ turn'.index = turn.index /\ turn'.calls = turn.calls /\ turn'.phase = "idle"
          /\ Len(ends') = Len(ends)
      BY <1>0, <1>f DEF Finish, Turn
    <2> QED BY <1>n, <1>w, <2>1
  <1>u. ASSUME NEW k \in Nat, NEW r, k >= 1, Unwind(k, r) PROVE Counters'
    <2>1. /\ turn'.index = k /\ turn'.calls = turn.calls /\ turn'.phase = "unwind"
          /\ Len(ends') = Len(ends)
      BY <1>0, <1>u DEF Unwind, Turn
    <2> QED BY <1>u, <1>w, <2>1
  <1>s. ASSUME NEW k \in Nat, k >= 1, turn'.index = k, turn'.calls = turn.calls,
               turn.phase \in InIteration,
               turn'.phase \in {"serve", "post", "authorizing", "running", "final"},
               turn'.iteration = turn.iteration, Len(ends') = Len(ends)
        PROVE  Counters'
    BY <1>0, <1>s, <1>w DEF Counters
  <1>a. InBatch /\ Answer => Len(ends') = Len(ends)
    BY AnswerType
  <1>2. CASE PromptHook
    <2>1. CASE Silent /\ Quiet /\ \E adds \in BOOLEAN :
                    turn' = [turn EXCEPT !.phase = "human", !.context = adds]
      <3>1. /\ turn'.index = turn.index /\ turn'.calls = turn.calls /\ turn'.phase = "human"
            /\ Len(ends') = Len(ends)
        BY <1>0, <2>1 DEF Turn
      <3> QED BY <1>n, <1>w, <3>1
    <2> QED BY <1>2, <1>f, <2>1 DEF PromptHook
  <1>3. CASE PushHuman \/ PushContext
    <2>1. /\ turn'.index = turn.index /\ turn'.calls = turn.calls
          /\ turn'.phase \in {"context", "head"} /\ Len(ends') = Len(ends)
      BY <1>0, <1>3 DEF PushHuman, PushContext, Goto, Turn
    <2> QED BY <1>n, <1>w, <2>1
  <1>4. CASE LoopHead
    <2>1. /\ turn'.index = turn.index /\ turn'.calls = turn.calls
          /\ turn'.phase = "prepare" /\ turn'.iteration = turn.iteration
          /\ turn.iteration < MaxIterations /\ Len(ends') = Len(ends)
      BY <1>0, <1>4 DEF LoopHead, Turn
    <2> QED BY <1>n, <1>w, <2>1
  <1>5. CASE BudgetExhausted \/ ModelCancelled \/ ModelFails \/ Unwound
    BY <1>5, <1>f DEF BudgetExhausted, ModelCancelled, ModelFails, Unwound
  <1>6. CASE PrepareRequest
    <2>1. CASE Goto("model") /\ UNCHANGED ends
      <3>1. /\ turn'.index = turn.index /\ turn'.calls = turn.calls
            /\ turn'.phase = "model" /\ turn'.iteration = turn.iteration
            /\ Len(ends') = Len(ends) /\ turn.iteration < MaxIterations
        BY <1>0, <1>6, <2>1 DEF PrepareRequest, Goto, Turn, Counters
      <3> QED BY <1>n, <1>w, <3>1
    <2> QED BY <1>6, <1>f, <2>1 DEF PrepareRequest
  <1>7. ASSUME NEW n \in 0..MaxBatch, ModelAnswers(n) PROVE Counters'
    <2> PICK k : k = IssuedCalls
      OBVIOUS
    <2> DEFINE calls == [i \in 1..n |-> k + i]
               zeros == [i \in 1..n |-> 0]
    <2>1. /\ zeros \in Seq(Nat) /\ Len(zeros) = n /\ n \in Nat /\ k \in Nat
          /\ DOMAIN calls = 1..n /\ \A j \in 1..n : calls[j] = k + j
      <3>1. n \in Nat /\ k \in Nat
        BY <1>n
      <3>2. zeros \in [1..n -> Nat]
        OBVIOUS
      <3> QED BY <3>1, <3>2, SeqDef, LenProperties
    <2>2. /\ ends' = ends \o zeros /\ turn.iteration < MaxIterations
          /\ turn' = [turn EXCEPT !.phase = IF n = 0 THEN "final" ELSE "serve",
                                  !.calls = calls, !.index = 1]
      BY <1>0, <1>7 DEF ModelAnswers, Counters
    <2> HIDE DEF calls, zeros
    <2>3. /\ turn'.calls = calls /\ turn'.index = 1 /\ turn'.phase \in {"final", "serve"}
          /\ turn'.iteration = turn.iteration
      BY <1>0, <2>2 DEF Turn
    <2>4. Len(ends') = k + n
      BY <1>0, <2>1, <2>2, ConcatProperties DEF IssuedCalls
    <2>5. \A j \in DOMAIN calls : calls[j] \in 1..(k + n)
      BY <2>1
    <2> QED BY <2>2, <2>3, <2>4, <2>5 DEF Counters, IssuedCalls
  <1>8. CASE FinalAnswer
    <2>1. CASE MayContinue
      <3>1. /\ turn'.index = turn.index /\ turn'.calls = turn.calls /\ turn'.phase = "stop"
            /\ turn'.stops = turn.stops /\ turn'.iteration = turn.iteration
            /\ Len(ends') = Len(ends)
        BY <1>0, <1>8, <2>1 DEF FinalAnswer, Goto, Turn
      <3>2. turn.stops < StopLimit /\ turn.iteration + 1 < MaxIterations
        BY <2>1 DEF MayContinue
      <3> QED BY <1>n, <1>w, <3>1, <3>2
    <2> QED BY <1>8, <1>f, <2>1 DEF FinalAnswer
  <1>9. CASE StopHook
    <2>1. CASE turn' = [turn EXCEPT !.phase = "head", !.stops = @ + 1, !.iteration = @ + 1]
               /\ Quiet
      <3>1. /\ turn'.index = turn.index /\ turn'.calls = turn.calls /\ turn'.phase = "head"
            /\ Len(ends') = Len(ends)
        BY <1>0, <2>1 DEF Turn
      <3> QED BY <1>n, <1>w, <3>1
    <2> QED BY <1>9, <1>f, <2>1 DEF StopHook
  <1>t. ASSUME InBatch, Answer, NextCall, turn.phase \in InIteration PROVE Counters'
    <2> PICK k \in Nat : k = turn.index + 1
      BY <1>n
    <2>1. turn' = [turn EXCEPT !.phase = "serve", !.index = k, !.restarts = 0]
      BY <1>t DEF NextCall
    <2>2. /\ turn'.index = k /\ turn'.calls = turn.calls /\ turn'.phase = "serve"
          /\ turn'.iteration = turn.iteration /\ k >= 1
      BY <1>0, <1>n, <2>1 DEF Turn
    <2> QED BY <1>a, <1>s, <1>t, <2>2
  <1>10. CASE RejectEarly
    BY <1>10, <1>t DEF RejectEarly
  <1>11. CASE Denied
    BY <1>11, <1>t DEF Denied, IInv, Rows
  <1>12. CASE ToolStart \/ ToolRuns
    <2>1. /\ turn'.index = turn.index /\ turn'.calls = turn.calls
          /\ turn'.phase \in {"authorizing", "running"} /\ turn'.iteration = turn.iteration
          /\ turn.phase \in InIteration /\ Len(ends') = Len(ends)
      BY <1>0, <1>12 DEF ToolStart, ToolRuns, Goto, Turn
    <2> QED BY <1>n, <1>s, <2>1
  <1>13. CASE AuthorizationError \/ CallCancelled \/ ApprovalCancels \/ ToolFails
    BY <1>n, <1>13, <1>u DEF AuthorizationError, CallCancelled, ApprovalCancels, ToolFails
  <1>14. CASE StaleReceipt
    <2>1. CASE turn.restarts < MaxRestarts
      <3>1. /\ turn'.index = turn.index /\ turn'.calls = turn.calls
            /\ turn'.phase = "authorizing" /\ turn'.iteration = turn.iteration
            /\ turn.phase \in InIteration /\ Len(ends') = Len(ends)
        BY <1>0, <1>14, <2>1 DEF StaleReceipt, Turn
      <3> QED BY <1>n, <1>s, <3>1
    <2>2. CASE ~(turn.restarts < MaxRestarts)
      BY <1>14, <1>t, <2>2 DEF StaleReceipt, IInv, Rows
    <2> QED BY <2>1, <2>2
  <1>15. ASSUME NEW plan \in BOOLEAN, ToolCompletes(plan) PROVE Counters'
    <2> PICK k \in Nat : k = IF Hooks THEN turn.index ELSE turn.index + 1
      BY <1>n
    <2> PICK b : b = (turn.planMoved \/ plan)
      OBVIOUS
    <2> PICK p \in {"post", "serve"} : p = IF Hooks THEN "post" ELSE "serve"
      OBVIOUS
    <2>1. turn' = [turn EXCEPT !.phase = p, !.index = k, !.restarts = 0, !.planMoved = b]
      BY <1>15 DEF ToolCompletes
    <2>2. /\ turn'.index = k /\ turn'.calls = turn.calls /\ turn'.phase = p
          /\ turn'.iteration = turn.iteration /\ turn.phase \in InIteration /\ k >= 1
      BY <1>0, <1>n, <1>15, <2>1 DEF Turn, ToolCompletes
    <2>3. InBatch /\ Answer
      BY <1>15 DEF ToolCompletes, IInv, Rows
    <2> QED BY <1>a, <1>s, <2>2, <2>3
  <1>16. CASE PostHook
    <2>1. CASE /\ NextCall \/ turn' = [turn EXCEPT !.phase = "serve", !.index = @ + 1,
                                                   !.feedback = @ + 1]
               /\ Quiet
      <3>1. /\ turn'.index = turn.index + 1 /\ turn'.calls = turn.calls
            /\ turn'.phase = "serve" /\ turn'.iteration = turn.iteration
            /\ turn.phase \in InIteration /\ Len(ends') = Len(ends)
        BY <1>0, <1>16, <2>1 DEF NextCall, PostHook, Turn
      <3> QED BY <1>n, <1>s, <3>1
    <2>2. CASE Unwind(turn.index + 1, "cancelled")
      BY <1>n, <1>u, <2>2
    <2> QED BY <1>16, <2>1, <2>2 DEF PostHook
  <1>17. CASE FlushFeedback
    <2>1. /\ turn'.index = turn.index /\ turn'.calls = turn.calls
          /\ turn'.phase = "serve" /\ turn'.iteration = turn.iteration
          /\ turn.phase \in InIteration /\ Len(ends') = Len(ends)
      BY <1>0, <1>17 DEF FlushFeedback, Turn
    <2> QED BY <1>n, <1>s, <2>1
  <1>18. CASE BatchDone
    <2>1. /\ turn'.index = turn.index /\ turn'.calls = turn.calls
          /\ turn'.phase = "head" /\ Len(ends') = Len(ends)
      BY <1>0, <1>18 DEF BatchDone, Turn
    <2> QED BY <1>n, <1>w, <2>1
  <1>19. CASE PairUnpaired
    <2> PICK k \in Nat : k = turn.index + 1
      BY <1>n
    <2>1. turn' = [turn EXCEPT !.index = k]
      BY <1>19 DEF PairUnpaired
    <2>2. /\ turn'.index = k /\ turn'.calls = turn.calls /\ turn'.phase = "unwind" /\ k >= 1
      BY <1>0, <1>n, <1>19, <2>1 DEF PairUnpaired, Turn
    <2>3. Len(ends') = Len(ends)
      BY <1>a, <1>19 DEF PairUnpaired
    <2> QED BY <1>w, <2>2, <2>3
  <1>20. CASE Cancel
    BY <1>0, <1>20 DEF Cancel, Counters, IssuedCalls
  <1> QED BY <1>1, <1>2, <1>3, <1>4, <1>5, <1>6, <1>7, <1>8, <1>9, <1>10, <1>11, <1>12, <1>13,
             <1>14, <1>15, <1>16, <1>17, <1>18, <1>19, <1>20
          DEF Next, Runner, Environment

(* Every step leaves open at most the row its next phase owns.             *)
LEMMA RowsStep ==
    ASSUME IInv, Next
    PROVE  Rows'
  <1> USE DEF Silent, Quiet, Same, At
  <1>0. turn \in Turn /\ Rows /\ turn.index \in Nat
    BY CallFacts DEF IInv, TypeOK
  <1>x. ASSUME open' = {}, turn'.phase \notin {"authorizing", "running", "model", "post"}
        PROVE  Rows'
    BY <1>x DEF Rows
  <1>b. ASSUME open' = {Call}, InBatch, turn'.index = turn.index, turn'.calls = turn.calls,
               turn'.phase \in {"authorizing", "running", "unwind"}
        PROVE  Rows'
    BY <1>b DEF Rows, InBatch, Call
  <1>f. ASSUME NEW r, Finish(r), ~At("unwind"), turn.phase \notin {"authorizing", "running"},
               At("model") => r # "ok"
        PROVE  Rows'
    <2>1. turn'.phase = "idle" /\ open' = {}
      BY <1>0, <1>f DEF Finish, Turn, Rows
    <2> QED BY <1>x, <2>1
  <1>1. CASE RunTurn \/ ContinueSession
    <2>1. turn'.phase \in {"prompt", "human", "idle", "head"} /\ open' = {}
      BY <1>0, <1>1 DEF RunTurn, ContinueSession, NewTurn, Rows
    <2> QED BY <1>x, <2>1
  <1>2. CASE Crash
    <2>1. turn'.phase = "idle" /\ open' = {}
      BY <1>2 DEF Crash, NewTurn
    <2> QED BY <1>x, <2>1
  <1>3. CASE PromptHook
    <2>1. CASE Quiet /\ \E adds \in BOOLEAN :
                    turn' = [turn EXCEPT !.phase = "human", !.context = adds]
      <3>1. turn'.phase = "human" /\ open' = {}
        BY <1>0, <1>3, <2>1 DEF PromptHook, Turn, Rows
      <3> QED BY <1>x, <3>1
    <2> QED BY <1>3, <1>f, <2>1 DEF PromptHook
  <1>4. CASE PushHuman \/ PushContext \/ LoopHead
    <2>1. turn'.phase \in {"context", "head", "prepare"} /\ open' = {}
      BY <1>0, <1>4 DEF PushHuman, PushContext, LoopHead, Goto, Turn, Rows
    <2> QED BY <1>x, <2>1
  <1>5. CASE BudgetExhausted \/ ModelCancelled \/ ModelFails
    BY <1>5, <1>f DEF BudgetExhausted, ModelCancelled, ModelFails
  <1>6. CASE PrepareRequest
    <2>1. CASE Goto("model") /\ open' = open \cup {0}
      <3>1. turn'.phase = "model" /\ open' = {0}
        BY <1>0, <1>6, <2>1 DEF PrepareRequest, Goto, Turn, Rows
      <3> QED BY <3>1 DEF Rows
    <2> QED BY <1>6, <1>f, <2>1 DEF PrepareRequest
  <1>7. ASSUME NEW n \in 0..MaxBatch, ModelAnswers(n) PROVE Rows'
    <2> PICK calls : turn' = [turn EXCEPT !.phase = IF n = 0 THEN "final" ELSE "serve",
                                          !.calls = calls, !.index = 1]
      BY <1>7 DEF ModelAnswers
    <2>1. turn'.phase \in {"final", "serve"}
      BY <1>0 DEF Turn
    <2>2. open' = {}
      BY <1>0, <1>7 DEF ModelAnswers, Rows
    <2> QED BY <1>x, <2>1, <2>2
  <1>8. CASE FinalAnswer
    <2>1. CASE Goto("stop") /\ Quiet
      <3>1. turn'.phase = "stop" /\ open' = {}
        BY <1>0, <1>8, <2>1 DEF FinalAnswer, Goto, Turn, Rows
      <3> QED BY <1>x, <3>1
    <2> QED BY <1>8, <1>f, <2>1 DEF FinalAnswer
  <1>9. CASE StopHook
    <2>1. CASE turn' = [turn EXCEPT !.phase = "head", !.stops = @ + 1, !.iteration = @ + 1]
               /\ Quiet
      <3>1. turn'.phase = "head" /\ open' = {}
        BY <1>0, <1>9, <2>1 DEF StopHook, Turn, Rows
      <3> QED BY <1>x, <3>1
    <2> QED BY <1>9, <1>f, <2>1 DEF StopHook
  <1>t. ASSUME Answer, NextCall, turn.phase \in {"serve", "authorizing"} PROVE Rows'
    <2>1. open' = {}
      BY <1>0, <1>t DEF Answer, Rows
    <2>2. turn'.phase = "serve"
      <3> PICK k : k = turn.index + 1
        OBVIOUS
      <3>1. turn' = [turn EXCEPT !.phase = "serve", !.index = k, !.restarts = 0]
        BY <1>t DEF NextCall
      <3> QED BY <1>0, <3>1 DEF Turn
    <2> QED BY <1>x, <2>1, <2>2
  <1>10. CASE RejectEarly \/ Denied
    BY <1>10, <1>t DEF RejectEarly, Denied
  <1>11. CASE ToolStart \/ ToolRuns
    <2>1. /\ turn'.phase \in {"authorizing", "running"} /\ InBatch /\ open' = {Call}
          /\ turn'.index = turn.index /\ turn'.calls = turn.calls
      BY <1>0, <1>11 DEF ToolStart, ToolRuns, Goto, Turn, Rows
    <2> QED BY <1>b, <2>1
  <1>12. CASE AuthorizationError \/ CallCancelled \/ ApprovalCancels \/ ToolFails
    <2> PICK r : Unwind(turn.index, r)
      BY <1>12 DEF AuthorizationError, CallCancelled, ApprovalCancels, ToolFails
    <2>1. /\ turn'.phase = "unwind" /\ turn'.index = turn.index /\ turn'.calls = turn.calls
          /\ open' = open
      BY <1>0 DEF Unwind, Turn
    <2>2. CASE At("serve")
      BY <1>0, <1>x, <2>1, <2>2 DEF Rows
    <2>3. CASE turn.phase \in {"authorizing", "running"}
      BY <1>0, <1>b, <2>1, <2>3 DEF Rows
    <2> QED BY <1>12, <2>2, <2>3
            DEF AuthorizationError, CallCancelled, ApprovalCancels, ToolFails
  <1>13. CASE StaleReceipt
    <2>1. CASE turn.restarts < MaxRestarts
      <3>1. /\ turn'.index = turn.index /\ turn'.calls = turn.calls
            /\ turn'.phase = "authorizing" /\ InBatch /\ open' = {Call}
        BY <1>0, <1>13, <2>1 DEF StaleReceipt, Turn, Rows
      <3> QED BY <1>b, <3>1
    <2>2. CASE ~(turn.restarts < MaxRestarts)
      BY <1>13, <1>t, <2>2 DEF StaleReceipt
    <2> QED BY <2>1, <2>2
  <1>14. ASSUME NEW plan \in BOOLEAN, ToolCompletes(plan) PROVE Rows'
    <2> PICK k : k = IF Hooks THEN turn.index ELSE turn.index + 1
      OBVIOUS
    <2> PICK b : b = (turn.planMoved \/ plan)
      OBVIOUS
    <2> PICK p : p = IF Hooks THEN "post" ELSE "serve"
      OBVIOUS
    <2>1. turn' = [turn EXCEPT !.phase = p, !.index = k, !.restarts = 0, !.planMoved = b]
      BY <1>14 DEF ToolCompletes
    <2>2. turn'.index = k /\ turn'.calls = turn.calls /\ turn'.phase = p
      BY <1>0, <2>1 DEF Turn
    <2>3. open' = {} /\ InBatch
      BY <1>0, <1>14 DEF ToolCompletes, Answer, Rows
    <2>4. CASE Hooks
      BY <2>2, <2>3, <2>4 DEF Rows, InBatch
    <2>5. CASE ~Hooks
      BY <1>x, <2>2, <2>3, <2>5
    <2> QED BY <2>4, <2>5
  <1>15. CASE PostHook
    <2>1. open' = {}
      BY <1>0, <1>15 DEF PostHook, Unwind, Rows
    <2>2. turn'.phase \in {"unwind", "serve"}
      BY <1>0, <1>15 DEF PostHook, Unwind, NextCall, Turn
    <2> QED BY <1>x, <2>1, <2>2
  <1>16. CASE FlushFeedback \/ BatchDone
    <2>1. turn'.phase \in {"serve", "head"} /\ open' = {}
      BY <1>0, <1>16 DEF FlushFeedback, BatchDone, Turn, Rows
    <2> QED BY <1>x, <2>1
  <1>17. CASE PairUnpaired
    <2>1. open' = {}
      BY <1>0, <1>17 DEF PairUnpaired, Answer, Rows
    <2>2. turn'.phase = "unwind"
      BY <1>0, <1>17 DEF PairUnpaired, Turn
    <2> QED BY <1>x, <2>1, <2>2
  <1>18. CASE Unwound
    <2>1. turn'.phase = "idle" /\ open' = {}
      BY <1>0, <1>18 DEF Unwound, Finish, Turn, Rows
    <2> QED BY <1>x, <2>1
  <1>19. CASE Cancel
    BY <1>0, <1>19 DEF Cancel, Rows, InBatch, Call
  <1> QED BY <1>1, <1>2, <1>3, <1>4, <1>5, <1>6, <1>7, <1>8, <1>9, <1>10, <1>11, <1>12, <1>13,
             <1>14, <1>15, <1>16, <1>17, <1>18, <1>19
          DEF Next, Runner, Environment

(* The model is still calling tools wherever the budget may run out.       *)
LEMMA CallingStep ==
    ASSUME IInv, Next
    PROVE  Calling'
  <1>p. turn' \in Turn
    <2>1. TypeOK'
      BY TypeStep
    <2> QED BY <2>1 DEF TypeOK
  <1> USE DEF Silent, Quiet, Same, At, InToolBatch
  <1>0. /\ turn \in Turn /\ Calling /\ msgs \in Seq(Message) /\ MaxIterations \in Nat
        /\ turn.index \in Nat
    BY LoopAssumption, CallFacts DEF LoopAssumption, IInv, TypeOK
  <1>x. ASSUME turn'.phase \notin {"serve", "authorizing", "running", "post"},
               turn'.phase = "head" => turn'.iteration < MaxIterations \/ MaxIterations = 0,
               turn'.phase \in {"prompt", "human", "context"} => turn'.iteration = 0,
               turn'.result # "max_iterations"
        PROVE  Calling'
    <2>1. turn'.phase = "head" => ~(turn'.iteration >= MaxIterations /\ MaxIterations > 0)
      <3>1. turn'.iteration \in Nat
        BY <1>p DEF Turn
      <3> QED BY <1>0, <1>x, <3>1
    <2> QED BY <1>x, <2>1 DEF Calling
  <1>k. ASSUME CallingLast(msgs)', turn'.phase \in InToolBatch \cup {"head"}, turn'.result # "max_iterations" PROVE Calling'
    BY <1>k DEF Calling
  <1>r. turn.result = "max_iterations" => At("idle")
    BY <1>0 DEF Calling
  <1>m. /\ Human \in Message /\ User \in Message
        /\ InBatch => Result(Call) \in Message /\ Result(Call).kind # "assistant"
    BY MessageTypes, CallFacts DEF Result
  <1>a. ASSUME NEW m \in Message, m.kind # "assistant", msgs' = Append(msgs, m), CallingLast(msgs)
        PROVE  CallingLast(msgs)'
    <2>1. CallingLast(Append(msgs, m))
      BY <1>0, <1>a, CallingAppend
    <2> QED BY <1>a, <2>1 DEF CallingLast
  <1>s. ASSUME msgs' = msgs, CallingLast(msgs) PROVE CallingLast(msgs)'
    BY <1>s DEF CallingLast
  <1>1. CASE RunTurn \/ ContinueSession \/ Crash
    <2>1. /\ turn'.phase \in {"prompt", "human", "idle", "head"}
          /\ turn'.iteration = 0 /\ turn'.result \in {"none", "empty"}
      BY <1>1 DEF RunTurn, ContinueSession, Crash, NewTurn
    <2> QED BY <1>0, <1>x, <2>1
  <1>f. ASSUME NEW r, Finish(r), r # "max_iterations" PROVE Calling'
    <2>1. turn'.phase = "idle" /\ turn'.result = r
      BY <1>0, <1>f DEF Finish, Turn
    <2> QED BY <1>x, <1>f, <2>1
  <1>2. CASE PromptHook
    <2>1. CASE \E adds \in BOOLEAN :
                    turn' = [turn EXCEPT !.phase = "human", !.context = adds]
      <3>1. turn'.phase = "human" /\ turn'.result = turn.result
              /\ turn'.iteration = turn.iteration
        BY <1>0, <2>1 DEF Turn
      <3> QED BY <1>0, <1>2, <1>r, <1>x, <3>1 DEF PromptHook, Calling
    <2> QED BY <1>2, <1>f, <2>1 DEF PromptHook
  <1>3. CASE PushHuman \/ PushContext \/ LoopHead
    <2>1. /\ turn'.phase \in {"context", "head", "prepare"} /\ turn'.result = turn.result
          /\ turn'.iteration = turn.iteration
      BY <1>0, <1>3 DEF PushHuman, PushContext, LoopHead, Goto, Turn
    <2>2. turn'.phase \in {"context", "head"} => turn.iteration = 0
      BY <1>0, <1>3, <2>1 DEF PushHuman, PushContext, LoopHead, Calling, Turn
    <2> QED BY <1>0, <1>3, <1>r, <1>x, <2>1, <2>2 DEF PushHuman, PushContext, LoopHead
  <1>4. CASE BudgetExhausted
    <2>1. /\ turn'.phase = "idle" /\ turn'.result = "max_iterations" /\ msgs' = msgs
          /\ MaxIterations > 0 => CallingLast(msgs)
      BY <1>0, <1>4 DEF BudgetExhausted, Finish, Turn, Calling
    <2> QED BY <1>s, <2>1 DEF Calling
  <1>5. CASE PrepareRequest
    <2>1. CASE Goto("model")
      <3>1. turn'.phase = "model" /\ turn'.result = turn.result
        BY <1>0, <2>1 DEF Goto, Turn
      <3> QED BY <1>5, <1>r, <1>x, <3>1 DEF PrepareRequest
    <2> QED BY <1>5, <1>f, <2>1 DEF PrepareRequest
  <1>6. CASE ModelCancelled \/ ModelFails
    BY <1>6, <1>f DEF ModelCancelled, ModelFails
  <1>7. ASSUME NEW n \in 0..MaxBatch, ModelAnswers(n) PROVE Calling'
    <2> PICK k : k = IssuedCalls
      OBVIOUS
    <2> DEFINE calls == [i \in 1..n |-> k + i]
    <2>1. calls \in Seq(Nat) /\ (n # 0 => calls # <<>>) /\ n \in Nat
      <3>1. n \in Nat /\ k \in Nat
        BY CallFacts
      <3>2. calls \in [1..n -> Nat]
        BY <3>1
      <3>3. calls \in Seq(Nat) /\ Len(calls) = n
        BY <3>1, <3>2, SeqDef, LenProperties
      <3> HIDE DEF calls
      <3> QED BY <3>1, <3>3, EmptySeq
    <2>2. /\ msgs' = Append(msgs, Assistant(calls)) /\ turn.phase = "model"
          /\ turn' = [turn EXCEPT !.phase = IF n = 0 THEN "final" ELSE "serve",
                                  !.calls = calls, !.index = 1]
      BY <1>7 DEF ModelAnswers, Record
    <2> HIDE DEF calls
    <2>3. /\ turn'.phase = IF n = 0 THEN "final" ELSE "serve"
          /\ turn'.result = turn.result
      BY <1>0, <2>2 DEF Turn
    <2>4. CASE n = 0
      BY <1>r, <1>x, <2>2, <2>3, <2>4
    <2>5. CASE n # 0
      <3>1. /\ Assistant(calls) \in Message /\ Assistant(calls).kind = "assistant"
            /\ Assistant(calls).calls # <<>>
        BY <2>1, <2>5, MessageTypes DEF Assistant
      <3>2. CallingLast(Append(msgs, Assistant(calls)))
        BY <1>0, <3>1, CallingAppend
      <3>3. CallingLast(msgs)'
        BY <2>2, <3>2 DEF CallingLast
      <3> QED BY <1>k, <1>r, <2>2, <2>3, <2>5, <3>3
    <2> QED BY <2>4, <2>5
  <1>8. CASE FinalAnswer
    <2>1. CASE Goto("stop")
      <3>1. turn'.phase = "stop" /\ turn'.result = turn.result
        BY <1>0, <2>1 DEF Goto, Turn
      <3> QED BY <1>8, <1>r, <1>x, <3>1 DEF FinalAnswer
    <2> QED BY <1>8, <1>f, <2>1 DEF FinalAnswer
  <1>9. CASE StopHook
    <2>1. CASE turn' = [turn EXCEPT !.phase = "head", !.stops = @ + 1, !.iteration = @ + 1]
      <3>1. /\ turn'.phase = "head" /\ turn'.result = turn.result
            /\ turn'.iteration = turn.iteration + 1
        BY <1>0, <2>1 DEF Turn
      <3>2. turn.iteration + 1 < MaxIterations
        BY <1>9 DEF StopHook, IInv, Counters
      <3> QED BY <1>9, <1>r, <1>x, <3>1, <3>2 DEF StopHook
    <2> QED BY <1>9, <1>f, <2>1 DEF StopHook
  <1>t. ASSUME InBatch, Answer, turn.phase \in InToolBatch, turn'.phase \in InToolBatch,
               turn'.result = turn.result
        PROVE  Calling'
    <2>1. msgs' = Append(msgs, Result(Call)) /\ CallingLast(msgs)
      BY <1>0, <1>t DEF Answer, Record, Calling
    <2>2. CallingLast(msgs)'
      BY <1>a, <1>m, <1>t, <2>1
    <2> QED BY <1>k, <1>r, <1>t, <2>2
  <1>n. NextCall => turn'.phase = "serve" /\ turn'.result = turn.result
    <2> PICK k : k = turn.index + 1
      OBVIOUS
    <2>1. NextCall => turn' = [turn EXCEPT !.phase = "serve", !.index = k, !.restarts = 0]
      BY DEF NextCall
    <2> QED BY <1>0, <2>1 DEF Turn
  <1>10. CASE RejectEarly
    BY <1>10, <1>n, <1>t DEF RejectEarly
  <1>11. CASE Denied
    BY <1>11, <1>n, <1>t DEF Denied, IInv, Rows
  <1>o. ASSUME msgs' = msgs, turn.phase \in InToolBatch,
               turn'.phase \in InToolBatch \cup {"head"}, turn'.result = turn.result
        PROVE  Calling'
    <2>1. CallingLast(msgs)'
      BY <1>0, <1>o, <1>s DEF Calling
    <2> QED BY <1>k, <1>o, <1>r, <2>1
  <1>12. CASE ToolStart \/ ToolRuns
    <2>1. /\ turn'.phase \in InToolBatch /\ turn'.result = turn.result
          /\ turn.phase \in InToolBatch /\ msgs' = msgs
      BY <1>0, <1>12 DEF ToolStart, ToolRuns, Goto, Turn
    <2> QED BY <1>o, <2>1
  <1>u. ASSUME NEW k, NEW r \in {"cancelled", "failed"}, Unwind(k, r) PROVE Calling'
    <2>1. turn'.phase = "unwind" /\ turn'.result = r
      BY <1>0, <1>u DEF Unwind, Turn
    <2> QED BY <1>u, <1>x, <2>1
  <1>13. CASE AuthorizationError \/ CallCancelled \/ ApprovalCancels \/ ToolFails
    BY <1>13, <1>u DEF AuthorizationError, CallCancelled, ApprovalCancels, ToolFails
  <1>14. CASE StaleReceipt
    <2>1. CASE turn.restarts < MaxRestarts
      <3>1. /\ turn'.phase = "authorizing" /\ turn'.result = turn.result
            /\ turn.phase = "authorizing" /\ msgs' = msgs
        BY <1>0, <1>14, <2>1 DEF StaleReceipt, Turn
      <3> QED BY <1>o, <3>1
    <2>2. CASE ~(turn.restarts < MaxRestarts)
      BY <1>14, <1>n, <1>t, <2>2 DEF StaleReceipt, IInv, Rows
    <2> QED BY <2>1, <2>2
  <1>15. ASSUME NEW plan \in BOOLEAN, ToolCompletes(plan) PROVE Calling'
    <2> PICK k : k = IF Hooks THEN turn.index ELSE turn.index + 1
      OBVIOUS
    <2> PICK b : b = (turn.planMoved \/ plan)
      OBVIOUS
    <2> PICK p \in {"post", "serve"} : p = IF Hooks THEN "post" ELSE "serve"
      OBVIOUS
    <2>1. turn' = [turn EXCEPT !.phase = p, !.index = k, !.restarts = 0, !.planMoved = b]
      BY <1>15 DEF ToolCompletes
    <2>2. turn'.phase \in {"post", "serve"} /\ turn'.result = turn.result
      BY <1>0, <2>1 DEF Turn
    <2>3. InBatch /\ Answer /\ turn.phase = "running"
      BY <1>15 DEF ToolCompletes, IInv, Rows
    <2> QED BY <1>t, <2>2, <2>3
  <1>16. CASE PostHook
    <2>1. CASE turn' = [turn EXCEPT !.phase = "serve", !.index = @ + 1, !.feedback = @ + 1]
               /\ Silent
      <3>1. turn'.phase = "serve" /\ turn'.result = turn.result
        BY <1>0, <2>1 DEF Turn
      <3> QED BY <1>16, <1>o, <2>1, <3>1 DEF PostHook
    <2>2. CASE NextCall /\ Silent
      BY <1>16, <1>n, <1>o, <2>2 DEF PostHook
    <2>3. CASE Unwind(turn.index + 1, "cancelled")
      BY <1>u, <2>3
    <2> QED BY <1>16, <2>1, <2>2, <2>3 DEF PostHook
  <1>17. CASE FlushFeedback
    <2>1. turn'.phase = "serve" /\ turn'.result = turn.result /\ turn.phase = "serve"
      BY <1>0, <1>17 DEF FlushFeedback, Turn
    <2>2. msgs' = Append(msgs, User) /\ CallingLast(msgs) /\ User.kind # "assistant"
      BY <1>0, <1>17 DEF FlushFeedback, Record, Calling, User
    <2>3. CallingLast(msgs)'
      BY <1>a, <1>m, <2>2
    <2> QED BY <1>k, <1>r, <2>1, <2>3
  <1>18. CASE BatchDone
    <2>1. /\ turn'.phase = "head" /\ turn'.result = turn.result
          /\ turn.phase = "serve" /\ msgs' = msgs
      BY <1>0, <1>18 DEF BatchDone, Turn
    <2> QED BY <1>o, <2>1
  <1>19. CASE PairUnpaired
    <2> PICK k : k = turn.index + 1
      OBVIOUS
    <2>1. turn' = [turn EXCEPT !.index = k] /\ turn.phase = "unwind"
      BY <1>19 DEF PairUnpaired
    <2>2. turn'.phase = "unwind" /\ turn'.result = turn.result
      BY <1>0, <2>1 DEF Turn
    <2> QED BY <1>r, <1>x, <2>1, <2>2
  <1>20. CASE Unwound
    BY <1>20, <1>f, <1>r DEF Unwound
  <1>21. CASE Cancel
    BY <1>0, <1>21 DEF Cancel, Calling, CallingLast
  <1> QED BY <1>1, <1>2, <1>3, <1>4, <1>5, <1>6, <1>7, <1>8, <1>9, <1>10, <1>11, <1>12, <1>13,
             <1>14, <1>15, <1>16, <1>17, <1>18, <1>19, <1>20, <1>21
          DEF Next, Runner, Environment

-----------------------------------------------------------------------------
(* The theorems.                                                           *)

(* A new session has no row open and no call to serve.                     *)
LEMMA InitInvariant == Init => IInv
  <1> SUFFICES ASSUME Init PROVE IInv
    OBVIOUS
  <1> USE LoopAssumption DEF Init, At
  <1>1. /\ <<>> \in Seq(Message) /\ <<>> \in Seq(Nat) /\ Len(<<>>) = 0
    BY EmptySeq
  <1>2. NewTurn \in Turn
    BY NewTurns
  <1>3. TypeOK
    <2>1. /\ msgs \in Seq(Message) /\ durable \in 0..Len(msgs) /\ ends \in Seq(Nat)
          /\ turn \in Turn
      BY <1>1, <1>2
    <2>2. turns \in 0..MaxTurns /\ crashes \in 0..MaxCrashes
      OBVIOUS
    <2> QED BY <2>1, <2>2 DEF TypeOK
  <1>4. Counters /\ Rows /\ Calling
    BY DEF Counters, Rows, Calling, NewTurn, InIteration, InToolBatch
  <1> QED BY <1>3, <1>4 DEF IInv

(* The invariant is inductive.                                             *)
LEMMA StepInvariant == IInv /\ [Next]_vars => IInv'
  <1> SUFFICES ASSUME IInv, [Next]_vars PROVE IInv'
    OBVIOUS
  <1>1. CASE Next
    BY <1>1, TypeStep, CountersStep, RowsStep, CallingStep DEF IInv
  <1>2. CASE UNCHANGED vars
    BY <1>2 DEF vars, IInv, TypeOK, IssuedCalls, Counters, Rows, Calling, CallingLast,
                At, InBatch, Call
  <1> QED BY <1>1, <1>2

(* The invariant holds in every reachable state.                           *)
LEMMA Invariant == Spec => []IInv
  BY InitInvariant, StepInvariant, PTL DEF Spec

(* The turn, its counters, the observer rows and the journal frontier stay *)
(* in their types: no authorization restart, Stop continuation or model    *)
(* call exceeds its limit, whatever the limits are.                        *)
THEOREM TypesHold == Spec => []TypeOK
  <1>1. IInv => TypeOK
    BY DEF IInv
  <1> QED BY <1>1, Invariant, PTL

(* No observer row outlives its turn, at most one is open, and no turn     *)
(* ends thinking - on every path out of every batch (record_result and     *)
(* terminal_error).                                                        *)
THEOREM RowsAlwaysClosed == Spec => []RowsClosed
  <1>1. ASSUME IInv PROVE RowsClosed
    <2>1. open = {} \/ \E x : open = {x}
      BY <1>1 DEF IInv, Rows, At
    <2>2. \A x : IsFiniteSet({x}) /\ Cardinality({x}) = 1
      BY FS_Singleton
    <2>3. Cardinality({}) = 0
      BY FS_EmptySet
    <2>4. Cardinality(open) <= 1
      <3>1. Cardinality(open) = 0 \/ Cardinality(open) = 1
        BY <2>1, <2>2, <2>3
      <3> QED BY <3>1
    <2>5. At("idle") => open = {}
      BY <1>1 DEF IInv, Rows, At
    <2> QED BY <2>4, <2>5 DEF RowsClosed
  <1> QED BY <1>1, Invariant, PTL

(* Whatever the budget and the continuation limit, a turn that ends in     *)
(* MaxIterations ends while the model is calling tools: run_loop never     *)
(* turns a final answer into that error.                                   *)
THEOREM AnswersAlwaysKept == Spec => []FinalAnswerKept
  <1>1. ASSUME IInv PROVE FinalAnswerKept
    <2>1. turn.result = "max_iterations" /\ MaxIterations > 0 => CallingLast(msgs)
      BY <1>1 DEF IInv, Calling
    <2> QED BY <2>1 DEF FinalAnswerKept, CallingLast
  <1> QED BY <1>1, Invariant, PTL

(* TurnsEndWell: on every path out of a turn its rows are closed and the   *)
(* answer the model gave is kept (terminal_error, run_loop).               *)
THEOREM TurnsAlwaysEndWell == Spec => []TurnsEndWell
  <1>1. RowsClosed /\ FinalAnswerKept => TurnsEndWell
    BY DEF TurnsEndWell
  <1> QED BY <1>1, RowsAlwaysClosed, AnswersAlwaysKept, PTL

-----------------------------------------------------------------------------
(***************************************************************************)
(* The pairing of tool calls and results: what a request sends, what a     *)
(* subagent forks from and how often a call is answered.  Every step of the*)
(* turn loop is one of six kinds, told apart by what it does to the        *)
(* transcript and to the batch being served; each keeps the invariant.     *)
(***************************************************************************)

-----------------------------------------------------------------------------
(* The inductive invariant.                                                *)

Serves == {"serve", "authorizing", "running", "post", "unwind"}
Serving == turn.phase \in Serves

(* The first call of the batch whose result is still to be written.        *)
Pending == IF At("post") THEN turn.index + 1 ELSE turn.index

LastRequest(s, p) ==
    /\ p \in DOMAIN s /\ s[p].kind = "assistant"
    /\ \A q \in DOMAIN s : s[q].kind = "assistant" => q <= p

(* No id is issued twice.                                                  *)
Issued ==
    /\ \A p \in DOMAIN msgs : msgs[p].kind = "assistant" =>
          \A j \in DOMAIN msgs[p].calls : msgs[p].calls[j] \in 1..IssuedCalls
    /\ \A p, q \in DOMAIN msgs :
          msgs[p].kind = "assistant" /\ msgs[q].kind = "assistant" =>
          \A i \in DOMAIN msgs[p].calls, j \in DOMAIN msgs[q].calls :
              msgs[p].calls[i] = msgs[q].calls[j] => p = q /\ i = j

Placed(s) ==
    \A r \in DOMAIN s : s[r].kind = "result" =>
        \E p \in 1..(r - 1) : /\ s[p].kind = "assistant"
                              /\ r - p \in DOMAIN s[p].calls
                              /\ s[p].calls[r - p] = s[r].id

(* The batch at message p: results up to Pending, and nothing else.        *)
Progress(p) ==
    /\ LastRequest(msgs, p)
    /\ msgs[p].calls = turn.calls
    /\ \A j \in DOMAIN turn.calls : j < Pending =>
          p + j <= Len(msgs) /\ msgs[p + j] = Result(turn.calls[j])
    /\ Pending <= Len(turn.calls) => Len(msgs) = p + Pending - 1

Batch == Serving => \E p \in DOMAIN msgs : Progress(p)

(* Batches cut short before the last request: one per crash.               *)
OldGaps(s) == {p \in Gaps(s) : ~LastRequest(s, p)}

Short ==
    /\ Cardinality(OldGaps(msgs)) <= crashes
    /\ ~Serving => Cardinality(Gaps(msgs)) <= crashes

(* Without a crash the ToolEnds count the results.                         *)
Counted ==
    crashes = 0 =>
        \A id \in 1..IssuedCalls :
            /\ ends[id] = IF ResultsOf(id) = {} THEN 0 ELSE 1
            /\ \/ ends[id] = 1
               \/ Serving /\ \E j \in DOMAIN turn.calls : j >= Pending /\ turn.calls[j] = id

PairInv == Issued /\ Placed(msgs) /\ Batch /\ Short /\ Counted

-----------------------------------------------------------------------------
(* Transcripts that grow by a message, and prefixes of transcripts.        *)

(* What appending a message leaves in place.                               *)
LEMMA Appended ==
    ASSUME NEW s \in Seq(Message), NEW m \in Message
    PROVE  /\ Append(s, m) \in Seq(Message) /\ Len(s) \in Nat /\ DOMAIN s = 1..Len(s)
           /\ Len(Append(s, m)) = Len(s) + 1 /\ DOMAIN Append(s, m) = 1..(Len(s) + 1)
           /\ Append(s, m)[Len(s) + 1] = m
           /\ \A i \in 1..Len(s) : Append(s, m)[i] = s[i]
  BY AppendProperties, LenProperties

(* What a prefix is.                                                       *)
LEMMA Prefixed ==
    ASSUME NEW s \in Seq(Message), NEW d \in 0..Len(s)
    PROVE  /\ SubSeq(s, 1, d) \in Seq(Message) /\ Len(s) \in Nat /\ DOMAIN s = 1..Len(s)
           /\ Len(SubSeq(s, 1, d)) = d /\ DOMAIN SubSeq(s, 1, d) = 1..d
           /\ \A i \in 1..d : SubSeq(s, 1, d)[i] = s[i]
  <1>1. Len(s) \in Nat /\ DOMAIN s = 1..Len(s)
    BY LenProperties
  <1>2. SubSeq(s, 1, d) \in Seq(Message) /\ Len(SubSeq(s, 1, d)) = d
        /\ \A i \in 1..d : SubSeq(s, 1, d)[i] = s[i]
    BY <1>1, SubSeqProperties
  <1> QED BY <1>1, <1>2, LenProperties

(* The messages of a transcript have typed calls.                          *)
LEMMA MessageFacts ==
    ASSUME NEW s \in Seq(Message), NEW p \in DOMAIN s
    PROVE  /\ s[p] \in Message /\ p \in 1..Len(s) /\ Len(s) \in Nat
           /\ s[p].calls \in Seq(Nat) /\ Len(s[p].calls) \in Nat
           /\ DOMAIN s[p].calls = 1..Len(s[p].calls)
  <1>1. s[p] \in Message /\ Len(s) \in Nat /\ DOMAIN s = 1..Len(s)
    BY LenProperties, ElementOfSeq
  <1>2. s[p].calls \in Seq(Nat)
    BY <1>1 DEF Message
  <1> QED BY <1>1, <1>2, LenProperties

(* There are finitely many gaps.                                           *)
LEMMA GapsFinite ==
    ASSUME NEW s \in Seq(Message)
    PROVE  IsFiniteSet(Gaps(s)) /\ IsFiniteSet(OldGaps(s)) /\ OldGaps(s) \subseteq Gaps(s)
  <1>1. Len(s) \in Nat /\ DOMAIN s = 1..Len(s)
    BY LenProperties
  <1>2. IsFiniteSet(1..Len(s))
    BY <1>1, FS_Interval
  <1>3. Gaps(s) \subseteq 1..Len(s) /\ OldGaps(s) \subseteq Gaps(s)
    BY <1>1 DEF Gaps, OldGaps
  <1>4. IsFiniteSet(Gaps(s))
    BY <1>2, <1>3, FS_Subset
  <1> QED BY <1>3, <1>4, FS_Subset

(* A set of gaps within another has no more of them.                       *)
LEMMA FewerGaps ==
    ASSUME NEW S, NEW T, IsFiniteSet(S), T \subseteq S, NEW k \in Nat, Cardinality(S) <= k
    PROVE  Cardinality(T) <= k
  <1>1. /\ IsFiniteSet(T) /\ Cardinality(T) <= Cardinality(S)
        /\ Cardinality(S) \in Nat /\ Cardinality(T) \in Nat
    BY FS_Subset, FS_CardinalityType
  <1> QED BY <1>1

(* A message that is no request opens no gap and stays behind the last one. *)
LEMMA GapsAppend ==
    ASSUME NEW s \in Seq(Message), NEW m \in Message, m.kind # "assistant"
    PROVE  /\ Gaps(Append(s, m)) \subseteq Gaps(s)
           /\ OldGaps(Append(s, m)) \subseteq OldGaps(s)
           /\ \A p : LastRequest(s, p) <=> LastRequest(Append(s, m), p)
  <1> DEFINE t == Append(s, m)
  <1>1. /\ Len(s) \in Nat /\ DOMAIN s = 1..Len(s) /\ t \in Seq(Message)
        /\ Len(t) = Len(s) + 1 /\ DOMAIN t = 1..(Len(s) + 1) /\ t[Len(s) + 1] = m
        /\ \A i \in 1..Len(s) : t[i] = s[i]
    BY Appended
  <1> HIDE DEF t
  <1>2. ASSUME NEW p \in Gaps(t) PROVE p \in Gaps(s)
    <2>1. p \in DOMAIN t /\ t[p].kind = "assistant" /\ ~Answered(t, p)
      BY DEF Gaps
    <2>2. p \in 1..Len(s) /\ t[p] = s[p]
      BY <1>1, <2>1
    <2>3. Len(s[p].calls) \in Nat /\ DOMAIN s[p].calls = 1..Len(s[p].calls)
      BY <1>1, <2>2, MessageFacts
    <2>4. ASSUME Answered(s, p) PROVE Answered(t, p)
      <3>1. ASSUME NEW j \in DOMAIN s[p].calls
            PROVE  p + j <= Len(t) /\ t[p + j] = Result(s[p].calls[j])
        <4>1. p + j <= Len(s) /\ s[p + j] = Result(s[p].calls[j])
          BY <2>4 DEF Answered
        <4>2. p + j \in 1..Len(s)
          BY <1>1, <2>2, <2>3, <4>1
        <4> QED BY <1>1, <4>1, <4>2
      <3> QED BY <2>2, <3>1 DEF Answered
    <2> QED BY <1>1, <2>1, <2>2, <2>4 DEF Gaps
  <1>3. ASSUME NEW p PROVE LastRequest(s, p) <=> LastRequest(t, p)
    BY <1>1 DEF LastRequest
  <1>4. OldGaps(t) \subseteq OldGaps(s)
    BY <1>2, <1>3 DEF OldGaps
  <1> QED BY <1>2, <1>3, <1>4 DEF t

(* A new request becomes the last one; the gaps before it stay gaps.       *)
LEMMA GapsRequest ==
    ASSUME NEW s \in Seq(Message), NEW m \in Message, m.kind = "assistant"
    PROVE  /\ OldGaps(Append(s, m)) \subseteq Gaps(s)
           /\ DOMAIN m.calls = {} => Gaps(Append(s, m)) \subseteq Gaps(s)
           /\ LastRequest(Append(s, m), Len(s) + 1)
  <1> DEFINE t == Append(s, m)
  <1>1. /\ Len(s) \in Nat /\ DOMAIN s = 1..Len(s) /\ t \in Seq(Message)
        /\ Len(t) = Len(s) + 1 /\ DOMAIN t = 1..(Len(s) + 1) /\ t[Len(s) + 1] = m
        /\ \A i \in 1..Len(s) : t[i] = s[i]
    BY Appended
  <1> HIDE DEF t
  <1>2. LastRequest(t, Len(s) + 1)
    BY <1>1 DEF LastRequest
  <1>3. ASSUME NEW p \in Gaps(t), p # Len(s) + 1 PROVE p \in Gaps(s)
    <2>1. p \in DOMAIN t /\ t[p].kind = "assistant" /\ ~Answered(t, p)
      BY DEF Gaps
    <2>2. p \in 1..Len(s) /\ t[p] = s[p]
      BY <1>1, <1>3, <2>1
    <2>3. Len(s[p].calls) \in Nat /\ DOMAIN s[p].calls = 1..Len(s[p].calls)
      BY <1>1, <2>2, MessageFacts
    <2>4. ASSUME Answered(s, p) PROVE Answered(t, p)
      <3>1. ASSUME NEW j \in DOMAIN s[p].calls
            PROVE  p + j <= Len(t) /\ t[p + j] = Result(s[p].calls[j])
        <4>1. p + j <= Len(s) /\ s[p + j] = Result(s[p].calls[j])
          BY <2>4 DEF Answered
        <4>2. p + j \in 1..Len(s)
          BY <1>1, <2>2, <2>3, <4>1
        <4> QED BY <1>1, <4>1, <4>2
      <3> QED BY <2>2, <3>1 DEF Answered
    <2> QED BY <1>1, <2>1, <2>2, <2>4 DEF Gaps
  <1>4. OldGaps(t) \subseteq Gaps(s)
    BY <1>2, <1>3 DEF OldGaps
  <1>5. DOMAIN m.calls = {} => Gaps(t) \subseteq Gaps(s)
    <2>1. DOMAIN m.calls = {} => Answered(t, Len(s) + 1)
      BY <1>1 DEF Answered
    <2> QED BY <1>3, <2>1 DEF Gaps
  <1> QED BY <1>2, <1>4, <1>5 DEF t

(* A prefix cuts short no batch but the one its end lies in.               *)
LEMMA GapsPrefix ==
    ASSUME NEW s \in Seq(Message), NEW d \in 0..Len(s), NEW p \in Gaps(SubSeq(s, 1, d)),
           NEW q \in DOMAIN s, s[q].kind = "assistant", p < q, q <= d + 1
    PROVE  p \in Gaps(s) /\ ~LastRequest(s, p)
  <1> DEFINE t == SubSeq(s, 1, d)
  <1>1. /\ Len(s) \in Nat /\ DOMAIN s = 1..Len(s) /\ t \in Seq(Message)
        /\ Len(t) = d /\ DOMAIN t = 1..d /\ \A i \in 1..d : t[i] = s[i]
    BY Prefixed
  <1> HIDE DEF t
  <1>2. p \in 1..d /\ t[p] = s[p] /\ s[p].kind = "assistant" /\ ~Answered(t, p)
    BY <1>1 DEF Gaps, t
  <1>3. Len(s[p].calls) \in Nat /\ DOMAIN s[p].calls = 1..Len(s[p].calls)
    BY <1>1, <1>2, MessageFacts
  <1>4. ASSUME Answered(s, p) PROVE FALSE
    <2>1. \A j \in DOMAIN s[p].calls : p + j <= Len(s) /\ s[p + j] = Result(s[p].calls[j])
      BY <1>4 DEF Answered
    <2>2. ASSUME NEW j \in DOMAIN s[p].calls PROVE p + j <= d
      <3>1. SUFFICES ASSUME p + j > d PROVE FALSE
        BY <1>1, <1>2, <1>3
      <3>2. PICK k \in DOMAIN s[p].calls : q = p + k
        <4>1. q - p \in DOMAIN s[p].calls /\ q = p + (q - p)
          BY <1>1, <1>2, <1>3, <3>1
        <4> QED BY <4>1
      <3>3. s[q] = Result(s[p].calls[k])
        BY <2>1, <3>2
      <3> QED BY <3>3 DEF Result
    <2>3. ASSUME NEW j \in DOMAIN s[p].calls PROVE t[p + j] = s[p + j]
      <3>1. p + j \in 1..d
        BY <1>1, <1>2, <1>3, <2>2
      <3> QED BY <1>1, <3>1
    <2>4. Answered(t, p)
      BY <1>1, <1>2, <2>1, <2>2, <2>3 DEF Answered
    <2> QED BY <1>2, <2>4
  <1>5. ~LastRequest(s, p)
    BY <1>1, <1>2 DEF LastRequest
  <1> QED BY <1>1, <1>2, <1>4, <1>5 DEF Gaps

(* Results stay with their requests when the transcript grows or is cut.   *)
LEMMA PlacedAppend ==
    ASSUME NEW s \in Seq(Message), Placed(s), NEW m \in Message,
           m.kind = "result" =>
               \E p \in 1..Len(s) : /\ s[p].kind = "assistant"
                                    /\ Len(s) + 1 - p \in DOMAIN s[p].calls
                                    /\ s[p].calls[Len(s) + 1 - p] = m.id
    PROVE  Placed(Append(s, m))
  <1> DEFINE t == Append(s, m)
  <1>1. /\ Len(s) \in Nat /\ DOMAIN s = 1..Len(s)
        /\ DOMAIN t = 1..(Len(s) + 1) /\ t[Len(s) + 1] = m
        /\ \A i \in 1..Len(s) : t[i] = s[i]
    BY Appended
  <1> HIDE DEF t
  <1>2. ASSUME NEW r \in DOMAIN t, t[r].kind = "result"
        PROVE  \E p \in 1..(r - 1) : /\ t[p].kind = "assistant"
                                     /\ r - p \in DOMAIN t[p].calls
                                     /\ t[p].calls[r - p] = t[r].id
    <2>1. CASE r = Len(s) + 1
      <3>1. PICK p \in 1..Len(s) : /\ s[p].kind = "assistant"
                                   /\ r - p \in DOMAIN s[p].calls
                                   /\ s[p].calls[r - p] = m.id
        BY <1>1, <1>2, <2>1
      <3>2. p \in 1..(r - 1) /\ t[p] = s[p]
        BY <1>1, <2>1
      <3> QED BY <1>1, <2>1, <3>1, <3>2
    <2>2. CASE r # Len(s) + 1
      <3>1. r \in DOMAIN s /\ t[r] = s[r]
        BY <1>1, <2>2
      <3>2. PICK p \in 1..(r - 1) : /\ s[p].kind = "assistant"
                                    /\ r - p \in DOMAIN s[p].calls
                                    /\ s[p].calls[r - p] = s[r].id
        BY <1>2, <3>1 DEF Placed
      <3>3. p \in 1..Len(s) /\ t[p] = s[p]
        BY <1>1, <3>1, <3>2
      <3> QED BY <3>1, <3>2, <3>3
    <2> QED BY <2>1, <2>2
  <1> QED BY <1>2 DEF Placed, t

(* A prefix keeps every request whose results it keeps.                    *)
LEMMA PlacedPrefix ==
    ASSUME NEW s \in Seq(Message), Placed(s), NEW d \in 0..Len(s)
    PROVE  Placed(SubSeq(s, 1, d))
  <1> DEFINE t == SubSeq(s, 1, d)
  <1>1. /\ Len(s) \in Nat /\ DOMAIN s = 1..Len(s)
        /\ DOMAIN t = 1..d /\ \A i \in 1..d : t[i] = s[i]
    BY Prefixed
  <1> HIDE DEF t
  <1>2. ASSUME NEW r \in DOMAIN t, t[r].kind = "result"
        PROVE  \E p \in 1..(r - 1) : /\ t[p].kind = "assistant"
                                     /\ r - p \in DOMAIN t[p].calls
                                     /\ t[p].calls[r - p] = t[r].id
    <2>1. r \in DOMAIN s /\ t[r] = s[r]
      BY <1>1
    <2>2. PICK p \in 1..(r - 1) : /\ s[p].kind = "assistant"
                                  /\ r - p \in DOMAIN s[p].calls
                                  /\ s[p].calls[r - p] = s[r].id
      BY <1>2, <2>1 DEF Placed
    <2>3. t[p] = s[p]
      BY <1>1, <2>2
    <2> QED BY <2>1, <2>2, <2>3
  <1> QED BY <1>2 DEF Placed, t

-----------------------------------------------------------------------------
(* What one more message does to each part of the invariant.               *)

(* A message that is no request issues nothing.                            *)
LEMMA IssuedKept ==
    ASSUME TypeOK, Issued, NEW m \in Message, m.kind # "assistant",
           msgs' = Append(msgs, m), IssuedCalls' = IssuedCalls
    PROVE  Issued'
  <1>1. /\ Len(msgs) \in Nat /\ DOMAIN msgs = 1..Len(msgs)
        /\ DOMAIN msgs' = 1..(Len(msgs) + 1) /\ msgs'[Len(msgs) + 1] = m
        /\ \A i \in 1..Len(msgs) : msgs'[i] = msgs[i]
    BY Appended DEF TypeOK
  <1>2. \A p \in DOMAIN msgs' :
            msgs'[p].kind = "assistant" => p \in DOMAIN msgs /\ msgs'[p] = msgs[p]
    BY <1>1
  <1> QED BY <1>2 DEF Issued

(* A message that is no request leaves no batch shorter.                   *)
LEMMA ShortKept ==
    ASSUME TypeOK, Short, NEW m \in Message, m.kind # "assistant",
           msgs' = Append(msgs, m), crashes' = crashes
    PROVE  /\ Cardinality(OldGaps(msgs')) <= crashes'
           /\ Cardinality(Gaps(msgs)) <= crashes => Cardinality(Gaps(msgs')) <= crashes'
  <1>1. /\ msgs \in Seq(Message) /\ crashes \in Nat
        /\ Gaps(msgs') \subseteq Gaps(msgs) /\ OldGaps(msgs') \subseteq OldGaps(msgs)
    BY GapsAppend DEF TypeOK
  <1>2. IsFiniteSet(Gaps(msgs)) /\ IsFiniteSet(OldGaps(msgs))
    BY <1>1, GapsFinite
  <1> QED BY <1>1, <1>2, FewerGaps DEF Short

(* The results of an id grow by its own result only.                       *)
LEMMA Resulted ==
    ASSUME TypeOK, NEW m \in Message, msgs' = Append(msgs, m), NEW id
    PROVE  ResultsOf(id)' = IF m.kind = "result" /\ m.id = id
                            THEN ResultsOf(id) \cup {Len(msgs) + 1}
                            ELSE ResultsOf(id)
  <1>1. /\ Len(msgs) \in Nat /\ DOMAIN msgs = 1..Len(msgs)
        /\ DOMAIN msgs' = 1..(Len(msgs) + 1) /\ msgs'[Len(msgs) + 1] = m
        /\ \A i \in 1..Len(msgs) : msgs'[i] = msgs[i]
    BY Appended DEF TypeOK
  <1> QED BY <1>1 DEF ResultsOf

(* A result belongs to a request that issued its id.                       *)
LEMMA OwnedResults ==
    ASSUME TypeOK, Placed(msgs), NEW id, NEW r \in ResultsOf(id)
    PROVE  \E p \in DOMAIN msgs : /\ p < r /\ msgs[p].kind = "assistant"
                                  /\ r - p \in DOMAIN msgs[p].calls
                                  /\ msgs[p].calls[r - p] = id
  <1>1. r \in DOMAIN msgs /\ msgs[r].kind = "result" /\ msgs[r].id = id
    BY DEF ResultsOf
  <1>2. Len(msgs) \in Nat /\ DOMAIN msgs = 1..Len(msgs)
    BY LenProperties DEF TypeOK
  <1>3. PICK p \in 1..(r - 1) : /\ msgs[p].kind = "assistant"
                                /\ r - p \in DOMAIN msgs[p].calls
                                /\ msgs[p].calls[r - p] = msgs[r].id
    BY <1>1 DEF Placed
  <1>4. p \in DOMAIN msgs /\ p < r
    BY <1>1, <1>2
  <1> QED BY <1>1, <1>3, <1>4

(* The call whose turn it is has no result yet.                            *)
LEMMA Unanswered ==
    ASSUME IInv, PairInv, Serving, Pending \in DOMAIN turn.calls
    PROVE  ResultsOf(turn.calls[Pending]) = {}
  <1>1. PICK p \in DOMAIN msgs : Progress(p)
    BY DEF PairInv, Batch
  <1>2. TypeOK /\ Placed(msgs) /\ Issued
    BY DEF IInv, PairInv
  <1>3. /\ Len(msgs) \in Nat /\ DOMAIN msgs = 1..Len(msgs)
        /\ turn.calls \in Seq(Nat) /\ Len(turn.calls) \in Nat
        /\ DOMAIN turn.calls = 1..Len(turn.calls)
    BY <1>2, LenProperties DEF TypeOK, Turn
  <1>4. /\ msgs[p].kind = "assistant" /\ msgs[p].calls = turn.calls
        /\ Len(msgs) = p + Pending - 1
    BY <1>1, <1>3 DEF Progress, LastRequest
  <1>5. ASSUME NEW r \in ResultsOf(turn.calls[Pending]) PROVE FALSE
    <2>1. PICK q \in DOMAIN msgs : /\ q < r /\ msgs[q].kind = "assistant"
                                   /\ r - q \in DOMAIN msgs[q].calls
                                   /\ msgs[q].calls[r - q] = turn.calls[Pending]
      BY <1>2, OwnedResults
    <2>2. q = p /\ r - q = Pending
      BY <1>2, <1>4, <2>1 DEF Issued
    <2>3. r \in 1..Len(msgs)
      BY <1>3 DEF ResultsOf
    <2> QED BY <1>3, <1>4, <2>2, <2>3
  <1> QED BY <1>5

-----------------------------------------------------------------------------
(* The kinds of step.                                                      *)

Kept == UNCHANGED <<ends, crashes>>

AsideOutside ==
    /\ Kept /\ ~Serving /\ ~Serving'
    /\ msgs' = msgs \/ \E m \in {Human, User} : msgs' = Append(msgs, m)

AsideInside ==
    /\ Kept /\ Serving /\ Serving'
    /\ turn'.calls = turn.calls /\ Pending' = Pending
    /\ \/ msgs' = msgs
       \/ Pending > Len(turn.calls) /\ msgs' = Append(msgs, User)

Answers ==
    /\ Serving /\ Serving' /\ turn'.calls = turn.calls /\ UNCHANGED crashes
    /\ Pending \in DOMAIN turn.calls /\ Pending' = Pending + 1
    /\ msgs' = Append(msgs, Result(turn.calls[Pending]))
    /\ ends' = [ends EXCEPT ![turn.calls[Pending]] = @ + 1]

Issues(n) ==
    LET calls == [i \in 1..n |-> IssuedCalls + i] IN
    /\ ~Serving /\ UNCHANGED crashes
    /\ msgs' = Append(msgs, Assistant(calls))
    /\ ends' = ends \o [i \in 1..n |-> 0]
    /\ IF n = 0 THEN ~Serving' ELSE Serving' /\ turn'.calls = calls /\ Pending' = 1

Leaves ==
    /\ Kept /\ Serving /\ ~Serving'
    /\ Pending > Len(turn.calls) /\ msgs' = msgs

Restarts ==
    /\ ~Serving' /\ crashes' = crashes + 1
    /\ msgs' = SubSeq(msgs, 1, durable) /\ UNCHANGED ends

-----------------------------------------------------------------------------
(* Each kind keeps the invariant.                                          *)

(* Harness messages outside a batch.                                       *)
LEMMA AsideOutsideKeeps ==
    ASSUME IInv, PairInv, AsideOutside
    PROVE  PairInv'
  <1>1. /\ TypeOK /\ Issued /\ Placed(msgs) /\ Short /\ Counted
        /\ msgs \in Seq(Message) /\ crashes \in Nat
    BY DEF IInv, PairInv, TypeOK
  <1>2. ~Serving /\ ~Serving' /\ ends' = ends /\ crashes' = crashes /\ IssuedCalls' = IssuedCalls
    BY DEF AsideOutside, Kept, IssuedCalls
  <1>3. Batch'
    BY <1>2 DEF Batch
  <1>4. CASE msgs' = msgs
    <2>1. \A id : ResultsOf(id)' = ResultsOf(id)
      BY <1>4 DEF ResultsOf
    <2>2. Issued' /\ Placed(msgs)' /\ Short' /\ Counted'
      BY <1>1, <1>2, <1>4, <2>1 DEF Issued, Placed, Short, Counted
    <2> QED BY <1>3, <2>2 DEF PairInv
  <1>5. ASSUME NEW m \in {Human, User}, msgs' = Append(msgs, m) PROVE PairInv'
    <2>1. m \in Message /\ m.kind # "assistant" /\ m.kind # "result"
      BY MessageTypes DEF Human, User
    <2>2. Issued'
      BY <1>1, <1>2, <1>5, <2>1, IssuedKept
    <2>3. Placed(msgs)'
      BY <1>1, <1>5, <2>1, PlacedAppend
    <2>4. Short'
      BY <1>1, <1>2, <1>5, <2>1, ShortKept DEF Short
    <2>5. \A id : ResultsOf(id)' = ResultsOf(id)
      BY <1>1, <1>5, <2>1, Resulted
    <2>6. Counted'
      BY <1>1, <1>2, <2>5 DEF Counted
    <2> QED BY <1>3, <2>2, <2>3, <2>4, <2>6 DEF PairInv
  <1> QED BY <1>4, <1>5 DEF AsideOutside

(* Inside a batch: waiting, or feedback once every call is answered.       *)
LEMMA AsideInsideKeeps ==
    ASSUME IInv, PairInv, AsideInside
    PROVE  PairInv'
  <1>1. /\ TypeOK /\ Issued /\ Placed(msgs) /\ Short /\ Counted
        /\ msgs \in Seq(Message) /\ crashes \in Nat
    BY DEF IInv, PairInv, TypeOK
  <1>2. /\ Serving /\ Serving' /\ ends' = ends /\ crashes' = crashes
        /\ IssuedCalls' = IssuedCalls /\ turn'.calls = turn.calls /\ Pending' = Pending
    BY DEF AsideInside, Kept, IssuedCalls
  <1>3. PICK p \in DOMAIN msgs : Progress(p)
    BY <1>2 DEF PairInv, Batch
  <1>4. CASE msgs' = msgs
    <2>1. \A id : ResultsOf(id)' = ResultsOf(id)
      BY <1>4 DEF ResultsOf
    <2>2. Issued' /\ Placed(msgs)' /\ Short' /\ Counted'
      BY <1>1, <1>2, <1>4, <2>1 DEF Issued, Placed, Short, Counted
    <2>3. p \in DOMAIN msgs' /\ Progress(p)'
      BY <1>2, <1>3, <1>4 DEF Progress
    <2> QED BY <2>2, <2>3 DEF PairInv, Batch
  <1>5. CASE Pending > Len(turn.calls) /\ msgs' = Append(msgs, User)
    <2>1. User \in Message /\ User.kind # "assistant" /\ User.kind # "result"
      BY MessageTypes DEF User
    <2>2. Issued'
      BY <1>1, <1>2, <1>5, <2>1, IssuedKept
    <2>3. Placed(msgs)'
      BY <1>1, <1>5, <2>1, PlacedAppend
    <2>4. Short'
      BY <1>1, <1>2, <1>5, <2>1, ShortKept DEF Short
    <2>5. \A id : ResultsOf(id)' = ResultsOf(id)
      BY <1>1, <1>5, <2>1, Resulted
    <2>6. Counted'
      BY <1>1, <1>2, <2>5 DEF Counted
    <2>7. p \in DOMAIN msgs' /\ Progress(p)'
      <3>1. /\ Len(msgs) \in Nat /\ DOMAIN msgs = 1..Len(msgs)
            /\ Len(msgs') = Len(msgs) + 1 /\ DOMAIN msgs' = 1..(Len(msgs) + 1)
            /\ \A i \in 1..Len(msgs) : msgs'[i] = msgs[i]
        BY <1>1, <1>5, <2>1, Appended
      <3>2. LastRequest(msgs', p) /\ msgs'[p].calls = turn'.calls /\ p \in DOMAIN msgs'
        BY <1>1, <1>2, <1>3, <1>5, <2>1, <3>1, GapsAppend DEF Progress
      <3>3. /\ turn.calls \in Seq(Nat) /\ Len(turn.calls) \in Nat
            /\ DOMAIN turn.calls = 1..Len(turn.calls)
            /\ turn.index \in Nat /\ Pending \in Nat
        BY <1>1, LenProperties DEF TypeOK, Turn, Pending
      <3>4. ASSUME NEW j \in DOMAIN turn'.calls, j < Pending'
            PROVE  p + j <= Len(msgs') /\ msgs'[p + j] = Result(turn'.calls[j])
        <4>1. p + j <= Len(msgs) /\ msgs[p + j] = Result(turn.calls[j])
          BY <1>2, <1>3, <3>4 DEF Progress
        <4>2. p + j \in 1..Len(msgs)
          BY <1>2, <3>1, <3>3, <4>1
        <4> QED BY <1>2, <3>1, <4>1, <4>2
      <3> QED BY <1>2, <1>5, <3>2, <3>3, <3>4 DEF Progress
    <2> QED BY <2>2, <2>3, <2>4, <2>6, <2>7 DEF PairInv, Batch
  <1> QED BY <1>4, <1>5 DEF AsideInside

(* The next call of the batch gets its result.                             *)
LEMMA AnswersKeeps ==
    ASSUME IInv, PairInv, Answers
    PROVE  PairInv'
  <1> PICK k, c : k = Pending /\ c = turn.calls[Pending]
    OBVIOUS
  <1>1. /\ TypeOK /\ Issued /\ Placed(msgs) /\ Short /\ Counted
        /\ msgs \in Seq(Message) /\ crashes \in Nat
    BY DEF IInv, PairInv, TypeOK
  <1>2. /\ Serving /\ Serving' /\ crashes' = crashes /\ turn'.calls = turn.calls
        /\ k \in DOMAIN turn.calls /\ Pending = k /\ Pending' = k + 1 /\ turn.calls[k] = c
        /\ msgs' = Append(msgs, Result(c)) /\ ends' = [ends EXCEPT ![c] = @ + 1]
    BY DEF Answers
  <1>3. PICK p \in DOMAIN msgs : Progress(p)
    BY <1>2 DEF PairInv, Batch
  <1>4. /\ turn.calls \in Seq(Nat) /\ Len(turn.calls) \in Nat
        /\ DOMAIN turn.calls = 1..Len(turn.calls) /\ k \in 1..Len(turn.calls)
        /\ c \in 1..IssuedCalls /\ c \in Nat /\ IssuedCalls \in Nat
    <2>1. turn.calls \in Seq(Nat) /\ IssuedCalls \in Nat
      BY CallFacts
    <2>2. /\ Len(turn.calls) \in Nat /\ DOMAIN turn.calls = 1..Len(turn.calls)
      BY <2>1, LenProperties
    <2>3. c \in 1..IssuedCalls
      BY <1>2 DEF IInv, Counters
    <2>4. k \in 1..Len(turn.calls)
      BY <1>2, <2>2
    <2> QED BY <2>1, <2>2, <2>3, <2>4
  <1>5. /\ Result(c) \in Message /\ Result(c).kind = "result" /\ Result(c).id = c
    BY <1>4, MessageTypes DEF Result
  <1>6. /\ Len(msgs) \in Nat /\ DOMAIN msgs = 1..Len(msgs)
        /\ Len(msgs') = Len(msgs) + 1 /\ DOMAIN msgs' = 1..(Len(msgs) + 1)
        /\ \A i \in 1..Len(msgs) : msgs'[i] = msgs[i]
        /\ msgs'[Len(msgs) + 1] = Result(c)
    BY <1>1, <1>2, <1>5, Appended
  <1>7. /\ p \in 1..Len(msgs) /\ msgs[p].kind = "assistant" /\ msgs[p].calls = turn.calls
        /\ Len(msgs) + 1 = p + k
    <2>1. LastRequest(msgs, p) /\ msgs[p].calls = turn.calls
      BY <1>3 DEF Progress
    <2>2. p \in 1..Len(msgs) /\ msgs[p].kind = "assistant"
      BY <1>6, <2>1 DEF LastRequest
    <2>3. Len(msgs) = p + k - 1
      BY <1>2, <1>3, <1>4 DEF Progress
    <2>4. p \in Nat /\ k \in Nat
      BY <1>4, <2>2
    <2> QED BY <1>6, <2>1, <2>2, <2>3, <2>4
  <1>8. /\ DOMAIN ends = 1..IssuedCalls /\ IssuedCalls' = IssuedCalls
        /\ ends \in Seq(Nat) /\ ends'[c] = ends[c] + 1 /\ \A i \in 1..IssuedCalls : i # c => ends'[i] = ends[i]
    <2>1. ends \in [1..IssuedCalls -> Nat] /\ ends \in Seq(Nat)
      BY <1>1, LenProperties DEF TypeOK, IssuedCalls
    <2>2. ends' \in [1..IssuedCalls -> Nat]
      <3> PICK n, x : n = IssuedCalls /\ x = ends[c] + 1
        OBVIOUS
      <3>1. c \in 1..n
        BY <1>4
      <3>2. ends \in [1..n -> Nat]
        BY <2>1
      <3>3. x \in Nat
        BY <3>1, <3>2
      <3>4. ends' = [ends EXCEPT ![c] = x]
        BY <1>2
      <3> QED BY <3>1, <3>2, <3>3, <3>4
    <2>3. ends' \in Seq(Nat) /\ Len(ends') = IssuedCalls
      BY <1>4, <2>2, SeqDef, LenProperties
    <2> QED BY <1>2, <1>4, <2>1, <2>3 DEF IssuedCalls
  <1>9. Issued'
    BY <1>1, <1>2, <1>5, <1>8, IssuedKept
  <1>10. Placed(msgs)'
    <2>1. Len(msgs) + 1 - p = k
      <3>1. Len(msgs) \in Nat /\ p \in Nat /\ k \in Nat
        BY <1>4, <1>6, <1>7
      <3> QED BY <1>7, <3>1
    <2> QED BY <1>1, <1>2, <1>5, <1>7, <2>1, PlacedAppend
  <1>11. Short'
    BY <1>1, <1>2, <1>5, ShortKept DEF Short
  <1>12. Counted'
    <2> SUFFICES ASSUME crashes = 0, NEW id \in 1..IssuedCalls
        PROVE  /\ ends'[id] = IF ResultsOf(id)' = {} THEN 0 ELSE 1
               /\ \/ ends'[id] = 1
                  \/ \E j \in DOMAIN turn.calls : j >= k + 1 /\ turn.calls[j] = id
      BY <1>2, <1>8 DEF Counted
    <2>1. /\ ends[id] = IF ResultsOf(id) = {} THEN 0 ELSE 1
          /\ \/ ends[id] = 1
             \/ \E j \in DOMAIN turn.calls : j >= k /\ turn.calls[j] = id
      BY <1>1, <1>2 DEF Counted
    <2>2. CASE id = c
      <3>1. ResultsOf(c) = {} /\ ResultsOf(c)' = ResultsOf(c) \cup {Len(msgs) + 1}
        BY <1>1, <1>2, <1>5, Unanswered, Resulted
      <3>2. ResultsOf(c)' # {}
        BY <3>1
      <3> QED BY <1>8, <2>1, <2>2, <3>1, <3>2
    <2>3. CASE id # c
      <3>1. ResultsOf(id)' = ResultsOf(id) /\ ends'[id] = ends[id]
        BY <1>1, <1>2, <1>5, <1>8, <2>3, Resulted
      <3>2. ASSUME NEW j \in DOMAIN turn.calls, j >= k, turn.calls[j] = id
            PROVE  j >= k + 1
        BY <1>2, <1>4, <2>3, <3>2
      <3> QED BY <2>1, <3>1, <3>2
    <2> QED BY <2>2, <2>3
  <1>13. p \in DOMAIN msgs' /\ Progress(p)'
    <2>1. LastRequest(msgs', p)
      BY <1>1, <1>2, <1>3, <1>5, GapsAppend DEF Progress
    <2>2. p \in DOMAIN msgs' /\ msgs'[p].calls = turn'.calls
      BY <1>2, <1>6, <1>7
    <2>3. ASSUME NEW j \in DOMAIN turn.calls, j < k + 1
          PROVE  p + j <= Len(msgs') /\ msgs'[p + j] = Result(turn.calls[j])
      <3>1. CASE j = k
        BY <1>2, <1>6, <1>7, <3>1
      <3>2. CASE j # k
        <4>1. j < k
          BY <1>4, <2>3, <3>2
        <4>2. p + j <= Len(msgs) /\ msgs[p + j] = Result(turn.calls[j])
          BY <1>2, <1>3, <4>1 DEF Progress
        <4>3. p + j \in 1..Len(msgs)
          <5>1. p \in Nat /\ j \in Nat /\ j > 0 /\ Len(msgs) \in Nat
            BY <1>4, <1>6, <1>7
          <5> QED BY <4>2, <5>1
        <4> QED BY <1>6, <4>2, <4>3
      <3> QED BY <3>1, <3>2
    <2>4. Len(msgs') = p + (k + 1) - 1
      BY <1>4, <1>6, <1>7
    <2> QED BY <1>2, <2>1, <2>2, <2>3, <2>4 DEF Progress
  <1> QED BY <1>9, <1>10, <1>11, <1>12, <1>13 DEF PairInv, Batch

(* A model answer: fresh ids, and a batch unless it calls nothing.         *)
LEMMA IssuesKeeps ==
    ASSUME IInv, PairInv, NEW n \in 0..MaxBatch, Issues(n)
    PROVE  PairInv'
  <1> PICK k : k = IssuedCalls
    OBVIOUS
  <1> DEFINE calls == [i \in 1..n |-> k + i]
             zeros == [i \in 1..n |-> 0]
             m == Assistant(calls)
  <1>1. /\ TypeOK /\ Issued /\ Placed(msgs) /\ Short /\ Counted
        /\ msgs \in Seq(Message) /\ crashes \in Nat /\ k \in Nat /\ n \in Nat
    BY CallFacts DEF IInv, PairInv, TypeOK
  <1>2. /\ ~Serving /\ crashes' = crashes /\ msgs' = Append(msgs, m) /\ ends' = ends \o zeros
        /\ IF n = 0 THEN ~Serving' ELSE Serving' /\ turn'.calls = calls /\ Pending' = 1
    BY DEF Issues
  <1>3. /\ calls \in Seq(Nat) /\ Len(calls) = n /\ DOMAIN calls = 1..n
        /\ \A i \in 1..n : calls[i] = k + i
        /\ zeros \in Seq(Nat) /\ Len(zeros) = n /\ \A i \in 1..n : zeros[i] = 0
    <2>1. calls \in [1..n -> Nat] /\ zeros \in [1..n -> Nat]
      BY <1>1
    <2> QED BY <1>1, <2>1, SeqDef, LenProperties
  <1>4. m \in Message /\ m.kind = "assistant" /\ m.calls = calls
    BY <1>3, MessageTypes DEF Assistant
  <1> HIDE DEF calls, zeros, m
  <1>5. /\ Len(msgs) \in Nat /\ DOMAIN msgs = 1..Len(msgs)
        /\ Len(msgs') = Len(msgs) + 1 /\ DOMAIN msgs' = 1..(Len(msgs) + 1)
        /\ \A i \in 1..Len(msgs) : msgs'[i] = msgs[i]
        /\ msgs'[Len(msgs) + 1] = m
    BY <1>1, <1>2, <1>4, Appended
  <1>6. /\ IssuedCalls' = k + n /\ \A i \in 1..k : ends'[i] = ends[i]
        /\ \A i \in (k + 1)..(k + n) : ends'[i] = 0
    <2>1. ends \in Seq(Nat) /\ Len(ends) = k
      BY <1>1 DEF TypeOK, IssuedCalls
    <2>2. /\ Len(ends \o zeros) = Len(ends) + Len(zeros)
          /\ \A i \in 1..(Len(ends) + Len(zeros)) :
                 (ends \o zeros)[i] = IF i <= Len(ends) THEN ends[i] ELSE zeros[i - Len(ends)]
      <3>1. ends \in Seq(Nat) /\ zeros \in Seq(Nat)
        BY <1>3, <2>1
      <3> QED BY <3>1, ConcatProperties
    <2>3. \A i \in (k + 1)..(k + n) : i - k \in 1..n /\ i \in 1..(k + n) /\ ~(i <= k)
      BY <1>1
    <2>4. \A i \in 1..k : i \in 1..(k + n) /\ i <= k
      BY <1>1
    <2> QED BY <1>2, <1>3, <2>1, <2>2, <2>3, <2>4 DEF IssuedCalls
  <1>7. Issued'
    <2>1. \A p \in DOMAIN msgs : msgs[p].kind = "assistant" =>
              \A j \in DOMAIN msgs[p].calls : msgs[p].calls[j] \in 1..k
      BY <1>1 DEF Issued
    <2>2. ASSUME NEW p \in DOMAIN msgs', msgs'[p].kind = "assistant",
                 NEW j \in DOMAIN msgs'[p].calls
          PROVE  msgs'[p].calls[j] \in 1..(k + n)
      <3>1. CASE p = Len(msgs) + 1
        BY <1>1, <1>3, <1>4, <1>5, <2>2, <3>1
      <3>2. CASE p # Len(msgs) + 1
        <4>1. p \in DOMAIN msgs /\ msgs'[p] = msgs[p]
          BY <1>5, <3>2
        <4>2. msgs[p].calls[j] \in 1..k
          BY <2>1, <2>2, <4>1
        <4> QED BY <1>1, <4>1, <4>2
      <3> QED BY <3>1, <3>2
    <2>3. ASSUME NEW p \in DOMAIN msgs', NEW q \in DOMAIN msgs',
                 msgs'[p].kind = "assistant", msgs'[q].kind = "assistant",
                 NEW i \in DOMAIN msgs'[p].calls, NEW j \in DOMAIN msgs'[q].calls,
                 msgs'[p].calls[i] = msgs'[q].calls[j]
          PROVE  p = q /\ i = j
      <3>1. \A r \in DOMAIN msgs' :
                \/ r = Len(msgs) + 1 /\ msgs'[r].calls = calls
                \/ r \in DOMAIN msgs /\ msgs'[r] = msgs[r]
        BY <1>4, <1>5
      <3>2. \A x \in 1..n : calls[x] \notin 1..k
        BY <1>1, <1>3
      <3>3. CASE msgs'[p].calls = calls /\ p = Len(msgs) + 1
        <4>1. q = Len(msgs) + 1 /\ msgs'[q].calls = calls
          BY <1>3, <2>1, <2>3, <3>1, <3>2, <3>3
        <4>2. i \in 1..n /\ j \in 1..n /\ k + i = k + j
          BY <1>3, <2>3, <3>3, <4>1
        <4> QED BY <1>1, <3>3, <4>1, <4>2
      <3>4. CASE p \in DOMAIN msgs /\ msgs'[p] = msgs[p]
        <4>1. q \in DOMAIN msgs /\ msgs'[q] = msgs[q]
          BY <1>3, <2>1, <2>3, <3>1, <3>2, <3>4
        <4> QED BY <1>1, <2>3, <3>4, <4>1 DEF Issued
      <3> QED BY <3>1, <3>3, <3>4
    <2> QED BY <1>6, <2>2, <2>3 DEF Issued
  <1>8. Placed(msgs)'
    BY <1>1, <1>2, <1>4, PlacedAppend
  <1>9. Short'
    <2>1. /\ OldGaps(msgs') \subseteq Gaps(msgs)
          /\ n = 0 => Gaps(msgs') \subseteq Gaps(msgs)
      <3>1. n = 0 => DOMAIN calls = {}
        BY <1>3
      <3> QED BY <1>1, <1>2, <1>4, <3>1, GapsRequest
    <2>2. IsFiniteSet(Gaps(msgs)) /\ Cardinality(Gaps(msgs)) <= crashes
      BY <1>1, <1>2, GapsFinite DEF Short
    <2> QED BY <1>1, <1>2, <2>1, <2>2, FewerGaps DEF Short
  <1>10. Batch'
    <2> PICK p : p = Len(msgs) + 1
      OBVIOUS
    <2> SUFFICES ASSUME Serving' PROVE Progress(p)' /\ p \in DOMAIN msgs'
      BY DEF Batch
    <2>1. turn'.calls = calls /\ Pending' = 1
      BY <1>2
    <2>2. LastRequest(msgs', p)
      BY <1>1, <1>2, <1>4, GapsRequest
    <2>3. \A j \in DOMAIN calls : ~(j < 1)
      BY <1>3
    <2> QED BY <1>1, <1>3, <1>4, <1>5, <2>1, <2>2, <2>3 DEF Progress
  <1>11. Counted'
    <2> SUFFICES ASSUME crashes = 0, NEW id \in 1..(k + n)
        PROVE  /\ ends'[id] = IF ResultsOf(id)' = {} THEN 0 ELSE 1
               /\ \/ ends'[id] = 1
                  \/ Serving' /\ \E j \in DOMAIN turn'.calls : j >= Pending' /\ turn'.calls[j] = id
      BY <1>2, <1>6 DEF Counted
    <2>1. ResultsOf(id)' = ResultsOf(id)
      BY <1>1, <1>2, <1>4, Resulted
    <2>2. CASE id \in 1..k
      BY <1>1, <1>2, <1>6, <2>1, <2>2 DEF Counted
    <2>3. CASE id \notin 1..k
      <3>1. id \in (k + 1)..(k + n) /\ n # 0 /\ id - k \in 1..n /\ k + (id - k) = id
        BY <1>1, <2>3
      <3>2. ResultsOf(id) = {}
        <4> SUFFICES ASSUME NEW r \in ResultsOf(id) PROVE FALSE
          OBVIOUS
        <4>1. PICK p \in DOMAIN msgs : /\ p < r /\ msgs[p].kind = "assistant"
                                       /\ r - p \in DOMAIN msgs[p].calls
                                       /\ msgs[p].calls[r - p] = id
          BY <1>1, OwnedResults
        <4> QED BY <1>1, <2>3, <4>1 DEF Issued
      <3>3. Serving' /\ turn'.calls = calls /\ Pending' = 1
        BY <1>2, <3>1
      <3>4. calls[id - k] = id /\ id - k >= 1 /\ id - k \in DOMAIN calls
        BY <1>1, <1>3, <3>1
      <3> QED BY <1>6, <2>1, <3>1, <3>2, <3>3, <3>4
    <2> QED BY <2>2, <2>3
  <1> QED BY <1>7, <1>8, <1>9, <1>10, <1>11 DEF PairInv

(* A batch is left when every call of it has its result.                   *)
LEMMA LeavesKeeps ==
    ASSUME IInv, PairInv, Leaves
    PROVE  PairInv'
  <1>1. /\ TypeOK /\ Issued /\ Placed(msgs) /\ Short /\ Counted
        /\ msgs \in Seq(Message) /\ crashes \in Nat
    BY DEF IInv, PairInv, TypeOK
  <1>2. /\ Serving /\ ~Serving' /\ ends' = ends /\ crashes' = crashes /\ msgs' = msgs
        /\ IssuedCalls' = IssuedCalls /\ Pending > Len(turn.calls)
    BY DEF Leaves, Kept, IssuedCalls
  <1>3. PICK p \in DOMAIN msgs : Progress(p)
    BY <1>2 DEF PairInv, Batch
  <1>4. /\ turn.calls \in Seq(Nat) /\ Len(turn.calls) \in Nat
        /\ DOMAIN turn.calls = 1..Len(turn.calls) /\ turn.index \in Nat /\ Pending \in Nat
    BY <1>1, LenProperties DEF TypeOK, Turn, Pending
  <1>5. Answered(msgs, p)
    <2>1. \A j \in DOMAIN turn.calls : j < Pending
      BY <1>2, <1>4
    <2> QED BY <1>3, <2>1 DEF Progress, Answered
  <1>6. Gaps(msgs) \subseteq OldGaps(msgs)
    <2> SUFFICES ASSUME NEW g \in Gaps(msgs), LastRequest(msgs, g) PROVE FALSE
      BY DEF OldGaps
    <2>1. g \in DOMAIN msgs /\ p \in DOMAIN msgs /\ g <= p /\ p <= g
      BY <1>3 DEF Progress, LastRequest
    <2>2. g = p
      BY <1>1, <2>1, MessageFacts
    <2> QED BY <1>5, <2>2 DEF Gaps
  <1>7. Short'
    <2>1. Cardinality(OldGaps(msgs)) <= crashes /\ IsFiniteSet(OldGaps(msgs))
      BY <1>1, GapsFinite DEF Short
    <2>2. Cardinality(Gaps(msgs)) <= crashes
      BY <1>1, <1>6, <2>1, FewerGaps
    <2> QED BY <1>2, <2>1, <2>2 DEF Short
  <1>8. Counted'
    <2>1. \A id : ResultsOf(id)' = ResultsOf(id)
      BY <1>2 DEF ResultsOf
    <2>2. \A j \in DOMAIN turn.calls : ~(j >= Pending)
      BY <1>2, <1>4
    <2> QED BY <1>1, <1>2, <2>1, <2>2 DEF Counted
  <1>9. Issued' /\ Placed(msgs)' /\ Batch'
    BY <1>1, <1>2 DEF Issued, Placed, Batch
  <1> QED BY <1>7, <1>8, <1>9 DEF PairInv

(* A crash keeps a prefix of the transcript and may cut one batch short.   *)
LEMMA RestartsKeeps ==
    ASSUME IInv, PairInv, Restarts
    PROVE  PairInv'
  <1>1. /\ TypeOK /\ Issued /\ Placed(msgs) /\ Short
        /\ msgs \in Seq(Message) /\ crashes \in Nat /\ durable \in 0..Len(msgs)
    BY DEF IInv, PairInv, TypeOK
  <1>2. /\ ~Serving' /\ ends' = ends /\ crashes' = crashes + 1
        /\ msgs' = SubSeq(msgs, 1, durable) /\ IssuedCalls' = IssuedCalls
    BY DEF Restarts, IssuedCalls
  <1>3. /\ msgs' \in Seq(Message) /\ Len(msgs) \in Nat /\ DOMAIN msgs = 1..Len(msgs)
        /\ Len(msgs') = durable /\ DOMAIN msgs' = 1..durable
        /\ \A i \in 1..durable : msgs'[i] = msgs[i]
    BY <1>1, <1>2, Prefixed
  <1>4. \A p \in DOMAIN msgs' : p \in DOMAIN msgs /\ msgs'[p] = msgs[p]
    BY <1>1, <1>3
  <1>5. Issued'
    BY <1>1, <1>2, <1>4 DEF Issued
  <1>6. Placed(msgs)'
    BY <1>1, <1>2, PlacedPrefix
  <1>7. Short'
    <2> DEFINE g == CHOOSE p : LastRequest(msgs', p)
    <2>1. ASSUME NEW p \in Gaps(msgs') PROVE p \in OldGaps(msgs) \cup {g}
      <3>1. p \in 1..durable /\ msgs'[p].kind = "assistant"
        BY <1>3 DEF Gaps
      <3>2. CASE LastRequest(msgs', p)
        <4>1. LastRequest(msgs', g)
          BY <3>2
        <4>2. p <= g /\ g <= p /\ g \in 1..durable
          BY <1>3, <3>2, <4>1 DEF LastRequest
        <4>3. p = g
          <5> HIDE DEF g
          <5> QED BY <1>1, <3>1, <4>2
        <4> QED BY <4>3
      <3>3. CASE ~LastRequest(msgs', p)
        <4>1. PICK q \in 1..durable : msgs'[q].kind = "assistant" /\ ~(q <= p)
          BY <1>3, <3>1, <3>3 DEF LastRequest
        <4>2. /\ q \in DOMAIN msgs /\ msgs[q].kind = "assistant" /\ p < q /\ q <= durable + 1
          BY <1>1, <1>3, <1>4, <3>1, <4>1
        <4>3. p \in Gaps(msgs) /\ ~LastRequest(msgs, p)
          BY <1>1, <1>2, <4>2, GapsPrefix
        <4> QED BY <4>3 DEF OldGaps
      <3> QED BY <3>2, <3>3
    <2> HIDE DEF g
    <2>2. IsFiniteSet(OldGaps(msgs)) /\ Cardinality(OldGaps(msgs)) <= crashes
      BY <1>1, GapsFinite DEF Short
    <2>3. /\ IsFiniteSet(OldGaps(msgs) \cup {g})
          /\ Cardinality(OldGaps(msgs) \cup {g}) <= crashes + 1
      <3>1. /\ IsFiniteSet(OldGaps(msgs) \cup {g})
            /\ \/ Cardinality(OldGaps(msgs) \cup {g}) = Cardinality(OldGaps(msgs))
               \/ Cardinality(OldGaps(msgs) \cup {g}) = Cardinality(OldGaps(msgs)) + 1
        BY <2>2, FS_AddElement
      <3>2. Cardinality(OldGaps(msgs)) \in Nat
        BY <2>2, FS_CardinalityType
      <3> QED BY <1>1, <2>2, <3>1, <3>2
    <2>4. Gaps(msgs') \subseteq OldGaps(msgs) \cup {g} /\ crashes + 1 \in Nat
      BY <1>1, <2>1
    <2>5. Cardinality(Gaps(msgs')) <= crashes + 1
      BY <2>3, <2>4, FewerGaps
    <2>6. OldGaps(msgs') \subseteq Gaps(msgs') /\ IsFiniteSet(Gaps(msgs'))
      BY <1>3, GapsFinite
    <2>7. Cardinality(OldGaps(msgs')) <= crashes + 1
      BY <2>4, <2>5, <2>6, FewerGaps
    <2> QED BY <1>2, <2>5, <2>7 DEF Short
  <1>8. Batch' /\ Counted'
    <2>1. crashes' # 0
      BY <1>1, <1>2
    <2> QED BY <1>2, <2>1 DEF Batch, Counted
  <1> QED BY <1>5, <1>6, <1>7, <1>8 DEF PairInv

-----------------------------------------------------------------------------
(* Every step is of one of the kinds.                                      *)

Kind ==
    \/ AsideOutside \/ AsideInside \/ Answers \/ Leaves \/ Restarts
    \/ \E n \in 0..MaxBatch : Issues(n)

(* The harness writes at most one message outside a batch, feedback only   *)
(* after its last result, and every path that answers a call answers the   *)
(* pending one.                                                            *)
LEMMA EveryStepHasAKind ==
    ASSUME IInv, Next
    PROVE  Kind
  <1> USE DEF Silent, Quiet, Same, At
  <1>0. /\ turn \in Turn /\ turn.index \in Nat /\ turn.calls \in Seq(Nat)
        /\ Len(turn.calls) \in Nat /\ DOMAIN turn.calls = 1..Len(turn.calls)
        /\ turn.index >= 1
    BY CallFacts, LenProperties DEF IInv, TypeOK
  <1>b. turn.phase \in {"authorizing", "running", "post"} => InBatch
    BY DEF IInv, Rows
  <1>o. ASSUME turn'.phase \notin Serves, turn.phase \notin Serves,
               UNCHANGED <<ends, crashes>>,
               msgs' = msgs \/ msgs' = Append(msgs, Human) \/ msgs' = Append(msgs, User)
        PROVE  Kind
    BY <1>o DEF Kind, AsideOutside, Kept, Serving
  <1>i. ASSUME turn'.phase \in Serves, turn.phase \in Serves, turn'.calls = turn.calls,
               Pending' = Pending, UNCHANGED <<ends, crashes>>, msgs' = msgs
        PROVE  Kind
    BY <1>i DEF Kind, AsideInside, Kept, Serving
  <1>f. ASSUME NEW r, Finish(r), Same, turn.phase \notin Serves
        PROVE  Kind
    <2>1. turn'.phase = "idle" /\ msgs' = msgs /\ UNCHANGED <<ends, crashes>>
      BY <1>0, <1>f DEF Finish, Turn
    <2> QED BY <1>f, <1>o, <2>1 DEF Serves
  <1>u. ASSUME NEW r, NEW k \in Nat, k = Pending, Unwind(k, r), Same, turn.phase \in Serves
        PROVE  Kind
    <2>1. /\ turn'.phase = "unwind" /\ turn'.index = k /\ turn'.calls = turn.calls
          /\ msgs' = msgs /\ UNCHANGED <<ends, crashes>>
      BY <1>0, <1>u DEF Unwind, Turn
    <2>2. Pending' = Pending
      BY <1>u, <2>1 DEF Pending
    <2> QED BY <1>i, <1>u, <2>1, <2>2 DEF Serves
  <1>t. ASSUME Answer, crashes' = crashes, InBatch, turn.phase \in Serves \ {"post"},
               turn'.phase \in Serves, turn'.calls = turn.calls, Pending' = turn.index + 1
        PROVE  Kind
    <2>1. Pending = turn.index /\ turn.index \in DOMAIN turn.calls
      BY <1>0, <1>t DEF Pending, InBatch
    <2>2. msgs' = Append(msgs, Result(turn.calls[turn.index]))
          /\ ends' = [ends EXCEPT ![turn.calls[turn.index]] = @ + 1]
      BY <1>t DEF Answer, Record, Call
    <2> QED BY <1>t, <2>1, <2>2 DEF Kind, Answers, Serving
  <1>n. ASSUME NextCall
        PROVE  /\ turn'.phase = "serve" /\ turn'.calls = turn.calls
               /\ turn'.index = turn.index + 1 /\ Pending' = turn.index + 1
    <2> PICK k : k = turn.index + 1
      OBVIOUS
    <2>1. turn' = [turn EXCEPT !.phase = "serve", !.index = k, !.restarts = 0]
      BY <1>n DEF NextCall
    <2>2. turn'.phase = "serve" /\ turn'.calls = turn.calls /\ turn'.index = k
      BY <1>0, <2>1 DEF Turn
    <2> QED BY <2>2 DEF Pending
  <1>1. CASE RunTurn \/ ContinueSession
    <2>1. /\ turn.phase = "idle" /\ msgs' = msgs /\ UNCHANGED <<ends, crashes>>
      BY <1>1 DEF RunTurn, ContinueSession
    <2>2. \E p \in {"prompt", "human", "head", "idle"} : turn'.phase = p
      <3>1. \A p : [NewTurn EXCEPT !.phase = p].phase = p
        BY DEF NewTurn
      <3>2. [NewTurn EXCEPT !.result = "empty"].phase = "idle"
        BY DEF NewTurn
      <3> QED BY <1>1, <3>1, <3>2 DEF RunTurn, ContinueSession
    <2> QED BY <1>o, <2>1, <2>2 DEF Serves
  <1>2. CASE PromptHook
    <2>1. CASE Silent /\ Quiet /\ \E adds \in BOOLEAN :
                    turn' = [turn EXCEPT !.phase = "human", !.context = adds]
      <3>1. turn'.phase = "human" /\ turn.phase = "prompt"
        BY <1>0, <1>2, <2>1 DEF Turn, PromptHook
      <3> QED BY <1>2, <1>o, <2>1, <3>1 DEF PromptHook, Serves
    <2> QED BY <1>2, <1>f, <2>1 DEF PromptHook, Serves
  <1>3. CASE PushHuman \/ PushContext
    <2>1. turn'.phase \in {"context", "head"} /\ turn.phase \in {"human", "context"}
      BY <1>0, <1>3 DEF PushHuman, PushContext, Goto, Turn
    <2>2. /\ msgs' = Append(msgs, Human) \/ msgs' = Append(msgs, User)
          /\ UNCHANGED <<ends, crashes>>
      BY <1>3 DEF PushHuman, PushContext, Record
    <2> QED BY <1>o, <2>1, <2>2 DEF Serves
  <1>4. CASE LoopHead
    <2>1. turn'.phase = "prepare" /\ turn.phase = "head"
      BY <1>0, <1>4 DEF LoopHead, Turn
    <2>2. /\ msgs' = msgs \/ msgs' = Append(msgs, User)
          /\ UNCHANGED <<ends, crashes>>
      BY <1>4 DEF LoopHead, Record
    <2> QED BY <1>o, <2>1, <2>2 DEF Serves
  <1>5. CASE BudgetExhausted \/ ModelCancelled \/ ModelFails
    BY <1>5, <1>f DEF BudgetExhausted, ModelCancelled, ModelFails, Serves
  <1>6. CASE PrepareRequest
    <2>1. CASE Goto("model") /\ UNCHANGED ends /\ Silent
      <3>1. turn'.phase = "model" /\ turn.phase = "prepare"
        BY <1>0, <1>6, <2>1 DEF Goto, Turn, PrepareRequest
      <3> QED BY <1>6, <1>o, <2>1, <3>1 DEF PrepareRequest, Serves
    <2> QED BY <1>6, <1>f, <2>1 DEF PrepareRequest, Serves
  <1>7. ASSUME NEW n \in 0..MaxBatch, ModelAnswers(n) PROVE Kind
    <2> PICK c : c = [i \in 1..n |-> IssuedCalls + i]
      OBVIOUS
    <2>1. /\ turn' = [turn EXCEPT !.phase = IF n = 0 THEN "final" ELSE "serve",
                                  !.calls = c, !.index = 1]
          /\ turn.phase = "model" /\ msgs' = Append(msgs, Assistant(c)) /\ UNCHANGED crashes
          /\ ends' = ends \o [i \in 1..n |-> 0]
      BY <1>7 DEF ModelAnswers, Record
    <2>2. /\ turn'.phase = IF n = 0 THEN "final" ELSE "serve"
          /\ turn'.calls = c /\ turn'.index = 1
      BY <1>0, <2>1 DEF Turn
    <2>3. n # 0 => Pending' = 1
      BY <2>2 DEF Pending
    <2>4. Issues(n)
      BY <2>1, <2>2, <2>3 DEF Issues, Serving, Serves
    <2> QED BY <2>4 DEF Kind
  <1>8. CASE FinalAnswer
    <2>1. CASE Goto("stop") /\ Silent /\ Quiet
      <3>1. turn'.phase = "stop" /\ turn.phase = "final"
        BY <1>0, <1>8, <2>1 DEF Goto, Turn, FinalAnswer
      <3> QED BY <1>8, <1>o, <2>1, <3>1 DEF FinalAnswer, Serves
    <2> QED BY <1>8, <1>f, <2>1 DEF FinalAnswer, Serves
  <1>9. CASE StopHook
    <2>1. CASE Record(User) /\ Quiet
               /\ turn' = [turn EXCEPT !.phase = "head", !.stops = @ + 1, !.iteration = @ + 1]
      <3>1. turn'.phase = "head" /\ turn.phase = "stop"
        BY <1>0, <1>9, <2>1 DEF Turn, StopHook
      <3> QED BY <1>9, <1>o, <2>1, <3>1 DEF StopHook, Serves, Record
    <2> QED BY <1>9, <1>f, <2>1 DEF StopHook, Serves
  <1>10. CASE RejectEarly \/ Denied
    <2>1. Answer /\ NextCall /\ InBatch /\ crashes' = crashes
          /\ turn.phase \in {"serve", "authorizing"}
      BY <1>10, <1>b DEF RejectEarly, Denied
    <2> QED BY <1>n, <1>t, <2>1 DEF Serves
  <1>11. CASE ToolStart \/ ToolRuns
    <2>1. /\ turn'.phase \in {"authorizing", "running"} /\ turn'.calls = turn.calls
          /\ turn'.index = turn.index /\ turn.phase \in {"serve", "authorizing"}
          /\ msgs' = msgs /\ UNCHANGED <<ends, crashes>>
      BY <1>0, <1>11 DEF ToolStart, ToolRuns, Goto, Turn
    <2>2. Pending' = Pending
      BY <2>1 DEF Pending
    <2> QED BY <1>i, <2>1, <2>2 DEF Serves
  <1>12. CASE AuthorizationError \/ CallCancelled \/ ApprovalCancels \/ ToolFails
    <2>1. turn.phase \in {"serve", "authorizing", "running"} /\ Same
          /\ \E r \in {"failed", "cancelled"} : Unwind(turn.index, r)
      BY <1>12 DEF AuthorizationError, CallCancelled, ApprovalCancels, ToolFails
    <2>2. Pending = turn.index
      BY <2>1 DEF Pending
    <2> QED BY <1>0, <1>u, <2>1, <2>2 DEF Serves
  <1>13. CASE StaleReceipt
    <2>1. CASE turn.restarts < MaxRestarts
      <3> PICK k : k = turn.restarts + 1
        OBVIOUS
      <3>1. turn' = [turn EXCEPT !.restarts = k] /\ turn.phase = "authorizing"
            /\ msgs' = msgs /\ UNCHANGED <<ends, crashes>>
        BY <1>13, <2>1 DEF StaleReceipt
      <3>2. turn'.phase = turn.phase /\ turn'.calls = turn.calls /\ turn'.index = turn.index
        BY <1>0, <3>1 DEF Turn
      <3>3. Pending' = Pending
        BY <3>2 DEF Pending
      <3> QED BY <1>i, <3>1, <3>2, <3>3 DEF Serves
    <2>2. CASE ~(turn.restarts < MaxRestarts)
      <3>1. Answer /\ NextCall /\ InBatch /\ crashes' = crashes /\ turn.phase = "authorizing"
        BY <1>13, <1>b, <2>2 DEF StaleReceipt
      <3> QED BY <1>n, <1>t, <3>1 DEF Serves
    <2> QED BY <2>1, <2>2
  <1>14. ASSUME NEW plan \in BOOLEAN, ToolCompletes(plan) PROVE Kind
    <2> PICK k : k = IF Hooks THEN turn.index ELSE turn.index + 1
      OBVIOUS
    <2> PICK b : b = (turn.planMoved \/ plan)
      OBVIOUS
    <2> PICK p : p = IF Hooks THEN "post" ELSE "serve"
      OBVIOUS
    <2>1. turn' = [turn EXCEPT !.phase = p, !.index = k, !.restarts = 0, !.planMoved = b]
      BY <1>14 DEF ToolCompletes
    <2>2. turn'.phase = p /\ turn'.index = k /\ turn'.calls = turn.calls
      BY <1>0, <2>1 DEF Turn
    <2>3. Pending' = turn.index + 1
      BY <2>2 DEF Pending
    <2>4. InBatch /\ Answer /\ turn.phase = "running" /\ crashes' = crashes
      BY <1>14, <1>b DEF ToolCompletes
    <2> QED BY <1>t, <2>2, <2>3, <2>4 DEF Serves
  <1>15. CASE PostHook
    <2>1. turn.phase = "post" /\ Pending = turn.index + 1 /\ turn.index + 1 \in Nat
      BY <1>0, <1>15 DEF PostHook, Pending
    <2>2. CASE turn' = [turn EXCEPT !.phase = "serve", !.index = @ + 1, !.feedback = @ + 1]
               /\ Silent /\ Quiet
      <3> PICK k, g : k = turn.index + 1 /\ g = turn.feedback + 1
        OBVIOUS
      <3>1. turn' = [turn EXCEPT !.phase = "serve", !.index = k, !.feedback = g]
        BY <2>2
      <3>2. turn'.phase = "serve" /\ turn'.index = k /\ turn'.calls = turn.calls
        BY <1>0, <3>1 DEF Turn
      <3>3. Pending' = Pending
        BY <2>1, <3>2 DEF Pending
      <3> QED BY <1>15, <1>i, <2>1, <2>2, <3>2, <3>3 DEF PostHook, Serves
    <2>3. CASE NextCall /\ Silent /\ Quiet
      BY <1>15, <1>i, <1>n, <2>1, <2>3 DEF PostHook, Serves
    <2>4. CASE Unwind(turn.index + 1, "cancelled")
      BY <1>15, <1>u, <2>1, <2>4 DEF PostHook, Serves
    <2> QED BY <1>15, <2>2, <2>3, <2>4 DEF PostHook
  <1>l. ASSUME turn.phase \in {"serve", "unwind"}, ~InBatch
        PROVE  Pending > Len(turn.calls)
    BY <1>0, <1>l DEF Pending, InBatch
  <1>16. CASE FlushFeedback
    <2> PICK g : g = turn.feedback - 1
      OBVIOUS
    <2>1. turn' = [turn EXCEPT !.feedback = g] /\ turn.phase = "serve" /\ ~InBatch
          /\ msgs' = Append(msgs, User) /\ UNCHANGED <<ends, crashes>>
      BY <1>16 DEF FlushFeedback, Record
    <2>2. turn'.phase = "serve" /\ turn'.calls = turn.calls /\ turn'.index = turn.index
      BY <1>0, <2>1 DEF Turn
    <2>3. Pending' = Pending
      BY <2>1, <2>2 DEF Pending
    <2> QED BY <1>l, <2>1, <2>2, <2>3 DEF Kind, AsideInside, Kept, Serving, Serves
  <1>17. CASE BatchDone
    <2>1. turn'.phase = "head" /\ turn.phase = "serve" /\ ~InBatch
          /\ msgs' = msgs /\ UNCHANGED <<ends, crashes>>
      BY <1>0, <1>17 DEF BatchDone, Turn
    <2> QED BY <1>l, <2>1 DEF Kind, Leaves, Kept, Serving, Serves
  <1>18. CASE PairUnpaired
    <2> PICK k : k = turn.index + 1
      OBVIOUS
    <2>1. turn' = [turn EXCEPT !.index = k] /\ turn.phase = "unwind" /\ InBatch
          /\ Answer /\ crashes' = crashes
      BY <1>18 DEF PairUnpaired
    <2>2. turn'.phase = "unwind" /\ turn'.index = k /\ turn'.calls = turn.calls
      BY <1>0, <2>1 DEF Turn
    <2>3. Pending' = turn.index + 1
      BY <2>2 DEF Pending
    <2> QED BY <1>t, <2>1, <2>2, <2>3 DEF Serves
  <1>19. CASE Unwound
    <2>1. turn'.phase = "idle" /\ turn.phase = "unwind" /\ ~InBatch
          /\ msgs' = msgs /\ UNCHANGED <<ends, crashes>>
      BY <1>0, <1>19 DEF Unwound, Finish, Turn
    <2> QED BY <1>l, <2>1 DEF Kind, Leaves, Kept, Serving, Serves
  <1>20. CASE Cancel
    <2>1. turn' = turn /\ msgs' = msgs /\ UNCHANGED <<ends, crashes>>
      BY <1>20 DEF Cancel
    <2>2. Pending' = Pending
      BY <2>1 DEF Pending
    <2> QED BY <1>i, <1>o, <2>1, <2>2
  <1>21. CASE Crash
    <2>1. turn'.phase = "idle" /\ crashes' = crashes + 1
          /\ msgs' = SubSeq(msgs, 1, durable) /\ ends' = ends
      BY <1>21 DEF Crash, NewTurn
    <2> QED BY <2>1 DEF Kind, Restarts, Serving, Serves
  <1> QED BY <1>1, <1>2, <1>3, <1>4, <1>5, <1>6, <1>7, <1>8, <1>9, <1>10, <1>11, <1>12, <1>13,
             <1>14, <1>15, <1>16, <1>17, <1>18, <1>19, <1>20, <1>21
          DEF Next, Runner, Environment

-----------------------------------------------------------------------------
(* The invariant gives the property.                                       *)

(* A new session has issued nothing.                                       *)
LEMMA InitPaired == Init => PairInv
  <1> SUFFICES ASSUME Init PROVE PairInv
    OBVIOUS
  <1>1. msgs = <<>> /\ ends = <<>> /\ turn.phase = "idle" /\ crashes = 0 /\ DOMAIN <<>> = {}
    BY DEF Init, NewTurn
  <1>2. IssuedCalls = 0 /\ ~Serving
    BY <1>1, EmptySeq DEF IssuedCalls, Serving, Serves
  <1>3. Issued /\ Placed(msgs) /\ Batch
    BY <1>1, <1>2 DEF Issued, Placed, Batch
  <1>4. Gaps(msgs) = {} /\ OldGaps(msgs) = {}
    BY <1>1 DEF Gaps, OldGaps
  <1>5. Short
    <2>1. Cardinality(Gaps(msgs)) = 0 /\ Cardinality(OldGaps(msgs)) = 0
      BY <1>4, FS_EmptySet
    <2>2. 0 <= crashes
      BY <1>1
    <2> QED BY <2>1, <2>2 DEF Short
  <1>6. Counted
    BY <1>2 DEF Counted
  <1> QED BY <1>3, <1>5, <1>6 DEF PairInv

(* The invariant is inductive.                                             *)
LEMMA StepPaired == IInv /\ PairInv /\ [Next]_vars => PairInv'
  <1> SUFFICES ASSUME IInv, PairInv, [Next]_vars PROVE PairInv'
    OBVIOUS
  <1>1. CASE Next
    <2>1. Kind
      BY <1>1, EveryStepHasAKind
    <2> QED BY <2>1, AsideOutsideKeeps, AsideInsideKeeps, AnswersKeeps, IssuesKeeps,
               LeavesKeeps, RestartsKeeps DEF Kind
  <1>2. CASE UNCHANGED vars
    BY <1>2 DEF vars, PairInv, Issued, Placed, Batch, Progress, LastRequest, Short, OldGaps,
                Gaps, Answered, Counted, ResultsOf, IssuedCalls, Serving, Pending, At
  <1> QED BY <1>1, <1>2

(* It holds in every reachable state.                                      *)
LEMMA PairInvariant == Spec => [](IInv /\ PairInv)
  <1>1. IInv /\ PairInv /\ [Next]_vars => IInv' /\ PairInv'
    BY StepInvariant, StepPaired
  <1> QED BY <1>1, InitInvariant, InitPaired, PTL DEF Spec

(* Every result has a request: no orphan.                                  *)
LEMMA NoOrphans ==
    ASSUME NEW s, Placed(s)
    PROVE  Orphans(s) = {}
  BY DEF Placed, Orphans

(* RequestsPaired, whatever the number of crashes.                         *)
THEOREM RequestsAlwaysPaired == Spec => []RequestsPaired
  <1>1. ASSUME IInv, PairInv PROVE RequestsPaired
    <2>1. At("model") => ~Serving
      BY DEF At, Serving, Serves
    <2> QED BY <1>1, <2>1, NoOrphans DEF RequestsPaired, Paired, PairInv, Short
  <1> QED BY <1>1, PairInvariant, PTL

(* ForkPaired: what trim_unpaired_tail keeps of a batch in progress is the *)
(* transcript before its request, where no batch is being served.          *)
THEOREM ForksAlwaysPaired == Spec => []ForkPaired
  <1>1. ASSUME IInv, PairInv, At("serve"), InBatch PROVE Paired(TrimUnpairedTail(msgs))
    <2> DEFINE requests == {p \in DOMAIN msgs : msgs[p].kind = "assistant"}
               last == CHOOSE p \in requests : \A q \in requests : q <= p
    <2>0. /\ msgs \in Seq(Message) /\ Len(msgs) \in Nat /\ DOMAIN msgs = 1..Len(msgs)
          /\ crashes \in Nat /\ Placed(msgs) /\ Short
      BY <1>1, LenProperties DEF IInv, TypeOK, PairInv
    <2>1. PICK p \in DOMAIN msgs : Progress(p)
      BY <1>1 DEF PairInv, Batch, Serving, Serves, At
    <2>2. p \in requests /\ \A q \in requests : q <= p
      BY <2>1 DEF Progress, LastRequest
    <2>3. last \in requests /\ \A q \in requests : q <= last
      BY <2>2
    <2>4. last = p
      <3> HIDE DEF last
      <3>1. last \in Nat /\ p \in Nat /\ last <= p /\ p <= last
        BY <2>0, <2>2, <2>3
      <3> QED BY <3>1
    <2>5. msgs[p].calls # <<>>
      <3>1. turn.index \in DOMAIN turn.calls
        BY <1>1, CallFacts
      <3>2. turn.calls # <<>>
        BY <3>1
      <3> QED BY <2>1, <3>2 DEF Progress
    <2>6. TrimUnpairedTail(msgs) = SubSeq(msgs, 1, p - 1)
      <3>1. requests # {} /\ msgs[last].calls # <<>>
        BY <2>2, <2>4, <2>5
      <3>2. TrimUnpairedTail(msgs) = SubSeq(msgs, 1, last - 1)
        BY <3>1 DEF TrimUnpairedTail
      <3> QED BY <2>4, <3>2
    <2>7. p - 1 \in 0..Len(msgs) /\ p <= (p - 1) + 1 /\ msgs[p].kind = "assistant"
      BY <2>0, <2>2
    <2>8. Gaps(SubSeq(msgs, 1, p - 1)) \subseteq OldGaps(msgs)
      <3> PICK d : d = p - 1
        OBVIOUS
      <3> SUFFICES ASSUME NEW g \in Gaps(SubSeq(msgs, 1, d)) PROVE g \in OldGaps(msgs)
        OBVIOUS
      <3>1. d \in 0..Len(msgs) /\ p <= d + 1
        BY <2>7
      <3>2. g \in 1..d
        BY <2>0, <3>1, Prefixed DEF Gaps
      <3>3. g < p
        BY <2>0, <3>1, <3>2
      <3>4. g \in Gaps(msgs) /\ ~LastRequest(msgs, g)
        BY <2>0, <2>7, <3>1, <3>3, GapsPrefix
      <3> QED BY <3>4 DEF OldGaps
    <2>9. Cardinality(Gaps(SubSeq(msgs, 1, p - 1))) <= crashes
      BY <2>0, <2>8, GapsFinite, FewerGaps DEF Short
    <2>10. Placed(SubSeq(msgs, 1, p - 1))
      BY <2>0, <2>7, PlacedPrefix
    <2> QED BY <2>6, <2>9, <2>10, NoOrphans DEF Paired
  <1>2. IInv /\ PairInv => ForkPaired
    BY <1>1 DEF ForkPaired
  <1> QED BY <1>2, PairInvariant, PTL

(* AnsweredOnce, on every path out of every batch.                         *)
THEOREM AlwaysAnsweredOnce == Spec => []AnsweredOnce
  <1>1. ASSUME IInv, PairInv PROVE AnsweredOnce
    <2>1. /\ TypeOK /\ Placed(msgs) /\ Issued /\ Counted
          /\ Len(msgs) \in Nat /\ DOMAIN msgs = 1..Len(msgs)
      BY <1>1, LenProperties DEF IInv, TypeOK, PairInv
    <2>2. ASSUME NEW id PROVE ResultsOf(id) = {} \/ \E r : ResultsOf(id) = {r}
      <3> SUFFICES ASSUME NEW r \in ResultsOf(id), NEW x \in ResultsOf(id) PROVE r = x
        OBVIOUS
      <3>1. r \in 1..Len(msgs) /\ x \in 1..Len(msgs)
        BY <2>1 DEF ResultsOf
      <3>2. PICK p \in DOMAIN msgs : /\ p < r /\ msgs[p].kind = "assistant"
                                     /\ r - p \in DOMAIN msgs[p].calls
                                     /\ msgs[p].calls[r - p] = id
        BY <2>1, OwnedResults
      <3>3. PICK q \in DOMAIN msgs : /\ q < x /\ msgs[q].kind = "assistant"
                                     /\ x - q \in DOMAIN msgs[q].calls
                                     /\ msgs[q].calls[x - q] = id
        BY <2>1, OwnedResults
      <3>4. p = q /\ r - p = x - q
        BY <2>1, <3>2, <3>3 DEF Issued
      <3> QED BY <2>1, <3>1, <3>4
    <2>3. ASSUME NEW id
          PROVE  Cardinality(ResultsOf(id)) = IF ResultsOf(id) = {} THEN 0 ELSE 1
      BY <2>2, FS_EmptySet, FS_Singleton
    <2>4. \A id \in 1..IssuedCalls : Cardinality(ResultsOf(id)) <= 1
      <3>1. ASSUME NEW id PROVE Cardinality(ResultsOf(id)) \in {0, 1}
        BY <2>3
      <3> QED BY <3>1
    <2>5. crashes = 0 => \A id \in 1..IssuedCalls : Cardinality(ResultsOf(id)) = ends[id]
      BY <2>1, <2>3 DEF Counted
    <2>6. crashes = 0 /\ At("idle") => \A id \in 1..IssuedCalls : ends[id] = 1
      BY <2>1 DEF Counted, At, Serving, Serves
    <2> QED BY <2>4, <2>5, <2>6 DEF AnsweredOnce
  <1> QED BY <1>1, PairInvariant, PTL

(* CallsArePaired: no provider and no subagent is ever given a call        *)
(* without its result, and no call is answered twice, whatever ended the   *)
(* turns before (execute_tool_calls, pair_unpaired, trim_unpaired_tail).   *)
THEOREM CallsAreAlwaysPaired == Spec => []CallsArePaired
  <1>1. RequestsPaired /\ ForkPaired /\ AnsweredOnce => CallsArePaired
    BY DEF CallsArePaired
  <1> QED BY <1>1, RequestsAlwaysPaired, ForksAlwaysPaired, AlwaysAnsweredOnce, PTL

===============================================================================
