-------------------------- MODULE Conversation_proofs --------------------------
(***************************************************************************)
(* Proofs about what carries a conversation.  Frontend: whatever order the  *)
(* select loop serves its sources in, a turn that waits for an answer can   *)
(* get it, and what it leaves on the screen is its own, complete and true.  *)
(* Summary: a summary's references and range survive the summaries of       *)
(* summaries.  Viewport: what is drawn fits the frame and shows what is     *)
(* there.  Settings: a runner is what the layers of the configuration say.  *)
(* Delegation: a delegation only narrows, and the turn is billed for it.    *)
(***************************************************************************)
EXTENDS Frontend, Summary, Viewport, Settings, Delegation, Counting, SequenceTheorems

-----------------------------------------------------------------------------
(* Frontend.                                                                *)

\* A call as the screen and the future name it.
Calls == [call : Nat, id : RowIds \cup {"none"}]
EventKinds == {"model_start", "delta", "assistant", "compaction_started", "compaction_done",
               "tool_start", "tool_end", "refused"}
Events == [kind : EventKinds, id : RowIds \cup {"none"}, call : Nat]
Rows == [id : RowIds \cup {"none"}, call : Nat, by : {Unstarted} \cup Events]

ScreenType(s) ==
    /\ s = [status |-> s.status, preview |-> s.preview, rows |-> s.rows]
    /\ s.preview \in BOOLEAN /\ s.rows \in Seq(Rows)

UiType ==
    /\ ScreenType(screen) /\ eventQueue \in Seq(Events) /\ askQueue \in Seq(Nat) /\ modal \in Nat
    /\ job = [st |-> job.st, open |-> job.open, events |-> job.events, stop |-> job.stop] /\ job.open \in Calls
    /\ tally = [runs |-> tally.runs, calls |-> tally.calls, asks |-> tally.asks, keys |-> tally.keys]
    /\ tally.calls \in Nat /\ tally.asks \in Nat
    /\ footer = [mode |-> footer.mode, model |-> footer.model, startup |-> footer.startup]
    /\ live = [session |-> live.session, model |-> live.model]
    /\ live.session = [id |-> live.session.id, mode |-> live.session.mode]

\* A row that is over has its own call's outcome, or a refused call's; only the
\* last row may still be open.
Settled(row) == row.by # Unstarted /\ (row.by.call # row.call => row.by.kind = "refused")
RowsInOrder(rows) ==
    \A i \in 1..Len(rows) : Settled(rows[i]) \/ (i = Len(rows) /\ rows[i].by = Unstarted /\ rows[i].call # 0)
OpenRow(rows) ==
    IF rows # <<>> /\ rows[Len(rows)].by = Unstarted
    THEN [call |-> rows[Len(rows)].call, id |-> rows[Len(rows)].id] ELSE NoRow

\* What an event makes of the call that is open on the screen.
Carries(open, e, then) ==
    \/ e.kind = "tool_start" /\ open = NoRow /\ e.call # 0 /\ then = [call |-> e.call, id |-> e.id]
    \/ e.kind = "tool_end" /\ e.call # 0 /\ open = [call |-> e.call, id |-> e.id] /\ then = NoRow
    \/ e.kind = "refused" /\ open = NoRow /\ then = NoRow
    \/ e.kind \notin {"tool_start", "tool_end", "refused"} /\ then = open

\* The events on their way lead from the one open call to the other.
LeadsBy(f, open, queue, then) ==
    /\ f \in [0..Len(queue) -> Calls] /\ f[0] = open /\ f[Len(queue)] = then
    /\ \A k \in 1..Len(queue) : Carries(f[k - 1], queue[k], f[k])
Leads(open, queue, then) == \E f : LeadsBy(f, open, queue, then)

\* What is on the screen and on its way to it ends where the future is.
ScreenFollows ==
    place # "quit" => RowsInOrder(screen.rows) /\ Leads(OpenRow(screen.rows), eventQueue, job.open)

\* Requests are shown in the order they were made in.
AsksInOrder ==
    /\ modal <= tally.asks
    /\ \A i \in 1..Len(askQueue) : modal < askQueue[i] /\ askQueue[i] <= tally.asks
    /\ \A i, j \in 1..Len(askQueue) : i < j => askQueue[i] < askQueue[j]

BetweenRuns ==
    /\ place \in {"start", "idle", "picker"} =>
          eventQueue = <<>> /\ screen.status = "idle" /\ ~screen.preview /\ job.open = NoRow
    /\ job.st = "done" => job.open = NoRow
    /\ job.open = NoRow \/ job.open.call # 0
    /\ place = "start" => footer.mode = footer.startup /\ live.session.mode = footer.mode /\ live.model = footer.model

UiInv == UiType /\ ScreenFollows /\ AsksInOrder /\ BetweenRuns /\ AskIsReachable /\ FooterIsTrue

(* NoRow is a call, and none that has begun.                                *)
LEMMA NoRowIsCall == NoRow \in Calls /\ NoRow = [call |-> 0, id |-> "none"]
  BY DEF NoRow, Calls

(* One more event.                                                          *)
LEMMA LeadsAppend ==
    ASSUME NEW open, NEW queue \in Seq(Events), NEW then, NEW e \in Events, NEW last \in Calls,
           Leads(open, queue, then), Carries(then, e, last)
    PROVE  Leads(open, Append(queue, e), last)
  <1>1. PICK f : LeadsBy(f, open, queue, then)
    BY DEF Leads
  <1>2. PICK n : n = Len(queue)
    OBVIOUS
  <1>3. n \in Nat
    BY <1>2, LenProperties
  <1>4. PICK q : q = Append(queue, e)
    OBVIOUS
  <1>5. /\ q \in Seq(Events) /\ Len(q) = n + 1 /\ q[n + 1] = e
        /\ \A k \in 1..n : q[k] = queue[k]
    BY <1>2, <1>4, AppendProperties
  <1>6. f \in [0..n -> Calls] /\ f[0] = open /\ f[n] = then /\ \A k \in 1..n : Carries(f[k - 1], queue[k], f[k])
    BY <1>1, <1>2 DEF LeadsBy
  <1>7. PICK g : g = [k \in 0..(n + 1) |-> IF k = n + 1 THEN last ELSE f[k]]
    OBVIOUS
  <1>8. g \in [0..(n + 1) -> Calls]
    BY <1>3, <1>6, <1>7
  <1>9. g[0] = open /\ g[n + 1] = last
    BY <1>3, <1>6, <1>7
  <1>10. ASSUME NEW k \in 1..(n + 1) PROVE Carries(g[k - 1], q[k], g[k])
    <2>1. CASE k = n + 1
      <3>1. g[k - 1] = then /\ q[k] = e /\ g[k] = last
        BY <1>3, <1>5, <1>6, <1>7, <2>1
      <3> QED BY <3>1
    <2>2. CASE k \in 1..n
      <3>1. g[k - 1] = f[k - 1] /\ q[k] = queue[k] /\ g[k] = f[k]
        BY <1>3, <1>5, <1>7, <2>2
      <3> QED BY <1>6, <2>2, <3>1
    <2> QED BY <1>3, <2>1, <2>2
  <1>11. LeadsBy(g, open, q, last)
    BY <1>5, <1>8, <1>9, <1>10 DEF LeadsBy
  <1> QED BY <1>4, <1>11 DEF Leads

(* The next event.                                                          *)
LEMMA LeadsTail ==
    ASSUME NEW open, NEW queue \in Seq(Events), queue # <<>>, NEW then, Leads(open, queue, then)
    PROVE  \E next \in Calls : Carries(open, Head(queue), next) /\ Leads(next, Tail(queue), then)
  <1>1. PICK f : LeadsBy(f, open, queue, then)
    BY DEF Leads
  <1>2. PICK n, q : n = Len(queue) /\ q = Tail(queue)
    OBVIOUS
  <1>3. n \in Nat /\ n # 0 /\ q \in Seq(Events) /\ Len(q) = n - 1 /\ \A k \in 1..(n - 1) : q[k] = queue[k + 1]
    BY <1>2, HeadTailProperties, EmptySeq, LenProperties
  <1>4. f \in [0..n -> Calls] /\ f[0] = open /\ f[n] = then /\ \A k \in 1..n : Carries(f[k - 1], queue[k], f[k])
    BY <1>1, <1>2 DEF LeadsBy
  <1>5. Head(queue) = queue[1]
    BY HeadTailProperties
  <1>6. Carries(open, Head(queue), f[1]) /\ f[1] \in Calls
    <2>1. 1 \in 1..n /\ 1 - 1 = 0 /\ 1 \in 0..n
      BY <1>3
    <2>2. Carries(f[1 - 1], queue[1], f[1])
      BY <1>4, <2>1
    <2> QED BY <1>4, <1>5, <2>1, <2>2
  <1>7. PICK g : g = [k \in 0..(n - 1) |-> f[k + 1]]
    OBVIOUS
  <1>8. g \in [0..(n - 1) -> Calls] /\ g[0] = f[1] /\ g[n - 1] = then
    BY <1>3, <1>4, <1>7
  <1>9. ASSUME NEW k \in 1..(n - 1) PROVE Carries(g[k - 1], q[k], g[k])
    <2>1. k + 1 \in 1..n /\ (k + 1) - 1 = k
      BY <1>3
    <2>2. Carries(f[(k + 1) - 1], queue[k + 1], f[k + 1])
      BY <1>4, <2>1
    <2>3. g[k - 1] = f[k] /\ g[k] = f[k + 1] /\ q[k] = queue[k + 1]
      BY <1>3, <1>7
    <2> QED BY <2>1, <2>2, <2>3
  <1>10. LeadsBy(g, f[1], q, then)
    BY <1>3, <1>8, <1>9 DEF LeadsBy
  <1> QED BY <1>2, <1>6, <1>10 DEF Leads

(* No event leads nowhere else.                                             *)
LEMMA LeadsNowhere ==
    ASSUME NEW open \in Calls, NEW then
    PROVE  Leads(open, <<>>, then) <=> open = then
  <1>1. Len(<<>>) = 0
    BY EmptySeq
  <1>2. ASSUME Leads(open, <<>>, then) PROVE open = then
    <2>1. PICK f : LeadsBy(f, open, <<>>, then)
      BY <1>2 DEF Leads
    <2> QED BY <1>1, <2>1 DEF LeadsBy
  <1>3. ASSUME open = then PROVE Leads(open, <<>>, then)
    <2>1. PICK f : f = [k \in 0..0 |-> open]
      OBVIOUS
    <2>2. f \in [0..0 -> Calls] /\ f[0] = open /\ \A k \in 1..0 : FALSE
      BY <2>1
    <2>3. LeadsBy(f, open, <<>>, then)
      BY <1>1, <1>3, <2>2 DEF LeadsBy
    <2> QED BY <2>3 DEF Leads
  <1> QED BY <1>2, <1>3

(* The rows, one more of them.                                              *)
LEMMA RowAppended ==
    ASSUME NEW rows \in Seq(Rows), RowsInOrder(rows), OpenRow(rows) = NoRow, NEW row \in Rows,
           Settled(row) \/ (row.by = Unstarted /\ row.call # 0)
    PROVE  /\ Append(rows, row) \in Seq(Rows) /\ RowsInOrder(Append(rows, row))
           /\ OpenRow(Append(rows, row)) = IF row.by = Unstarted THEN [call |-> row.call, id |-> row.id] ELSE NoRow
  <1>1. PICK n, rs : n = Len(rows) /\ rs = Append(rows, row)
    OBVIOUS
  <1>2. n \in Nat /\ rs \in Seq(Rows) /\ Len(rs) = n + 1 /\ rs[n + 1] = row /\ \A k \in 1..n : rs[k] = rows[k]
    BY <1>1, AppendProperties, LenProperties
  <1>3. \A i \in 1..n : Settled(rows[i])
    <2> SUFFICES ASSUME NEW i \in 1..n PROVE Settled(rows[i])
      OBVIOUS
    <2>1. Settled(rows[i]) \/ (i = n /\ rows[i].by = Unstarted /\ rows[i].call # 0)
      BY <1>1 DEF RowsInOrder
    <2>2. ASSUME i = n, rows[i].by = Unstarted, rows[i].call # 0 PROVE FALSE
      <3>1. rows # <<>>
        BY <1>1, <2>2, EmptySeq
      <3>2. OpenRow(rows) = [call |-> rows[i].call, id |-> rows[i].id]
        BY <1>1, <2>2, <3>1 DEF OpenRow
      <3> QED BY <2>2, <3>2 DEF NoRow
    <2> QED BY <2>1, <2>2
  <1>4. RowsInOrder(rs)
    BY <1>2, <1>3 DEF RowsInOrder
  <1>5. rs # <<>>
    BY <1>2, EmptySeq
  <1>6. OpenRow(rs) = IF row.by = Unstarted THEN [call |-> row.call, id |-> row.id] ELSE NoRow
    BY <1>2, <1>5 DEF OpenRow
  <1> QED BY <1>1, <1>2, <1>4, <1>6

(* An event that ends a call settles the newest row with its id, and that   *)
(* row was open for this very call.                                         *)
LEMMA RowClosed ==
    ASSUME NEW rows \in Seq(Rows), RowsInOrder(rows), NEW e \in Events,
           e.kind = "tool_end" \/ e.kind = "refused",
           Carries(OpenRow(rows), e, NoRow)
    PROVE  /\ ClosedRows(rows, e) \in Seq(Rows) /\ RowsInOrder(ClosedRows(rows, e))
           /\ OpenRow(ClosedRows(rows, e)) = NoRow
  <1>1. PICK n : n = Len(rows)
    OBVIOUS
  <1>2. n \in Nat /\ rows \in [1..n -> Rows]
    BY <1>1, LenProperties
  <1>3. e # Unstarted
    <2>1. Unstarted.kind = "none"
      BY DEF Unstarted
    <2> QED BY <2>1
  <1>4. CASE Indices(rows, e.id) = {}
    <2>1. PICK row : row = Row(e, e)
      OBVIOUS
    <2>2. row = [id |-> e.id, call |-> e.call, by |-> e]
      BY <2>1 DEF Row
    <2>3. row \in Rows /\ Settled(row) /\ row.by # Unstarted
      BY <1>3, <2>2 DEF Rows, Events, Settled
    <2>4. OpenRow(rows) = NoRow
      <3>1. ASSUME rows # <<>>, rows[n].by = Unstarted, OpenRow(rows) = [call |-> e.call, id |-> e.id] PROVE FALSE
        <4>1. rows[n].id = e.id
          BY <1>1, <3>1 DEF OpenRow
        <4>2. n \in Indices(rows, e.id)
          BY <1>1, <1>2, <3>1, <4>1, EmptySeq DEF Indices
        <4> QED BY <1>4, <4>2
      <3>2. OpenRow(rows) = NoRow \/ (e.call # 0 /\ OpenRow(rows) = [call |-> e.call, id |-> e.id])
        BY DEF Carries
      <3>3. ~(rows # <<>> /\ rows[n].by = Unstarted) => OpenRow(rows) = NoRow
        BY <1>1 DEF OpenRow
      <3> QED BY <3>1, <3>2, <3>3
    <2>5. ClosedRows(rows, e) = Append(rows, row)
      BY <1>4, <2>1 DEF ClosedRows
    <2> QED BY <2>3, <2>4, <2>5, RowAppended
  <1>5. CASE Indices(rows, e.id) # {}
    <2>1. PICK k \in Indices(rows, e.id) : \A j \in Indices(rows, e.id) : j <= k
      <3>1. Indices(rows, e.id) \subseteq 1..n
        BY <1>1 DEF Indices
      <3>2. PICK least \in {n - i : i \in Indices(rows, e.id)} : \A m \in {n - i : i \in Indices(rows, e.id)} : least <= m
        <4>1. {n - i : i \in Indices(rows, e.id)} \in SUBSET Nat
          BY <1>2, <3>1
        <4>2. {n - i : i \in Indices(rows, e.id)} # {}
          BY <1>5
        <4> QED BY <4>1, <4>2, LeastElement
      <3>3. PICK i \in Indices(rows, e.id) : least = n - i
        OBVIOUS
      <3>4. ASSUME NEW j \in Indices(rows, e.id) PROVE j <= i
        <4>1. n - i <= n - j
          BY <3>2, <3>3
        <4> QED BY <1>2, <3>1, <4>1
      <3> QED BY <3>4
    <2>2. PICK top : top = NewestRow(rows, e.id)
      OBVIOUS
    <2>3. top \in Indices(rows, e.id) /\ \A j \in Indices(rows, e.id) : j <= top
      BY <2>1, <2>2 DEF NewestRow
    <2>4. top \in 1..n /\ rows[top].id = e.id
      BY <1>1, <2>3 DEF Indices
    <2>5. rows[top] \in Rows /\ rows[top] = [id |-> rows[top].id, call |-> rows[top].call, by |-> rows[top].by]
      BY <1>2, <2>4 DEF Rows
    <2>6. PICK row : row = [id |-> rows[top].id, call |-> rows[top].call, by |-> e]
      OBVIOUS
    <2>7. PICK rs : rs = ClosedRows(rows, e)
      OBVIOUS
    <2>8. rs = [rows EXCEPT ![top] = row]
      <3>1. rs = [rows EXCEPT ![top].by = e]
        BY <1>5, <2>2, <2>7 DEF ClosedRows
      <3>2. row = [rows[top] EXCEPT !.by = e]
        BY <2>5, <2>6
      <3> QED BY <3>1, <3>2
    <2>9. row \in Rows
      BY <2>5, <2>6 DEF Rows
    <2>10. rs \in [1..n -> Rows] /\ \A i \in 1..n : rs[i] = IF i = top THEN row ELSE rows[i]
      BY <1>2, <2>4, <2>8, <2>9
    <2>11. rs \in Seq(Rows) /\ Len(rs) = n
      BY <1>2, <2>10, SeqDef, LenProperties
    <2>12. OpenRow(rows) = NoRow \/ (n # 0 /\ rows[n].by = Unstarted /\ OpenRow(rows) = [call |-> rows[n].call, id |-> rows[n].id])
      BY <1>1, EmptySeq DEF OpenRow
    <2>13. CASE e.kind = "tool_end"
      <3>1. e.call # 0 /\ OpenRow(rows) = [call |-> e.call, id |-> e.id]
        BY <2>13 DEF Carries
      <3>2. OpenRow(rows).call # 0 /\ NoRow.call = 0
        BY <3>1 DEF NoRow
      <3>3. n # 0 /\ rows[n].call = e.call /\ rows[n].id = e.id
        BY <2>12, <3>1, <3>2
      <3>4. n \in Indices(rows, e.id)
        BY <1>1, <1>2, <3>3 DEF Indices
      <3>5. top = n
        BY <1>2, <2>3, <2>4, <3>4
      <3>6. Settled(row)
        BY <1>3, <2>6, <3>3, <3>5 DEF Settled
      <3>7. ASSUME NEW i \in 1..n PROVE Settled(rs[i])
        BY <1>1, <2>10, <3>5, <3>6 DEF RowsInOrder
      <3> QED BY <1>3, <2>6, <2>7, <2>10, <2>11, <3>3, <3>5, <3>7 DEF RowsInOrder, OpenRow
    <2>14. CASE e.kind = "refused"
      <3>1. OpenRow(rows) = NoRow
        BY <2>14 DEF Carries
      <3>2. Settled(row)
        BY <1>3, <2>6, <2>14 DEF Settled
      <3>3. ASSUME NEW i \in 1..n PROVE Settled(rows[i])
        <4>1. Settled(rows[i]) \/ (i = n /\ rows[i].by = Unstarted /\ rows[i].call # 0)
          BY <1>1 DEF RowsInOrder
        <4>2. ASSUME i = n, rows[i].by = Unstarted, rows[i].call # 0 PROVE FALSE
          <5>1. rows # <<>>
            BY <1>1, <4>2, EmptySeq
          <5>2. OpenRow(rows) = [call |-> rows[i].call, id |-> rows[i].id]
            BY <1>1, <4>2, <5>1 DEF OpenRow
          <5> QED BY <3>1, <4>2, <5>2 DEF NoRow
        <4> QED BY <4>1, <4>2
      <3>4. \A i \in 1..n : Settled(rs[i])
        BY <2>10, <3>2, <3>3
      <3>5. RowsInOrder(rs)
        BY <2>11, <3>4 DEF RowsInOrder
      <3>6. OpenRow(rs) = NoRow
        BY <2>11, <3>4, EmptySeq, <1>2 DEF OpenRow, Settled
      <3> QED BY <2>7, <2>11, <3>5, <3>6
    <2> QED BY <2>13, <2>14
  <1> QED BY <1>4, <1>5

RowsStand(s) == ScreenType(s) /\ RowsInOrder(s.rows)

(* An event drawn leaves the rows in order.                                 *)
LEMMA ApplyKeepsRows ==
    ASSUME NEW s, RowsStand(s), NEW e \in Events, NEW then, Carries(OpenRow(s.rows), e, then)
    PROVE  RowsStand(ApplyEvent(s, e)) /\ OpenRow(ApplyEvent(s, e).rows) = then
  <1>1. PICK rows, status, preview : rows = s.rows /\ status = s.status /\ preview = s.preview
    OBVIOUS
  <1>2. /\ s = [status |-> status, preview |-> preview, rows |-> rows] /\ preview \in BOOLEAN
        /\ rows \in Seq(Rows) /\ RowsInOrder(rows) /\ Carries(OpenRow(rows), e, then)
    BY <1>1 DEF RowsStand, ScreenType
  <1>3. PICK t : t = ApplyEvent(s, e)
    OBVIOUS
  <1>4. CASE e.kind \in {"model_start", "delta", "assistant", "compaction_started", "compaction_done"}
    <2>1. then = OpenRow(rows)
      BY <1>2, <1>4 DEF Carries
    <2>2. t = [status |-> t.status, preview |-> t.preview, rows |-> rows] /\ t.preview \in BOOLEAN /\ t.rows = rows
      <3>1. CASE e.kind = "model_start"
        <4>1. t = [s EXCEPT !.preview = FALSE, !.status = IF @ = "compacting" THEN "running" ELSE @]
          BY <1>3, <3>1 DEF ApplyEvent
        <4> QED BY <1>2, <4>1
      <3>2. CASE e.kind = "delta"
        <4>1. t = [s EXCEPT !.preview = TRUE]
          BY <1>3, <3>2 DEF ApplyEvent
        <4> QED BY <1>2, <4>1
      <3>3. CASE e.kind = "assistant"
        <4>1. t = [s EXCEPT !.preview = FALSE]
          BY <1>3, <3>3 DEF ApplyEvent
        <4> QED BY <1>2, <4>1
      <3>4. CASE e.kind = "compaction_started"
        <4>1. t = [s EXCEPT !.status = "compacting"]
          BY <1>3, <3>4 DEF ApplyEvent
        <4> QED BY <1>2, <4>1
      <3>5. CASE e.kind = "compaction_done"
        <4>1. t = [s EXCEPT !.status = "running"]
          BY <1>3, <3>5 DEF ApplyEvent
        <4> QED BY <1>2, <4>1
      <3> QED BY <1>4, <3>1, <3>2, <3>3, <3>4, <3>5
    <2> QED BY <1>2, <1>3, <2>1, <2>2 DEF RowsStand, ScreenType
  <1>5. CASE e.kind = "tool_start"
    <2>1. PICK row, rs : row = Row(e, Unstarted) /\ rs = Append(rows, row)
      OBVIOUS
    <2>2. row = [id |-> e.id, call |-> e.call, by |-> Unstarted]
      BY <2>1 DEF Row
    <2>3. e.call # 0 /\ OpenRow(rows) = NoRow /\ then = [call |-> e.call, id |-> e.id]
      BY <1>2, <1>5 DEF Carries
    <2>4. row \in Rows /\ row.by = Unstarted /\ row.call # 0 /\ row.call = e.call /\ row.id = e.id
      BY <2>2, <2>3 DEF Rows, Events
    <2>5. rs \in Seq(Rows) /\ RowsInOrder(rs) /\ OpenRow(rs) = then
      BY <1>2, <2>1, <2>3, <2>4, RowAppended
    <2>6. t = [s EXCEPT !.rows = rs]
      BY <1>1, <1>3, <1>5, <2>1 DEF ApplyEvent
    <2>7. t = [status |-> status, preview |-> preview, rows |-> rs]
      BY <1>2, <2>6
    <2> QED BY <1>2, <1>3, <2>5, <2>7 DEF RowsStand, ScreenType
  <1>6. CASE e.kind \in {"tool_end", "refused"}
    <2>1. PICK rs : rs = ClosedRows(rows, e)
      OBVIOUS
    <2>2. then = NoRow
      BY <1>2, <1>6 DEF Carries
    <2>3. rs \in Seq(Rows) /\ RowsInOrder(rs) /\ OpenRow(rs) = then
      BY <1>2, <1>6, <2>1, <2>2, RowClosed
    <2>4. t = [s EXCEPT !.rows = rs]
      BY <1>1, <1>3, <1>6, <2>1 DEF ApplyEvent
    <2>5. t = [status |-> status, preview |-> preview, rows |-> rs]
      BY <1>2, <2>4
    <2> QED BY <1>2, <1>3, <2>3, <2>5 DEF RowsStand, ScreenType
  <1>7. e.kind \in EventKinds
    BY DEF Events
  <1> QED BY <1>4, <1>5, <1>6, <1>7 DEF EventKinds

\* The screens on the way through the events that are waiting.
Drawn(g, s, n) == IF n = 0 THEN s ELSE ApplyEvent(g[n - 1], eventQueue[n])

(* The screens can be drawn one after the other.                            *)
LEMMA DrawsAll ==
    ASSUME NEW s, NEW n \in Nat
    PROVE  \E g : g = [k \in 0..n |-> Drawn(g, s, k)]
  <1> DEFINE Reached == {m \in Nat : \E g : g = [k \in 0..m |-> Drawn(g, s, k)]}
  <1>1. 0 \in Reached
    <2>1. PICK g : g = [k \in 0..0 |-> s]
      OBVIOUS
    <2>2. \A k \in 0..0 : Drawn(g, s, k) = s
      BY DEF Drawn
    <2>3. g = [k \in 0..0 |-> Drawn(g, s, k)]
      BY <2>1, <2>2
    <2> QED BY <2>3
  <1>2. ASSUME NEW m \in Nat, m \in Reached PROVE m + 1 \in Reached
    <2>1. PICK g : g = [k \in 0..m |-> Drawn(g, s, k)]
      BY <1>2
    <2>2. PICK last : last = Drawn(g, s, m + 1)
      OBVIOUS
    <2>3. PICK h : h = [k \in 0..(m + 1) |-> IF k <= m THEN g[k] ELSE last]
      OBVIOUS
    <2>4. ASSUME NEW k \in 0..(m + 1) PROVE h[k] = Drawn(h, s, k)
      <3>1. k # 0 => h[k - 1] = g[k - 1]
        BY <2>3
      <3>2. Drawn(h, s, k) = Drawn(g, s, k)
        BY <3>1 DEF Drawn
      <3>3. CASE k <= m
        <4>1. h[k] = g[k] /\ g[k] = Drawn(g, s, k)
          BY <2>1, <2>3, <3>3
        <4> QED BY <3>2, <4>1
      <3>4. CASE k = m + 1
        <4>1. h[k] = last
          BY <2>3, <3>4
        <4> QED BY <2>2, <3>2, <3>4, <4>1
      <3> QED BY <3>3, <3>4
    <2>5. h = [k \in 0..(m + 1) |-> h[k]]
      BY <2>3
    <2>6. h = [k \in 0..(m + 1) |-> Drawn(h, s, k)]
      BY <2>4, <2>5
    <2> QED BY <2>6
  <1>3. Nat \subseteq Reached
    <2> HIDE DEF Reached
    <2> QED BY <1>1, <1>2, InductionSet
  <1> QED BY <1>3

(* When all that waits is drawn, no row is open.                            *)
LEMMA DrainedStands ==
    ASSUME NEW s, RowsStand(s), eventQueue \in Seq(Events), NEW then, Leads(OpenRow(s.rows), eventQueue, then)
    PROVE  RowsStand(Drained(s)) /\ OpenRow(Drained(s).rows) = then
  <1>1. PICK n : n = Len(eventQueue)
    OBVIOUS
  <1>2. n \in Nat /\ \A k \in 1..n : eventQueue[k] \in Events
    BY <1>1, LenProperties, ElementOfSeq
  <1>3. \E g : g = [k \in 0..n |-> IF k = 0 THEN s ELSE ApplyEvent(g[k - 1], eventQueue[k])]
    BY <1>2, DrawsAll DEF Drawn
  <1>4. PICK w : w = CHOOSE g : g = [k \in 0..n |-> IF k = 0 THEN s ELSE ApplyEvent(g[k - 1], eventQueue[k])]
    OBVIOUS
  <1>5. w = [k \in 0..n |-> IF k = 0 THEN s ELSE ApplyEvent(w[k - 1], eventQueue[k])]
    BY <1>3, <1>4
  <1>6. Drained(s) = w[n]
    BY <1>1, <1>4 DEF Drained
  <1>7. PICK f : LeadsBy(f, OpenRow(s.rows), eventQueue, then)
    BY DEF Leads
  <1>8. f[0] = OpenRow(s.rows) /\ f[n] = then /\ \A k \in 1..n : Carries(f[k - 1], eventQueue[k], f[k])
    BY <1>1, <1>7 DEF LeadsBy
  <1> DEFINE Fine == {m \in Nat : m <= n => RowsStand(w[m]) /\ OpenRow(w[m].rows) = f[m]}
  <1>9. 0 \in Fine
    <2>1. w[0] = s
      BY <1>2, <1>5
    <2> QED BY <1>8, <2>1
  <1>10. ASSUME NEW m \in Nat, m \in Fine PROVE m + 1 \in Fine
    <2> SUFFICES ASSUME m + 1 <= n PROVE RowsStand(w[m + 1]) /\ OpenRow(w[m + 1].rows) = f[m + 1]
      OBVIOUS
    <2>1. m <= n /\ m + 1 \in 1..n /\ (m + 1) - 1 = m /\ m + 1 \in 0..n
      BY <1>2
    <2>2. RowsStand(w[m]) /\ OpenRow(w[m].rows) = f[m]
      BY <1>10, <2>1
    <2>3. w[m + 1] = ApplyEvent(w[m], eventQueue[m + 1])
      BY <1>5, <2>1
    <2>4. Carries(f[m], eventQueue[m + 1], f[m + 1])
      BY <1>8, <2>1
    <2>5. PICK e, here, there, before : e = eventQueue[m + 1] /\ here = f[m] /\ there = f[m + 1] /\ before = w[m]
      OBVIOUS
    <2>6. e \in Events /\ RowsStand(before) /\ Carries(OpenRow(before.rows), e, there)
      BY <1>2, <2>1, <2>2, <2>4, <2>5
    <2>7. RowsStand(ApplyEvent(before, e)) /\ OpenRow(ApplyEvent(before, e).rows) = there
      BY <2>6, ApplyKeepsRows
    <2> QED BY <2>3, <2>5, <2>7
  <1>11. Nat \subseteq Fine
    <2> HIDE DEF Fine
    <2> QED BY <1>9, <1>10, InductionSet
  <1> QED BY <1>2, <1>6, <1>8, <1>11

(* Before the first turn and between turns.                                 *)
LEMMA IdleKeepsInv ==
    ASSUME UiInv,
           \/ StartNew \/ StartResumed \/ StartFails
           \/ \E s \in StoredIds : \E n \in 1..Len(s) : StartNamed(SubSeq(s, 1, n))
           \/ CycleMode \/ SwitchModel \/ OpenPicker \/ PickSession \/ Quit
    PROVE  UiInv'
  <1> USE DEF UiInv
  <1>1. place \in {"start", "idle", "picker"} /\ place' \in {"idle", "picker", "quit"}
    BY DEF StartNew, StartResumed, StartFails, StartNamed, CycleMode, SwitchModel, OpenPicker, PickSession, Quit
  <1>2. UNCHANGED <<job, eventQueue, askQueue, modal>>
    BY DEF StartNew, StartResumed, StartFails, StartNamed, CycleMode, SwitchModel, OpenPicker, PickSession, Quit,
           Untouched, BetweenTurns
  <1>3. UNCHANGED screen \/ screen' = [screen EXCEPT !.rows = <<>>]
    BY DEF StartNew, StartResumed, StartFails, StartNamed, CycleMode, SwitchModel, OpenPicker, PickSession, Quit,
           Untouched, BetweenTurns
  <1>4. UNCHANGED tally \/ tally' = [tally EXCEPT !.keys = @ + 1]
    BY DEF StartNew, StartResumed, StartFails, StartNamed, CycleMode, SwitchModel, OpenPicker, PickSession, Quit,
           Untouched, BetweenTurns
  <1>5. ScreenType(screen)' /\ screen'.status = screen.status /\ screen'.preview = screen.preview
        /\ (screen'.rows = screen.rows \/ screen'.rows = <<>>)
    <2>1. CASE UNCHANGED screen
      BY <2>1 DEF UiType, ScreenType
    <2>2. CASE screen' = [screen EXCEPT !.rows = <<>>]
      <3>1. screen' = [status |-> screen.status, preview |-> screen.preview, rows |-> <<>>] /\ screen.preview \in BOOLEAN
        BY <2>2 DEF UiType, ScreenType
      <3>2. <<>> \in Seq(Rows)
        BY EmptySeq
      <3> QED BY <3>1, <3>2 DEF ScreenType
    <2> QED BY <1>3, <2>1, <2>2
  <1>6. /\ tally' = [runs |-> tally.runs, calls |-> tally.calls, asks |-> tally.asks, keys |-> tally'.keys]
        /\ tally'.calls = tally.calls /\ tally'.asks = tally.asks
    BY <1>4 DEF UiType
  <1>7. eventQueue = <<>> /\ job.open = NoRow /\ screen.status = "idle" /\ ~screen.preview
    BY <1>1 DEF BetweenRuns
  <1>8. OpenRow(screen.rows)' = NoRow /\ RowsInOrder(screen.rows)'
    <2>1. NoRow \in Calls
      BY NoRowIsCall
    <2>2. OpenRow(screen.rows) \in Calls
      <3>1. CASE screen.rows = <<>>
        BY <2>1, <3>1 DEF OpenRow
      <3>2. CASE screen.rows # <<>>
        <4>1. Len(screen.rows) \in 1..Len(screen.rows)
          BY <3>2, EmptySeq, LenProperties DEF UiType, ScreenType
        <4>2. screen.rows[Len(screen.rows)] \in Rows
          BY <4>1, ElementOfSeq DEF UiType, ScreenType
        <4> QED BY <2>1, <4>2 DEF OpenRow, Rows, Calls
      <3> QED BY <3>1, <3>2
    <2>3. OpenRow(screen.rows) = NoRow /\ RowsInOrder(screen.rows)
      <3>1. Leads(OpenRow(screen.rows), <<>>, NoRow) /\ RowsInOrder(screen.rows)
        BY <1>1, <1>7 DEF ScreenFollows
      <3> QED BY <2>2, <3>1, LeadsNowhere
    <2>4. OpenRow(<<>>) = NoRow /\ RowsInOrder(<<>>)
      BY EmptySeq DEF OpenRow, RowsInOrder
    <2> QED BY <1>5, <2>3, <2>4
  <1>9. ScreenFollows'
    <2>1. Leads(NoRow, <<>>, NoRow)
      BY NoRowIsCall, LeadsNowhere
    <2> QED BY <1>2, <1>7, <1>8, <2>1 DEF ScreenFollows
  <1>10. /\ FooterIsTrue' /\ footer' = [mode |-> footer'.mode, model |-> footer'.model, startup |-> footer'.startup]
         /\ live' = [session |-> live'.session, model |-> live'.model]
         /\ live'.session = [id |-> live'.session.id, mode |-> live'.session.mode]
    <2>1. /\ footer = [mode |-> footer.mode, model |-> footer.model, startup |-> footer.startup]
          /\ live = [session |-> live.session, model |-> live.model]
          /\ live.session = [id |-> live.session.id, mode |-> live.session.mode]
          /\ place \in {"idle", "picker"} => footer.mode = live.session.mode /\ footer.model = live.model
          /\ place = "start" => footer.mode = footer.startup /\ live.session.mode = footer.mode /\ live.model = footer.model
      BY DEF UiType, FooterIsTrue, BetweenRuns
    <2>2. CASE UNCHANGED <<footer, live>>
      BY <1>1, <2>1, <2>2 DEF FooterIsTrue
    <2>3. ASSUME NEW s, place = "start" \/ place = "picker", UNCHANGED footer, NEW m,
                 m = (IF place = "start" THEN footer.startup ELSE footer.mode), live' = [live EXCEPT !.session = Session(s, m)]
          PROVE  <1>10!:
      <3>1. live' = [session |-> [id |-> s, mode |-> m], model |-> live.model]
        BY <2>1, <2>3 DEF Session
      <3> QED BY <2>1, <2>3, <3>1 DEF FooterIsTrue
    <2>4. CASE CycleMode
      <3>1. PICK m : m = NextMode(footer.mode)
        OBVIOUS
      <3>2. live' = [live EXCEPT !.session.mode = m] /\ footer' = [footer EXCEPT !.mode = m] /\ UNCHANGED place
        BY <2>4, <3>1 DEF CycleMode
      <3>3. live' = [session |-> [id |-> live.session.id, mode |-> m], model |-> live.model]
        BY <2>1, <3>2
      <3>4. footer' = [mode |-> m, model |-> footer.model, startup |-> footer.startup]
        BY <2>1, <3>2
      <3>5. place \in {"idle", "picker"}
        BY <2>4 DEF CycleMode
      <3> QED BY <2>1, <3>3, <3>4, <3>5 DEF FooterIsTrue
    <2>5. CASE SwitchModel
      <3>1. PICK model : live' = [live EXCEPT !.model = model] /\ footer' = [footer EXCEPT !.model = model]
        BY <2>5 DEF SwitchModel
      <3>2. live' = [session |-> live.session, model |-> model]
        BY <2>1, <3>1
      <3>3. footer' = [mode |-> footer.mode, model |-> model, startup |-> footer.startup]
        BY <2>1, <3>1
      <3>4. place \in {"idle", "picker"}
        BY <2>5 DEF SwitchModel
      <3> QED BY <2>1, <3>2, <3>3, <3>4 DEF FooterIsTrue
    <2>6. \/ UNCHANGED <<footer, live>> \/ CycleMode \/ SwitchModel
          \/ UNCHANGED footer /\ place = "start" /\ \E s : live' = [live EXCEPT !.session = Session(s, footer.startup)]
          \/ UNCHANGED footer /\ place = "picker" /\ \E s : live' = [live EXCEPT !.session = Session(s, footer.mode)]
      BY DEF StartNew, StartResumed, StartFails, StartNamed, OpenPicker, PickSession, Quit, ResumeSession, Rebuilt
    <2> QED BY <2>2, <2>3, <2>4, <2>5, <2>6
  <1>11. UiType'
    BY <1>2, <1>5, <1>6, <1>10 DEF UiType
  <1>12. AsksInOrder' /\ BetweenRuns' /\ AskIsReachable'
    BY <1>1, <1>2, <1>5, <1>6, <1>7 DEF AsksInOrder, BetweenRuns, AskIsReachable
  <1> QED BY <1>9, <1>10, <1>11, <1>12

(* The future goes on, and may say so.                                      *)
LEMMA FutureKeepsInv ==
    ASSUME UiInv, Running, NEW open \in Calls, open = NoRow \/ open.call # 0,
           \/ UNCHANGED eventQueue /\ job.open = open
           \/ \E e \in Events : Carries(job.open, e, open) /\ eventQueue' = Append(eventQueue, e),
           job' = [st |-> job'.st, open |-> open, events |-> job'.events, stop |-> job'.stop],
           job'.st = job.st \/ job'.st = "done", job'.st = "done" => open = NoRow,
           tally' = [runs |-> tally'.runs, calls |-> tally'.calls, asks |-> tally.asks, keys |-> tally'.keys],
           tally'.calls \in Nat,
           UNCHANGED <<place, askQueue, modal, screen, footer, live>>
    PROVE  UiInv'
  <1> USE DEF UiInv
  <1>1. place \in {"turn", "compact"} /\ job'.open = open /\ tally'.asks = tally.asks
    BY DEF Running
  <1>2. eventQueue' \in Seq(Events) /\ Leads(OpenRow(screen.rows), eventQueue', open)
    <2>1. eventQueue \in Seq(Events) /\ Leads(OpenRow(screen.rows), eventQueue, job.open)
      BY <1>1 DEF UiType, ScreenFollows
    <2>2. CASE UNCHANGED eventQueue /\ job.open = open
      BY <2>1, <2>2
    <2>3. ASSUME NEW e \in Events, Carries(job.open, e, open), eventQueue' = Append(eventQueue, e)
          PROVE  <1>2!:
      BY <2>1, <2>3, LeadsAppend, AppendProperties
    <2> QED BY <2>2, <2>3
  <1>3. UiType'
    BY <1>1, <1>2 DEF UiType, ScreenType
  <1>4. ScreenFollows'
    BY <1>1, <1>2 DEF ScreenFollows
  <1>5. AsksInOrder'
    BY <1>1 DEF AsksInOrder
  <1>6. BetweenRuns'
    <2>1. job'.st = "done" => job'.open = NoRow
      BY <1>1
    <2> QED BY <1>1, <2>1 DEF BetweenRuns
  <1>7. AskIsReachable' /\ FooterIsTrue'
    BY <1>1 DEF AskIsReachable, FooterIsTrue
  <1> QED BY <1>3, <1>4, <1>5, <1>6, <1>7

(* What the future reports, and its end.                                    *)
LEMMA ReportsKeepInv ==
    ASSUME UiInv, Narrates \/ Compacts \/ OpensRow \/ ClosesRow \/ RefusesCall \/ Finishes \/ Stopped
    PROVE  UiInv'
  <1>1. Running /\ UNCHANGED <<place, askQueue, modal, screen, footer, live>>
    BY DEF Narrates, Compacts, Reports, OpensRow, ClosesRow, RefusesCall, Finishes, Stopped, Ends, Running
  <1>2. /\ job = [st |-> job.st, open |-> job.open, events |-> job.events, stop |-> job.stop] /\ job.open \in Calls
        /\ tally = [runs |-> tally.runs, calls |-> tally.calls, asks |-> tally.asks, keys |-> tally.keys]
        /\ tally.calls \in Nat /\ NoRow \in Calls /\ (job.open = NoRow \/ job.open.call # 0)
    BY NoRowIsCall DEF UiInv, UiType, BetweenRuns
  <1>3. CASE Narrates \/ Compacts
    <2>1. PICK k \in EventKinds \ {"tool_start", "tool_end", "refused"} :
             /\ Send(Event(k, "none", 0)) /\ job' = [job EXCEPT !.events = @ + 1] /\ UNCHANGED tally
             /\ job.st = "working"
      BY <1>3 DEF Narrates, Compacts, Reports, EventKinds
    <2>2. PICK e : e = Event(k, "none", 0)
      OBVIOUS
    <2>3. e = [kind |-> k, id |-> "none", call |-> 0]
      BY <2>2 DEF Event
    <2>4. e \in Events /\ Carries(job.open, e, job.open)
      BY <2>1, <2>3 DEF Events, Carries
    <2>5. eventQueue' = Append(eventQueue, e)
      BY <2>1, <2>2 DEF Send
    <2>6. job' = [st |-> job.st, open |-> job.open, events |-> job.events + 1, stop |-> job.stop]
      BY <1>2, <2>1
    <2> QED BY <1>1, <1>2, <2>1, <2>4, <2>5, <2>6, FutureKeepsInv
  <1>4. CASE OpensRow
    <2>1. PICK c : c = tally.calls + 1
      OBVIOUS
    <2>2. PICK id \in RowIds : /\ job.open = NoRow /\ job.st = "working" /\ Send(Event("tool_start", id, c))
                               /\ job' = [job EXCEPT !.open = [call |-> c, id |-> id], !.events = @ + 1]
                               /\ tally' = [tally EXCEPT !.calls = @ + 1]
      BY <1>4, <2>1 DEF OpensRow
    <2>3. PICK e, open : e = Event("tool_start", id, c) /\ open = [call |-> c, id |-> id]
      OBVIOUS
    <2>4. e = [kind |-> "tool_start", id |-> id, call |-> c] /\ c \in Nat /\ c # 0
      BY <1>2, <2>1, <2>3 DEF Event
    <2>5. e \in Events /\ open \in Calls /\ open.call # 0 /\ Carries(job.open, e, open)
      BY <2>2, <2>3, <2>4 DEF Events, EventKinds, Calls, Carries
    <2>6. eventQueue' = Append(eventQueue, e)
      BY <2>2, <2>3 DEF Send
    <2>7. job' = [st |-> job.st, open |-> open, events |-> job.events + 1, stop |-> job.stop]
      BY <1>2, <2>2, <2>3
    <2>8. tally' = [runs |-> tally.runs, calls |-> c, asks |-> tally.asks, keys |-> tally.keys]
      BY <1>2, <2>1, <2>2
    <2>9. /\ job' = [st |-> job'.st, open |-> open, events |-> job'.events, stop |-> job'.stop]
          /\ job'.st = job.st /\ (job'.st = "done" => open = NoRow)
      BY <2>2, <2>7
    <2>10. /\ tally' = [runs |-> tally'.runs, calls |-> tally'.calls, asks |-> tally.asks, keys |-> tally'.keys]
           /\ tally'.calls \in Nat
      BY <2>4, <2>8
    <2> QED BY <1>1, <2>5, <2>6, <2>9, <2>10, FutureKeepsInv
  <1>5. CASE RefusesCall
    <2>1. PICK c : c = tally.calls + 1
      OBVIOUS
    <2>2. PICK id \in RowIds : /\ job.open = NoRow /\ job.st = "working" /\ Send(Event("refused", id, c))
                               /\ job' = [job EXCEPT !.events = @ + 1] /\ tally' = [tally EXCEPT !.calls = @ + 1]
      BY <1>5, <2>1 DEF RefusesCall
    <2>3. PICK e : e = Event("refused", id, c)
      OBVIOUS
    <2>4. e = [kind |-> "refused", id |-> id, call |-> c] /\ c \in Nat
      BY <1>2, <2>1, <2>3 DEF Event
    <2>5. e \in Events /\ Carries(job.open, e, NoRow)
      BY <2>2, <2>4 DEF Events, EventKinds, Carries
    <2>6. eventQueue' = Append(eventQueue, e)
      BY <2>2, <2>3 DEF Send
    <2>7. job' = [st |-> job.st, open |-> NoRow, events |-> job.events + 1, stop |-> job.stop]
      BY <1>2, <2>1, <2>2
    <2>8. tally' = [runs |-> tally.runs, calls |-> c, asks |-> tally.asks, keys |-> tally.keys]
      BY <1>2, <2>1, <2>2
    <2> QED BY <1>1, <1>2, <2>4, <2>5, <2>6, <2>7, <2>8, FutureKeepsInv
  <1>6. CASE ClosesRow \/ Finishes \/ Stopped
    <2>1. PICK e : e = Event("tool_end", job.open.id, job.open.call)
      OBVIOUS
    <2>2. e = [kind |-> "tool_end", id |-> job.open.id, call |-> job.open.call]
      BY <2>1 DEF Event
    <2>3. ASSUME job.open # NoRow PROVE e \in Events /\ Carries(job.open, e, NoRow)
      <3>1. job.open = [call |-> job.open.call, id |-> job.open.id] /\ job.open.call \in Nat
            /\ job.open.id \in RowIds \cup {"none"}
        BY <1>2 DEF Calls
      <3>2. job.open.call # 0
        BY <2>3 DEF UiInv, BetweenRuns
      <3> QED BY <2>2, <3>1, <3>2 DEF Events, EventKinds, Carries
    <2>4. \/ eventQueue' = Append(eventQueue, e) /\ job.open # NoRow
          \/ UNCHANGED eventQueue /\ job.open = NoRow
      BY <1>6, <2>1 DEF ClosesRow, Finishes, Stopped, Ends, Send
    <2>5. UNCHANGED tally /\ (job' = [job EXCEPT !.open = NoRow] \/ job' = [job EXCEPT !.st = "done", !.open = NoRow])
      BY <1>6 DEF ClosesRow, Finishes, Stopped, Ends
    <2>6. /\ job' = [st |-> job'.st, open |-> NoRow, events |-> job'.events, stop |-> job'.stop]
          /\ job'.st = job.st \/ job'.st = "done"
      BY <1>2, <2>5
    <2> QED BY <1>1, <1>2, <2>3, <2>4, <2>5, <2>6, FutureKeepsInv
  <1> QED BY <1>3, <1>4, <1>5, <1>6

(* The queue of requests, one more of them or one fewer.                    *)
LEMMA AsksMoved ==
    ASSUME askQueue \in Seq(Nat), modal \in Nat, tally.asks \in Nat, AsksInOrder,
           modal = tally.asks => askQueue = <<>>
    PROVE  /\ LET q == Append(askQueue, tally.asks + 1)
              IN /\ q \in Seq(Nat) /\ tally.asks + 1 \in Range(q)
                 /\ \A i \in 1..Len(q) : modal < q[i] /\ q[i] <= tally.asks + 1
                 /\ \A i, j \in 1..Len(q) : i < j => q[i] < q[j]
           /\ askQueue # <<>> =>
                LET q == Tail(askQueue)
                IN /\ q \in Seq(Nat) /\ Head(askQueue) \in Nat /\ Head(askQueue) <= tally.asks
                   /\ \A i \in 1..Len(q) : Head(askQueue) < q[i] /\ q[i] <= tally.asks
                   /\ \A i, j \in 1..Len(q) : i < j => q[i] < q[j]
                   /\ \A a \in Range(askQueue) : a = Head(askQueue) \/ a \in Range(q)
  <1>1. PICK n, b, asks : n = Len(askQueue) /\ b = askQueue /\ asks = tally.asks
    OBVIOUS
  <1>2. /\ n \in Nat /\ asks \in Nat /\ b \in [1..n -> Nat] /\ modal <= asks
        /\ \A i \in 1..n : modal < b[i] /\ b[i] <= asks
        /\ \A i, j \in 1..n : i < j => b[i] < b[j]
    BY <1>1, LenProperties DEF AsksInOrder
  <1>3. PICK q : q = Append(askQueue, asks + 1)
    OBVIOUS
  <1>4. q \in Seq(Nat) /\ Len(q) = n + 1 /\ q[n + 1] = asks + 1 /\ (\A i \in 1..n : q[i] = b[i]) /\ DOMAIN q = 1..(n + 1)
    <2>1. q \in Seq(Nat) /\ Len(q) = n + 1 /\ q[n + 1] = asks + 1 /\ \A i \in 1..n : q[i] = b[i]
      BY <1>1, <1>2, <1>3, AppendProperties
    <2> QED BY <2>1, LenProperties
  <1>5. asks + 1 \in Range(q)
    <2>1. n + 1 \in DOMAIN q /\ q[n + 1] = asks + 1
      BY <1>2, <1>4
    <2>2. \E x \in DOMAIN q : q[x] = asks + 1
      BY <2>1
    <2> QED BY <2>2 DEF Range
  <1>6. \A i \in 1..(n + 1) : modal < q[i] /\ q[i] <= asks + 1
    <2> SUFFICES ASSUME NEW i \in 1..(n + 1) PROVE modal < q[i] /\ q[i] <= asks + 1
      OBVIOUS
    <2>1. CASE i = n + 1
      BY <1>2, <1>4, <2>1
    <2>2. CASE i \in 1..n
      BY <1>2, <1>4, <2>2
    <2> QED BY <1>2, <2>1, <2>2
  <1>7. \A i, j \in 1..(n + 1) : i < j => q[i] < q[j]
    <2> SUFFICES ASSUME NEW i \in 1..(n + 1), NEW j \in 1..(n + 1), i < j PROVE q[i] < q[j]
      OBVIOUS
    <2>1. i \in 1..n
      BY <1>2
    <2>2. CASE j = n + 1
      BY <1>2, <1>4, <2>1, <2>2
    <2>3. CASE j \in 1..n
      BY <1>2, <1>4, <2>1, <2>3
    <2> QED BY <1>2, <2>2, <2>3
  <1>8. ASSUME askQueue # <<>>
        PROVE  LET t == Tail(askQueue)
               IN /\ t \in Seq(Nat) /\ Head(askQueue) \in Nat /\ Head(askQueue) <= asks
                  /\ \A i \in 1..Len(t) : Head(askQueue) < t[i] /\ t[i] <= asks
                  /\ \A i, j \in 1..Len(t) : i < j => t[i] < t[j]
                  /\ \A a \in Range(askQueue) : a = Head(askQueue) \/ a \in Range(t)
    <2>1. PICK t, h : t = Tail(askQueue) /\ h = Head(askQueue)
      OBVIOUS
    <2>2. /\ t \in Seq(Nat) /\ Len(t) = n - 1 /\ (\A i \in 1..(n - 1) : t[i] = b[i + 1]) /\ h = b[1] /\ n # 0
      BY <1>1, <1>8, <2>1, HeadTailProperties, EmptySeq, LenProperties
    <2>3. h \in Nat /\ h <= asks /\ DOMAIN t = 1..(n - 1)
      BY <1>2, <2>2, LenProperties
    <2>4. \A i \in 1..(n - 1) : h < t[i] /\ t[i] <= asks
      <3> SUFFICES ASSUME NEW i \in 1..(n - 1) PROVE h < t[i] /\ t[i] <= asks
        OBVIOUS
      <3>1. 1 \in 1..n /\ i + 1 \in 1..n /\ 1 < i + 1
        BY <1>2
      <3>2. t[i] = b[i + 1] /\ h = b[1]
        BY <2>2
      <3> QED BY <1>2, <3>1, <3>2
    <2>5. \A i, j \in 1..(n - 1) : i < j => t[i] < t[j]
      <3> SUFFICES ASSUME NEW i \in 1..(n - 1), NEW j \in 1..(n - 1), i < j PROVE t[i] < t[j]
        OBVIOUS
      <3>1. i + 1 \in 1..n /\ j + 1 \in 1..n /\ i + 1 < j + 1
        BY <1>2
      <3>2. t[i] = b[i + 1] /\ t[j] = b[j + 1]
        BY <2>2
      <3> QED BY <1>2, <3>1, <3>2
    <2>6. ASSUME NEW a \in Range(askQueue) PROVE a = h \/ a \in Range(t)
      <3>1. PICK k \in 1..n : a = b[k]
        BY <1>1, <1>2, <2>6 DEF Range
      <3>2. CASE k = 1
        BY <2>2, <3>1, <3>2
      <3>3. CASE k # 1
        <4>1. k - 1 \in 1..(n - 1) /\ t[k - 1] = b[k]
          <5>1. k - 1 \in 1..(n - 1) /\ (k - 1) + 1 = k
            BY <1>2, <3>3
          <5>2. t[k - 1] = b[(k - 1) + 1]
            BY <2>2, <5>1
          <5> QED BY <5>1, <5>2
        <4> QED BY <2>3, <3>1, <4>1 DEF Range
      <3> QED BY <3>2, <3>3
    <2> QED BY <2>1, <2>2, <2>3, <2>4, <2>5, <2>6
  <1> QED BY <1>1, <1>3, <1>4, <1>5, <1>6, <1>7, <1>8

(* A turn or a compaction begins.                                           *)
LEMMA BeginKeepsInv ==
    ASSUME UiInv, SubmitPrompt \/ SubmitCompact
    PROVE  UiInv'
  <1> USE DEF UiInv
  <1>1. PICK where, status : where \in {"turn", "compact"} /\ Begin(where, status)
    BY DEF SubmitPrompt, SubmitCompact
  <1>2. /\ place = "idle" /\ place' = where
        /\ job' = [st |-> "working", open |-> NoRow, events |-> 0, stop |-> FALSE]
        /\ screen' = [status |-> status, preview |-> screen.preview, rows |-> screen.rows] /\ screen.preview \in BOOLEAN
        /\ tally' = [tally EXCEPT !.runs = @ + 1]
        /\ UNCHANGED <<eventQueue, askQueue, modal, footer, live>>
    BY <1>1 DEF Begin, NoJob, UiType, ScreenType
  <1>3. /\ tally' = [runs |-> tally'.runs, calls |-> tally.calls, asks |-> tally.asks, keys |-> tally.keys]
        /\ tally'.asks = tally.asks
    BY <1>2 DEF UiType
  <1>4. job.open = NoRow /\ NoRow \in Calls /\ job'.st = "working" /\ job'.open = NoRow /\ screen'.rows = screen.rows
    BY <1>2, NoRowIsCall DEF BetweenRuns
  <1>5. UiType'
    BY <1>2, <1>3, <1>4 DEF UiType, ScreenType
  <1>6. ScreenFollows'
    BY <1>1, <1>2, <1>4 DEF ScreenFollows
  <1>7. AsksInOrder' /\ AskIsReachable' /\ FooterIsTrue'
    BY <1>1, <1>2, <1>3, <1>4 DEF AsksInOrder, AskIsReachable, FooterIsTrue
  <1>8. BetweenRuns'
    BY <1>1, <1>2, <1>4 DEF BetweenRuns
  <1> QED BY <1>5, <1>6, <1>7, <1>8

(* The future asks, and its requests reach the screen.                      *)
LEMMA AskingKeepsInv ==
    ASSUME UiInv, Asks \/ TakeAsk
    PROVE  UiInv'
  <1> USE DEF UiInv
  <1>1. place = "turn" /\ UNCHANGED <<place, eventQueue, screen, footer, live>>
    BY DEF Asks, TakeAsk
  <1>2. /\ job = [st |-> job.st, open |-> job.open, events |-> job.events, stop |-> job.stop] /\ job.open \in Calls
        /\ tally = [runs |-> tally.runs, calls |-> tally.calls, asks |-> tally.asks, keys |-> tally.keys]
        /\ tally.calls \in Nat /\ tally.asks \in Nat /\ modal \in Nat /\ askQueue \in Seq(Nat) /\ modal <= tally.asks
    BY DEF UiType, AsksInOrder
  <1>3. modal = tally.asks => askQueue = <<>>
    <2> SUFFICES ASSUME modal = tally.asks, askQueue # <<>> PROVE FALSE
      OBVIOUS
    <2>1. 1 \in 1..Len(askQueue) /\ askQueue[1] \in Nat
      BY <1>2, LenProperties, EmptySeq, ElementOfSeq
    <2>2. modal < askQueue[1] /\ askQueue[1] <= tally.asks
      BY <2>1 DEF AsksInOrder
    <2> QED BY <1>2, <2>1, <2>2
  <1>4. /\ job' = [st |-> job'.st, open |-> job.open, events |-> job.events, stop |-> job.stop]
        /\ job'.st = job.st \/ job'.st = "asking"
        /\ job'.open = job.open
    BY <1>2 DEF Asks, TakeAsk
  <1>5. CASE Asks
    <2>1. PICK q, asks : q = Append(askQueue, tally.asks + 1) /\ asks = tally.asks + 1
      OBVIOUS
    <2>2. /\ q \in Seq(Nat) /\ asks \in Range(q)
          /\ \A i \in 1..Len(q) : modal < q[i] /\ q[i] <= asks
          /\ \A i, j \in 1..Len(q) : i < j => q[i] < q[j]
      BY <1>2, <1>3, <2>1, AsksMoved
    <2>3. askQueue' = q /\ UNCHANGED modal /\ asks \in Nat /\ modal <= asks
          /\ tally' = [tally EXCEPT !.asks = @ + 1]
      BY <1>2, <1>5, <2>1 DEF Asks
    <2>4. tally' = [runs |-> tally.runs, calls |-> tally.calls, asks |-> asks, keys |-> tally.keys] /\ tally'.asks = asks
      BY <1>2, <2>1, <2>3
    <2>5. AsksInOrder' /\ AskIsReachable'
      BY <2>2, <2>3, <2>4 DEF AsksInOrder, AskIsReachable
    <2>6. UiType'
      BY <1>1, <1>2, <1>4, <2>2, <2>3, <2>4 DEF UiType, ScreenType
    <2>7. ScreenFollows' /\ BetweenRuns' /\ FooterIsTrue'
      BY <1>1, <1>4, <1>5 DEF ScreenFollows, BetweenRuns, FooterIsTrue, Asks
    <2> QED BY <2>5, <2>6, <2>7
  <1>6. CASE TakeAsk
    <2>1. PICK q, h : q = Tail(askQueue) /\ h = Head(askQueue)
      OBVIOUS
    <2>2. /\ q \in Seq(Nat) /\ h \in Nat /\ h <= tally.asks
          /\ \A i \in 1..Len(q) : h < q[i] /\ q[i] <= tally.asks
          /\ \A i, j \in 1..Len(q) : i < j => q[i] < q[j]
          /\ \A a \in Range(askQueue) : a = h \/ a \in Range(q)
      BY <1>2, <1>3, <1>6, <2>1, AsksMoved DEF TakeAsk
    <2>3. askQueue' = q /\ modal' = h /\ UNCHANGED <<job, tally>>
      BY <1>6, <2>1 DEF TakeAsk, SetApproval
    <2>4. AsksInOrder'
      BY <2>2, <2>3 DEF AsksInOrder
    <2>5. AskIsReachable'
      BY <1>1, <1>3, <1>6, <2>2, <2>3 DEF AskIsReachable, TakeAsk
    <2>6. UiType'
      BY <1>1, <1>2, <2>2, <2>3 DEF UiType, ScreenType
    <2>7. ScreenFollows' /\ BetweenRuns' /\ FooterIsTrue'
      BY <1>1, <2>3 DEF ScreenFollows, BetweenRuns, FooterIsTrue
    <2> QED BY <2>4, <2>5, <2>6, <2>7
  <1> QED BY <1>5, <1>6

(* What is done with the request on the screen, or without one.             *)
LEMMA KeyKeepsInv ==
    ASSUME UiInv, KeyDecides \/ KeyAborts \/ KeyInterrupts
    PROVE  UiInv'
  <1> USE DEF UiInv
  <1>1. place \in {"turn", "compact"} /\ UNCHANGED <<place, eventQueue, askQueue, screen, footer, live, tally>>
        /\ (modal' = 0 \/ modal' = modal)
    BY DEF KeyDecides, KeyAborts, KeyInterrupts, Running
  <1>2. /\ job = [st |-> job.st, open |-> job.open, events |-> job.events, stop |-> job.stop] /\ job.open \in Calls
        /\ tally.asks \in Nat /\ modal \in Nat /\ askQueue \in Seq(Nat)
        /\ \A i \in 1..Len(askQueue) : askQueue[i] \in Nat
    BY ElementOfSeq DEF UiType
  <1>3. /\ job' = [st |-> job'.st, open |-> job.open, events |-> job.events, stop |-> job'.stop]
        /\ job'.st = job.st \/ job'.st \in {"working", "aborted"}
    BY <1>2 DEF KeyDecides, KeyAborts, KeyInterrupts
  <1>4. AskIsReachable'
    <2>1. CASE KeyInterrupts
      <3>1. job'.st = job.st
        BY <1>2, <2>1 DEF KeyInterrupts
      <3> QED BY <1>1, <2>1, <3>1 DEF AskIsReachable, KeyInterrupts
    <2>2. CASE KeyDecides \/ KeyAborts
      <3>1. CASE Pending(modal)
        <4>1. job'.st \in {"working", "aborted"}
          BY <1>2, <2>2, <3>1 DEF KeyDecides, KeyAborts
        <4> QED BY <4>1 DEF AskIsReachable
      <3>2. CASE ~Pending(modal)
        <4>1. UNCHANGED job
          BY <2>2, <3>2 DEF KeyDecides, KeyAborts
        <4> QED BY <1>1, <3>2, <4>1 DEF AskIsReachable, Pending
      <3> QED BY <3>1, <3>2
    <2> QED BY <2>1, <2>2
  <1>5. AsksInOrder'
    BY <1>1, <1>2 DEF AsksInOrder
  <1>6. UiType'
    BY <1>1, <1>2, <1>3 DEF UiType, ScreenType
  <1>7. ScreenFollows' /\ FooterIsTrue'
    BY <1>1, <1>3 DEF ScreenFollows, FooterIsTrue
  <1>8. BetweenRuns'
    <2>1. job'.open = job.open /\ (job'.st = "done" => job.st = "done")
      BY <1>3
    <2> QED BY <1>1, <2>1 DEF BetweenRuns
  <1> QED BY <1>4, <1>5, <1>6, <1>7, <1>8

(* An event is drawn.                                                       *)
LEMMA TakeEventKeepsInv ==
    ASSUME UiInv, TakeEvent
    PROVE  UiInv'
  <1> USE DEF UiInv
  <1>1. /\ place \in {"turn", "compact"} /\ eventQueue # <<>> /\ eventQueue \in Seq(Events)
        /\ screen' = ApplyEvent(screen, Head(eventQueue)) /\ eventQueue' = Tail(eventQueue)
        /\ UNCHANGED <<place, job, askQueue, modal, footer, live, tally>>
    BY DEF TakeEvent, Running, UiType
  <1>2. RowsStand(screen) /\ Leads(OpenRow(screen.rows), eventQueue, job.open)
    BY <1>1 DEF UiType, ScreenFollows, RowsStand
  <1>3. PICK next \in Calls : Carries(OpenRow(screen.rows), Head(eventQueue), next) /\ Leads(next, Tail(eventQueue), job.open)
    BY <1>1, <1>2, LeadsTail
  <1>4. Head(eventQueue) \in Events /\ Tail(eventQueue) \in Seq(Events)
    BY <1>1, HeadTailProperties
  <1>5. RowsStand(screen') /\ OpenRow(screen'.rows) = next
    BY <1>1, <1>2, <1>3, <1>4, ApplyKeepsRows
  <1>6. UiType'
    BY <1>1, <1>4, <1>5 DEF UiType, RowsStand, ScreenType
  <1>7. ScreenFollows'
    BY <1>1, <1>3, <1>5 DEF ScreenFollows, RowsStand
  <1>8. AsksInOrder' /\ BetweenRuns' /\ AskIsReachable' /\ FooterIsTrue'
    BY <1>1 DEF AsksInOrder, BetweenRuns, AskIsReachable, FooterIsTrue
  <1> QED BY <1>6, <1>7, <1>8

(* The future is done, or is dropped.                                       *)
LEMMA EndKeepsInv ==
    ASSUME UiInv, JobReturns \/ TerminalFails
    PROVE  UiInv'
  <1> USE DEF UiInv
  <1>1. /\ job = [st |-> job.st, open |-> job.open, events |-> job.events, stop |-> job.stop] /\ job.open \in Calls
        /\ eventQueue \in Seq(Events) /\ ScreenType(screen)
    BY DEF UiType
  <1>2. job' = NoJob /\ UNCHANGED <<askQueue, modal, footer, live, tally>>
    BY DEF JobReturns, TerminalFails
  <1>3. /\ job' = [st |-> job'.st, open |-> job'.open, events |-> job'.events, stop |-> job'.stop]
        /\ job'.st = "none" /\ job'.open = NoRow /\ job'.open \in Calls
    BY <1>2, NoRowIsCall DEF NoJob
  <1>4. AsksInOrder' /\ AskIsReachable'
    BY <1>2, <1>3 DEF AsksInOrder, AskIsReachable
  <1>5. CASE JobReturns
    <2>1. place \in {"turn", "compact"} /\ job.st = "done" /\ place' = "idle" /\ screen' = Returned /\ eventQueue' = <<>>
      BY <1>5 DEF JobReturns, Running
    <2>2. job.open = NoRow
      BY <2>1 DEF BetweenRuns
    <2>3. RowsStand(screen) /\ Leads(OpenRow(screen.rows), eventQueue, NoRow)
      BY <1>1, <2>1, <2>2 DEF ScreenFollows, RowsStand
    <2>4. PICK d : d = Drained(screen)
      OBVIOUS
    <2>5. RowsStand(d) /\ OpenRow(d.rows) = NoRow
      BY <1>1, <2>3, <2>4, DrainedStands
    <2>6. screen' = [d EXCEPT !.preview = FALSE, !.status = "idle"]
      BY <2>1, <2>4 DEF Returned
    <2>7. screen' = [status |-> "idle", preview |-> FALSE, rows |-> d.rows]
      BY <2>5, <2>6 DEF RowsStand, ScreenType
    <2>8. ScreenType(screen)' /\ screen'.rows = d.rows
      BY <2>5, <2>7 DEF RowsStand, ScreenType
    <2>9. eventQueue' \in Seq(Events)
      BY <2>1, EmptySeq
    <2>10. UiType'
      BY <1>1, <1>2, <1>3, <2>8, <2>9 DEF UiType
    <2>11. Leads(NoRow, <<>>, NoRow)
      BY NoRowIsCall, LeadsNowhere
    <2>12. ScreenFollows'
      BY <1>3, <2>1, <2>2, <2>5, <2>8, <2>11 DEF ScreenFollows, RowsStand
    <2>13. BetweenRuns'
      BY <1>3, <2>1, <2>2, <2>7 DEF BetweenRuns
    <2>14. FooterIsTrue'
      BY <1>2, <2>1 DEF FooterIsTrue
    <2> QED BY <1>4, <2>10, <2>12, <2>13, <2>14
  <1>6. CASE TerminalFails
    <2>1. place' = "quit" /\ UNCHANGED <<eventQueue, screen>>
      BY <1>6 DEF TerminalFails
    <2>2. UiType'
      BY <1>1, <1>2, <1>3, <2>1 DEF UiType
    <2>3. ScreenFollows' /\ BetweenRuns' /\ FooterIsTrue'
      BY <1>3, <2>1 DEF ScreenFollows, BetweenRuns, FooterIsTrue
    <2> QED BY <1>4, <2>2, <2>3
  <1> QED BY <1>5, <1>6

(* A process starts with an empty screen.                                   *)
LEMMA UiInitInv == UiInit => UiInv
  <1> SUFFICES ASSUME UiInit PROVE UiInv
    OBVIOUS
  <1>1. PICK m \in StartModes, model \in Models :
           /\ footer = [mode |-> m, model |-> model, startup |-> m]
           /\ live = [session |-> Session(NewSession, m), model |-> model]
    BY DEF UiInit
  <1>2. live = [session |-> [id |-> NewSession, mode |-> m], model |-> model]
    BY <1>1 DEF Session
  <1>3. /\ place = "start" /\ eventQueue = <<>> /\ askQueue = <<>> /\ modal = 0
        /\ job = [st |-> "none", open |-> NoRow, events |-> 0, stop |-> FALSE]
        /\ screen = [status |-> "idle", preview |-> FALSE, rows |-> <<>>]
        /\ tally = [runs |-> 0, calls |-> 0, asks |-> 0, keys |-> 0]
    BY DEF UiInit, NoJob
  <1>4. eventQueue \in Seq(Events) /\ askQueue \in Seq(Nat) /\ screen.rows \in Seq(Rows) /\ Len(screen.rows) = 0
        /\ Len(askQueue) = 0
    BY <1>3, EmptySeq
  <1>5. ScreenType(screen)
    BY <1>3, <1>4 DEF ScreenType
  <1>6. UiType
    BY <1>1, <1>2, <1>3, <1>4, <1>5, NoRowIsCall DEF UiType
  <1>7. OpenRow(screen.rows) = NoRow /\ RowsInOrder(screen.rows)
    BY <1>3, <1>4 DEF OpenRow, RowsInOrder
  <1>8. ScreenFollows
    BY <1>3, <1>7, NoRowIsCall, LeadsNowhere DEF ScreenFollows
  <1>9. AsksInOrder /\ AskIsReachable
    BY <1>3, <1>4 DEF AsksInOrder, AskIsReachable
  <1>10. BetweenRuns /\ FooterIsTrue
    BY <1>1, <1>2, <1>3 DEF BetweenRuns, FooterIsTrue
  <1> QED BY <1>6, <1>8, <1>9, <1>10 DEF UiInv

(* The invariant says that turns settle.                                    *)
LEMMA UiInvSettles == UiInv => TurnsSettle
  <1> SUFFICES ASSUME UiInv PROVE TurnsSettle
    OBVIOUS
  <1> USE DEF UiInv
  <1>1. PromptIsClean
    BY DEF PromptIsClean, BetweenRuns
  <1>2. RowsSettle
    <2> SUFFICES ASSUME place \in {"idle", "picker"}, NEW i \in 1..Len(screen.rows) PROVE Settled(screen.rows[i])
      BY DEF RowsSettle, Settled
    <2>1. PICK n, rows : rows = screen.rows /\ n = Len(rows)
      OBVIOUS
    <2>2. Settled(rows[i]) \/ (i = n /\ rows[i].by = Unstarted /\ rows[i].call # 0)
      BY <2>1 DEF ScreenFollows, RowsInOrder
    <2>3. ASSUME i = n, rows[i].by = Unstarted, rows[i].call # 0 PROVE FALSE
      <3>1. rows \in Seq(Rows) /\ i \in 1..n
        BY <2>1 DEF UiType, ScreenType
      <3>2. rows # <<>> /\ rows[i] \in Rows
        BY <2>1, <3>1, EmptySeq, ElementOfSeq
      <3>3. OpenRow(rows) = [call |-> rows[i].call, id |-> rows[i].id]
        BY <2>1, <2>3, <3>2 DEF OpenRow
      <3>4. OpenRow(rows) \in Calls
        BY <3>2, <3>3 DEF Rows, Calls
      <3>5. Leads(OpenRow(rows), <<>>, NoRow)
        BY <2>1 DEF ScreenFollows, BetweenRuns
      <3>6. OpenRow(rows) = NoRow
        BY <3>4, <3>5, LeadsNowhere
      <3> QED BY <2>3, <3>3, <3>6 DEF NoRow
    <2> QED BY <2>1, <2>2, <2>3
  <1> QED BY <1>1, <1>2 DEF TurnsSettle

(* A turn that waits for an answer can get it whatever was shown before; a   *)
(* turn that is over has drawn all its events, left no preview and given     *)
(* every row its own call's outcome; the footer names the mode and the model *)
(* the next turn runs under: for any sessions, ids, models and bounds        *)
(* (tui/app.rs, run_one_turn, apply_event, set_approval).                    *)
THEOREM TurnsAlwaysSettle == UiSpec => []TurnsSettle
  <1>1. UiInit => UiInv
    BY UiInitInv
  <1>2. UiInv /\ [UiNext]_uiVars => UiInv'
    <2> SUFFICES ASSUME UiInv, [UiNext]_uiVars PROVE UiInv'
      OBVIOUS
    <2>1. CASE \/ StartNew \/ StartResumed \/ StartFails
               \/ \E s \in StoredIds : \E n \in 1..Len(s) : StartNamed(SubSeq(s, 1, n))
               \/ CycleMode \/ SwitchModel \/ OpenPicker \/ PickSession \/ Quit
      BY <2>1, IdleKeepsInv
    <2>2. CASE SubmitPrompt \/ SubmitCompact
      BY <2>2, BeginKeepsInv
    <2>3. CASE Narrates \/ Compacts \/ OpensRow \/ ClosesRow \/ RefusesCall \/ Finishes \/ Stopped
      BY <2>3, ReportsKeepInv
    <2>4. CASE Asks \/ TakeAsk
      BY <2>4, AskingKeepsInv
    <2>5. CASE KeyDecides \/ KeyAborts \/ KeyInterrupts
      BY <2>5, KeyKeepsInv
    <2>6. CASE TakeEvent
      BY <2>6, TakeEventKeepsInv
    <2>7. CASE JobReturns \/ TerminalFails
      BY <2>7, EndKeepsInv
    <2>8. CASE UNCHANGED uiVars
      BY <2>8 DEF uiVars, UiInv, UiType, ScreenType, ScreenFollows, AsksInOrder, BetweenRuns, AskIsReachable, FooterIsTrue
    <2> QED BY <2>1, <2>2, <2>3, <2>4, <2>5, <2>6, <2>7, <2>8 DEF UiNext
  <1>3. UiInv => TurnsSettle
    BY UiInvSettles
  <1> QED BY <1>1, <1>2, <1>3, PTL DEF UiSpec

-----------------------------------------------------------------------------
(* Summary.                                                                 *)

ContextMessages == [from : Nat, to : Nat, refs : SUBSET Contents, content : Contents \cup {NoArtifact}]

\* The messages cover the journal from its first fact on, in order.
InOrder(messages) ==
    /\ messages \in Seq(ContextMessages) /\ messages # <<>> /\ messages[1].from = 1
    /\ \A i \in 1..Len(messages) : messages[i].from > 0 /\ messages[i].from <= messages[i].to /\ messages[i].to <= head
    /\ \A i, j \in 1..Len(messages) : i < j => messages[i].to < messages[j].from

\* The first message is the summary that is active.
Carried(messages) ==
    active # NoSummary => /\ messages[1].from = active.from /\ messages[1].to = active.to /\ messages[1].refs = active.refs
                          /\ active.from = 1

\* A request covers a prefix of the context and allows what is in it.
RequestFits ==
    tries # "none" =>
        /\ request = [from |-> request.from, to |-> request.to, allowed |-> request.allowed, prefix |-> request.prefix]
        /\ request.prefix \in 1..(Len(context) - 1) /\ request.from = 1 /\ request.to = context[request.prefix].to
        /\ request.allowed \subseteq Contents

UsageFollows ==
    /\ usage = [received |-> usage.received, reported |-> usage.reported]
    /\ \/ tries = "none" /\ usage.reported = usage.received
       \/ tries = "first" /\ usage.received = 0
       \/ tries = "correction" /\ usage.received = 1

SummaryInv ==
    head \in Nat /\ InOrder(context) /\ Carried(context) /\ RequestFits /\ UsageFollows /\ refusal \notin {"previous", "range"}

(* What orders the messages, spelled out.                                   *)
LEMMA InOrderFacts ==
    ASSUME head \in Nat, NEW messages, InOrder(messages)
    PROVE  /\ Len(messages) \in Nat /\ Len(messages) > 0 /\ messages \in [1..Len(messages) -> ContextMessages]
           /\ messages[1].from = 1
           /\ \A i \in 1..Len(messages) :
                 /\ messages[i].from \in Nat /\ messages[i].to \in Nat /\ messages[i].refs \subseteq Contents
                 /\ messages[i].content \in Contents \cup {NoArtifact}
                 /\ messages[i].from > 0 /\ messages[i].from <= messages[i].to /\ messages[i].to <= head
           /\ \A i, j \in 1..Len(messages) : i < j => messages[i].to < messages[j].from
  <1>1. PICK n : n = Len(messages)
    OBVIOUS
  <1>2. n \in Nat /\ n # 0 /\ messages \in [1..n -> ContextMessages]
    BY <1>1, LenProperties, EmptySeq DEF InOrder
  <1>3. n > 0
    BY <1>2
  <1>4. \A i \in 1..n : messages[i].from \in Nat /\ messages[i].to \in Nat /\ messages[i].refs \subseteq Contents
                        /\ messages[i].content \in Contents \cup {NoArtifact}
    <2> SUFFICES ASSUME NEW i \in 1..n
                 PROVE  messages[i].from \in Nat /\ messages[i].to \in Nat /\ messages[i].refs \subseteq Contents
                        /\ messages[i].content \in Contents \cup {NoArtifact}
      OBVIOUS
    <2>1. messages[i] \in ContextMessages
      BY <1>2
    <2> QED BY <2>1 DEF ContextMessages
  <1> QED BY <1>1, <1>2, <1>3, <1>4 DEF InOrder

(* The source of a prefix goes from the first fact to the end of the prefix. *)
LEMMA SourceOfPrefix ==
    ASSUME head \in Nat, InOrder(context), NEW k \in 1..Len(context)
    PROVE  SourceRange(k) = [from |-> 1, to |-> context[k].to] /\ context[k].to \in Nat /\ context[k].to >= 1
  <1>1. PICK n, c : n = Len(context) /\ c = context
    OBVIOUS
  <1>2. /\ n \in Nat /\ n > 0 /\ k \in 1..n /\ c[1].from = 1
        /\ \A i \in 1..n : c[i].from \in Nat /\ c[i].to \in Nat /\ c[i].from > 0 /\ c[i].from <= c[i].to
        /\ \A i, j \in 1..n : i < j => c[i].to < c[j].from
    BY <1>1, InOrderFacts
  <1>3. 1 \in 1..k /\ k \in 1..k /\ 1..k \subseteq 1..n
    BY <1>2
  <1>4. LeastOf({c[i].from : i \in 1..k}) = 1
    <2>1. PICK S : S = {c[i].from : i \in 1..k}
      OBVIOUS
    <2>2. 1 \in S /\ \A m \in S : m \in Nat /\ 1 <= m
      BY <1>2, <1>3, <2>1
    <2>3. PICK least : least = LeastOf(S)
      OBVIOUS
    <2>4. least \in S /\ \A m \in S : least <= m
      BY <2>2, <2>3 DEF LeastOf
    <2>5. least = 1
      BY <2>2, <2>4
    <2> QED BY <2>1, <2>3, <2>5
  <1>5. MostOf({c[i].to : i \in 1..k}) = c[k].to
    <2>1. PICK S : S = {c[i].to : i \in 1..k}
      OBVIOUS
    <2>2. ASSUME NEW i \in 1..k PROVE c[i].to <= c[k].to
      <3>1. CASE i = k
        BY <1>2, <1>3, <3>1
      <3>2. CASE i < k
        <4>1. c[i].to < c[k].from /\ c[k].from <= c[k].to
          BY <1>2, <1>3, <3>2
        <4> QED BY <1>2, <1>3, <4>1
      <3> QED BY <1>2, <3>1, <3>2
    <2>3. c[k].to \in S /\ \A m \in S : m \in Nat /\ m <= c[k].to
      BY <1>2, <1>3, <2>1, <2>2
    <2>4. PICK most : most = MostOf(S)
      OBVIOUS
    <2>5. most \in S /\ \A m \in S : m <= most
      BY <2>3, <2>4 DEF MostOf
    <2>6. most = c[k].to
      BY <2>3, <2>5
    <2> QED BY <2>1, <2>4, <2>6
  <1>6. SourceRange(k) = [from |-> 1, to |-> c[k].to]
    BY <1>1, <1>4, <1>5 DEF SourceRange
  <1>7. c[k].to \in Nat /\ c[k].to >= 1
    BY <1>2
  <1> QED BY <1>1, <1>6, <1>7

(* What a prefix allows are contents of its own, the summary's among them.  *)
LEMMA AllowedOfPrefix ==
    ASSUME head \in Nat, InOrder(context), NEW k \in 1..Len(context), NEW stored,
           stored \subseteq {i \in 1..k : context[i].content # NoArtifact}
    PROVE  AllowedRefs(k, stored) \subseteq Contents /\ context[1].refs \subseteq AllowedRefs(k, stored)
  <1>1. PICK n : n = Len(context)
    OBVIOUS
  <1>2. /\ n \in Nat /\ k \in 1..n
        /\ \A i \in 1..n : context[i].refs \subseteq Contents /\ context[i].content \in Contents \cup {NoArtifact}
    BY <1>1, InOrderFacts
  <1>3. 1 \in 1..k /\ 1..k \subseteq 1..n
    BY <1>2
  <1>4. UNION {context[i].refs : i \in 1..k} \subseteq Contents
    BY <1>2, <1>3
  <1>5. {context[i].content : i \in stored \cap (1..k)} \subseteq Contents
    BY <1>2, <1>3
  <1>6. context[1].refs \subseteq UNION {context[i].refs : i \in 1..k}
    BY <1>3
  <1> DEFINE A == UNION {context[i].refs : i \in 1..k}
             B == {context[i].content : i \in stored \cap (1..k)}
  <1>7. AllowedRefs(k, stored) = A \cup B
    BY DEF AllowedRefs
  <1>8. A \subseteq Contents /\ B \subseteq Contents /\ context[1].refs \subseteq A
    BY <1>4, <1>5, <1>6
  <1> HIDE DEF A, B
  <1> QED BY <1>7, <1>8

(* A message becomes a fact.                                                *)
LEMMA ConverseKeepsInv ==
    ASSUME SummaryInv, NEW content \in Contents \cup {NoArtifact}, Converse(content)
    PROVE  SummaryInv'
  <1>1. PICK n, m, c : n = Len(context) /\ m = [from |-> head + 1, to |-> head + 1, refs |-> {}, content |-> content]
                       /\ c = Append(context, m)
    OBVIOUS
  <1>2. /\ tries = "none" /\ head' = head + 1 /\ context' = c /\ UNCHANGED <<active, request, tries, usage, refusal>>
        /\ head \in Nat /\ InOrder(context)
    BY <1>1 DEF Converse, SummaryInv
  <1>3. /\ n \in Nat /\ n > 0 /\ context[1].from = 1
        /\ \A i \in 1..n : context[i].from \in Nat /\ context[i].to \in Nat
                           /\ context[i].from > 0 /\ context[i].from <= context[i].to /\ context[i].to <= head
        /\ \A i, j \in 1..n : i < j => context[i].to < context[j].from
    BY <1>1, <1>2, InOrderFacts
  <1>4. m \in ContextMessages /\ m.from = head + 1 /\ m.to = head + 1
    BY <1>1, <1>2 DEF ContextMessages
  <1>5. /\ c \in Seq(ContextMessages) /\ Len(c) = n + 1 /\ c[n + 1] = m
        /\ \A i \in 1..n : c[i] = context[i]
    BY <1>1, <1>2, <1>4, AppendProperties DEF InOrder
  <1>6. c # <<>> /\ c[1] = context[1]
    BY <1>3, <1>5, EmptySeq
  <1>7. ASSUME NEW i \in 1..(n + 1) PROVE c[i].from > 0 /\ c[i].from <= c[i].to /\ c[i].to <= head + 1
    <2>1. CASE i = n + 1
      BY <1>2, <1>4, <1>5, <2>1
    <2>2. CASE i \in 1..n
      BY <1>2, <1>3, <1>5, <2>2
    <2> QED BY <1>3, <2>1, <2>2
  <1>8. ASSUME NEW i \in 1..(n + 1), NEW j \in 1..(n + 1), i < j PROVE c[i].to < c[j].from
    <2>1. i \in 1..n
      BY <1>3, <1>8
    <2>2. CASE j = n + 1
      BY <1>2, <1>3, <1>4, <1>5, <2>1, <2>2
    <2>3. CASE j \in 1..n
      BY <1>3, <1>5, <1>8, <2>1, <2>3
    <2> QED BY <1>3, <2>2, <2>3
  <1>9. InOrder(context)'
    BY <1>2, <1>3, <1>5, <1>6, <1>7, <1>8 DEF InOrder
  <1>10. Carried(context)'
    BY <1>2, <1>6 DEF SummaryInv, Carried
  <1> QED BY <1>2, <1>9, <1>10 DEF SummaryInv, RequestFits, UsageFollows

(* Nothing of what was accepted stands in the way of a request, unless it   *)
(* is all there is to summarise.                                            *)
LEMMA NothingBars ==
    ASSUME head \in Nat, InOrder(context), Carried(context), NEW k \in 1..Len(context), NEW stored,
           stored \subseteq {i \in 1..k : context[i].content # NoArtifact}
    PROVE  \/ Refusal(k, 1, context[k].to, AllowedRefs(k, stored)) \in {"none", "too_many"}
           \/ /\ k = 1 /\ active # NoSummary
              /\ Refusal(k, 1, context[k].to, AllowedRefs(k, stored)) = "empty"
  <1>3. PICK n, to, allowed : n = Len(context) /\ to = context[k].to /\ allowed = AllowedRefs(k, stored)
    OBVIOUS
  <1>4. n \in Nat /\ k \in Nat /\ k >= 1
    BY <1>3, InOrderFacts
  <1>7. to \in Nat /\ to >= 1
    BY <1>3, SourceOfPrefix
  <1>8. context[1].refs \subseteq allowed
    BY <1>3, AllowedOfPrefix
  <1>9. PreviousStands(active, 1, to, allowed)
    <2> SUFFICES ASSUME active # NoSummary PROVE active.to <= to /\ active.refs \subseteq allowed /\ 1 <= active.from
      BY DEF PreviousStands
    <2>1. active.from = 1 /\ active.to = context[1].to /\ active.refs = context[1].refs
      BY DEF Carried
    <2>2. context[1].to <= to
      <3>1. /\ \A i \in 1..n : context[i].from \in Nat /\ context[i].to \in Nat /\ context[i].from <= context[i].to
            /\ \A i, j \in 1..n : i < j => context[i].to < context[j].from
        BY <1>3, InOrderFacts
      <3>2. 1 \in 1..n /\ k \in 1..n
        BY <1>3, <1>4
      <3>3. CASE k = 1
        BY <1>3, <1>7, <3>3
      <3>4. CASE 1 < k
        <4>1. context[1].to < context[k].from /\ context[k].from <= context[k].to
          BY <3>1, <3>2, <3>4
        <4> QED BY <1>3, <3>1, <3>2, <4>1
      <3> QED BY <1>4, <3>2, <3>3, <3>4
    <2> QED BY <1>8, <2>1, <2>2
  <1>10. ValidRange(1, to)
    BY <1>7 DEF ValidRange
  <1>11. SourceMessages(k) = {} => k = 1 /\ active # NoSummary
    BY <1>4 DEF SourceMessages
  <1>12. Refusal(k, 1, to, allowed) \in {"none", "too_many"}
            \/ (SourceMessages(k) = {} /\ Refusal(k, 1, to, allowed) = "empty")
    BY <1>9, <1>10 DEF Refusal
  <1> QED BY <1>3, <1>11, <1>12

(* A request is bound, or its source is refused.                            *)
LEMMA IssueKeepsInv ==
    ASSUME SummaryInv, NEW k \in 1..Len(context), NEW stored \in SUBSET (1..k), Issue(k, stored)
    PROVE  SummaryInv'
  <1>1. /\ tries = "none" /\ k \in 1..(Len(context) - 1) /\ stored \subseteq {i \in 1..k : context[i].content # NoArtifact}
        /\ head' = head + Cardinality(stored) /\ UNCHANGED <<context, active>>
    BY DEF Issue
  <1>2. head \in Nat /\ InOrder(context) /\ Carried(context)
    BY DEF SummaryInv
  <1>3. PICK n, to, allowed : n = Len(context) /\ to = context[k].to /\ allowed = AllowedRefs(k, stored)
    OBVIOUS
  <1>4. n \in Nat /\ k \in Nat
    BY <1>1, <1>2, <1>3, InOrderFacts
  <1>5. Cardinality(stored) \in Nat
    <2>1. IsFiniteSet(1..k)
      BY <1>4, FS_Interval
    <2>2. IsFiniteSet(stored)
      BY <2>1, FS_Subset
    <2> QED BY <2>2, FS_CardinalityType
  <1>6. head' \in Nat /\ head' >= head
    BY <1>1, <1>2, <1>5
  <1>7. SourceRange(k) = [from |-> 1, to |-> to] /\ to \in Nat /\ to >= 1
    BY <1>2, <1>3, SourceOfPrefix
  <1>8. allowed \subseteq Contents /\ context[1].refs \subseteq allowed
    BY <1>1, <1>2, <1>3, AllowedOfPrefix
  <1>10. PICK why : why = Refusal(k, 1, to, allowed)
    OBVIOUS
  <1>11. why \in {"too_many", "empty", "none"}
    BY <1>1, <1>2, <1>3, <1>10, NothingBars
  <1>12. /\ refusal' = why
         /\ IF why = "none"
            THEN /\ request' = [from |-> 1, to |-> to, allowed |-> allowed, prefix |-> k]
                 /\ tries' = "first" /\ usage' = [received |-> 0, reported |-> 0]
            ELSE UNCHANGED <<request, tries, usage>>
    BY <1>3, <1>7, <1>10 DEF Issue
  <1>13. InOrder(context)'
    <2>1. \A i \in 1..n : context[i].to \in Nat /\ context[i].to <= head
      BY <1>2, <1>3, InOrderFacts
    <2>2. \A i \in 1..n : context[i].to <= head'
      BY <1>2, <1>6, <2>1
    <2> QED BY <1>1, <1>2, <1>3, <2>2 DEF InOrder
  <1>14. Carried(context)'
    BY <1>1, <1>2 DEF Carried
  <1>15. RequestFits' /\ UsageFollows'
    <2>1. CASE why = "none"
      <3>1. /\ request' = [from |-> 1, to |-> to, allowed |-> allowed, prefix |-> k]
            /\ tries' = "first" /\ usage' = [received |-> 0, reported |-> 0]
        BY <1>12, <2>1
      <3> QED BY <1>1, <1>3, <1>8, <3>1 DEF RequestFits, UsageFollows
    <2>2. CASE why # "none"
      <3>1. UNCHANGED <<request, tries, usage>>
        BY <1>12, <2>2
      <3> QED BY <1>1, <3>1 DEF RequestFits, UsageFollows, SummaryInv
    <2> QED BY <2>1, <2>2
  <1> QED BY <1>6, <1>11, <1>12, <1>13, <1>14, <1>15 DEF SummaryInv

(* An answer is rejected, or none comes.                                    *)
LEMMA NoSummaryKeepsInv ==
    ASSUME SummaryInv, tries # "none", Rejected \/ ModelFails
    PROVE  SummaryInv'
  <1>1. UNCHANGED <<head, context, active>>
    BY DEF Rejected, Over, ModelFails
  <1>2. usage = [received |-> usage.received, reported |-> usage.reported]
        /\ ((tries = "first" /\ usage.received = 0) \/ (tries = "correction" /\ usage.received = 1))
    <2>1. UsageFollows
      BY DEF SummaryInv
    <2> QED BY <2>1 DEF UsageFollows
  <1>3. RequestFits' /\ UsageFollows' /\ refusal' \notin {"previous", "range"}
    <2>1. CASE ModelFails
      <3>1. tries' = "none" /\ refusal' = "model" /\ usage' = [usage EXCEPT !.reported = IF tries = "correction" THEN usage.received ELSE 0]
        BY <2>1 DEF ModelFails
      <3>2. PICK v : v = IF tries = "correction" THEN usage.received ELSE 0
        OBVIOUS
      <3>3. v = usage.received /\ usage' = [received |-> usage.received, reported |-> v]
        BY <1>2, <3>1, <3>2
      <3>4. usage'.received = usage.received /\ usage'.reported = usage.received
            /\ usage' = [received |-> usage'.received, reported |-> usage'.reported]
        BY <3>3
      <3> QED BY <3>1, <3>4 DEF RequestFits, UsageFollows
    <2>2. CASE Rejected /\ tries = "first"
      <3>1. tries' = "correction" /\ usage' = [usage EXCEPT !.received = @ + 1] /\ UNCHANGED <<head, context, active, request, refusal>>
        BY <2>2 DEF Rejected
      <3>2. usage' = [received |-> 1, reported |-> usage.reported]
        BY <1>2, <2>2, <3>1
      <3> QED BY <2>2, <3>1, <3>2 DEF SummaryInv, RequestFits, UsageFollows
    <2>3. CASE Rejected /\ tries = "correction"
      <3>1. tries' = "none" /\ refusal' = "answer" /\ usage' = [received |-> usage.received + 1, reported |-> usage.received + 1]
        BY <2>3 DEF Rejected, Over, Aggregated
      <3> QED BY <3>1 DEF RequestFits, UsageFollows
    <2> QED BY <1>2, <2>1, <2>2, <2>3
  <1> QED BY <1>1, <1>3 DEF SummaryInv, InOrder, Carried

(* An accepted answer takes the place of the prefix it covers.              *)
LEMMA AcceptedKeepsInv ==
    ASSUME SummaryInv, tries # "none", NEW a, Passes(a), Answer(a)
    PROVE  SummaryInv'
  <1>1. PICK k, n, c : k = request.prefix /\ n = Len(context) /\ c = context
    OBVIOUS
  <1>2. /\ head \in Nat /\ InOrder(c) /\ k \in 1..(n - 1) /\ request.from = 1 /\ request.to = c[k].to
        /\ request.allowed \subseteq Contents
    BY <1>1 DEF SummaryInv, RequestFits
  <1>3. /\ n \in Nat /\ n > 0 /\ c \in [1..n -> ContextMessages]
        /\ \A i \in 1..n : c[i].from \in Nat /\ c[i].to \in Nat
                           /\ c[i].from > 0 /\ c[i].from <= c[i].to /\ c[i].to <= head
        /\ \A i, j \in 1..n : i < j => c[i].to < c[j].from
    BY <1>1, <1>2, InOrderFacts
  <1>4. k \in 1..n /\ 1 \in 1..n
    BY <1>2, <1>3
  <1>5. PICK refs : refs = Range(a.refs)
    OBVIOUS
  <1>6. refs \subseteq Contents /\ a.from = 1 /\ a.to = c[k].to
    BY <1>2, <1>5 DEF Passes, RefsAllowed, RangeMatches
  <1>7. PICK m, rest, d : /\ m = [from |-> 1, to |-> c[k].to, refs |-> refs, content |-> NoArtifact]
                          /\ rest = SubSeq(c, k + 1, n) /\ d = <<m>> \o rest
    OBVIOUS
  <1>8. /\ active' = [from |-> 1, to |-> c[k].to, refs |-> refs] /\ context' = d /\ tries' = "none" /\ refusal' = "none"
        /\ usage' = [received |-> usage.received + 1, reported |-> Aggregated] /\ UNCHANGED head
    BY <1>1, <1>5, <1>6, <1>7 DEF Answer
  <1>9. m \in ContextMessages /\ m.from = 1 /\ m.to = c[k].to /\ m.refs = refs
    BY <1>3, <1>4, <1>6, <1>7 DEF ContextMessages
  <1>10. rest \in Seq(ContextMessages) /\ Len(rest) = n - k /\ \A i \in 1..(n - k) : rest[i] = c[k + i]
    <2>1. c \in Seq(ContextMessages) /\ k + 1 \in 1..(n + 1) /\ n \in k..n
      BY <1>2, <1>3, <1>4 DEF InOrder
    <2>2. rest \in Seq(ContextMessages) /\ Len(rest) = (IF k + 1 <= n THEN n - (k + 1) + 1 ELSE 0)
          /\ \A i \in 1..(n - (k + 1) + 1) : rest[i] = c[(k + 1) + i - 1]
      BY <1>1, <1>3, <1>7, <2>1, SubSeqProperties
    <2>3. k \in Nat /\ k + 1 <= n
      BY <1>2, <1>3
    <2>4. n - (k + 1) + 1 = n - k /\ \A i \in 1..(n - k) : (k + 1) + i - 1 = k + i
      BY <1>3, <2>3
    <2> QED BY <2>2, <2>3, <2>4
  <1>11. /\ d \in Seq(ContextMessages) /\ Len(d) = (n - k) + 1 /\ d[1] = m
         /\ \A i \in 1..(n - k) : d[i + 1] = c[k + i]
    <2>1. <<m>> \in Seq(ContextMessages) /\ Len(<<m>>) = 1 /\ <<m>>[1] = m
      BY <1>9
    <2>2. n - k \in Nat
      BY <1>2, <1>3
    <2>3. d \in Seq(ContextMessages) /\ Len(d) = 1 + (n - k)
          /\ \A i \in 1..(1 + (n - k)) : d[i] = IF i <= 1 THEN <<m>>[i] ELSE rest[i - 1]
      BY <1>7, <1>10, <2>1, ConcatProperties
    <2>4. ASSUME NEW i \in 1..(n - k) PROVE d[i + 1] = c[k + i]
      <3>1. i + 1 \in 1..(1 + (n - k)) /\ ~(i + 1 <= 1) /\ (i + 1) - 1 = i
        BY <2>2
      <3> QED BY <1>10, <2>3, <3>1
    <2>5. d[1] = m
      BY <2>1, <2>2, <2>3
    <2> QED BY <2>2, <2>3, <2>4, <2>5
  <1>12. ASSUME NEW i \in 1..((n - k) + 1)
         PROVE  \/ i = 1 /\ d[i] = m
                \/ i - 1 \in 1..(n - k) /\ k + (i - 1) \in 1..n /\ k < k + (i - 1) /\ d[i] = c[k + (i - 1)]
    <2>1. n - k \in Nat /\ k \in Nat
      BY <1>2, <1>3
    <2>2. CASE i = 1
      BY <1>11, <2>2
    <2>3. CASE i # 1
      <3>1. i - 1 \in 1..(n - k) /\ (i - 1) + 1 = i
        BY <2>1, <2>3
      <3>2. d[i] = c[k + (i - 1)]
        BY <1>11, <3>1
      <3>3. k + (i - 1) \in 1..n /\ k < k + (i - 1)
        BY <1>3, <2>1, <3>1
      <3> QED BY <3>1, <3>2, <3>3
    <2> QED BY <2>2, <2>3
  <1>13. ASSUME NEW i \in 1..((n - k) + 1) PROVE d[i].from > 0 /\ d[i].from <= d[i].to /\ d[i].to <= head
    <2>1. 1 <= c[k].to
      BY <1>3, <1>4
    <2> QED BY <1>3, <1>4, <1>9, <1>12, <2>1
  <1>14. ASSUME NEW i \in 1..((n - k) + 1), NEW j \in 1..((n - k) + 1), i < j PROVE d[i].to < d[j].from
    <2>1. j - 1 \in 1..(n - k) /\ k + (j - 1) \in 1..n /\ k < k + (j - 1) /\ d[j] = c[k + (j - 1)]
      BY <1>12, <1>14
    <2>2. CASE i = 1
      BY <1>3, <1>4, <1>9, <1>11, <2>1, <2>2
    <2>3. CASE i # 1
      <3>1. k + (i - 1) \in 1..n /\ d[i] = c[k + (i - 1)]
        BY <1>12, <2>3
      <3>2. k + (i - 1) < k + (j - 1)
        BY <1>2, <1>3, <1>14
      <3> QED BY <1>3, <2>1, <3>1, <3>2
    <2> QED BY <2>2, <2>3
  <1>15. InOrder(context)'
    <2>1. d # <<>>
      BY <1>2, <1>3, <1>11, EmptySeq
    <2> QED BY <1>8, <1>9, <1>11, <1>13, <1>14, <2>1 DEF InOrder
  <1>16. Carried(context)'
    BY <1>8, <1>9, <1>11 DEF Carried
  <1>17. UsageFollows'
    <2>1. Aggregated = usage.received + 1
      BY DEF Aggregated, SummaryInv, UsageFollows
    <2> QED BY <1>8, <2>1 DEF UsageFollows
  <1> QED BY <1>2, <1>8, <1>15, <1>16, <1>17 DEF SummaryInv, RequestFits

(* Summaries of summaries stay anchored in the history and every response   *)
(* that was paid for is reported, for any contents, any bound on references *)
(* and any journal (bind_summary_source, validate_previous_summary,         *)
(* generate_summary).                                                       *)
THEOREM RecursionAlwaysStands == SummarySpec => []RecursionStands
  <1>1. SummaryInit => SummaryInv
    <2> SUFFICES ASSUME SummaryInit PROVE SummaryInv
      OBVIOUS
    <2>1. PICK m : m = [from |-> 1, to |-> 1, refs |-> {}, content |-> NoArtifact]
      OBVIOUS
    <2>2. /\ head = 1 /\ context = <<m>> /\ active = NoSummary /\ tries = "none" /\ refusal = "none"
          /\ usage = [received |-> 0, reported |-> 0]
      BY <2>1 DEF SummaryInit
    <2>3. m \in ContextMessages /\ m.from = 1 /\ m.to = 1
      BY <2>1 DEF ContextMessages
    <2>4. context \in Seq(ContextMessages) /\ Len(context) = 1 /\ context[1] = m /\ context # <<>>
      BY <2>2, <2>3, EmptySeq
    <2>5. InOrder(context)
      BY <2>2, <2>3, <2>4 DEF InOrder
    <2> QED BY <2>2, <2>5 DEF SummaryInv, Carried, RequestFits, UsageFollows
  <1>2. SummaryInv /\ [SummaryNext]_summaryVars => SummaryInv'
    <2> SUFFICES ASSUME SummaryInv, [SummaryNext]_summaryVars PROVE SummaryInv'
      OBVIOUS
    <2>1. ASSUME NEW content \in Contents \cup {NoArtifact}, Converse(content) PROVE SummaryInv'
      BY <2>1, ConverseKeepsInv
    <2>2. ASSUME NEW k \in 1..Len(context), NEW stored \in SUBSET (1..k), Issue(k, stored) PROVE SummaryInv'
      BY <2>2, IssueKeepsInv
    <2>3. CASE WrongShape \/ ModelFails
      BY <2>3, NoSummaryKeepsInv DEF WrongShape, ModelFails
    <2>4. ASSUME tries # "none", NEW a \in Answers, Answer(a) PROVE SummaryInv'
      <3>1. CASE Passes(a)
        BY <2>4, <3>1, AcceptedKeepsInv
      <3>2. CASE ~Passes(a)
        BY <2>4, <3>2, NoSummaryKeepsInv DEF Answer
      <3> QED BY <3>1, <3>2
    <2>5. CASE UNCHANGED summaryVars
      BY <2>5 DEF summaryVars, SummaryInv, InOrder, Carried, RequestFits, UsageFollows
    <2> QED BY <2>1, <2>2, <2>3, <2>4, <2>5 DEF SummaryNext
  <1>3. SummaryInv => RecursionStands
    <2> SUFFICES ASSUME SummaryInv PROVE RecursionStands
      OBVIOUS
    <2>1. /\ Len(context) \in Nat /\ Len(context) > 0 /\ context[1].from = 1
          /\ \A i \in 1..Len(context) : context[i].refs \subseteq Contents
          /\ \A i, j \in 1..Len(context) : i < j => context[i].to < context[j].from
      BY InOrderFacts DEF SummaryInv
    <2>2. \A i \in 1..(Len(context) - 1) : context[i].to < context[i + 1].from
      <3>1. PICK n, c : n = Len(context) /\ c = context
        OBVIOUS
      <3> QED BY <2>1, <3>1
    <2>3. Forged \notin UNION {context[i].refs : i \in 1..Len(context)}
      BY <2>1, ForgedIsForged
    <2>4. UsageIsComplete
      BY DEF SummaryInv, UsageFollows, UsageIsComplete
    <2>5. SummariesStayAnchored
      BY <2>1, <2>2, <2>3 DEF SummaryInv, Carried, SummariesStayAnchored
    <2>6. NextCanBeAsked
      <3> SUFFICES ASSUME NEW k \in 1..(Len(context) - 1)
                   PROVE  LET why == Refusal(k, SourceRange(k).from, SourceRange(k).to, AllowedRefs(k, {}))
                          IN why \in {"none", "too_many"} \/ (k = 1 /\ active # NoSummary /\ why = "empty")
        BY DEF NextCanBeAsked, SummaryInv
      <3>1. k \in 1..Len(context) /\ head \in Nat /\ InOrder(context) /\ Carried(context)
        BY <2>1 DEF SummaryInv
      <3>2. SourceRange(k).from = 1 /\ SourceRange(k).to = context[k].to
        BY <3>1, SourceOfPrefix
      <3> QED BY <3>1, <3>2, NothingBars
    <2> QED BY <2>4, <2>5, <2>6 DEF RecursionStands
  <1> QED BY <1>1, <1>2, <1>3, PTL DEF SummarySpec

-----------------------------------------------------------------------------
(* Delegation.                                                              *)

\* The catalogs on the way through the documents.
Found(g, docs, n) ==
    IF n = 0 THEN [name \in {} |-> Unset]
    ELSE IF ReadAgentType(docs[n]) THEN InsertEntry(g[n - 1], DocumentName(docs[n]), docs[n]) ELSE g[n - 1]

\* The last of the first n documents that names a type.
Newest(i, name, docs, n) ==
    /\ ReadAgentType(docs[i]) /\ DocumentName(docs[i]) = name
    /\ \A k \in 1..n : ReadAgentType(docs[k]) /\ DocumentName(docs[k]) = name => k <= i
Catalogs(catalog, docs, n) ==
    /\ \A i \in 1..n : ReadAgentType(docs[i]) => DocumentName(docs[i]) \in DOMAIN catalog
    /\ \A name \in DOMAIN catalog : \E i \in 1..n : Newest(i, name, docs, n) /\ catalog[name] = docs[i]

(* The documents can be read one after the other.                           *)
LEMMA FindsAll ==
    ASSUME NEW docs, NEW n \in Nat
    PROVE  \E g : g = [k \in 0..n |-> Found(g, docs, k)]
  <1> DEFINE Reached == {m \in Nat : \E g : g = [k \in 0..m |-> Found(g, docs, k)]}
  <1>1. 0 \in Reached
    <2>1. PICK g : g = [k \in 0..0 |-> [name \in {} |-> Unset]]
      OBVIOUS
    <2>2. \A k \in 0..0 : Found(g, docs, k) = [name \in {} |-> Unset]
      BY DEF Found
    <2>3. g = [k \in 0..0 |-> Found(g, docs, k)]
      BY <2>1, <2>2
    <2> QED BY <2>3
  <1>2. ASSUME NEW m \in Nat, m \in Reached PROVE m + 1 \in Reached
    <2>1. PICK g : g = [k \in 0..m |-> Found(g, docs, k)]
      BY <1>2
    <2>2. PICK last : last = Found(g, docs, m + 1)
      OBVIOUS
    <2>3. PICK h : h = [k \in 0..(m + 1) |-> IF k <= m THEN g[k] ELSE last]
      OBVIOUS
    <2>4. ASSUME NEW k \in 0..(m + 1) PROVE h[k] = Found(h, docs, k)
      <3>1. k # 0 => h[k - 1] = g[k - 1]
        BY <2>3
      <3>2. Found(h, docs, k) = Found(g, docs, k)
        BY <3>1 DEF Found
      <3>3. CASE k <= m
        <4>1. h[k] = g[k] /\ g[k] = Found(g, docs, k)
          BY <2>1, <2>3, <3>3
        <4> QED BY <3>2, <4>1
      <3>4. CASE k = m + 1
        <4>1. h[k] = last
          BY <2>3, <3>4
        <4> QED BY <2>2, <3>2, <3>4, <4>1
      <3> QED BY <3>3, <3>4
    <2>5. h = [k \in 0..(m + 1) |-> h[k]]
      BY <2>3
    <2>6. h = [k \in 0..(m + 1) |-> Found(h, docs, k)]
      BY <2>4, <2>5
    <2> QED BY <2>6
  <1>3. Nat \subseteq Reached
    <2> HIDE DEF Reached
    <2> QED BY <1>1, <1>2, InductionSet
  <1> QED BY <1>3

(* One more document.                                                       *)
LEMMA EntryInserted ==
    ASSUME NEW catalog, NEW docs, NEW n \in Nat, Catalogs(catalog, docs, n)
    PROVE  /\ ReadAgentType(docs[n + 1]) => Catalogs(InsertEntry(catalog, DocumentName(docs[n + 1]), docs[n + 1]), docs, n + 1)
           /\ ~ReadAgentType(docs[n + 1]) => Catalogs(catalog, docs, n + 1)
  <1>1. \A i \in 1..(n + 1) : i \in 1..n \/ i = n + 1
    OBVIOUS
  <1>2. ASSUME NEW i \in 1..n, NEW name, Newest(i, name, docs, n), ~(ReadAgentType(docs[n + 1]) /\ DocumentName(docs[n + 1]) = name)
        PROVE  Newest(i, name, docs, n + 1)
    BY <1>1, <1>2 DEF Newest
  <1>3. CASE ReadAgentType(docs[n + 1])
    <2>1. PICK d, new, c : d = docs[n + 1] /\ new = DocumentName(d) /\ c = InsertEntry(catalog, new, d)
      OBVIOUS
    <2>2. c = [name \in DOMAIN catalog \cup {new} |-> IF name = new THEN d ELSE catalog[name]]
      BY <2>1 DEF InsertEntry
    <2>3. DOMAIN c = DOMAIN catalog \cup {new} /\ c[new] = d /\ \A name \in DOMAIN catalog : name # new => c[name] = catalog[name]
      BY <2>2
    <2>4. ASSUME NEW i \in 1..(n + 1), ReadAgentType(docs[i]) PROVE DocumentName(docs[i]) \in DOMAIN c
      <3>1. CASE i \in 1..n
        BY <2>3, <2>4, <3>1 DEF Catalogs
      <3>2. CASE i = n + 1
        BY <2>1, <2>3, <3>2
      <3> QED BY <1>1, <3>1, <3>2
    <2>5. ASSUME NEW name \in DOMAIN c PROVE \E i \in 1..(n + 1) : Newest(i, name, docs, n + 1) /\ c[name] = docs[i]
      <3>1. CASE name = new
        <4>1. \A k \in 1..(n + 1) : k <= n + 1
          OBVIOUS
        <4>2. n + 1 \in 1..(n + 1)
          OBVIOUS
        <4>3. Newest(n + 1, name, docs, n + 1)
          BY <1>3, <2>1, <3>1, <4>1 DEF Newest
        <4> QED BY <2>1, <2>3, <3>1, <4>2, <4>3
      <3>2. CASE name # new
        <4>1. name \in DOMAIN catalog /\ c[name] = catalog[name]
          BY <2>3, <3>2
        <4>2. PICK i \in 1..n : Newest(i, name, docs, n) /\ catalog[name] = docs[i]
          BY <4>1 DEF Catalogs
        <4>3. Newest(i, name, docs, n + 1)
          BY <1>2, <2>1, <3>2, <4>2
        <4>4. i \in 1..(n + 1)
          OBVIOUS
        <4> QED BY <4>1, <4>2, <4>3, <4>4
      <3> QED BY <3>1, <3>2
    <2>6. Catalogs(c, docs, n + 1)
      BY <2>4, <2>5 DEF Catalogs
    <2> QED BY <1>3, <2>1, <2>6
  <1>4. CASE ~ReadAgentType(docs[n + 1])
    <2>1. ASSUME NEW i \in 1..(n + 1), ReadAgentType(docs[i]) PROVE DocumentName(docs[i]) \in DOMAIN catalog
      BY <1>1, <1>4, <2>1 DEF Catalogs
    <2>2. ASSUME NEW name \in DOMAIN catalog PROVE \E i \in 1..(n + 1) : Newest(i, name, docs, n + 1) /\ catalog[name] = docs[i]
      <3>1. PICK i \in 1..n : Newest(i, name, docs, n) /\ catalog[name] = docs[i]
        BY DEF Catalogs
      <3>2. Newest(i, name, docs, n + 1)
        BY <1>2, <1>4, <3>1
      <3>3. i \in 1..(n + 1)
        OBVIOUS
      <3> QED BY <3>1, <3>2, <3>3
    <2> QED BY <1>4, <2>1, <2>2 DEF Catalogs
  <1> QED BY <1>3, <1>4

(* A scan finds, for every name a usable document has, the last of them.    *)
LEMMA ScanCatalogs ==
    ASSUME NEW docs, NEW n \in Nat, n = Len(docs), DOMAIN docs = 1..n
    PROVE  Catalogs(Scan(docs, AgentTypesIn(docs)), docs, n)
  <1> DEFINE usable == AgentTypesIn(docs)
  <1>0. \A k \in 1..n : docs[k] \in usable <=> ReadAgentType(docs[k])
    BY DEF AgentTypesIn, ToSet
  <1> HIDE DEF usable
  <1>1. \E g : g = [k \in 0..n |-> IF k = 0 THEN [name \in {} |-> Unset]
                                   ELSE IF docs[k] \in usable THEN InsertEntry(g[k - 1], DocumentName(docs[k]), docs[k])
                                   ELSE g[k - 1]]
    <2>1. PICK g : g = [k \in 0..n |-> Found(g, docs, k)]
      BY FindsAll
    <2>2. g = [k \in 0..n |-> IF k = 0 THEN [name \in {} |-> Unset]
                              ELSE IF docs[k] \in usable THEN InsertEntry(g[k - 1], DocumentName(docs[k]), docs[k])
                              ELSE g[k - 1]]
      BY <1>0, <2>1 DEF Found
    <2> QED BY <2>2
  <1>2. PICK w : w = CHOOSE g : g = [k \in 0..n |-> IF k = 0 THEN [name \in {} |-> Unset]
                                   ELSE IF docs[k] \in usable THEN InsertEntry(g[k - 1], DocumentName(docs[k]), docs[k])
                                   ELSE g[k - 1]]
    OBVIOUS
  <1>3. w = [k \in 0..n |-> IF k = 0 THEN [name \in {} |-> Unset]
                            ELSE IF docs[k] \in usable THEN InsertEntry(w[k - 1], DocumentName(docs[k]), docs[k])
                            ELSE w[k - 1]]
    BY <1>1, <1>2
  <1>4. Scan(docs, usable) = w[n]
    BY <1>2 DEF Scan
  <1> DEFINE Fine == {m \in Nat : m <= n => Catalogs(w[m], docs, m)}
  <1>5. 0 \in Fine
    <2>1. PICK empty : empty = [name \in {} |-> Unset]
      OBVIOUS
    <2>2. w[0] = empty /\ DOMAIN empty = {}
      BY <1>3, <2>1
    <2>3. Catalogs(empty, docs, 0)
      BY <2>2 DEF Catalogs
    <2> QED BY <2>2, <2>3
  <1>6. ASSUME NEW m \in Nat, m \in Fine PROVE m + 1 \in Fine
    <2> SUFFICES ASSUME m + 1 <= n PROVE Catalogs(w[m + 1], docs, m + 1)
      OBVIOUS
    <2>1. m <= n /\ m + 1 \in 0..n /\ (m + 1) - 1 = m /\ m + 1 # 0
      OBVIOUS
    <2>2. Catalogs(w[m], docs, m)
      BY <1>6, <2>1
    <2>3. w[m + 1] = IF ReadAgentType(docs[m + 1]) THEN InsertEntry(w[m], DocumentName(docs[m + 1]), docs[m + 1]) ELSE w[m]
      BY <1>0, <1>3, <2>1
    <2> QED BY <2>2, <2>3, EntryInserted
  <1>7. Nat \subseteq Fine
    <2> HIDE DEF Fine
    <2> QED BY <1>5, <1>6, InductionSet
  <1> QED BY <1>4, <1>7 DEF usable

RunnerFits == runner \in {Registry[n] : n \in DOMAIN Registry}
Catalogued ==
    /\ shelf = [agents |-> shelf.agents, skills |-> shelf.skills] /\ types = ScanTypes(shelf.agents)
    /\ \E s \in Shelves : shelf.agents = s.agents

SessionType ==
    /\ session = [enabled |-> session.enabled, plan |-> session.plan, messages |-> session.messages,
                  compactions |-> session.compactions, turns |-> session.turns]
    /\ session.enabled \in BOOLEAN /\ session.plan \in {0, 1}
    /\ session.messages \in Nat /\ session.compactions \in Nat

TurnType ==
    /\ turn = [phase |-> turn.phase, iteration |-> turn.iteration, calls |-> turn.calls, usage |-> turn.usage,
               meter |-> turn.meter, outcome |-> turn.outcome]
    /\ turn.calls \in Nat /\ turn.usage \in Nat /\ turn.meter \in Nat
    /\ spent = [calls |-> spent.calls, lost |-> spent.lost] /\ spent.calls \in Nat /\ spent.lost \in Nat
    /\ task = NoTask \/ task = [type |-> task.type, runner |-> task.runner, iteration |-> task.iteration]
    /\ task.iteration \in Nat

\* While a batch is served the model calls of its delegations are on the meter
\* or with the one in progress; at any other time they are on the bill.
Billed ==
    /\ turn.phase # "over" => turn.outcome = "none"
    /\ turn.phase \in {"asking", "model"} => turn.usage = spent.calls - spent.lost
    /\ turn.phase = "batch" => turn.usage + turn.meter + task.iteration = spent.calls - spent.lost
    /\ turn.phase = "idle" => turn.usage = 0 /\ spent.calls = 0 /\ spent.lost = 0
    /\ task # NoTask => turn.phase = "batch" /\ turn.calls > 0

\* The frame of a request is the session's, its plan there or not.
FrameWith(state) ==
    [tools |-> ParentTools, types |-> DOMAIN types, skills |-> skills, summaries |-> Protects(session), state |-> state]
Framed(r) ==
    /\ r.messages \in Nat /\ r.compactions \in Nat
    /\ \/ r.system = FrameWith(TRUE) /\ r.tail # Unset
       \/ r.system = FrameWith(FALSE) /\ r.tail = Unset /\ ~Protects(session)

\* The session is at least where its last request was, and further on when the
\* next one can be made.
Passed(r) == session.messages > r.messages \/ session.compactions > r.compactions
Current(r) ==
    /\ session.compactions >= r.compactions
    /\ session.compactions > r.compactions \/ session.messages >= r.messages
    /\ turn.phase \in {"asking", "batch"} => Passed(r)
RequestsFollow ==
    \/ requests = <<>>
    \/ \E r : requests = <<r>> /\ Framed(r) /\ Current(r)
    \/ \E q, r : /\ requests = <<q, r>> /\ Framed(q) /\ Framed(r) /\ Current(r)
                 /\ r.messages > q.messages \/ r.compactions > q.compactions

DelegationInv ==
    /\ RunnerFits /\ Catalogued /\ SessionType /\ TurnType /\ DelegationsOnlyNarrow /\ Billed /\ EveryCallIsBilled
    /\ RequestsFollow

(* The documents of the two roots are a sequence.                           *)
LEMMA DocumentsAreRead ==
    ASSUME NEW s \in Shelves
    PROVE  /\ Len(Documents(s.agents)) \in Nat
           /\ DOMAIN Documents(s.agents) = 1..Len(Documents(s.agents))
  <1>1. PICK p, q : p = s.agents[1] /\ q = s.agents[2]
    OBVIOUS
  <1>2. PICK S, T : S = ToSet(p) /\ T = ToSet(q)
    OBVIOUS
  <1>3. p \in Seq(S) /\ q \in Seq(T)
    BY <1>1, <1>2, ShelvesHaveTwoRoots
  <1>4. p \in Seq(S \cup T) /\ q \in Seq(S \cup T)
    BY <1>3, SeqDef
  <1>5. p \o q \in Seq(S \cup T)
    BY <1>4, ConcatProperties
  <1>6. Documents(s.agents) = p \o q
    BY <1>1 DEF Documents
  <1> QED BY <1>5, <1>6, LenProperties

(* The types of a session are those of its documents, the last of each name. *)
LEMMA TypesAreNewest ==
    ASSUME Catalogued, NEW docs, docs = Documents(shelf.agents), NEW n, n = Len(docs)
    PROVE  /\ n \in Nat /\ DOMAIN docs = 1..n
           /\ \A name \in DOMAIN types : \E i \in 1..n : Newest(i, name, docs, n) /\ types[name] = TypeOf(docs[i])
           /\ \A i \in 1..n : ReadAgentType(docs[i]) => DocumentName(docs[i]) \in DOMAIN types
  <1>1. PICK s \in Shelves : shelf.agents = s.agents
    BY DEF Catalogued
  <1>2. n \in Nat /\ DOMAIN docs = 1..n
    BY <1>1, DocumentsAreRead
  <1>3. PICK found : found = Scan(docs, AgentTypesIn(docs))
    OBVIOUS
  <1>4. types = [m \in DOMAIN found |-> TypeOf(found[m])]
    BY <1>3 DEF Catalogued, ScanTypes
  <1>5. Catalogs(found, docs, n)
    BY <1>2, <1>3, ScanCatalogs
  <1>6. DOMAIN types = DOMAIN found /\ \A m \in DOMAIN found : types[m] = TypeOf(found[m])
    BY <1>4
  <1>7. ASSUME NEW name \in DOMAIN types PROVE \E i \in 1..n : Newest(i, name, docs, n) /\ types[name] = TypeOf(docs[i])
    <2>1. PICK i \in 1..n : Newest(i, name, docs, n) /\ found[name] = docs[i]
      BY <1>5, <1>6 DEF Catalogs
    <2>2. types[name] = TypeOf(found[name])
      BY <1>6
    <2> QED BY <2>1, <2>2
  <1>8. \A i \in 1..n : ReadAgentType(docs[i]) => DocumentName(docs[i]) \in DOMAIN types
    BY <1>5, <1>6 DEF Catalogs
  <1> QED BY <1>2, <1>7, <1>8

(* A type that is resolved is resolved again by its own name.               *)
LEMMA ResolvedByName ==
    ASSUME Catalogued, NEW name, NEW type, type = Resolve(name), type # Unset
    PROVE  Resolve(type.name) = type
  <1>1. CASE name \in Builtins
    <2>1. type = AgentType(name, Unset, name = "fork", Unset)
      BY <1>1 DEF Resolve, BuiltinType
    <2>2. type.name = name
      BY <2>1 DEF AgentType
    <2> QED BY <2>2
  <1>2. CASE name \notin Builtins
    <2>1. name \in DOMAIN types /\ type = types[name]
      BY <1>2 DEF Resolve
    <2>2. PICK docs, n : docs = Documents(shelf.agents) /\ n = Len(docs)
      OBVIOUS
    <2>3. PICK i \in 1..n : Newest(i, name, docs, n) /\ types[name] = TypeOf(docs[i])
      BY <2>1, <2>2, TypesAreNewest
    <2>4. PICK d : d = docs[i]
      OBVIOUS
    <2>5. TypeOf(d).name = DocumentName(d)
      BY DEF TypeOf, AgentType
    <2>6. DocumentName(d) = name
      BY <2>3, <2>4 DEF Newest
    <2> QED BY <2>1, <2>3, <2>4, <2>5, <2>6
  <1> QED BY <1>1, <1>2

(* The catalogs are exact.                                                  *)
LEMMA CataloguedIsExact == Catalogued => CatalogIsExact
  <1> SUFFICES ASSUME Catalogued PROVE CatalogIsExact
    OBVIOUS
  <1>1. PICK docs, n : docs = Documents(shelf.agents) /\ n = Len(docs)
    OBVIOUS
  <1>2. /\ n \in Nat /\ DOMAIN docs = 1..n
        /\ \A name \in DOMAIN types : \E i \in 1..n : Newest(i, name, docs, n) /\ types[name] = TypeOf(docs[i])
        /\ \A i \in 1..n : ReadAgentType(docs[i]) => DocumentName(docs[i]) \in DOMAIN types
    BY <1>1, TypesAreNewest
  <1> DEFINE Named(name) == {i \in DOMAIN docs : ReadAgentType(docs[i]) /\ DocumentName(docs[i]) = name}
  <1>3. ASSUME NEW name \in DOMAIN types
        PROVE  \E i \in Named(name) : (\A k \in Named(name) : k <= i) /\ types[name] = TypeOf(docs[i])
    <2>1. PICK i \in 1..n : Newest(i, name, docs, n) /\ types[name] = TypeOf(docs[i])
      BY <1>2
    <2>2. i \in Named(name) /\ \A k \in Named(name) : k <= i
      BY <1>2, <2>1 DEF Newest
    <2> QED BY <2>1, <2>2
  <1>4. \A i \in DOMAIN docs : ReadAgentType(docs[i]) => DocumentName(docs[i]) \in DOMAIN types
    BY <1>2
  <1>5. ASSUME NEW builtin \in Builtins PROVE builtin \notin DOMAIN types /\ Resolve(builtin).tools = Unset
    <2>1. builtin \notin DOMAIN types
      <3> SUFFICES ASSUME builtin \in DOMAIN types PROVE FALSE
        OBVIOUS
      <3>1. PICK i \in 1..n : Newest(i, builtin, docs, n)
        BY <1>2
      <3>2. ReadAgentType(docs[i]) /\ DocumentName(docs[i]) = builtin
        BY <3>1 DEF Newest
      <3> QED BY <3>2 DEF ReadAgentType
    <2>2. Resolve(builtin) = AgentType(builtin, Unset, builtin = "fork", Unset)
      BY DEF Resolve, BuiltinType
    <2> QED BY <2>1, <2>2 DEF AgentType
  <1> QED BY <1>1, <1>3, <1>4, <1>5 DEF CatalogIsExact

(* Of the session a step may lead further the messages, the plan and the     *)
(* compactions; the catalogs stay.                                           *)
LEMMA SessionMoves ==
    ASSUME SessionType, TurnType, Billed, Catalogued, RunnerFits, DelegationNext
    PROVE  /\ SessionType' /\ Catalogued' /\ RunnerFits' /\ UNCHANGED <<types, skills>>
           /\ session'.enabled = session.enabled
           /\ \/ session'.compactions = session.compactions /\ session'.messages >= session.messages
              \/ session.enabled /\ session'.compactions = session.compactions + 1
           /\ turn'.phase \in {"asking", "batch"} =>
                \/ turn.phase \in {"asking", "batch"}
                \/ session'.compactions = session.compactions /\ session'.messages > session.messages
  <1>1. /\ session = [enabled |-> session.enabled, plan |-> session.plan, messages |-> session.messages,
                      compactions |-> session.compactions, turns |-> session.turns]
        /\ session.enabled \in BOOLEAN /\ session.plan \in {0, 1} /\ session.messages \in Nat /\ session.compactions \in Nat
    BY DEF SessionType
  <1>2. UNCHANGED <<types, skills>>
    BY DEF DelegationNext, EditSkill, SwitchRunner, Delegate, BeginTurn, Compact, Ask, Exhausted, ModelAnswers, TurnFails,
           CloseTurn, BatchEnds, WritePlan, OtherCall, SubagentAsks, SubagentEnds, catalogVars
  <1>3. Catalogued'
    <2>1. CASE \E root \in DOMAIN shelf.skills : \E i \in DOMAIN shelf.skills[root] : EditSkill(root, i)
      <3>1. PICK root, i : shelf' = [shelf EXCEPT !.skills[root][i].form = "unreadable"]
        BY <2>1 DEF EditSkill
      <3>2. shelf = [agents |-> shelf.agents, skills |-> shelf.skills]
        BY DEF Catalogued
      <3>3. PICK new : new = [shelf.skills EXCEPT ![root][i].form = "unreadable"]
        OBVIOUS
      <3>4. shelf' = [shelf EXCEPT !.skills = new]
        BY <3>1, <3>3
      <3>5. shelf' = [agents |-> shelf.agents, skills |-> new]
        BY <3>2, <3>4
      <3>6. shelf'.agents = shelf.agents /\ shelf' = [agents |-> shelf'.agents, skills |-> shelf'.skills]
        BY <3>5
      <3> QED BY <1>2, <3>6 DEF Catalogued, ScanTypes
    <2>2. CASE UNCHANGED shelf
      BY <1>2, <2>2 DEF Catalogued, ScanTypes
    <2> QED BY <2>1, <2>2 DEF DelegationNext, SwitchRunner, Delegate, BeginTurn, Compact, Ask, Exhausted, ModelAnswers,
           TurnFails, CloseTurn, BatchEnds, WritePlan, OtherCall, SubagentAsks, SubagentEnds
  <1>4. RunnerFits'
    <2>1. UNCHANGED runner \/ \E n \in DOMAIN Registry : runner' = Registry[n]
      BY DEF DelegationNext, EditSkill, SwitchRunner, Delegate, BeginTurn, Compact, Ask, Exhausted, ModelAnswers, TurnFails,
             CloseTurn, BatchEnds, WritePlan, OtherCall, SubagentAsks, SubagentEnds
    <2> QED BY <2>1 DEF RunnerFits
  <1>5. \/ UNCHANGED session
        \/ session' = [session EXCEPT !.turns = @ + 1] /\ turn'.phase = "idle"
        \/ session' = Says([session EXCEPT !.turns = @ + 1])
        \/ session' = [session EXCEPT !.messages = 1, !.compactions = @ + 1] /\ session.enabled /\ turn.phase = "asking"
        \/ session' = Says(session)
        \/ \E written \in {0, 1} : session' = [Says(session) EXCEPT !.plan = written]
    BY DEF DelegationNext, EditSkill, SwitchRunner, Delegate, BeginTurn, Compact, Ask, Exhausted, ModelAnswers, TurnFails,
           CloseTurn, BatchEnds, WritePlan, OtherCall, SubagentAsks, SubagentEnds, Served
  <1>6. ASSUME NEW written \in {0, 1}, NEW messages \in Nat, NEW compactions \in Nat, NEW turns,
               session' = [enabled |-> session.enabled, plan |-> written, messages |-> messages,
                           compactions |-> compactions, turns |-> turns]
        PROVE  SessionType' /\ session'.enabled = session.enabled /\ session'.messages = messages
               /\ session'.compactions = compactions
    BY <1>1, <1>6 DEF SessionType
  <1>7. \/ UNCHANGED session /\ SessionType'
        \/ /\ SessionType' /\ session'.enabled = session.enabled
           /\ \/ session'.compactions = session.compactions /\ session'.messages = session.messages /\ turn'.phase = "idle"
              \/ session'.compactions = session.compactions /\ session'.messages = session.messages + 1
              \/ session'.compactions = session.compactions + 1 /\ session.enabled /\ turn.phase = "asking"
    <2>1. CASE UNCHANGED session
      BY <2>1 DEF SessionType
    <2>2. CASE session' = [session EXCEPT !.turns = @ + 1] /\ turn'.phase = "idle"
      <3>1. session' = [enabled |-> session.enabled, plan |-> session.plan, messages |-> session.messages,
                        compactions |-> session.compactions, turns |-> session.turns + 1]
        BY <1>1, <2>2
      <3> QED BY <1>1, <1>6, <2>2, <3>1
    <2>3. CASE session' = Says([session EXCEPT !.turns = @ + 1])
      <3>1. PICK s : s = [session EXCEPT !.turns = @ + 1]
        OBVIOUS
      <3>2. s = [enabled |-> session.enabled, plan |-> session.plan, messages |-> session.messages,
                 compactions |-> session.compactions, turns |-> session.turns + 1]
        BY <1>1, <3>1
      <3>3. session' = [s EXCEPT !.messages = @ + 1]
        BY <2>3, <3>1 DEF Says
      <3>4. session' = [enabled |-> session.enabled, plan |-> session.plan, messages |-> session.messages + 1,
                        compactions |-> session.compactions, turns |-> session.turns + 1]
        BY <3>2, <3>3
      <3> QED BY <1>1, <1>6, <3>4
    <2>4. CASE session' = [session EXCEPT !.messages = 1, !.compactions = @ + 1] /\ session.enabled /\ turn.phase = "asking"
      <3>1. session' = [enabled |-> session.enabled, plan |-> session.plan, messages |-> 1,
                        compactions |-> session.compactions + 1, turns |-> session.turns]
        BY <1>1, <2>4
      <3>2. 1 \in Nat /\ session.compactions + 1 \in Nat
        BY <1>1
      <3>3. SessionType' /\ session'.enabled = session.enabled /\ session'.compactions = session.compactions + 1
        BY <1>1, <1>6, <3>1, <3>2
      <3> QED BY <2>4, <3>3
    <2>5. ASSUME NEW written \in {0, 1}, session' = Says(session) \/ session' = [Says(session) EXCEPT !.plan = written]
          PROVE  <1>7!:
      <3>1. PICK s : s = [session EXCEPT !.messages = @ + 1]
        OBVIOUS
      <3>2. s = [enabled |-> session.enabled, plan |-> session.plan, messages |-> session.messages + 1,
                 compactions |-> session.compactions, turns |-> session.turns]
        BY <1>1, <3>1
      <3>3. session' = s \/ session' = [s EXCEPT !.plan = written]
        BY <2>5, <3>1 DEF Says
      <3>4. PICK p \in {0, 1} : session' = [enabled |-> session.enabled, plan |-> p, messages |-> session.messages + 1,
                                            compactions |-> session.compactions, turns |-> session.turns]
        <4>1. CASE session' = s
          BY <1>1, <3>2, <4>1
        <4>2. CASE session' = [s EXCEPT !.plan = written]
          BY <3>2, <4>2
        <4> QED BY <3>3, <4>1, <4>2
      <3> QED BY <1>1, <1>6, <3>4
    <2> QED BY <1>5, <2>1, <2>2, <2>3, <2>4, <2>5
  <1>8. UNCHANGED session => (turn'.phase \in {"asking", "batch"} => turn.phase \in {"asking", "batch"})
    <2> SUFFICES ASSUME UNCHANGED session, turn'.phase \in {"asking", "batch"} PROVE turn.phase \in {"asking", "batch"}
      OBVIOUS
    <2>1. turn = [phase |-> turn.phase, iteration |-> turn.iteration, calls |-> turn.calls, usage |-> turn.usage,
                  meter |-> turn.meter, outcome |-> turn.outcome] /\ (task # NoTask => turn.phase = "batch")
      BY DEF TurnType, Billed
    <2>2. session' # Says(session) /\ session' # Says([session EXCEPT !.turns = @ + 1])
      <3>1. session'.messages # session.messages + 1
        BY <1>1
      <3>2. Says(session).messages = session.messages + 1
        BY <1>1 DEF Says
      <3>3. Says([session EXCEPT !.turns = @ + 1]).messages = session.messages + 1
        BY <1>1 DEF Says
      <3> QED BY <3>1, <3>2, <3>3
    <2>3. \/ UNCHANGED turn \/ turn' = Idle
          \/ turn.phase = "asking" \/ turn.phase = "batch" \/ turn' = [turn EXCEPT !.phase = "over", !.outcome = "failed"]
      BY <2>1, <2>2 DEF DelegationNext, EditSkill, SwitchRunner, Delegate, BeginTurn, Compact, Ask, Exhausted, ModelAnswers, TurnFails,
           CloseTurn, BatchEnds, WritePlan, OtherCall, SubagentAsks, SubagentEnds, Served, Serving
    <2>4. CASE turn' = [turn EXCEPT !.phase = "over", !.outcome = "failed"]
      <3>1. turn'.phase = "over"
        BY <2>1, <2>4
      <3> QED BY <2>2, <3>1
    <2>5. CASE turn' = Idle
      BY <2>5 DEF Idle
    <2>6. CASE UNCHANGED turn
      BY <2>6
    <2> QED BY <2>3, <2>4, <2>5, <2>6
  <1> QED BY <1>1, <1>2, <1>3, <1>4, <1>7, <1>8

(* The requests keep up with the session.                                   *)
LEMMA RequestsKeepUp ==
    ASSUME DelegationInv, DelegationNext
    PROVE  RequestsFollow'
  <1>1. /\ SessionType /\ TurnType /\ Billed /\ Catalogued /\ RunnerFits /\ RequestsFollow
        /\ session.messages \in Nat /\ session.compactions \in Nat /\ session.enabled \in BOOLEAN
    BY DEF DelegationInv, SessionType
  <1>2. /\ UNCHANGED <<types, skills>> /\ session'.enabled = session.enabled
        /\ session'.messages \in Nat /\ session'.compactions \in Nat
        /\ \/ session'.compactions = session.compactions /\ session'.messages >= session.messages
           \/ session.enabled /\ session'.compactions = session.compactions + 1
        /\ turn'.phase \in {"asking", "batch"} =>
             \/ turn.phase \in {"asking", "batch"}
             \/ session'.compactions = session.compactions /\ session'.messages > session.messages
    BY <1>1, SessionMoves DEF SessionType
  <1>3. Protects(session)' = Protects(session)
    BY <1>1, <1>2 DEF Protects
  <1>4. \A r : Framed(r) => Framed(r)'
    BY <1>2, <1>3 DEF Framed, FrameWith
  <1>5. ASSUME NEW r, r.messages \in Nat, r.compactions \in Nat, Current(r) PROVE Current(r)'
    <2>1. session'.compactions >= r.compactions /\ (session'.compactions > r.compactions \/ session'.messages >= r.messages)
      BY <1>1, <1>2, <1>5 DEF Current
    <2>2. ASSUME turn'.phase \in {"asking", "batch"} PROVE session'.messages > r.messages \/ session'.compactions > r.compactions
      BY <1>1, <1>2, <1>5, <2>2 DEF Current, Passed
    <2> QED BY <2>1, <2>2 DEF Current, Passed
  <1>6. CASE Ask
    <2>1. PICK new : new = SessionRequest(session)
      OBVIOUS
    <2>2. new.messages = session.messages /\ new.compactions = session.compactions
      BY <2>1 DEF SessionRequest
    <2>3. Framed(new)
      <3>1. new.system = SystemMessage(session) /\ new.tail = IF Projects(session) THEN session.plan ELSE Unset
        BY <2>1 DEF SessionRequest
      <3>2. SystemMessage(session) = FrameWith(Projects(session))
        BY DEF SystemMessage, FrameWith
      <3>3. CASE Projects(session)
        <4>1. Projects(session) = TRUE
          BY <3>3 DEF Projects
        <4>2. new.tail = session.plan /\ session.plan # Unset
          BY <1>1, <3>1, <3>3, UnsetIsNoPlan DEF SessionType
        <4>3. new.system = FrameWith(TRUE)
          BY <3>1, <3>2, <4>1
        <4> QED BY <1>1, <2>2, <4>2, <4>3 DEF Framed
      <3>4. CASE ~Projects(session)
        <4>1. Projects(session) = FALSE
          BY <3>4 DEF Projects
        <4>2. new.tail = Unset /\ ~Protects(session)
          BY <3>1, <3>4 DEF Projects
        <4>3. new.system = FrameWith(FALSE)
          BY <3>1, <3>2, <4>1
        <4> QED BY <1>1, <2>2, <4>2, <4>3 DEF Framed
      <3> QED BY <3>3, <3>4
    <2>4. UNCHANGED session /\ turn.phase = "asking" /\ turn'.phase = "model"
          /\ requests' = (IF requests = <<>> THEN <<>> ELSE <<Last(requests)>>) \o <<new>>
      BY <1>1, <1>6, <2>1 DEF Ask, TurnType
    <2>5. Framed(new)' /\ Current(new)'
      BY <1>1, <1>4, <2>2, <2>3, <2>4 DEF Current
    <2>6. CASE requests = <<>>
      <3>1. requests' = <<new>>
        BY <2>4, <2>6
      <3> QED BY <2>5, <3>1 DEF RequestsFollow
    <2>7. ASSUME NEW r, Framed(r), Current(r), Last(requests) = r, requests # <<>> PROVE RequestsFollow'
      <3>1. requests' = <<r, new>>
        <4>1. requests' = <<r>> \o <<new>>
          BY <2>4, <2>7
        <4>2. PICK S : S = {r, new}
          OBVIOUS
        <4>3. <<r>> \in Seq(S) /\ new \in S
          BY <4>2
        <4>4. Append(<<r>>, new) = <<r>> \o <<new>>
          BY <4>3, AppendIsConcat
        <4>5. Append(<<r>>, new) = <<r, new>>
          <5>1. PICK one, two : one = Append(<<r>>, new) /\ two = <<r, new>>
            OBVIOUS
          <5>2. one \in Seq(S) /\ Len(one) = 2 /\ one[1] = r /\ one[2] = new
            BY <4>3, <5>1, AppendProperties
          <5>3. two \in Seq(S) /\ Len(two) = 2 /\ two[1] = r /\ two[2] = new
            BY <4>2, <5>1
          <5>4. \A i \in 1..Len(one) : one[i] = two[i]
            BY <5>2, <5>3
          <5>5. one = two
            BY <5>2, <5>3, <5>4, SeqEqual
          <5> QED BY <5>1, <5>5
        <4> QED BY <4>1, <4>4, <4>5
      <3>2. new.messages > r.messages \/ new.compactions > r.compactions
        BY <2>2, <2>4, <2>7 DEF Current, Passed
      <3>3. Framed(r)'
        BY <1>4, <2>7
      <3> QED BY <2>5, <3>1, <3>2, <3>3 DEF RequestsFollow
    <2>8. ASSUME NEW r, requests = <<r>> PROVE Last(requests) = r /\ requests # <<>>
      BY <2>8 DEF Last
    <2>9. ASSUME NEW q, NEW r, requests = <<q, r>> PROVE Last(requests) = r /\ requests # <<>>
      BY <2>9 DEF Last
    <2> QED BY <1>1, <2>6, <2>7, <2>8, <2>9 DEF RequestsFollow
  <1>7. CASE UNCHANGED requests
    <2>1. CASE requests = <<>>
      BY <1>7, <2>1 DEF RequestsFollow
    <2>2. ASSUME NEW r, requests = <<r>>, Framed(r), Current(r) PROVE RequestsFollow'
      <3>1. Framed(r)' /\ Current(r)'
        BY <1>4, <1>5, <2>2 DEF Framed
      <3> QED BY <1>7, <2>2, <3>1 DEF RequestsFollow
    <2>3. ASSUME NEW q, NEW r, requests = <<q, r>>, Framed(q), Framed(r), Current(r),
                 r.messages > q.messages \/ r.compactions > q.compactions
          PROVE  RequestsFollow'
      <3>1. Framed(q)' /\ Framed(r)' /\ Current(r)'
        BY <1>4, <1>5, <2>3 DEF Framed
      <3> QED BY <1>7, <2>3, <3>1 DEF RequestsFollow
    <2> QED BY <1>1, <2>1, <2>2, <2>3 DEF RequestsFollow
  <1> QED BY <1>6, <1>7 DEF DelegationNext, EditSkill, SwitchRunner, Delegate, BeginTurn, Compact, Exhausted, ModelAnswers,
         TurnFails, CloseTurn, BatchEnds, WritePlan, OtherCall, SubagentAsks, SubagentEnds

(* The runner of a delegation keeps within the session and its type.        *)
LEMMA RunnerNarrows ==
    ASSUME RunnerFits, NEW type
    PROVE  LET own == SubagentRunner(type)
           IN /\ own.tools \subseteq ParentTools \ {"task"}
              /\ type.tools # Unset => own.tools \subseteq type.tools
              /\ [model |-> own.model, maxTokens |-> own.maxTokens] \in {Registry[n] : n \in DOMAIN Registry}
  <1>1. PICK chosen : chosen = SubagentModel(type)
    OBVIOUS
  <1>2. PICK n \in DOMAIN Registry : chosen = Registry[n]
    BY <1>1 DEF SubagentModel, RunnerFits
  <1>3. chosen = [model |-> chosen.model, maxTokens |-> chosen.maxTokens]
    BY <1>2, RegistryOfModels
  <1>4. PICK tools, own : tools = KeepingTools(WithoutTool(ParentTools, "task"), type.tools) /\ own = SubagentRunner(type)
    OBVIOUS
  <1>5. own.tools = tools /\ own.model = chosen.model /\ own.maxTokens = chosen.maxTokens
    BY <1>1, <1>4 DEF SubagentRunner
  <1>6. tools \subseteq ParentTools \ {"task"} /\ (type.tools # Unset => tools \subseteq type.tools)
    BY <1>4 DEF KeepingTools, WithoutTool
  <1>7. [model |-> own.model, maxTokens |-> own.maxTokens] = Registry[n]
    BY <1>2, <1>3, <1>5
  <1> QED BY <1>4, <1>5, <1>6, <1>7

(* The delegation in progress stays narrow.                                 *)
LEMMA NarrowStays ==
    ASSUME DelegationInv, DelegationNext
    PROVE  DelegationsOnlyNarrow'
  <1>1. Catalogued /\ RunnerFits /\ TurnType /\ DelegationsOnlyNarrow /\ UNCHANGED types
    BY SessionMoves DEF DelegationInv
  <1>2. \A name : Resolve(name)' = Resolve(name)
    BY <1>1 DEF Resolve
  <1>3. CASE task' = NoTask
    BY <1>3 DEF DelegationsOnlyNarrow
  <1>4. CASE UNCHANGED task
    BY <1>1, <1>2, <1>4 DEF DelegationsOnlyNarrow
  <1>5. CASE SubagentAsks
    <2>1. task # NoTask /\ task' = [task EXCEPT !.iteration = @ + 1]
      BY <1>5 DEF SubagentAsks
    <2>2. task' = [type |-> task.type, runner |-> task.runner, iteration |-> task.iteration + 1]
      BY <1>1, <2>1 DEF TurnType
    <2>3. task'.type = task.type /\ task'.runner = task.runner
      BY <2>2
    <2> QED BY <1>1, <1>2, <2>1, <2>3 DEF DelegationsOnlyNarrow
  <1>6. ASSUME NEW name \in Requested, Delegate(name) PROVE DelegationsOnlyNarrow'
    <2>1. PICK wanted, type, own :
             /\ wanted = (IF name = "" THEN "general" ELSE name)
             /\ type = Resolve(wanted) /\ own = SubagentRunner(type)
      OBVIOUS
    <2>2. type # Unset /\ task' = [type |-> type.name, runner |-> own, iteration |-> 0]
      BY <1>6, <2>1 DEF Delegate
    <2>3. Resolve(type.name) = type
      BY <1>1, <2>1, <2>2, ResolvedByName
    <2>4. task'.type = type.name /\ task'.runner = own
      BY <2>2
    <2>5. /\ own.tools \subseteq ParentTools \ {"task"} /\ (type.tools # Unset => own.tools \subseteq type.tools)
          /\ [model |-> own.model, maxTokens |-> own.maxTokens] \in {Registry[n] : n \in DOMAIN Registry}
      BY <1>1, <2>1, RunnerNarrows
    <2>6. Resolve(task.type)' = type
      BY <1>2, <2>3, <2>4
    <2> QED BY <2>4, <2>5, <2>6 DEF DelegationsOnlyNarrow
  <1> QED BY <1>3, <1>4, <1>5, <1>6 DEF DelegationNext, EditSkill, SwitchRunner, BeginTurn, Compact, Ask, Exhausted,
         ModelAnswers, TurnFails, CloseTurn, BatchEnds, WritePlan, OtherCall, SubagentEnds

(* The turn and the bill it leads to.                                       *)
LEMMA BillStays ==
    ASSUME DelegationInv, DelegationNext
    PROVE  TurnType' /\ Billed' /\ EveryCallIsBilled'
  <1>1. TurnType /\ Billed /\ EveryCallIsBilled
    BY DEF DelegationInv
  <1>2. /\ turn = [phase |-> turn.phase, iteration |-> turn.iteration, calls |-> turn.calls, usage |-> turn.usage,
                   meter |-> turn.meter, outcome |-> turn.outcome]
        /\ turn.calls \in Nat /\ turn.usage \in Nat /\ turn.meter \in Nat
        /\ spent = [calls |-> spent.calls, lost |-> spent.lost] /\ spent.calls \in Nat /\ spent.lost \in Nat
        /\ task = NoTask \/ task = [type |-> task.type, runner |-> task.runner, iteration |-> task.iteration]
        /\ task.iteration \in Nat /\ NoTask.iteration = 0
        /\ task = NoTask => task.iteration = 0
    BY <1>1 DEF TurnType, NoTask
  <1>3. ASSUME NEW phase, NEW iteration, NEW left, NEW bill, NEW meter, NEW outcome, NEW calls, NEW lost,
               turn' = [phase |-> phase, iteration |-> iteration, calls |-> left, usage |-> bill,
                        meter |-> meter, outcome |-> outcome],
               spent' = [calls |-> calls, lost |-> lost],
               left \in Nat /\ bill \in Nat /\ meter \in Nat /\ calls \in Nat /\ lost \in Nat,
               \/ task' = NoTask
               \/ /\ task' = [type |-> task'.type, runner |-> task'.runner, iteration |-> task'.iteration]
                  /\ task'.iteration \in Nat /\ phase = "batch" /\ left > 0,
               /\ phase # "over" => outcome = "none"
               /\ phase \in {"asking", "model"} \/ outcome \in {"answered", "exhausted"} => bill = calls - lost
               /\ phase = "batch" => bill + meter + task'.iteration = calls - lost
               /\ phase = "idle" => bill = 0 /\ calls = 0 /\ lost = 0
        PROVE  TurnType' /\ Billed' /\ EveryCallIsBilled'
    <2>1. /\ turn'.phase = phase /\ turn'.calls = left /\ turn'.usage = bill /\ turn'.meter = meter /\ turn'.outcome = outcome
          /\ spent'.calls = calls /\ spent'.lost = lost
      BY <1>3
    <2>2. task'.iteration \in Nat
      BY <1>2, <1>3
    <2>3. TurnType'
      BY <1>3, <2>1, <2>2 DEF TurnType
    <2>4. Billed'
      BY <1>3, <2>1 DEF Billed
    <2> QED BY <1>3, <2>1, <2>3, <2>4 DEF EveryCallIsBilled
  <1>4. CASE turn.phase = "idle" /\ (UNCHANGED turn \/ turn' = [Idle EXCEPT !.phase = "asking"]) /\ UNCHANGED <<task, spent>>
    <2>1. turn.usage = 0 /\ spent.calls = 0 /\ spent.lost = 0 /\ turn.outcome = "none" /\ task = NoTask
      BY <1>1, <1>4 DEF Billed
    <2>2. CASE UNCHANGED turn
      BY <1>2, <1>3, <1>4, <2>1, <2>2
    <2>3. CASE turn' = [Idle EXCEPT !.phase = "asking"]
      <3>1. turn' = [phase |-> "asking", iteration |-> 0, calls |-> 0, usage |-> 0, meter |-> 0, outcome |-> "none"]
        BY <2>3 DEF Idle
      <3> QED BY <1>2, <1>3, <1>4, <2>1, <3>1
    <2> QED BY <1>4, <2>2, <2>3
  <1>5. CASE Ask \/ Exhausted \/ Compact
    <2>1. /\ turn.phase = "asking" /\ task = NoTask /\ turn.usage = spent.calls - spent.lost /\ turn.outcome = "none"
          /\ UNCHANGED <<task, spent>>
      BY <1>1, <1>5 DEF Ask, Exhausted, Compact, Billed
    <2>2. CASE Ask
      <3>1. turn' = [phase |-> "model", iteration |-> turn.iteration + 1, calls |-> turn.calls, usage |-> turn.usage,
                     meter |-> turn.meter, outcome |-> turn.outcome]
        BY <1>2, <2>2 DEF Ask
      <3> QED BY <1>2, <1>3, <2>1, <3>1
    <2>3. CASE Exhausted
      <3>1. turn' = [phase |-> "over", iteration |-> turn.iteration, calls |-> turn.calls, usage |-> turn.usage,
                     meter |-> turn.meter, outcome |-> "exhausted"]
        BY <1>2, <2>3 DEF Exhausted
      <3> QED BY <1>2, <1>3, <2>1, <3>1
    <2>4. CASE Compact
      <3>1. UNCHANGED turn
        BY <2>4 DEF Compact
      <3> QED BY <1>2, <1>3, <2>1, <3>1
    <2> QED BY <1>5, <2>2, <2>3, <2>4
  <1>6. CASE ModelAnswers
    <2>1. /\ turn.phase = "model" /\ task = NoTask /\ turn.usage = spent.calls - spent.lost /\ turn.outcome = "none"
          /\ UNCHANGED task /\ spent' = [spent EXCEPT !.calls = @ + 1]
      BY <1>1, <1>6 DEF ModelAnswers, Billed
    <2>2. spent' = [calls |-> spent.calls + 1, lost |-> spent.lost] /\ spent.calls + 1 \in Nat /\ turn.usage + 1 \in Nat
          /\ turn.usage + 1 = (spent.calls + 1) - spent.lost
      BY <1>2, <2>1
    <2>3. CASE turn' = [turn EXCEPT !.phase = "over", !.outcome = "answered", !.usage = @ + 1]
      <3>1. turn' = [phase |-> "over", iteration |-> turn.iteration, calls |-> turn.calls, usage |-> turn.usage + 1,
                     meter |-> turn.meter, outcome |-> "answered"]
        BY <1>2, <2>3
      <3> QED BY <1>2, <1>3, <2>1, <2>2, <3>1
    <2>4. ASSUME NEW n \in 1..MaxBatch, turn' = [turn EXCEPT !.phase = "batch", !.calls = n, !.usage = @ + 1, !.meter = 0]
          PROVE  TurnType' /\ Billed' /\ EveryCallIsBilled'
      <3>1. turn' = [phase |-> "batch", iteration |-> turn.iteration, calls |-> n, usage |-> turn.usage + 1,
                     meter |-> 0, outcome |-> turn.outcome]
        BY <1>2, <2>4
      <3>2. n \in Nat /\ 0 \in Nat /\ (turn.usage + 1) + 0 + task'.iteration = (spent.calls + 1) - spent.lost
        BY <1>2, <2>1, <2>2
      <3> QED BY <1>2, <1>3, <2>1, <2>2, <3>1, <3>2
    <2> QED BY <1>6, <2>3, <2>4 DEF ModelAnswers
  <1>7. CASE TurnFails \/ CloseTurn
    <2>1. CASE TurnFails
      <3>1. task' = NoTask /\ UNCHANGED spent /\ turn' = [turn EXCEPT !.phase = "over", !.outcome = "failed"]
        BY <2>1 DEF TurnFails
      <3>2. turn' = [phase |-> "over", iteration |-> turn.iteration, calls |-> turn.calls, usage |-> turn.usage,
                     meter |-> turn.meter, outcome |-> "failed"]
        BY <1>2, <3>1
      <3> QED BY <1>2, <1>3, <3>1, <3>2
    <2>2. CASE CloseTurn
      <3>1. /\ turn' = [phase |-> "idle", iteration |-> 0, calls |-> 0, usage |-> 0, meter |-> 0, outcome |-> "none"]
            /\ spent' = [calls |-> 0, lost |-> 0] /\ UNCHANGED task /\ turn.phase = "over"
        BY <2>2 DEF CloseTurn, Idle, Unspent
      <3>2. task = NoTask
        BY <1>1, <3>1 DEF Billed
      <3> QED BY <1>3, <3>1, <3>2
    <2> QED BY <1>7, <2>1, <2>2
  <1>8. ASSUME turn.phase = "batch"
        PROVE  turn.usage + turn.meter + task.iteration = spent.calls - spent.lost /\ turn.outcome = "none"
               /\ (task # NoTask => turn.calls > 0)
    BY <1>1, <1>8 DEF Billed
  <1>9. CASE BatchEnds
    <2>1. turn.phase = "batch" /\ turn.calls = 0 /\ turn' = [turn EXCEPT !.phase = "asking", !.usage = @ + turn.meter]
          /\ UNCHANGED <<task, spent>>
      BY <1>9 DEF BatchEnds
    <2>2. PICK bill : bill = turn.usage + turn.meter
      OBVIOUS
    <2>3. task = NoTask /\ bill = spent.calls - spent.lost /\ turn.outcome = "none" /\ bill \in Nat
      BY <1>2, <1>8, <2>1, <2>2
    <2>4. turn' = [phase |-> "asking", iteration |-> turn.iteration, calls |-> turn.calls, usage |-> bill,
                   meter |-> turn.meter, outcome |-> turn.outcome]
      BY <1>2, <2>1, <2>2
    <2>5. /\ turn'.phase = "asking" /\ turn'.calls = turn.calls /\ turn'.usage = bill /\ turn'.meter = turn.meter
          /\ turn'.outcome = turn.outcome
          /\ turn' = [phase |-> turn'.phase, iteration |-> turn'.iteration, calls |-> turn'.calls, usage |-> turn'.usage,
                       meter |-> turn'.meter, outcome |-> turn'.outcome]
      BY <2>4
    <2>6. TurnType'
      BY <1>2, <2>1, <2>3, <2>5 DEF TurnType
    <2> QED BY <2>1, <2>3, <2>5, <2>6 DEF Billed, EveryCallIsBilled
  <1>10. CASE WritePlan \/ OtherCall
    <2>1. /\ turn.phase = "batch" /\ turn.calls > 0 /\ task = NoTask /\ turn' = [turn EXCEPT !.calls = @ - 1]
          /\ UNCHANGED <<task, spent>>
      BY <1>10 DEF WritePlan, OtherCall, Serving, Served
    <2>2. turn' = [phase |-> "batch", iteration |-> turn.iteration, calls |-> turn.calls - 1, usage |-> turn.usage,
                   meter |-> turn.meter, outcome |-> turn.outcome] /\ turn.calls - 1 \in Nat
      BY <1>2, <2>1
    <2> QED BY <1>2, <1>3, <1>8, <2>1, <2>2
  <1>11. ASSUME NEW name \in Requested, Delegate(name) PROVE TurnType' /\ Billed' /\ EveryCallIsBilled'
    <2>1. PICK type : task' = [type |-> type.name, runner |-> SubagentRunner(type), iteration |-> 0]
      BY <1>11 DEF Delegate
    <2>2. turn.phase = "batch" /\ turn.calls > 0 /\ task = NoTask /\ UNCHANGED <<turn, spent>>
      BY <1>11 DEF Delegate, Serving
    <2>3. task' = [type |-> task'.type, runner |-> task'.runner, iteration |-> task'.iteration] /\ task'.iteration = 0
      BY <2>1
    <2>4. turn.usage + turn.meter + task'.iteration = spent.calls - spent.lost /\ turn.outcome = "none"
      BY <1>2, <1>8, <2>2, <2>3
    <2> QED BY <1>2, <1>3, <2>2, <2>3, <2>4
  <1>12. CASE SubagentAsks
    <2>1. /\ task # NoTask /\ task' = [task EXCEPT !.iteration = @ + 1] /\ spent' = [spent EXCEPT !.calls = @ + 1]
          /\ UNCHANGED turn
      BY <1>12 DEF SubagentAsks
    <2>2. turn.phase = "batch" /\ turn.calls > 0
      BY <1>1, <2>1 DEF Billed
    <2>3. spent' = [calls |-> spent.calls + 1, lost |-> spent.lost] /\ spent.calls + 1 \in Nat
      BY <1>2, <2>1
    <2>4. task' = [type |-> task.type, runner |-> task.runner, iteration |-> task.iteration + 1]
      BY <1>2, <2>1
    <2>5. task' = [type |-> task'.type, runner |-> task'.runner, iteration |-> task'.iteration]
          /\ task'.iteration = task.iteration + 1 /\ task'.iteration \in Nat
      BY <1>2, <2>4
    <2>6. turn.usage + turn.meter + task'.iteration = (spent.calls + 1) - spent.lost /\ turn.outcome = "none"
      BY <1>2, <1>8, <2>2, <2>5
    <2> QED BY <1>2, <1>3, <2>1, <2>2, <2>3, <2>5, <2>6
  <1>13. CASE SubagentEnds
    <2>1. task # NoTask /\ task' = NoTask
      BY <1>13 DEF SubagentEnds
    <2>2. turn.phase = "batch" /\ turn.calls > 0 /\ turn.calls - 1 \in Nat
      BY <1>1, <1>2, <2>1 DEF Billed
    <2>3. CASE turn' = [turn EXCEPT !.calls = @ - 1, !.meter = @ + task.iteration] /\ UNCHANGED spent
      <3>1. PICK left, meter : left = turn.calls - 1 /\ meter = turn.meter + task.iteration
        OBVIOUS
      <3>2. turn' = [phase |-> "batch", iteration |-> turn.iteration, calls |-> left, usage |-> turn.usage,
                     meter |-> meter, outcome |-> turn.outcome]
        BY <1>2, <2>2, <2>3, <3>1
      <3>3. left \in Nat /\ meter \in Nat /\ turn.usage + meter + task'.iteration = spent.calls - spent.lost
        BY <1>2, <1>8, <2>1, <2>2, <3>1
      <3>4. /\ turn'.phase = "batch" /\ turn'.calls = left /\ turn'.usage = turn.usage /\ turn'.meter = meter
            /\ turn'.outcome = "none"
            /\ turn' = [phase |-> turn'.phase, iteration |-> turn'.iteration, calls |-> turn'.calls, usage |-> turn'.usage,
                         meter |-> turn'.meter, outcome |-> turn'.outcome]
        BY <1>8, <2>2, <3>2
      <3>5. TurnType'
        BY <1>2, <2>1, <2>3, <3>3, <3>4 DEF TurnType
      <3> QED BY <2>1, <2>3, <3>3, <3>4, <3>5 DEF Billed, EveryCallIsBilled
    <2>4. CASE turn' = [turn EXCEPT !.calls = @ - 1] /\ spent' = [spent EXCEPT !.lost = @ + task.iteration]
      <3>1. turn' = [phase |-> "batch", iteration |-> turn.iteration, calls |-> turn.calls - 1, usage |-> turn.usage,
                     meter |-> turn.meter, outcome |-> turn.outcome]
        BY <1>2, <2>2, <2>4
      <3>2. spent' = [calls |-> spent.calls, lost |-> spent.lost + task.iteration] /\ spent.lost + task.iteration \in Nat
        BY <1>2, <2>4
      <3>3. turn.usage + turn.meter + task'.iteration = spent.calls - (spent.lost + task.iteration)
        BY <1>2, <1>8, <2>1, <2>2
      <3> QED BY <1>2, <1>3, <1>8, <2>1, <2>2, <3>1, <3>2, <3>3
    <2> QED BY <1>13, <2>3, <2>4 DEF SubagentEnds
  <1>14. ASSUME UNCHANGED <<turn, task, spent>> PROVE TurnType' /\ Billed' /\ EveryCallIsBilled'
    BY <1>1, <1>14 DEF TurnType, Billed, EveryCallIsBilled
  <1> QED BY <1>4, <1>5, <1>6, <1>7, <1>9, <1>10, <1>11, <1>12, <1>13, <1>14
         DEF DelegationNext, EditSkill, SwitchRunner, BeginTurn

(* The first turn has nothing behind it.                                    *)
LEMMA DelegationInitInv == DelegationInit => DelegationInv
  <1> SUFFICES ASSUME DelegationInit PROVE DelegationInv
    OBVIOUS
  <1>1. /\ shelf \in Shelves /\ types = ScanTypes(shelf.agents) /\ RunnerFits
        /\ session \in [enabled : BOOLEAN, plan : {0}, messages : {0, 1}, compactions : {0, 1}, turns : {0}]
        /\ turn = [phase |-> "idle", iteration |-> 0, calls |-> 0, usage |-> 0, meter |-> 0, outcome |-> "none"]
        /\ task = NoTask /\ requests = <<>> /\ spent = [calls |-> 0, lost |-> 0] /\ NoTask.iteration = 0
    BY DEF DelegationInit, Idle, Unspent, NoTask, RunnerFits
  <1>2. Catalogued
    BY <1>1, ShelvesHaveTwoRoots DEF Catalogued
  <1>3. SessionType
    BY <1>1 DEF SessionType
  <1>4. TurnType /\ Billed /\ EveryCallIsBilled /\ DelegationsOnlyNarrow /\ RequestsFollow
    BY <1>1 DEF TurnType, Billed, EveryCallIsBilled, DelegationsOnlyNarrow, RequestsFollow
  <1> QED BY <1>1, <1>2, <1>3, <1>4 DEF DelegationInv

(* Every step keeps the invariant.                                          *)
LEMMA DelegationInvStays == DelegationInv /\ [DelegationNext]_delegationVars => DelegationInv'
  <1> SUFFICES ASSUME DelegationInv, [DelegationNext]_delegationVars PROVE DelegationInv'
    OBVIOUS
  <1>1. CASE DelegationNext
    <2>1. SessionType' /\ Catalogued' /\ RunnerFits'
      BY <1>1, SessionMoves DEF DelegationInv
    <2> QED BY <1>1, <2>1, NarrowStays, BillStays, RequestsKeepUp DEF DelegationInv
  <1>2. CASE UNCHANGED delegationVars
    <2>1. UNCHANGED <<shelf, types, skills, runner, session, turn, task, requests, spent>>
      BY <1>2 DEF delegationVars, catalogVars
    <2>2. Catalogued' /\ RunnerFits' /\ SessionType' /\ TurnType' /\ Billed' /\ EveryCallIsBilled'
      BY <2>1 DEF DelegationInv, Catalogued, ScanTypes, RunnerFits, SessionType, TurnType, Billed, EveryCallIsBilled
    <2>3. DelegationsOnlyNarrow'
      BY <2>1 DEF DelegationInv, DelegationsOnlyNarrow, Resolve
    <2>4. RequestsFollow'
      <3>1. \A r : Framed(r)' <=> Framed(r)
        BY <2>1 DEF Framed, FrameWith, Protects
      <3>2. \A r : Current(r)' <=> Current(r)
        BY <2>1 DEF Current, Passed
      <3> QED BY <2>1, <3>1, <3>2 DEF DelegationInv, RequestsFollow
    <2> QED BY <2>2, <2>3, <2>4 DEF DelegationInv
  <1> QED BY <1>1, <1>2

(* The requests of a session only grow.                                     *)
LEMMA FollowingGrows == SessionType /\ RequestsFollow => RequestsGrow
  <1> SUFFICES ASSUME SessionType, RequestsFollow, Len(requests) = 2 PROVE RequestsGrow
    BY DEF RequestsGrow
  <1>1. PICK q, r : /\ requests = <<q, r>> /\ Framed(q) /\ Framed(r)
                    /\ r.messages > q.messages \/ r.compactions > q.compactions
    BY EmptySeq DEF RequestsFollow
  <1>2. requests[1] = q /\ requests[2] = r
    BY <1>1
  <1>3. q.system = r.system \/ (~session.enabled /\ (q.tail = Unset) # (r.tail = Unset))
    <2>1. CASE session.enabled
      <3>1. Protects(session)
        BY <2>1 DEF Protects
      <3> QED BY <1>1, <3>1 DEF Framed
    <2>2. CASE ~session.enabled
      BY <1>1, <2>2 DEF Framed
    <2> QED BY <2>1, <2>2
  <1> QED BY <1>1, <1>2, <1>3 DEF RequestsGrow

(* A delegation has less than its session and never more: its type is what  *)
(* the most specific document of that name said at the start, and none takes *)
(* the place of a built-in; it has no tool the session or its type does      *)
(* without, the budget of its own model, its model calls on the bill of the  *)
(* turn, and the session's requests go on as if it had not been; for any     *)
(* documents, registry, tools and bounds (AgentTypeCatalog::scan,            *)
(* subagent_runner, accrued_usage, freeze_request_projector).                *)
THEOREM DelegationsAlwaysStand == DelegationSpec => []DelegationsStand
  <1>1. DelegationInv => DelegationsStand
    BY CataloguedIsExact, FollowingGrows DEF DelegationInv, DelegationsStand
  <1> QED BY <1>1, DelegationInitInv, DelegationInvStays, PTL DEF DelegationSpec

-----------------------------------------------------------------------------
(* Settings.                                                                *)

\* An entry whose budgets fit its model.
Sound(entry, provider) ==
    LET profile == ModelProfile(provider, entry.model)
        budget == entry.compaction
    IN /\ entry = [ok |-> TRUE, model |-> entry.model, maxTokens |-> entry.maxTokens, compaction |-> budget]
       /\ entry.model # NotGiven
       /\ entry.maxTokens \in 1..U32Max /\ (profile # NotGiven => entry.maxTokens <= profile.maxOutput)
       /\ budget # Off =>
            /\ budget.reserved = entry.maxTokens /\ budget.reserved + budget.margin < budget.limit
            /\ profile # NotGiven => budget.limit <= profile.window /\ budget.summary <= profile.maxOutput

(* A count the wire carries that is not above a bound is within it.         *)
LEMMA WithinBound ==
    ASSUME NEW t, NEW top \in Nat, t \in 1..U32Max, ~(t > top)
    PROVE  t <= top
  <1>1. t \in Int
    BY WireCounts
  <1> QED BY <1>1

(* A model that resolves has a name, a budget in range and its own profile. *)
LEMMA ModelsResolve ==
    ASSUME NEW p, NEW requested, NEW name, NEW budget, NEW m,
           m = ResolveModel(p, requested, name, budget), m.ok
    PROVE  /\ m = [ok |-> TRUE, name |-> m.name, maxTokens |-> m.maxTokens, profile |-> m.profile]
           /\ m.name \notin {NotGiven, ""} /\ m.maxTokens \in 1..U32Max
           /\ m.profile = ModelProfile(p, m.name)
           /\ m.profile # NotGiven => m.maxTokens <= m.profile.maxOutput
           /\ m.name = OrElse(requested, OrElse(name, DefaultName(p)))
  <1> DEFINE n == OrElse(requested, OrElse(name, DefaultName(p)))
             q == ModelProfile(p, n)
             t == OrElse(budget, IF q = NotGiven THEN ConservativeMaxTokens ELSE q.maxTokens)
  <1>1. m = IF n \in {NotGiven, ""} \/ t \notin 1..U32Max \/ (q # NotGiven /\ t > q.maxOutput) THEN Wrong
            ELSE [ok |-> TRUE, name |-> n, maxTokens |-> t, profile |-> q]
    BY DEF ResolveModel
  <1>2. q # NotGiven => q.maxOutput \in Nat
    BY SMT DEF ModelProfile, Capabilities
  <1>3. /\ n = OrElse(requested, OrElse(name, DefaultName(p)))
        /\ q = ModelProfile(p, n)
    OBVIOUS
  <1> HIDE DEF n, q, t
  <1>4. ~Wrong.ok
    BY DEF Wrong
  <1>5. ~(n \in {NotGiven, ""} \/ t \notin 1..U32Max \/ (q # NotGiven /\ t > q.maxOutput))
    BY <1>1, <1>4, Zenon
  <1>6. m = [ok |-> TRUE, name |-> n, maxTokens |-> t, profile |-> q]
    BY <1>1, <1>5, Zenon
  <1>7. m.name = n /\ m.maxTokens = t /\ m.profile = q
    BY <1>6
  <1>8. n \notin {NotGiven, ""} /\ t \in 1..U32Max /\ ~(q # NotGiven /\ t > q.maxOutput)
    BY <1>5, Zenon
  <1>9. q # NotGiven => t <= q.maxOutput
    BY <1>2, <1>8, WithinBound, Zenon
  <1> QED BY <1>3, <1>6, <1>7, <1>8, <1>9, Zenon

(* A model that resolves has the name asked for.                            *)
LEMMA ResolvedName ==
    ASSUME NEW p, NEW requested, NEW name, NEW budget, ResolveModel(p, requested, name, budget).ok
    PROVE  ResolveModel(p, requested, name, budget).name = OrElse(requested, OrElse(name, DefaultName(p)))
  <1>1. PICK m : m = ResolveModel(p, requested, name, budget)
    OBVIOUS
  <1>2. m.ok
    BY <1>1, Zenon
  <1>3. m.name = OrElse(requested, OrElse(name, DefaultName(p)))
    BY <1>1, <1>2, ModelsResolve
  <1> QED BY <1>1, <1>3, Zenon

(* What a model resolves to depends on its name and budget alone.           *)
LEMMA OneModelOfAName ==
    ASSUME NEW p, NEW requested, NEW name, NEW budget, NEW m,
           m = ResolveModel(p, requested, name, budget), m.ok,
           NEW r, NEW n, OrElse(r, OrElse(n, DefaultName(p))) = m.name
    PROVE  ResolveModel(p, r, n, budget) = m
  <1>1. OrElse(r, OrElse(n, DefaultName(p)))
        = OrElse(requested, OrElse(name, DefaultName(p)))
    <2>1. m.name = OrElse(requested, OrElse(name, DefaultName(p)))
      BY ModelsResolve
    <2> QED BY <2>1, Zenon
  <1> QED BY <1>1 DEF ResolveModel

(* A compaction section that holds fits the model it was checked for.       *)
LEMMA SectionsFit ==
    ASSUME NEW section, NEW m, NEW c, c = ParseCompaction(section, m), c.ok
    PROVE  c # Off =>
             /\ c.reserved = m.maxTokens /\ c.reserved + c.margin < c.limit
             /\ m.profile # NotGiven => c.limit <= m.profile.window /\ c.summary <= m.profile.maxOutput
  <1> SUFFICES ASSUME c # Off
               PROVE  /\ c.reserved = m.maxTokens /\ c.reserved + c.margin < c.limit
                      /\ m.profile # NotGiven => c.limit <= m.profile.window /\ c.summary <= m.profile.maxOutput
    OBVIOUS
  <1> DEFINE limit == OrElse(section.contextLimit, IF m.profile = NotGiven THEN NotGiven ELSE m.profile.contextLimit)
             reserved == OrElse(section.reservedOutput, m.maxTokens)
             margin == OrElse(section.safetyMargin, DefaultSafetyMargin)
             summary == OrElse(section.summaryMaxTokens, DefaultSummaryMaxTokens)
             ratios == OrElse(section.ratios, DefaultRatios)
             fits == /\ section.mode \in {"shadow", "enabled"} /\ limit # NotGiven
                     /\ m.profile # NotGiven => limit <= m.profile.window /\ summary <= m.profile.maxOutput
                     /\ reserved = m.maxTokens
                     /\ ValidWindow(limit, reserved, margin) /\ RatiosOrdered(ratios)
                     /\ summary \in 1..U32Max
  <1>1. c = IF OrElse(section.mode, "disabled") = "disabled" THEN Off
            ELSE IF fits THEN [ok |-> TRUE, mode |-> section.mode, limit |-> limit, reserved |-> reserved,
                               margin |-> margin, summary |-> summary, ratios |-> ratios]
            ELSE Wrong
    BY DEF ParseCompaction
  <1> HIDE DEF limit, reserved, margin, summary, ratios, fits
  <1>2. ~Wrong.ok
    BY DEF Wrong
  <1>3. fits /\ c = [ok |-> TRUE, mode |-> section.mode, limit |-> limit, reserved |-> reserved,
                     margin |-> margin, summary |-> summary, ratios |-> ratios]
    BY <1>1, <1>2
  <1>4. c.limit = limit /\ c.reserved = reserved /\ c.margin = margin /\ c.summary = summary
    BY <1>3
  <1>5. /\ m.profile # NotGiven => limit <= m.profile.window /\ summary <= m.profile.maxOutput
        /\ reserved = m.maxTokens /\ ValidWindow(limit, reserved, margin)
    BY <1>3 DEF fits
  <1> QED BY <1>4, <1>5 DEF ValidWindow

(* An entry that is checked for a model is sound for it.                    *)
LEMMA CheckedIsSound ==
    ASSUME NEW f, NEW requested, NEW name, NEW budget, NEW m,
           m = ResolveModel(f.provider, requested, name, budget), Checked(f, m).ok
    PROVE  /\ m.ok /\ Sound(Checked(f, m), f.provider)
           /\ Checked(f, m).model = m.name
  <1> DEFINE c == IF m.ok THEN ParseCompaction(f.compaction, m) ELSE Wrong
             e == Checked(f, m)
  <1>1. e = IF ~c.ok THEN Wrong
            ELSE [ok |-> TRUE, model |-> m.name, maxTokens |-> m.maxTokens, compaction |-> c]
    BY DEF Checked
  <1>2. ~Wrong.ok
    BY DEF Wrong
  <1>a. ~m.ok => c = Wrong
    BY Zenon
  <1>b. m.ok => c = ParseCompaction(f.compaction, m)
    BY Zenon
  <1>c. e.ok
    BY Zenon
  <1> HIDE DEF c, e
  <1>3. c.ok /\ e = [ok |-> TRUE, model |-> m.name, maxTokens |-> m.maxTokens, compaction |-> c]
    BY <1>1, <1>2, <1>c, Zenon
  <1>4. m.ok
    BY <1>2, <1>3, <1>a
  <1>5. e.model = m.name /\ e.maxTokens = m.maxTokens /\ e.compaction = c
    <2>1. e = [ok |-> TRUE, model |-> m.name, maxTokens |-> m.maxTokens, compaction |-> c]
      BY <1>3
    <2> QED BY <2>1
  <1>6. c = ParseCompaction(f.compaction, m)
    BY <1>4, <1>b
  <1>7. c # Off =>
          /\ c.reserved = m.maxTokens /\ c.reserved + c.margin < c.limit
          /\ m.profile # NotGiven => c.limit <= m.profile.window /\ c.summary <= m.profile.maxOutput
    BY <1>3, <1>6, SectionsFit
  <1>8. /\ m.name # NotGiven /\ m.maxTokens \in 1..U32Max /\ m.profile = ModelProfile(f.provider, m.name)
        /\ m.profile # NotGiven => m.maxTokens <= m.profile.maxOutput
    <2>1. /\ m.name \notin {NotGiven, ""} /\ m.maxTokens \in 1..U32Max
          /\ m.profile = ModelProfile(f.provider, m.name)
      BY <1>4, ModelsResolve, Zenon
    <2>2. m.profile # NotGiven => m.maxTokens <= m.profile.maxOutput
      BY <1>4, ModelsResolve, Zenon
    <2> QED BY <2>1, <2>2, Zenon
  <1>9. Sound(e, f.provider)
    <2>1. e = [ok |-> TRUE, model |-> e.model, maxTokens |-> e.maxTokens, compaction |-> e.compaction]
      <3>1. e = [ok |-> TRUE, model |-> m.name, maxTokens |-> m.maxTokens, compaction |-> c]
        BY <1>3
      <3> QED BY <3>1
    <2>2. /\ e.model # NotGiven /\ e.maxTokens \in 1..U32Max
          /\ ModelProfile(f.provider, e.model) # NotGiven => e.maxTokens <= ModelProfile(f.provider, e.model).maxOutput
      BY <1>5, <1>8, Zenon
    <2>3. e.compaction # Off =>
            /\ e.compaction.reserved = e.maxTokens
            /\ e.compaction.reserved + e.compaction.margin < e.compaction.limit
            /\ ModelProfile(f.provider, e.model) # NotGiven =>
                 /\ e.compaction.limit <= ModelProfile(f.provider, e.model).window
                 /\ e.compaction.summary <= ModelProfile(f.provider, e.model).maxOutput
      BY <1>5, <1>7, <1>8, Zenon
    <2> QED BY <2>1, <2>2, <2>3, Zenon DEF Sound
  <1> QED BY <1>4, <1>5, <1>9 DEF e

(* Every entry of the registry, and the start's, is sound for the provider. *)
LEMMA EntriesAreSound ==
    ASSUME NEW f
    PROVE  /\ \A o : Startup(f, o).ok => Sound(Startup(f, o), f.provider)
           /\ \A name, budget : Entry(f, name, budget).ok => Sound(Entry(f, name, budget), f.provider)
           /\ \A o, n : Registered(f, o, n).ok => Sound(Registered(f, o, n), f.provider)
  <1>1. \A o : Startup(f, o).ok => Sound(Startup(f, o), f.provider)
    BY CheckedIsSound, Zenon DEF Startup
  <1>2. \A name, budget : Entry(f, name, budget).ok => Sound(Entry(f, name, budget), f.provider)
    BY CheckedIsSound, Zenon DEF Entry
  <1>3. ASSUME NEW o, NEW n, Registered(f, o, n).ok PROVE Sound(Registered(f, o, n), f.provider)
    <2>1. ~Wrong.ok
      BY DEF Wrong
    <2>2. CASE n \in Switchable(f)
      <3>1. Registered(f, o, n) = Entry(f, f.profiles[n].name, f.profiles[n].maxTokens)
        BY <2>2, Zenon DEF Registered, ProfileEntry
      <3> QED BY <1>2, <1>3, <3>1, Zenon
    <2>3. CASE n \notin Switchable(f) /\ BuiltinEntry(f, n).ok
      <3>1. Registered(f, o, n) = Entry(f, n, f.maxTokens)
        BY <2>1, <2>3, Zenon DEF Registered, BuiltinEntry
      <3> QED BY <1>2, <1>3, <3>1, Zenon
    <2>4. CASE n \notin Switchable(f) /\ ~BuiltinEntry(f, n).ok
      <3>1. Registered(f, o, n) = StartupEntry(f, o, n)
        BY <2>4, Zenon DEF Registered
      <3>2. Registered(f, o, n) = Startup(f, o)
        BY <1>3, <2>1, <3>1, Zenon DEF StartupEntry
      <3> QED BY <1>1, <1>3, <3>2, Zenon
    <2> QED BY <2>2, <2>3, <2>4
  <1> QED BY <1>1, <1>2, <1>3, Zenon

(* The runner that a sound entry configures fits the model it names.        *)
LEMMA ConfiguredFits ==
    ASSUME NEW entry, Sound(entry, file.provider)
    PROVE  Fits(Configured(entry))
  <1> DEFINE r == Configured(entry)
             profile == ModelProfile(file.provider, entry.model)
             budget == entry.compaction
  <1>1. r = [model |-> entry.model, maxTokens |-> entry.maxTokens, compaction |-> IntoRuntime(budget, entry.model)]
    BY Zenon DEF Configured
  <1> HIDE DEF r
  <1>2. /\ r.model = entry.model /\ r.maxTokens = entry.maxTokens
        /\ r.compaction = IntoRuntime(budget, entry.model)
    BY <1>1
  <1>3. /\ entry.maxTokens \in 1..U32Max /\ (profile # NotGiven => entry.maxTokens <= profile.maxOutput)
        /\ budget # Off =>
             /\ budget.reserved = entry.maxTokens /\ budget.reserved + budget.margin < budget.limit
             /\ profile # NotGiven => budget.limit <= profile.window /\ budget.summary <= profile.maxOutput
    BY Zenon DEF Sound
  <1>4. ASSUME r.compaction # NotGiven
        PROVE  /\ r.compaction.summarizer = r.model /\ r.compaction.budget = budget /\ budget # Off
    <2>1. budget # Off /\ r.compaction = [budget |-> budget, summarizer |-> entry.model]
      BY <1>2, <1>4, Zenon DEF IntoRuntime
    <2>2. r.compaction = [budget |-> budget, summarizer |-> entry.model]
      BY <2>1
    <2>3. r.compaction.budget = budget /\ r.compaction.summarizer = entry.model
      BY <2>2
    <2> QED BY <1>2, <2>1, <2>3, Zenon
  <1>5. r.compaction # NotGiven =>
          /\ r.compaction.budget.reserved = r.maxTokens
          /\ r.compaction.budget.reserved + r.compaction.budget.margin < r.compaction.budget.limit
          /\ profile # NotGiven =>
               /\ r.compaction.budget.limit <= profile.window /\ r.compaction.budget.summary <= profile.maxOutput
    BY <1>2, <1>3, <1>4, Zenon
  <1>6. Fits(r)
    BY <1>2, <1>3, <1>4, <1>5, Zenon DEF Fits
  <1> QED BY <1>6 DEF r

\* What has been configured fits, and the last switch was a start.
SettingsInv == BudgetsFit /\ SwitchIsARestart /\ (asked # NotGiven => Started) /\ file \in Files

(* A sound runner makes every agent type with a model of its own sound too. *)
LEMMA TypesFit == Fits(configured) => \A n \in Wanted : Fits(OwnModel(file, given, n))
  <1> SUFFICES ASSUME Fits(configured), NEW n \in Wanted PROVE Fits(OwnModel(file, given, n))
    OBVIOUS
  <1>1. CASE Registered(file, given, n).ok
    <2>1. OwnModel(file, given, n) = Configured(Registered(file, given, n))
      BY <1>1, Zenon DEF OwnModel
    <2> QED BY <1>1, <2>1, EntriesAreSound, ConfiguredFits, Zenon
  <1>2. CASE ~Registered(file, given, n).ok
    BY <1>2, Zenon DEF OwnModel
  <1> QED BY <1>1, <1>2

(* A file is itself with a name and a budget of its own.                    *)
LEMMA Renamed ==
    ASSUME NEW f \in Files, NEW n, NEW b
    PROVE  LET g == [f EXCEPT !.name = n, !.maxTokens = b]
               h == [f EXCEPT !.name = n]
           IN /\ g.provider = f.provider /\ g.name = n /\ g.maxTokens = b /\ g.compaction = f.compaction
              /\ h.provider = f.provider /\ h.name = n /\ h.maxTokens = f.maxTokens /\ h.compaction = f.compaction
  <1>1. f = [provider |-> f.provider, name |-> f.name, maxTokens |-> f.maxTokens, profiles |-> f.profiles,
             compaction |-> f.compaction, maxIterations |-> f.maxIterations,
             todoReminderInterval |-> f.todoReminderInterval, logLevel |-> f.logLevel,
             rules |-> f.rules, defaultMode |-> f.defaultMode]
    BY FilesAreWhole
  <1> QED BY <1>1

(* An entry of the registry is what a start would be that asked for it.     *)
LEMMA EntriesAreStarts ==
    ASSUME NEW f \in Files, NEW o, NEW n, Registered(f, o, n).ok, n # NotGiven
    PROVE  Startup(IF n \in Switchable(f)
                   THEN [f EXCEPT !.name = f.profiles[n].name, !.maxTokens = f.profiles[n].maxTokens]
                   ELSE [f EXCEPT !.name = n],
                   [cli |-> NotGiven, universal |-> NotGiven, deepseek |-> NotGiven])
           = Registered(f, o, n)
  <1> DEFINE nothing == [cli |-> NotGiven, universal |-> NotGiven, deepseek |-> NotGiven]
  <1>1. ASSUME NEW p PROVE ForProvider(nothing, p) = NotGiven
    BY DEF ForProvider, OrElse
  <1>2. \A x : OrElse(NotGiven, x) = x
    BY Zenon DEF OrElse
  <1>3. ~Wrong.ok
    BY DEF Wrong
  <1>4. ASSUME NEW g, NEW m, NEW compaction, g.compaction = f.compaction PROVE Checked(g, m) = Checked(f, m)
    BY <1>4, Zenon DEF Checked
  <1> HIDE DEF nothing
  <1>5. CASE n \in Switchable(f)
    <2> DEFINE g == [f EXCEPT !.name = f.profiles[n].name, !.maxTokens = f.profiles[n].maxTokens]
               m == ResolveModel(f.provider, f.profiles[n].name, NotGiven, f.profiles[n].maxTokens)
    <2>a. m = ResolveModel(f.provider, f.profiles[n].name, NotGiven, f.profiles[n].maxTokens)
      OBVIOUS
    <2>1. Registered(f, o, n) = Checked(f, m)
      BY <1>5, Zenon DEF Registered, ProfileEntry, Entry
    <2>2. /\ g.provider = f.provider /\ g.name = f.profiles[n].name /\ g.maxTokens = f.profiles[n].maxTokens
          /\ g.compaction = f.compaction
      BY Renamed
    <2> HIDE DEF g, m
    <2>3. Startup(g, nothing) = Checked(f, ResolveModel(f.provider, NotGiven, f.profiles[n].name, f.profiles[n].maxTokens))
      BY <1>1, <1>4, <2>2, Zenon DEF Startup
    <2>4. m.ok
      BY <2>1, CheckedIsSound, Zenon DEF m
    <2>5. m.name = OrElse(f.profiles[n].name, OrElse(NotGiven, DefaultName(f.provider)))
      <3>1. ResolveModel(f.provider, f.profiles[n].name, NotGiven, f.profiles[n].maxTokens).ok
        BY <2>a, <2>4, Zenon
      <3>2. ResolveModel(f.provider, f.profiles[n].name, NotGiven, f.profiles[n].maxTokens).name
            = OrElse(f.profiles[n].name, OrElse(NotGiven, DefaultName(f.provider)))
        <4>1. PICK by, name, budget : by = f.provider /\ name = f.profiles[n].name /\ budget = f.profiles[n].maxTokens
          OBVIOUS
        <4>2. ResolveModel(by, name, NotGiven, budget).ok
          BY <3>1, <4>1, Zenon
        <4>3. ResolveModel(by, name, NotGiven, budget).name = OrElse(name, OrElse(NotGiven, DefaultName(by)))
          BY <4>2, ResolvedName
        <4> QED BY <4>1, <4>3, Zenon
      <3> QED BY <2>a, <3>2, Zenon
    <2>6. OrElse(NotGiven, OrElse(f.profiles[n].name, DefaultName(f.provider))) = m.name
      BY <1>2, <2>5, Zenon
    <2>7. ResolveModel(f.provider, NotGiven, f.profiles[n].name, f.profiles[n].maxTokens) = m
      BY <2>a, <2>4, <2>6, OneModelOfAName
    <2> QED BY <1>5, <2>1, <2>3, <2>7, Zenon DEF nothing, g
  <1>6. CASE n \notin Switchable(f)
    <2> DEFINE g == [f EXCEPT !.name = n]
    <2>1. PICK requested, name :
             /\ Registered(f, o, n) = Checked(f, ResolveModel(f.provider, requested, name, f.maxTokens))
             /\ ResolveModel(f.provider, requested, name, f.maxTokens).name = n
      <3>1. CASE BuiltinEntry(f, n).ok
        <4>1. Registered(f, o, n) = Checked(f, ResolveModel(f.provider, n, NotGiven, f.maxTokens))
          BY <1>3, <1>6, <3>1, Zenon DEF Registered, BuiltinEntry, Entry
        <4>2. ResolveModel(f.provider, n, NotGiven, f.maxTokens).ok
          BY <4>1, CheckedIsSound, Zenon
        <4>3. ResolveModel(f.provider, n, NotGiven, f.maxTokens).name = OrElse(n, OrElse(NotGiven, DefaultName(f.provider)))
          <5>1. PICK by, budget : by = f.provider /\ budget = f.maxTokens
            OBVIOUS
          <5>2. ResolveModel(by, n, NotGiven, budget).ok
            BY <4>2, <5>1, Zenon
          <5>3. ResolveModel(by, n, NotGiven, budget).name = OrElse(n, OrElse(NotGiven, DefaultName(by)))
            BY <5>2, ResolvedName
          <5> QED BY <5>1, <5>3, Zenon
        <4>4. ResolveModel(f.provider, n, NotGiven, f.maxTokens).name = n
          BY <4>3, Zenon DEF OrElse
        <4> QED BY <4>1, <4>4
      <3>2. CASE ~BuiltinEntry(f, n).ok
        <4>1. Registered(f, o, n) = StartupEntry(f, o, n)
          BY <1>6, <3>2, Zenon DEF Registered
        <4>2. Registered(f, o, n) = Startup(f, o) /\ Startup(f, o).model = n
          BY <1>3, <4>1, Zenon DEF StartupEntry
        <4>3. Registered(f, o, n) = Checked(f, ResolveModel(f.provider, ForProvider(o, f.provider), f.name, f.maxTokens))
          BY <4>2, Zenon DEF Startup
        <4>4. ResolveModel(f.provider, ForProvider(o, f.provider), f.name, f.maxTokens).name = n
          <5>1. PICK m : m = ResolveModel(f.provider, ForProvider(o, f.provider), f.name, f.maxTokens)
            OBVIOUS
          <5>2. Checked(f, m).ok
            BY <4>3, <5>1, Zenon
          <5>3. Checked(f, m).model = m.name
            BY <5>1, <5>2, CheckedIsSound
          <5> QED BY <4>2, <4>3, <5>1, <5>3, Zenon
        <4> QED BY <4>3, <4>4
      <3> QED BY <3>1, <3>2
    <2> DEFINE m == ResolveModel(f.provider, requested, name, f.maxTokens)
    <2>2. /\ g.provider = f.provider /\ g.name = n /\ g.maxTokens = f.maxTokens /\ g.compaction = f.compaction
      BY Renamed
    <2>a. m = ResolveModel(f.provider, requested, name, f.maxTokens)
      OBVIOUS
    <2> HIDE DEF g, m
    <2>3. Startup(g, nothing) = Checked(f, ResolveModel(f.provider, NotGiven, n, f.maxTokens))
      BY <1>1, <1>4, <2>2, Zenon DEF Startup
    <2>4. m.ok
      BY <2>1, CheckedIsSound, Zenon DEF m
    <2>5. OrElse(NotGiven, OrElse(n, DefaultName(f.provider))) = m.name
      BY <1>2, <2>1, Zenon DEF m, OrElse
    <2>6. ResolveModel(f.provider, NotGiven, n, f.maxTokens) = m
      BY <2>a, <2>4, <2>5, OneModelOfAName
    <2> QED BY <1>6, <2>1, <2>3, <2>6, Zenon DEF nothing, g, m
  <1> QED BY <1>5, <1>6

(* A project that is not trusted only makes a start stricter.               *)
LEMMA UntrustedTightens == UntrustedFileOnlyTightens
  <1> DEFINE p == ResolvePermissions(file, flags)
  <1> SUFFICES ASSUME ~flags.trusted, p.ok
               PROVE  /\ BuiltinRules \cup RulesFrom(flags.rules, "Cli") \subseteq p.rules
                      /\ \A r \in p.rules : r.origin = "Project" => r.effect # "Allow"
                      /\ RulesFrom(file.rules \ {"Allow"}, "Project") \subseteq p.rules
                      /\ p.mode \in Relaxes => p.mode = flags.mode
    BY DEF UntrustedFileOnlyTightens
  <1> DEFINE rules == BuiltinRules \cup ProjectRules(file, flags.trusted) \cup RulesFrom(flags.rules, "Cli")
             mode == ResolveMode(file, flags)
  <1>1. p = IF {file.defaultMode, flags.mode} \subseteq KnownModes \cup {NotGiven}
            THEN [ok |-> TRUE, mode |-> mode, rules |-> rules] ELSE Wrong
    BY Zenon DEF ResolvePermissions
  <1>2. ~Wrong.ok
    BY DEF Wrong
  <1> HIDE DEF p
  <1>3. p = [ok |-> TRUE, mode |-> mode, rules |-> rules]
    BY <1>1, <1>2, Zenon
  <1> HIDE DEF rules, mode
  <1>4. p.mode = mode /\ p.rules = rules
    BY <1>3
  <1>5. BuiltinRules \cup RulesFrom(flags.rules, "Cli") \subseteq rules
    BY Zenon DEF rules
  <1>6. ASSUME NEW r \in rules, r.origin = "Project" PROVE r.effect # "Allow"
    <2>1. r \notin BuiltinRules
      BY <1>6 DEF BuiltinRules
    <2>2. r \notin RulesFrom(flags.rules, "Cli")
      BY <1>6 DEF RulesFrom
    <2> QED BY <1>6, <2>1, <2>2 DEF rules, ProjectRules
  <1>7. RulesFrom(file.rules \ {"Allow"}, "Project") \subseteq rules
    BY DEF rules, ProjectRules, RulesFrom
  <1>8. ASSUME mode \in Relaxes PROVE mode = flags.mode
    BY <1>8 DEF mode, ResolveMode, ModeDoesNotRelax, Relaxes
  <1> QED BY <1>4, <1>5, <1>6, <1>7, <1>8

(* Nothing is started before the start.                                     *)
LEMMA SettingsInitInv == SettingsInit => SettingsInv
  BY DEF SettingsInit, SettingsInv, BudgetsFit, SwitchIsARestart, Started

(* A start and a switch each leave a runner that fits.                      *)
LEMMA SettingsInvStays == SettingsInv /\ [SettingsNext]_setVars => SettingsInv'
  <1> SUFFICES ASSUME SettingsInv, [SettingsNext]_setVars PROVE SettingsInv'
    OBVIOUS
  <1>1. CASE Assemble
    <2>1. ~Started /\ asked = NotGiven /\ asked' = asked /\ file' = file /\ given' = given /\ file \in Files
      BY <1>1, Zenon DEF Assemble, SettingsInv
    <2>2. CASE named' = named
      BY <2>1, <2>2, Zenon DEF SettingsInv, BudgetsFit, SwitchIsARestart, Started
    <2>3. CASE named' # named
      <3>1. Startup(file, given).ok /\ configured' = Configured(Startup(file, given))
        BY <1>1, <2>3, Zenon DEF Assemble
      <3>2. Fits(configured)'
        <4>1. Fits(Configured(Startup(file, given)))
          BY <3>1, EntriesAreSound, ConfiguredFits, Zenon
        <4> QED BY <2>1, <3>1, <4>1, Zenon DEF Fits
      <3>3. BudgetsFit'
        BY <3>2, TypesFit, PTL DEF BudgetsFit
      <3> QED BY <2>1, <3>3, Zenon DEF SettingsInv, SwitchIsARestart
    <2> QED BY <2>2, <2>3
  <1>2. ASSUME NEW n \in Wanted, SwitchTo(n) PROVE SettingsInv'
    <2>1. PICK entry : entry = Registered(file, given, n)
      OBVIOUS
    <2>2. /\ entry.ok /\ configured' = Configured(entry) /\ named' = entry.model /\ asked' = n
          /\ file' = file /\ given' = given /\ file \in Files
      BY <1>2, <2>1, Zenon DEF SwitchTo, Switched, SettingsInv
    <2>3. Sound(entry, file.provider)
      BY <2>1, <2>2, EntriesAreSound, Zenon
    <2>4. Started'
      BY <2>2, <2>3, Zenon DEF Sound, Started
    <2>5. Fits(configured)'
      BY <2>2, <2>3, ConfiguredFits, Zenon DEF Fits
    <2>6. BudgetsFit'
      BY <2>5, TypesFit, PTL DEF BudgetsFit
    <2>7. SwitchIsARestart'
      BY <2>1, <2>2, EntriesAreStarts, Zenon DEF SwitchIsARestart
    <2> QED BY <2>2, <2>4, <2>6, <2>7, Zenon DEF SettingsInv
  <1>3. CASE UNCHANGED setVars
    BY <1>3 DEF setVars, SettingsInv, BudgetsFit, SwitchIsARestart, Started, Fits, OwnModel
  <1> QED BY <1>1, <1>2, <1>3 DEF SettingsNext, Pick

(* Whatever the settings file says and however often the model was switched, *)
(* the budgets of the runner and of every agent type fit the model that     *)
(* runs, a switch is a start that asked for that name, and a project that is *)
(* not trusted only tightens; for any files, overrides and names            *)
(* (parse_compaction, ModelSwitcher::switch, resolve_permissions).          *)
THEOREM RunnersStayAsConfigured == SettingsSpec => []RunnersAreAsConfigured
  <1>1. SettingsInv => RunnersAreAsConfigured
    BY UntrustedTightens DEF SettingsInv, RunnersAreAsConfigured
  <1> QED BY <1>1, SettingsInitInv, SettingsInvStays, PTL DEF SettingsSpec

-----------------------------------------------------------------------------
(* Viewport.                                                                *)

Statuses == {"pending", "in_progress", "completed"}
ViewType ==
    /\ frame = [height |-> frame.height, panel |-> frame.panel, approval |-> frame.approval]
    /\ frame.height \in Nat /\ frame.panel \in Nat
    /\ plan \in Seq(Statuses)
    /\ pane = [rows |-> pane.rows, scroll |-> pane.scroll, follow |-> pane.follow, drawn |-> pane.drawn]
    /\ pane.rows \in Nat /\ pane.scroll \in Nat
ViewInv == ViewType /\ DrawnInRange

(* What is cut off is counted, and cutting off then adding is the greater.  *)
LEMMA MinusCounts ==
    ASSUME NEW x \in Nat, NEW y \in Nat
    PROVE  /\ Minus(x, y) \in Nat /\ Minus(x, y) <= x /\ Minus(x, y) + y >= x
           /\ Minus(x, y) > 0 => Minus(x, y) + y = x
           /\ x >= y => Minus(x, y) + y = x
  BY DEF Minus

(* The lesser of two counts is one of them and no more than either.         *)
LEMMA LeastCounts ==
    ASSUME NEW x \in Nat, NEW y \in Nat
    PROVE  Least(x, y) \in {x, y} /\ Least(x, y) \in Nat /\ Least(x, y) <= x /\ Least(x, y) <= y
  BY DEF Least

(* The step in focus is a step of the plan.                                 *)
LEMMA FocusIsAStep ==
    ASSUME plan \in Seq(Statuses), Len(plan) > 0
    PROVE  Focus \in 1..Len(plan)
  <1>1. Len(plan) \in Nat
    BY LenProperties
  <1>2. ASSUME NEW status, FirstWith(status) # {} PROVE Min(FirstWith(status)) \in 1..Len(plan)
    <2> DEFINE S == FirstWith(status)
    <2>1. S \subseteq 1..Len(plan)
      BY DEF FirstWith
    <2>2. S \in SUBSET Nat
      BY <1>1, <2>1
    <2> HIDE DEF S
    <2>3. \E x \in S : \A y \in S : x <= y
      BY <1>2, <2>2, LeastElement DEF S
    <2>4. Min(S) \in S
      BY <2>3, Zenon DEF Min
    <2> QED BY <2>1, <2>4 DEF S
  <1>3. 1 \in 1..Len(plan)
    BY <1>1
  <1> QED BY <1>2, <1>3, Zenon DEF Focus

(* A window of the plan that does not fit whole holds the step in focus.    *)
LEMMA WindowHoldsFocus ==
    ASSUME plan \in Seq(Statuses), NEW rows \in Nat, rows > 0, Len(plan) > rows
    PROVE  /\ WindowStart(rows) \in Nat /\ WindowStart(rows) + rows <= Len(plan)
           /\ Focus \in (WindowStart(rows) + 1)..(WindowStart(rows) + rows)
  <1>1. PICK n \in Nat : n = Len(plan)
    BY LenProperties
  <1>2. PICK f \in 1..n : f = Focus
    BY <1>1, FocusIsAStep
  <1>3. PICK half \in Nat : half = rows \div 2 /\ half < rows
    BY SMT
  <1>4. WindowStart(rows) = Least(Minus(f - 1, half), n - rows)
    BY <1>1, <1>2, <1>3, Zenon DEF WindowStart
  <1>5. n > rows /\ f \in Nat /\ 1 <= f /\ f <= n
    BY <1>1, <1>2
  <1>6. PICK start : start = Least(Minus(f - 1, half), n - rows)
    OBVIOUS
  <1>7. start \in Nat /\ start + rows <= n /\ start + 1 <= f /\ f <= start + rows
    BY <1>3, <1>5, <1>6 DEF Least, Minus
  <1> QED BY <1>1, <1>2, <1>4, <1>5, <1>6, <1>7

(* The steps a plan panel shows fill its rows, or are all there are.        *)
LEMMA StepsFillRows ==
    ASSUME plan \in Seq(Statuses), NEW rows \in Nat, rows > 0, ~(Range(plan) \subseteq {"completed"})
    PROVE  /\ Len(plan) > 0 /\ Focus \in VisiblePlan(rows) /\ VisiblePlan(rows) \subseteq 1..Len(plan)
           /\ Cardinality(VisiblePlan(rows)) = Least(Len(plan), rows)
  <1>1. PICK n \in Nat : n = Len(plan)
    BY LenProperties
  <1>2. n > 0
    <2>1. SUFFICES ASSUME n = 0 PROVE FALSE
      BY <1>1
    <2>2. DOMAIN plan = {}
      <3>1. DOMAIN plan = 1..n
        BY <1>1, LenProperties
      <3> QED BY <2>1, <3>1
    <2> QED BY <2>2 DEF Range
  <1>3. Focus \in 1..n
    BY <1>1, <1>2, FocusIsAStep
  <1>4. CASE n <= rows
    <2>1. VisiblePlan(rows) = 1..n
      BY <1>1, <1>4 DEF VisiblePlan
    <2>2. Cardinality(1..n) = n
      BY <1>2, FS_Interval
    <2> QED BY <1>1, <1>2, <1>3, <1>4, <2>1, <2>2 DEF Least
  <1>5. CASE n > rows
    <2>1. PICK start : start = WindowStart(rows)
      OBVIOUS
    <2>2. start \in Nat /\ start + rows <= n /\ Focus \in (start + 1)..(start + rows)
      BY <1>1, <1>5, <2>1, WindowHoldsFocus
    <2>3. VisiblePlan(rows) = (start + 1)..(start + rows)
      BY <1>1, <1>5, <2>1 DEF VisiblePlan
    <2>4. Cardinality((start + 1)..(start + rows)) = rows
      BY <2>2, FS_Interval
    <2> QED BY <1>1, <1>2, <1>5, <2>2, <2>3, <2>4 DEF Least
  <1> QED BY <1>1, <1>4, <1>5

(* The steps a panel of any height shows are counted, and never more than   *)
(* its rows.                                                                *)
LEMMA StepsAreCounted ==
    ASSUME plan \in Seq(Statuses), NEW rows \in Nat
    PROVE  Cardinality(VisiblePlan(rows)) \in Nat /\ Cardinality(VisiblePlan(rows)) <= rows
  <1>1. Len(plan) \in Nat
    BY LenProperties
  <1>2. CASE rows = 0 \/ Range(plan) \subseteq {"completed"}
    BY <1>2, FS_EmptySet DEF VisiblePlan
  <1>3. CASE rows > 0 /\ ~(Range(plan) \subseteq {"completed"})
    BY <1>1, <1>3, StepsFillRows, LeastCounts
  <1> QED BY <1>2, <1>3

(* The panes of a frame are counted and share what the fixed rows leave.    *)
LEMMA PanesAreCounted ==
    ASSUME ViewType, NEW hint \in Nat
    PROVE  /\ Usable(hint) \in Nat /\ PaneHeights(hint).bottom \in Nat /\ PaneHeights(hint).plan \in Nat
           /\ Body(hint) \in Nat
           /\ PaneHeights(hint).bottom + PaneHeights(hint).plan + Body(hint) = Usable(hint)
           /\ PaneHeights(hint).plan > 0 => Body(hint) >= MinConversationRows
           /\ PaneHeights(hint).plan <= Cardinality(VisiblePlan(PlanMaxRows)) + 1
           /\ PaneHeights(hint).plan > 0 => Cardinality(VisiblePlan(PlanMaxRows)) > 0
  <1>1. PICK usable \in Nat : usable = Usable(hint)
    <2>1. PICK height \in Nat, fixed \in Nat : height = frame.height /\ fixed = HeaderHeight + FooterHeight + hint
      <3>1. HeaderHeight \in Nat /\ FooterHeight \in Nat
        BY RowsAreCounted
      <3> QED BY <3>1 DEF ViewType
    <2>2. Usable(hint) = Minus(height, fixed)
      BY <2>1, Zenon DEF Usable
    <2> QED BY <2>2, MinusCounts
  <1>2. PICK bottom \in Nat : bottom = Least(frame.panel, usable) /\ bottom <= usable
    BY LeastCounts DEF ViewType
  <1>3. PICK rows \in Nat : rows = Cardinality(VisiblePlan(PlanMaxRows))
    BY RowsAreCounted, StepsAreCounted DEF ViewType
  <1>4. PICK wanted \in Nat : wanted = (IF rows = 0 THEN 0 ELSE rows + 1) /\ wanted <= rows + 1 /\ (wanted > 0 => rows > 0)
    OBVIOUS
  <1>5. PICK left \in Nat : left = Minus(usable, bottom) /\ left + bottom = usable
    BY <1>2, MinusCounts
  <1>6. PICK spare \in Nat : spare = Minus(left, MinConversationRows) /\ (spare > 0 => spare + MinConversationRows = left)
                             /\ spare <= left
    BY RowsAreCounted, MinusCounts
  <1>7. PICK panel \in Nat : /\ panel = (IF frame.approval THEN 0 ELSE Least(wanted, spare))
                             /\ panel <= spare /\ panel <= wanted
    <2>1. PICK least \in Nat : least = Least(wanted, spare) /\ least <= spare /\ least <= wanted
      BY LeastCounts
    <2>2. CASE frame.approval
      BY <2>2
    <2>3. CASE ~frame.approval
      BY <2>1, <2>3
    <2> QED BY <2>2, <2>3
  <1>8. PaneHeights(hint) = [bottom |-> bottom, plan |-> panel]
    BY <1>1, <1>2, <1>3, <1>4, <1>5, <1>6, <1>7, Zenon DEF PaneHeights
  <1>9. PaneHeights(hint).bottom = bottom /\ PaneHeights(hint).plan = panel
    BY <1>8
  <1>10. Body(hint) = Minus(left, panel)
    BY <1>1, <1>5, <1>9, Zenon DEF Body
  <1>11. PICK body \in Nat : body = Minus(left, panel) /\ body + panel = left
    <2>1. left >= panel
      BY <1>6, <1>7
    <2> QED BY <2>1, MinusCounts
  <1>12. panel > 0 => body >= MinConversationRows
    BY <1>6, <1>7, <1>11, RowsAreCounted
  <1> QED BY <1>1, <1>3, <1>4, <1>5, <1>7, <1>9, <1>10, <1>11, <1>12

(* The frame adds up: no pane reaches over another, and the mode hint takes  *)
(* nothing from the composer or the plan.                                   *)
LEMMA PanesAddUp == ViewType => PanesFit
  <1> SUFFICES ASSUME ViewType, frame.height >= HeaderHeight + FooterHeight
               PROVE  /\ HeaderHeight + FooterHeight + HintHeight + Panes.bottom + Panes.plan + Body(HintHeight)
                         = frame.height
                      /\ Panes = PaneHeights(0)
                      /\ HintHeight > 0 \/ Panes.plan > 0 => Body(HintHeight) >= MinConversationRows
    BY DEF PanesFit
  <1>1. /\ HeaderHeight \in Nat /\ FooterHeight \in Nat /\ ModeHintHeight \in Nat
        /\ MinConversationRows \in Nat /\ MinConversationRows > 0
    BY RowsAreCounted
  <1>2. PICK hint \in Nat : hint = HintHeight
    BY <1>1 DEF HintHeight
  <1>3. hint # 0 => /\ PaneHeights(ModeHintHeight) = PaneHeights(0) /\ Body(ModeHintHeight) >= MinConversationRows
                    /\ hint = ModeHintHeight
    BY <1>2, Zenon DEF HintHeight
  <1>4. Panes = PaneHeights(hint) /\ PaneHeights(hint) = PaneHeights(0)
    BY <1>2, <1>3, Zenon DEF Panes
  <1>5. PICK b \in Nat, p \in Nat, body \in Nat, usable \in Nat :
           /\ b = PaneHeights(hint).bottom /\ p = PaneHeights(hint).plan /\ body = Body(hint) /\ usable = Usable(hint)
           /\ b + p + body = usable /\ (p > 0 => body >= MinConversationRows)
    BY PanesAreCounted
  <1>6. hint > 0 => body >= MinConversationRows
    BY <1>3, <1>5
  <1>7. PICK height \in Nat : height = frame.height
    BY DEF ViewType
  <1>8. height >= HeaderHeight + FooterHeight
    BY <1>7
  <1>9. usable = Minus(height, HeaderHeight + FooterHeight + hint)
    BY <1>5, <1>7, Zenon DEF Usable
  <1>10. HeaderHeight + FooterHeight + hint + usable = height
    <2>1. CASE hint = 0
      BY <1>1, <1>8, <1>9, <2>1 DEF Minus
    <2>2. CASE hint > 0
      BY <1>1, <1>5, <1>6, <1>9, <2>2 DEF Minus
    <2> QED BY <2>1, <2>2
  <1>11. HeaderHeight + FooterHeight + hint + b + p + body = height
    BY <1>1, <1>5, <1>10
  <1>12. Panes.bottom = b /\ Panes.plan = p
    BY <1>4, <1>5, Zenon
  <1> QED BY <1>2, <1>4, <1>5, <1>6, <1>7, <1>11, <1>12

(* A plan panel shows the step being worked on and fills its rows.          *)
LEMMA PlanPanelIsFull == ViewType => PlanShowsTheWork
  <1> SUFFICES ASSUME ViewType, Panes.plan > 1
               PROVE  /\ Focus \in PlanShown /\ PlanShown \subseteq 1..Len(plan)
                      /\ Cardinality(PlanShown) = Panes.plan - 1
    BY DEF PlanShowsTheWork
  <1>1. PlanMaxRows \in Nat /\ ModeHintHeight \in Nat
    BY RowsAreCounted
  <1>2. PICK hint \in Nat : hint = HintHeight
    BY <1>1 DEF HintHeight
  <1>3. PICK p \in Nat, most \in Nat :
           p = Panes.plan /\ most = Cardinality(VisiblePlan(PlanMaxRows)) /\ p <= most + 1
    BY <1>1, <1>2, PanesAreCounted, StepsAreCounted DEF Panes, ViewType
  <1>4. p > 1 /\ most > 0
    BY <1>3
  <1>5. PlanMaxRows > 0 /\ ~(Range(plan) \subseteq {"completed"})
    <2>1. ~(PlanMaxRows = 0 \/ Range(plan) \subseteq {"completed"})
      BY <1>3, <1>4, FS_EmptySet DEF VisiblePlan
    <2> QED BY <1>1, <2>1
  <1>6. PICK n \in Nat : n = Len(plan)
    BY LenProperties DEF ViewType
  <1>7. most = Least(n, PlanMaxRows)
    BY <1>1, <1>3, <1>5, <1>6, StepsFillRows DEF ViewType
  <1>8. Least(Minus(Panes.plan, 1), PlanMaxRows) = p - 1 /\ p - 1 <= n /\ p - 1 \in Nat /\ p - 1 > 0
    <2>1. Minus(Panes.plan, 1) = p - 1
      BY <1>3, <1>4 DEF Minus
    <2> QED BY <1>1, <1>3, <1>4, <1>7, <2>1 DEF Least
  <1>9. PlanShown = VisiblePlan(p - 1)
    BY <1>8, Zenon DEF PlanShown
  <1>10. /\ Focus \in VisiblePlan(p - 1) /\ VisiblePlan(p - 1) \subseteq 1..Len(plan)
         /\ Cardinality(VisiblePlan(p - 1)) = Least(Len(plan), p - 1)
    BY <1>5, <1>8, StepsFillRows DEF ViewType
  <1>11. Least(Len(plan), p - 1) = p - 1
    BY <1>6, <1>8 DEF Least
  <1> QED BY <1>3, <1>9, <1>10, <1>11

(* A frame before anything was said.                                        *)
LEMMA ViewInitInv == ViewInit => ViewInv
  <1> SUFFICES ASSUME ViewInit PROVE ViewInv
    OBVIOUS
  <1>1. PICK h \in FrameHeights, q \in PanelHeights : frame = [height |-> h, panel |-> q, approval |-> FALSE]
    BY DEF ViewInit
  <1>2. h \in Nat /\ q \in Nat
    BY RowsAreCounted
  <1>3. frame.height = h /\ frame.panel = q /\ frame.approval = FALSE
    BY <1>1
  <1>4. pane = [rows |-> 0, scroll |-> 0, follow |-> TRUE, drawn |-> FALSE]
    BY DEF ViewInit
  <1>5. pane.rows = 0 /\ pane.scroll = 0 /\ pane.follow = TRUE /\ pane.drawn = FALSE
    BY <1>4
  <1>6. plan \in Seq(Statuses)
    BY EmptySeq DEF ViewInit
  <1> QED BY <1>1, <1>2, <1>3, <1>4, <1>5, <1>6 DEF ViewInv, ViewType, DrawnInRange

(* The rows the conversation has depend on the frame and the plan alone.    *)
LEMMA FrameDecides ==
    ASSUME UNCHANGED <<frame, plan>>
    PROVE  Viewport' = Viewport
  <1>1. ASSUME NEW status PROVE FirstWith(status)' = FirstWith(status)
    BY DEF FirstWith
  <1>2. Focus' = Focus
    BY <1>1, Zenon DEF Focus
  <1>3. ASSUME NEW rows PROVE VisiblePlan(rows)' = VisiblePlan(rows)
    <2>1. WindowStart(rows)' = WindowStart(rows)
      BY <1>2, Zenon DEF WindowStart
    <2> QED BY <2>1, Zenon DEF VisiblePlan
  <1>4. ASSUME NEW hint PROVE Usable(hint)' = Usable(hint)
    BY Zenon DEF Usable
  <1>5. ASSUME NEW hint PROVE PaneHeights(hint)' = PaneHeights(hint)
    BY <1>3, <1>4, Zenon DEF PaneHeights
  <1>6. ASSUME NEW hint PROVE Body(hint)' = Body(hint)
    BY <1>4, <1>5, Zenon DEF Body
  <1>7. HintHeight' = HintHeight
    BY <1>5, <1>6, Zenon DEF HintHeight
  <1>8. Body(HintHeight)' = Body(HintHeight)
    BY <1>6, <1>7, Zenon
  <1> QED BY <1>8, Zenon DEF Viewport

(* Whatever happens to the frame, the plan and the content, the conversation *)
(* is in range once it is drawn.                                            *)
LEMMA ViewInvStays == ViewInv /\ [ViewNext]_viewVars => ViewInv'
  <1> SUFFICES ASSUME ViewInv, [ViewNext]_viewVars PROVE ViewInv'
    OBVIOUS
  <1> DEFINE FrameType == /\ frame = [height |-> frame.height, panel |-> frame.panel, approval |-> frame.approval]
                          /\ frame.height \in Nat /\ frame.panel \in Nat
             PlanType == plan \in Seq(Statuses)
             PaneType == /\ pane = [rows |-> pane.rows, scroll |-> pane.scroll, follow |-> pane.follow, drawn |-> pane.drawn]
                         /\ pane.rows \in Nat /\ pane.scroll \in Nat
  <1>1. FrameType /\ PlanType /\ PaneType
    BY DEF ViewInv, ViewType
  <1>2. FrameType' /\ PlanType' /\ PaneType' => ViewType'
    BY DEF ViewType
  <1>3. ASSUME NEW rows \in Nat, NEW scroll \in Nat, NEW follow, NEW drawn,
               pane' = [rows |-> rows, scroll |-> scroll, follow |-> follow, drawn |-> drawn]
        PROVE  PaneType' /\ pane'.rows = rows /\ pane'.scroll = scroll /\ pane'.follow = follow /\ pane'.drawn = drawn
    BY <1>3
  <1>4. ASSUME NEW rows \in Nat, NEW scroll \in Nat, NEW follow, FrameType', PlanType',
               pane' = [rows |-> rows, scroll |-> scroll, follow |-> follow, drawn |-> FALSE]
        PROVE  ViewInv'
    <2>1. PaneType' /\ pane'.drawn = FALSE
      BY <1>3, <1>4
    <2> QED BY <1>2, <1>4, <2>1 DEF ViewInv, DrawnInRange
  <1>6. ASSUME Changed, FrameType', PlanType' PROVE ViewInv'
    <2>1. pane' = [rows |-> pane.rows, scroll |-> pane.scroll, follow |-> pane.follow, drawn |-> FALSE]
      BY <1>1, <1>6 DEF Changed
    <2> QED BY <1>1, <1>4, <1>6, <2>1
  <1>7. ASSUME UNCHANGED frame PROVE FrameType'
    BY <1>1, <1>7
  <1>8. ASSUME UNCHANGED plan PROVE PlanType'
    BY <1>1, <1>8
  <1>9. ASSUME NEW height \in Nat, NEW panel \in Nat, NEW approval,
               frame' = [height |-> height, panel |-> panel, approval |-> approval]
        PROVE  FrameType'
    BY <1>9
  <1> HIDE DEF FrameType, PlanType, PaneType
  <1>10. CASE Resize
    <2>1. PICK h \in FrameHeights : frame' = [frame EXCEPT !.height = h]
      BY <1>10 DEF Resize
    <2>2. frame' = [height |-> h, panel |-> frame.panel, approval |-> frame.approval]
      BY <1>1, <2>1 DEF FrameType
    <2>3. h \in Nat /\ frame.panel \in Nat
      BY <1>1, RowsAreCounted DEF FrameType
    <2>4. FrameType'
      BY <1>9, <2>2, <2>3
    <2> QED BY <1>6, <1>8, <1>10, <2>4 DEF Resize
  <1>11. CASE PanelChanges
    <2>1. PICK q \in PanelHeights, a \in BOOLEAN : frame' = [frame EXCEPT !.panel = q, !.approval = a]
      BY <1>11 DEF PanelChanges
    <2>2. frame' = [height |-> frame.height, panel |-> q, approval |-> a]
      BY <1>1, <2>1 DEF FrameType
    <2>3. q \in Nat /\ frame.height \in Nat
      BY <1>1, RowsAreCounted DEF FrameType
    <2>4. FrameType'
      BY <1>9, <2>2, <2>3
    <2> QED BY <1>6, <1>8, <1>11, <2>4 DEF PanelChanges
  <1>12. CASE TodoUpdate
    <2>1. PICK n \in 0..MaxPlan : plan' \in [1..n -> Statuses]
      BY <1>12 DEF TodoUpdate, Statuses
    <2>2. n \in Nat
      BY RowsAreCounted
    <2>3. PlanType'
      BY <2>1, <2>2, SeqDef DEF PlanType
    <2> QED BY <1>6, <1>7, <1>12, <2>3 DEF TodoUpdate
  <1>13. CASE ContentChanges
    <2>1. PICK n \in 0..MaxContent : pane' = [pane EXCEPT !.rows = n, !.drawn = FALSE]
      BY <1>13 DEF ContentChanges
    <2>2. n \in Nat /\ pane.scroll \in Nat
      BY <1>1, RowsAreCounted DEF PaneType
    <2>3. pane' = [rows |-> n, scroll |-> pane.scroll, follow |-> pane.follow, drawn |-> FALSE]
      BY <1>1, <2>1 DEF PaneType
    <2> QED BY <1>4, <1>7, <1>8, <1>13, <2>2, <2>3 DEF ContentChanges
  <1>14. CASE ScrollUp
    <2>1. Minus(pane.scroll, ScrollStep) \in Nat /\ pane.rows \in Nat
      BY <1>1, RowsAreCounted, MinusCounts DEF PaneType
    <2>2. pane' = [rows |-> pane.rows, scroll |-> Minus(pane.scroll, ScrollStep), follow |-> FALSE, drawn |-> FALSE]
      BY <1>1, <1>14 DEF ScrollUp, PaneType
    <2> QED BY <1>4, <1>7, <1>8, <1>14, <2>1, <2>2 DEF ScrollUp
  <1>15. CASE ScrollDown
    <2>1. pane.scroll + ScrollStep \in Nat /\ pane.rows \in Nat
      BY <1>1, RowsAreCounted DEF PaneType
    <2>2. pane' = [rows |-> pane.rows, scroll |-> pane.scroll + ScrollStep, follow |-> pane.follow, drawn |-> FALSE]
      BY <1>1, <1>15 DEF ScrollDown, PaneType
    <2> QED BY <1>4, <1>7, <1>8, <1>15, <2>1, <2>2 DEF ScrollDown
  <1>16. CASE FollowTail
    <2>1. pane' = [rows |-> pane.rows, scroll |-> pane.scroll, follow |-> TRUE, drawn |-> FALSE]
      BY <1>1, <1>16 DEF FollowTail, PaneType
    <2>2. pane.scroll \in Nat /\ pane.rows \in Nat
      BY <1>1 DEF PaneType
    <2> QED BY <1>4, <1>7, <1>8, <1>16, <2>1, <2>2 DEF FollowTail
  <1>17. CASE Draw
    <2>1. FrameType' /\ PlanType' /\ UNCHANGED <<frame, plan>>
      BY <1>7, <1>8, <1>17 DEF Draw
    <2>2. PICK max : max = MaxScroll
      OBVIOUS
    <2>3. max \in Nat
      <3>1. Viewport \in Nat
        <4>1. ModeHintHeight \in Nat
          BY RowsAreCounted
        <4>2. HintHeight \in Nat
          BY <4>1 DEF HintHeight
        <4>3. PICK rows \in Nat : rows = Body(HintHeight)
          BY <4>2, PanesAreCounted DEF ViewInv
        <4> QED BY <4>3 DEF Viewport
      <3> QED BY <1>1, <2>2, <3>1, MinusCounts DEF MaxScroll, PaneType
    <2>4. PICK scroll : scroll = IF pane.follow THEN max ELSE Least(pane.scroll, max)
      OBVIOUS
    <2>5. scroll \in Nat /\ scroll <= max /\ pane.rows \in Nat
      BY <1>1, <2>3, <2>4, LeastCounts DEF PaneType
    <2>6. pane' = [pane EXCEPT !.scroll = scroll, !.follow = (scroll = max), !.drawn = TRUE]
      BY <1>17, <2>2, <2>4, Zenon DEF Draw, Clamped
    <2>7. pane' = [rows |-> pane.rows, scroll |-> scroll, follow |-> (scroll = max), drawn |-> TRUE]
      BY <1>1, <2>6 DEF PaneType
    <2>8. PaneType' /\ pane'.rows = pane.rows /\ pane'.scroll = scroll /\ (pane'.follow <=> scroll = max)
      BY <1>3, <2>5, <2>7
    <2>9. MaxScroll' = max
      BY <2>1, <2>2, <2>8, FrameDecides, Zenon DEF MaxScroll
    <2> QED BY <1>2, <2>1, <2>5, <2>8, <2>9 DEF ViewInv, DrawnInRange
  <1>18. CASE UNCHANGED viewVars
    <2>1. UNCHANGED <<frame, plan>> /\ pane' = pane
      BY <1>18 DEF viewVars
    <2>2. MaxScroll' = MaxScroll
      BY <2>1, FrameDecides, Zenon DEF MaxScroll
    <2> QED BY <2>1, <2>2 DEF ViewInv, ViewType, DrawnInRange
  <1> QED BY <1>10, <1>11, <1>12, <1>13, <1>14, <1>15, <1>16, <1>17, <1>18 DEF ViewNext

(* Whatever the terminal's height, the panel that is open, the plan and the  *)
(* content, the panes add up to the frame, a plan panel shows the step being *)
(* worked on, and what is drawn is there; for any heights of the fixed rows  *)
(* (pane_heights, visible_plan, draw_conversation).                         *)
THEOREM ScreenStaysTrue == ViewSpec => []ScreenIsTrue
  <1>1. ViewInv => ScreenIsTrue
    BY PanesAddUp, PlanPanelIsFull DEF ViewInv, ScreenIsTrue
  <1> QED BY <1>1, ViewInitInv, ViewInvStays, PTL DEF ViewSpec

=============================================================================
