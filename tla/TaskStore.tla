------------------------------- MODULE TaskStore -------------------------------
(***************************************************************************)
(* The cross-session task store: one file per task, shared without a lock   *)
(* by the tools of several processes.  Every file access is a step; a save  *)
(* truncates the file and then writes it, and a process may be cancelled,   *)
(* fail or end between any two of its steps.                                *)
(*                                                                         *)
(* A document is abstracted to its status and its blockers (the owner is    *)
(* set exactly when a task leaves "pending").                               *)
(***************************************************************************)
EXTENDS Integers, FiniteSets

CONSTANTS
    TaskIds,    \* the ids generate_task_id may draw; ordered, as a listing is
    Workers,    \* the processes that share the store
    MaxTaskOps  \* bound on the tool calls of a history

\* A listing goes through the ids in the order of their file names.
ASSUME TaskAssumption == TaskIds \subseteq Nat

VARIABLES
    docs,       \* task id -> its file: a document, absent, or unreadable
    taskOp,     \* worker -> the tool call it is running
    everDone,   \* ids that some save recorded as completed
    raced,      \* has a save ever landed during another worker's update
    taskOps     \* tool calls begun

taskVars == <<docs, taskOp, everDone, raced, taskOps>>

Doc(status, blockers) == [kind |-> "task", status |-> status, blockedBy |-> blockers]
NewDoc == Doc("pending", {})
Absent == [NewDoc EXCEPT !.kind = "absent"]
Torn == [NewDoc EXCEPT !.kind = "torn"]     \* truncated, or not a task document
Readable(d) == d.kind = "task"
Stored == {id \in TaskIds : docs[id].kind # "absent"}

NoTaskOp == [at |-> "idle", tool |-> "none", id |-> 0, adds |-> {}, task |-> Absent,
             left |-> {}, seen |-> <<>>, dirty |-> FALSE]

\* The check made before edges are added: is the task reachable from the new
\* blockers along the edges of the listing, that is, in every set that holds
\* them and is closed under the edges?
WouldCycleDirect(edges, id, added) == id \in added
WouldCycle(edges, id, added) ==
    \A reached \in SUBSET TaskIds :
        /\ added \subseteq reached
        /\ \A i \in reached \cap DOMAIN edges : edges[i] \subseteq reached
        => id \in reached

\* A blocker that is missing from the listing counts as not completed.
DepsSatisfiedIfListed(task, byId) ==
    \A dep \in task.blockedBy : dep \in DOMAIN byId => byId[dep].status = "completed"
DepsSatisfied(task, byId) ==
    \A dep \in task.blockedBy : dep \in DOMAIN byId /\ byId[dep].status = "completed"

TaskInit ==
    /\ docs \in {[id \in TaskIds |-> IF id < n THEN NewDoc ELSE Absent] : n \in TaskIds}
    /\ taskOp = [w \in Workers |-> NoTaskOp]
    /\ everDone = {} /\ raced = FALSE /\ taskOps = 0

Goto(w, op) == taskOp' = [taskOp EXCEPT ![w] = op]
KeepStore == UNCHANGED <<docs, everDone, raced, taskOps>>
TaskFails(w) == Goto(w, NoTaskOp) /\ KeepStore

\* A file changes under whatever calls the other workers are running.
WriteDoc(w, doc, op) ==
    /\ docs' = [docs EXCEPT ![taskOp[w].id] = doc]
    /\ taskOp' = [v \in Workers |->
          IF v = w THEN op ELSE [taskOp[v] EXCEPT !.dirty = taskOp[v].at # "idle"]]

StartTool(w, op) ==
    /\ taskOp[w].at = "idle" /\ taskOps < MaxTaskOps
    /\ taskOps' = taskOps + 1
    /\ Goto(w, op)
    /\ UNCHANGED <<docs, everDone, raced>>

-----------------------------------------------------------------------------
(* The calls and their preparation.                                        *)

StartCreate(w) == \E id \in TaskIds :
    StartTool(w, [NoTaskOp EXCEPT !.at = "creating", !.tool = "create_task", !.id = id])

\* A task named as its own blocker is refused before the call runs.
StartUpdate(w) == \E id \in TaskIds : \E adds \in (SUBSET (TaskIds \ {id})) \ {{}} :
    StartTool(w, [NoTaskOp EXCEPT !.at = "loading", !.tool = "update_task", !.id = id, !.adds = adds])

StartClaim(w) == \E id \in TaskIds :
    StartTool(w, [NoTaskOp EXCEPT !.at = "loading", !.tool = "claim_task", !.id = id])

StartComplete(w) == \E id \in TaskIds :
    StartTool(w, [NoTaskOp EXCEPT !.at = "loading", !.tool = "complete_task", !.id = id])

-----------------------------------------------------------------------------
(* create_exclusive: the file exists, empty, before its document does.     *)

CreateFile(w) ==
    LET op == taskOp[w] IN
    /\ op.at = "creating"
    /\ IF docs[op.id].kind # "absent"
       THEN TaskFails(w)
       ELSE /\ WriteDoc(w, Torn, [op EXCEPT !.at = "writing", !.task = NewDoc])
            /\ UNCHANGED <<everDone, raced, taskOps>>

-----------------------------------------------------------------------------
(* The loads of a read-modify-write.                                       *)

Accepts(tool, task) ==
    IF tool = "complete_task" THEN task.status = "in_progress" ELSE task.status = "pending"

LoadTask(w) ==
    LET op == taskOp[w]
        task == docs[op.id]
    IN
    /\ op.at = "loading"
    /\ IF ~Readable(task) \/ ~Accepts(op.tool, task)
       THEN TaskFails(w)
       ELSE /\ Goto(w, CASE op.tool = "update_task" -> [op EXCEPT !.at = "deps", !.task = task, !.left = op.adds]
                         [] op.tool = "claim_task" -> [op EXCEPT !.at = "readdir", !.task = task]
                         [] OTHER -> [op EXCEPT !.at = "saving", !.task = Doc("completed", task.blockedBy)])
            /\ KeepStore

\* Every blocker an update names must load, one after the other.
LoadDep(w) ==
    LET op == taskOp[w] IN
    /\ op.at = "deps"
    /\ \E dep \in op.left :
          IF ~Readable(docs[dep])
          THEN TaskFails(w)
          ELSE /\ Goto(w, [op EXCEPT !.left = op.left \ {dep},
                                     !.at = IF op.left = {dep} THEN "readdir" ELSE "deps"])
               /\ KeepStore

\* list: the ids present now, then one file at a time; files that are gone or
\* not a document are left out.
ReadDir(w) ==
    /\ taskOp[w].at = "readdir"
    /\ Goto(w, [taskOp[w] EXCEPT !.at = "listing", !.left = Stored])
    /\ KeepStore

ListOne(w) ==
    LET op == taskOp[w]
        id == CHOOSE i \in op.left : \A j \in op.left : i <= j
    IN
    /\ op.at = "listing" /\ op.left # {}
    /\ Goto(w, [op EXCEPT !.left = op.left \ {id},
                          !.seen = IF ~Readable(docs[id]) THEN op.seen
                                   ELSE [i \in DOMAIN op.seen \cup {id} |->
                                            IF i = id THEN docs[id] ELSE op.seen[i]]])
    /\ KeepStore

\* The decision is taken on the copy loaded first and on the listing.
Decide(w) ==
    LET op == taskOp[w]
        edges == [i \in DOMAIN op.seen |-> op.seen[i].blockedBy]
    IN
    /\ op.at = "listing" /\ op.left = {}
    /\ CASE op.tool = "update_task" ->
              IF WouldCycle(edges, op.id, op.adds) THEN TaskFails(w)
              ELSE /\ Goto(w, [op EXCEPT !.at = "saving", !.task.blockedBy = @ \cup op.adds])
                   /\ KeepStore
         [] OTHER ->
              IF ~DepsSatisfied(op.task, op.seen) THEN TaskFails(w)
              ELSE /\ Goto(w, [op EXCEPT !.at = "saving", !.task.status = "in_progress"])
                   /\ KeepStore

-----------------------------------------------------------------------------
(* save: truncate, then write.                                             *)

TruncateDoc(w) ==
    /\ taskOp[w].at = "saving"
    /\ WriteDoc(w, Torn, [taskOp[w] EXCEPT !.at = "writing"])
    /\ UNCHANGED <<everDone, raced, taskOps>>

\* complete_task then lists the store again, only to report what it unlocked.
\* Two overlapping saves write over each other from the start of the file: the
\* tail of the longer document may remain.
WriteTask(w) ==
    LET op == taskOp[w] IN
    /\ op.at = "writing"
    /\ \E doc \in {op.task} \cup (IF docs[op.id] = Torn THEN {} ELSE {Torn}) :
          WriteDoc(w, doc, NoTaskOp)
    /\ everDone' = everDone \cup (IF op.task.status = "completed" THEN {op.id} ELSE {})
    /\ raced' = (raced \/ op.dirty)
    /\ UNCHANGED taskOps

\* A call is dropped at any await: cancelled, failed I/O, or the process ended.
Abandon(w) == taskOp[w].at # "idle" /\ TaskFails(w)

TaskNext ==
    \E w \in Workers :
        \/ StartCreate(w) \/ StartUpdate(w) \/ StartClaim(w) \/ StartComplete(w)
        \/ CreateFile(w) \/ LoadTask(w) \/ LoadDep(w) \/ ReadDir(w) \/ ListOne(w)
        \/ Decide(w) \/ TruncateDoc(w) \/ WriteTask(w) \/ Abandon(w)

TaskSpec == TaskInit /\ [][TaskNext]_taskVars

-----------------------------------------------------------------------------
\* Whatever overlaps, whatever is torn or lost: a task that left "pending" has
\* only blockers that some worker completed first (claim_task, deps_satisfied).
ClaimedAfterBlockers ==
    \A id \in TaskIds :
        Readable(docs[id]) /\ docs[id].status # "pending" => docs[id].blockedBy \subseteq everDone

\* As long as no save fell into another worker's call and no file is torn, the
\* store cannot wedge: if something is pending and nothing runs, some task can
\* be claimed.  The cycle check, the check that blockers exist and the refusal
\* to add blockers to started work carry it together (update_task, claim_task).
WorkNeverSticks ==
    LET listed == [i \in {i \in TaskIds : Readable(docs[i])} |-> docs[i]]
        pending == {i \in DOMAIN listed : listed[i].status = "pending"}
    IN
    /\ ~raced
    /\ \A id \in TaskIds : docs[id] # Torn
    /\ \A w \in Workers : taskOp[w].at = "idle"
    /\ pending # {}
    => \/ \E i \in pending : DepsSatisfied(listed[i], listed)
       \/ \E i \in DOMAIN listed : listed[i].status = "in_progress"

=============================================================================
