---------------------------- MODULE Stores_proofs ----------------------------
(***************************************************************************)
(* Proofs about the two stores, for any number of processes, sessions, tasks,*)
(* contents and operations, whatever is torn, fails or ends half-way.      *)
(***************************************************************************)
EXTENDS TaskStore, TursoStore, Counting

-----------------------------------------------------------------------------
(***************************************************************************)
(* TaskStore: a task is only ever claimed after the tasks it waits for were*)
(* completed, although the store has no lock and a file can be torn; and as*)
(* long as nothing raced, the store cannot wedge.                          *)
(***************************************************************************)

-----------------------------------------------------------------------------
(* Type correctness.                                                       *)

Document == [kind : {"task", "absent", "torn"},
             status : {"pending", "in_progress", "completed"}, blockedBy : SUBSET TaskIds]
Tools == {"none", "create_task", "update_task", "claim_task", "complete_task"}

\* A listing so far: the documents of some of the ids.
Listings == UNION {[ids -> Document] : ids \in SUBSET TaskIds}

\* A worker without a call has no task; every other call is for one.
Calls ==
    [at : {"idle", "creating", "loading", "deps", "readdir", "listing", "saving", "writing"},
     tool : Tools, id : TaskIds \cup {0}, adds : SUBSET TaskIds, task : Document,
     left : SUBSET TaskIds, seen : Listings, dirty : BOOLEAN]

TaskType ==
    /\ docs \in [TaskIds -> Document]
    /\ taskOp \in [Workers -> Calls]
    /\ \A w \in Workers : taskOp[w].at # "idle" => taskOp[w].id \in TaskIds
    /\ everDone \subseteq TaskIds
    /\ taskOps \in Nat

-----------------------------------------------------------------------------
(* The argument.  Nothing about the order of the calls is needed: what was  *)
(* once completed stays in everDone, and every document that is stored,     *)
(* listed or about to be saved respects it.                                *)

\* A document of task id that could be in a file when the tasks in recorded were
\* completed: a completed one is recorded, and what was claimed had only
\* recorded blockers.
Sound(id, doc, recorded) ==
    Readable(doc) =>
        /\ doc.status = "completed" => id \in recorded
        /\ doc.status # "pending" => doc.blockedBy \subseteq recorded

\* What a call holds in memory.  Before it decides it holds pending work, and
\* what it is about to write is sound once it is recorded.
CallSound(op, recorded) ==
    /\ \A i \in DOMAIN op.seen : op.seen[i].status = "completed" => i \in recorded
    /\ op.at \in {"saving", "writing"} =>
          /\ Readable(op.task)
          /\ op.task.status # "pending" => op.task.blockedBy \subseteq recorded
    /\ op.at \in {"deps", "readdir", "listing"} =>
          Readable(op.task) /\ op.task.status = "pending"
    /\ op.at = "loading" => op.tool \in {"update_task", "claim_task", "complete_task"}

\* The inductive invariant.
TaskInv ==
    /\ TaskType
    /\ \A id \in TaskIds : Sound(id, docs[id], everDone)
    /\ \A w \in Workers : CallSound(taskOp[w], everDone)

\* The records the model starts from.
LEMMA Blanks ==
    /\ NewDoc \in Document /\ Absent \in Document /\ Torn \in Document
    /\ Readable(NewDoc) /\ NewDoc.status = "pending" /\ ~Readable(Absent) /\ ~Readable(Torn)
    /\ NoTaskOp \in Calls /\ NoTaskOp.at = "idle" /\ DOMAIN NoTaskOp.seen = {}
  <1>1. /\ NewDoc \in Document /\ Absent \in Document /\ Torn \in Document
        /\ Readable(NewDoc) /\ NewDoc.status = "pending" /\ ~Readable(Absent) /\ ~Readable(Torn)
    BY DEF NewDoc, Doc, Absent, Torn, Document, Readable
  <1>2. <<>> \in [{} -> Document] /\ {} \in SUBSET TaskIds /\ DOMAIN <<>> = {}
    OBVIOUS
  <1>3. <<>> \in Listings
    BY <1>2 DEF Listings
  <1>4. NoTaskOp \in Calls /\ NoTaskOp.at = "idle" /\ NoTaskOp.seen = <<>>
    BY <1>1, <1>3 DEF NoTaskOp, Calls, Tools
  <1> QED BY <1>1, <1>2, <1>4

\* It holds before the first call.
LEMMA TaskInitHolds == TaskInit => TaskInv
  <1> SUFFICES ASSUME TaskInit PROVE TaskInv
    OBVIOUS
  <1>1. PICK n \in TaskIds : docs = [id \in TaskIds |-> IF id < n THEN NewDoc ELSE Absent]
    BY DEF TaskInit
  <1>2. docs \in [TaskIds -> Document] /\ \A id \in TaskIds : Sound(id, docs[id], everDone)
    BY <1>1, Blanks DEF Sound
  <1>3. taskOp \in [Workers -> Calls] /\ \A w \in Workers : taskOp[w] = NoTaskOp
    BY Blanks DEF TaskInit
  <1>4. \A w \in Workers : taskOp[w].at = "idle" /\ CallSound(taskOp[w], everDone)
    BY <1>3, Blanks DEF CallSound
  <1> QED BY <1>2, <1>3, <1>4 DEF TaskInit, TaskInv, TaskType

-----------------------------------------------------------------------------
(* Steps that only move a call.                                            *)

\* A worker goes on with a call that is sound.
LEMMA GotoKeeps ==
    ASSUME TaskInv, NEW w \in Workers, NEW op \in Calls, Goto(w, op), CallSound(op, everDone),
           op.at # "idle" => op.id \in TaskIds,
           UNCHANGED <<docs, everDone>>, taskOps' \in Nat
    PROVE  TaskInv'
  <1>1. taskOp \in [Workers -> Calls] /\ taskOp' = [taskOp EXCEPT ![w] = op]
    BY DEF TaskInv, TaskType, Goto
  <1>2. taskOp' \in [Workers -> Calls] /\ \A v \in Workers : taskOp'[v] \in {op, taskOp[v]}
    BY <1>1
  <1>3. TaskType'
    BY <1>2 DEF TaskInv, TaskType
  <1>4. \A id \in TaskIds : Sound(id, docs'[id], everDone')
    BY DEF TaskInv, Sound
  <1>5. ASSUME NEW v \in Workers PROVE CallSound(taskOp'[v], everDone')
    BY <1>2 DEF TaskInv, CallSound
  <1> QED BY <1>3, <1>4, <1>5 DEF TaskInv

\* A call that fails or is dropped leaves nothing behind but what it wrote.
LEMMA FailsKeeps ==
    ASSUME TaskInv, NEW w \in Workers, TaskFails(w)
    PROVE  TaskInv'
  <1>1. CallSound(NoTaskOp, everDone)
    BY Blanks DEF CallSound
  <1> QED BY <1>1, Blanks, GotoKeeps DEF TaskFails, KeepStore, TaskInv, TaskType

\* A call that begins has listed and loaded nothing.
LEMMA StartKeeps ==
    ASSUME TaskInv, NEW w \in Workers, NEW op \in Calls, StartTool(w, op),
           op.id \in TaskIds, DOMAIN op.seen = {},
           \/ op.at = "creating"
           \/ op.at = "loading" /\ op.tool \in {"update_task", "claim_task", "complete_task"}
    PROVE  TaskInv'
  <1>1. CallSound(op, everDone)
    BY DEF CallSound
  <1> QED BY <1>1, GotoKeeps DEF StartTool, TaskInv, TaskType

-----------------------------------------------------------------------------
(* Steps that write a file.                                                *)

\* A sound document, or an unreadable one, replaces the file; what was recorded
\* stays recorded.
LEMMA WriteKeeps ==
    ASSUME TaskInv, NEW w \in Workers, NEW doc \in Document, NEW op \in Calls,
           taskOp[w].at # "idle", WriteDoc(w, doc, op),
           op.at # "idle" => op.id \in TaskIds,
           everDone \subseteq everDone', everDone' \subseteq TaskIds, taskOps' = taskOps,
           Sound(taskOp[w].id, doc, everDone'), CallSound(op, everDone')
    PROVE  TaskInv'
  <1>1. /\ docs \in [TaskIds -> Document] /\ taskOp \in [Workers -> Calls]
        /\ taskOp[w].id \in TaskIds /\ taskOp[w] \in Calls
    BY DEF TaskInv, TaskType
  <1>2. /\ docs' \in [TaskIds -> Document]
        /\ \A id \in TaskIds : docs'[id] = IF id = taskOp[w].id THEN doc ELSE docs[id]
    BY <1>1 DEF WriteDoc
  <1>3. ASSUME NEW v \in Workers
        PROVE  /\ taskOp'[v] \in Calls
               /\ \/ taskOp'[v] = op
                  \/ /\ taskOp'[v].at = taskOp[v].at /\ taskOp'[v].id = taskOp[v].id
                     /\ taskOp'[v].task = taskOp[v].task /\ taskOp'[v].seen = taskOp[v].seen
                     /\ taskOp'[v].tool = taskOp[v].tool
    <2>1. CASE v = w
      BY <2>1 DEF WriteDoc
    <2>2. CASE v # w
      <3>1. /\ taskOp'[v] = [taskOp[v] EXCEPT !.dirty = taskOp[v].at # "idle"]
            /\ taskOp[v] \in Calls /\ (taskOp[v].at # "idle") \in BOOLEAN
        BY <1>1, <2>2 DEF WriteDoc
      <3> QED BY <3>1 DEF Calls
    <2> QED BY <2>1, <2>2
  <1>4. taskOp' \in [Workers -> Calls]
    BY <1>3 DEF WriteDoc
  <1>5. TaskType'
    BY <1>2, <1>3, <1>4 DEF TaskInv, TaskType
  <1>6. \A id \in TaskIds : Sound(id, docs'[id], everDone')
    BY <1>1, <1>2 DEF TaskInv, Sound
  <1>7. ASSUME NEW v \in Workers PROVE CallSound(taskOp'[v], everDone')
    <2>1. CallSound(taskOp[v], everDone)
      BY DEF TaskInv
    <2>2. CASE taskOp'[v] = op
      BY <2>2
    <2>3. CASE taskOp'[v].seen = taskOp[v].seen /\ taskOp'[v].task = taskOp[v].task
               /\ taskOp'[v].at = taskOp[v].at /\ taskOp'[v].tool = taskOp[v].tool
      BY <2>1, <2>3 DEF CallSound
    <2> QED BY <1>3, <2>2, <2>3
  <1> QED BY <1>5, <1>6, <1>7 DEF TaskInv

-----------------------------------------------------------------------------
(* The steps of a call.                                                    *)

\* A created file is empty: torn until it is written.
LEMMA CreateKeeps ==
    ASSUME TaskInv, NEW w \in Workers, CreateFile(w)
    PROVE  TaskInv'
  <1> DEFINE op == taskOp[w]
             next == [op EXCEPT !.at = "writing", !.task = NewDoc]
  <1>1. op \in Calls /\ op.id \in TaskIds /\ op.at = "creating" /\ CallSound(op, everDone)
    BY DEF TaskInv, TaskType, CreateFile
  <1>2. CASE TaskFails(w)
    BY <1>2, FailsKeeps
  <1>3. CASE WriteDoc(w, Torn, next) /\ UNCHANGED <<everDone, raced, taskOps>>
    <2>1. next \in Calls /\ next.id = op.id /\ next.at = "writing" /\ next.task = NewDoc
          /\ next.seen = op.seen
      BY <1>1, Blanks DEF Calls
    <2>2. CallSound(next, everDone') /\ Sound(op.id, Torn, everDone')
      BY <1>1, <1>3, <2>1, Blanks DEF CallSound, Sound
    <2> HIDE DEF next
    <2>3. everDone' \subseteq TaskIds /\ everDone \subseteq everDone'
      BY <1>3 DEF TaskInv, TaskType
    <2> QED BY <1>1, <1>3, <2>1, <2>2, <2>3, Blanks, WriteKeeps
  <1> QED BY <1>2, <1>3 DEF CreateFile

\* Loading puts a stored document, which is sound, before the call.
LEMMA LoadKeeps ==
    ASSUME TaskInv, NEW w \in Workers, LoadTask(w)
    PROVE  TaskInv'
  <1> DEFINE op == taskOp[w]
             task == docs[op.id]
             deps == [op EXCEPT !.at = "deps", !.task = task, !.left = op.adds]
             listing == [op EXCEPT !.at = "readdir", !.task = task]
             done == [op EXCEPT !.at = "saving", !.task = Doc("completed", task.blockedBy)]
  <1>1. /\ op \in Calls /\ op.id \in TaskIds /\ op.at = "loading" /\ CallSound(op, everDone)
        /\ task \in Document /\ Sound(op.id, task, everDone)
    BY DEF TaskInv, TaskType, LoadTask
  <1>2. Doc("completed", task.blockedBy) \in Document /\ Readable(Doc("completed", task.blockedBy))
        /\ Doc("completed", task.blockedBy).blockedBy = task.blockedBy
    BY <1>1 DEF Doc, Document, Readable
  <1>3. deps \in Calls /\ listing \in Calls /\ done \in Calls
    BY <1>1, <1>2 DEF Calls
  <1>4. /\ deps.at = "deps" /\ deps.task = task /\ deps.seen = op.seen /\ deps.id = op.id
        /\ listing.at = "readdir" /\ listing.task = task /\ listing.seen = op.seen
        /\ listing.id = op.id
        /\ done.at = "saving" /\ done.task = Doc("completed", task.blockedBy)
        /\ done.seen = op.seen /\ done.id = op.id
    BY <1>1 DEF Calls
  <1> HIDE DEF deps, listing, done
  <1>5. CASE ~Readable(task) \/ ~Accepts(op.tool, task)
    BY <1>5, FailsKeeps DEF LoadTask
  <1>6. CASE Readable(task) /\ Accepts(op.tool, task)
    <2>1. KeepStore /\ taskOps' \in Nat
      BY <1>6 DEF LoadTask, KeepStore, TaskInv, TaskType
    <2>2. CASE op.tool = "update_task"
      <3>1. CallSound(deps, everDone) /\ Goto(w, deps)
        BY <1>1, <1>4, <1>6, <2>2 DEF CallSound, Accepts, LoadTask, deps
      <3> QED BY <1>1, <1>3, <1>4, <2>1, <3>1, GotoKeeps DEF KeepStore
    <2>3. CASE op.tool = "claim_task"
      <3>1. CallSound(listing, everDone) /\ Goto(w, listing)
        BY <1>1, <1>4, <1>6, <2>3 DEF CallSound, Accepts, LoadTask, listing
      <3> QED BY <1>1, <1>3, <1>4, <2>1, <3>1, GotoKeeps DEF KeepStore
    <2>4. CASE op.tool = "complete_task"
      <3>1. Goto(w, done)
        BY <1>6, <2>4 DEF LoadTask, done
      <3>2. CallSound(done, everDone)
        BY <1>1, <1>2, <1>4, <1>6, <2>4 DEF CallSound, Accepts, Sound
      <3> QED BY <1>1, <1>3, <1>4, <2>1, <3>1, <3>2, GotoKeeps DEF KeepStore
    <2>5. op.tool \in {"update_task", "claim_task", "complete_task"}
      BY <1>1 DEF CallSound
    <2> QED BY <2>2, <2>3, <2>4, <2>5
  <1> QED BY <1>5, <1>6

\* Checking a dependency reads and changes nothing.
LEMMA DepKeeps ==
    ASSUME TaskInv, NEW w \in Workers, LoadDep(w)
    PROVE  TaskInv'
  <1>1. taskOp[w] \in Calls /\ taskOp[w].id \in TaskIds /\ CallSound(taskOp[w], everDone)
        /\ taskOp[w].at = "deps" /\ taskOps \in Nat
    BY DEF TaskInv, TaskType, LoadDep
  <1>2. PICK dep \in taskOp[w].left :
          IF ~Readable(docs[dep])
          THEN TaskFails(w)
          ELSE /\ Goto(w, [taskOp[w] EXCEPT !.left = taskOp[w].left \ {dep},
                                     !.at = IF taskOp[w].left = {dep} THEN "readdir" ELSE "deps"])
               /\ KeepStore
    BY DEF LoadDep
  <1> DEFINE next == [taskOp[w] EXCEPT !.left = taskOp[w].left \ {dep},
                                       !.at = IF taskOp[w].left = {dep} THEN "readdir" ELSE "deps"]
  <1>3. /\ next \in Calls /\ next.at \in {"readdir", "deps"} /\ next.task = taskOp[w].task
        /\ next.seen = taskOp[w].seen /\ next.id = taskOp[w].id
    BY <1>1 DEF Calls
  <1>4. TaskFails(w) \/ (Goto(w, next) /\ KeepStore)
    BY <1>2
  <1> HIDE DEF next
  <1>5. CallSound(next, everDone)
    BY <1>1, <1>3 DEF CallSound
  <1> QED BY <1>1, <1>3, <1>4, <1>5, FailsKeeps, GotoKeeps DEF KeepStore

\* A listing begins with the names alone.
LEMMA ReadDirKeeps ==
    ASSUME TaskInv, NEW w \in Workers, ReadDir(w)
    PROVE  TaskInv'
  <1> DEFINE next == [taskOp[w] EXCEPT !.at = "listing", !.left = Stored]
  <1>1. taskOp[w] \in Calls /\ taskOp[w].id \in TaskIds /\ CallSound(taskOp[w], everDone)
        /\ taskOp[w].at = "readdir" /\ taskOps \in Nat
    BY DEF TaskInv, TaskType, ReadDir
  <1>2. /\ next \in Calls /\ next.at = "listing" /\ next.task = taskOp[w].task
        /\ next.seen = taskOp[w].seen /\ next.id = taskOp[w].id
    BY <1>1 DEF Calls, Stored
  <1>3. Goto(w, next) /\ KeepStore
    BY DEF ReadDir
  <1> HIDE DEF next
  <1>4. CallSound(next, everDone)
    BY <1>1, <1>2 DEF CallSound
  <1> QED BY <1>1, <1>2, <1>3, <1>4, GotoKeeps DEF KeepStore

\* A document that is listed as completed was recorded before it was listed.
LEMMA ListKeeps ==
    ASSUME TaskInv, NEW w \in Workers, ListOne(w)
    PROVE  TaskInv'
  <1> DEFINE op == taskOp[w]
             id == CHOOSE i \in op.left : \A j \in op.left : i <= j
             more == [i \in DOMAIN op.seen \cup {id} |-> IF i = id THEN docs[id] ELSE op.seen[i]]
             seen == IF ~Readable(docs[id]) THEN op.seen ELSE more
             next == [op EXCEPT !.left = op.left \ {id}, !.seen = seen]
  <1>1. /\ op \in Calls /\ op.id \in TaskIds /\ CallSound(op, everDone) /\ op.at = "listing"
        /\ op.seen \in Listings /\ taskOps \in Nat
    BY DEF TaskInv, TaskType, ListOne, Calls
  <1>2. Goto(w, next) /\ KeepStore
    BY DEF ListOne
  <1>3. PICK file : file = id
    OBVIOUS
  <1> HIDE DEF id
  <1>4. CASE ~Readable(docs[file])
    <2>1. seen = op.seen
      BY <1>3, <1>4
    <2> HIDE DEF seen
    <2>s. /\ next = [op EXCEPT !.left = op.left \ {file}, !.seen = op.seen]
          /\ op.left \ {file} \in SUBSET TaskIds
      BY <1>1, <1>3, <2>1 DEF Calls
    <2> HIDE DEF next
    <2>2. /\ next \in Calls /\ next.at = "listing" /\ next.task = op.task
          /\ next.seen = op.seen /\ next.id = op.id
      BY <1>1, <2>s DEF Calls
    <2>3. CallSound(next, everDone)
      BY <1>1, <2>2 DEF CallSound
    <2> QED BY <1>1, <1>2, <2>2, <2>3, GotoKeeps DEF KeepStore
  <1>5. CASE Readable(docs[file])
    <2>1. seen = more
      BY <1>3, <1>5
    <2>2. PICK ids \in SUBSET TaskIds : op.seen \in [ids -> Document]
      BY <1>1 DEF Listings
    <2>3. CASE file \in TaskIds
      <3>1. docs[file] \in Document /\ Sound(file, docs[file], everDone)
        BY <2>3 DEF TaskInv, TaskType
      <3>2. more \in [ids \cup {file} -> Document] /\ DOMAIN more = ids \cup {file}
        BY <1>3, <2>2, <3>1
      <3>3. more \in Listings
        BY <2>3, <3>2 DEF Listings
      <3>4. \A i \in DOMAIN more : more[i].status = "completed" => i \in everDone
        BY <1>1, <1>3, <1>5, <2>2, <3>1 DEF CallSound, Sound
      <3> HIDE DEF more
      <3>s. /\ next = [op EXCEPT !.left = op.left \ {file}, !.seen = more]
            /\ op.left \ {file} \in SUBSET TaskIds
        BY <1>1, <1>3, <2>1 DEF Calls
      <3> HIDE DEF next
      <3>5. /\ next \in Calls /\ next.at = "listing" /\ next.task = op.task
            /\ next.seen = more /\ next.id = op.id
        BY <1>1, <3>3, <3>s DEF Calls
      <3>6. CallSound(next, everDone)
        BY <1>1, <3>4, <3>5 DEF CallSound
      <3> QED BY <1>1, <1>2, <3>5, <3>6, GotoKeeps DEF KeepStore
    <2>4. file \in TaskIds
      <3>1. op.left # {} /\ op.left \in SUBSET Nat /\ op.left \subseteq TaskIds
        BY <1>1, TaskAssumption DEF ListOne, Calls
      <3>2. \E i \in op.left : \A j \in op.left : i <= j
        BY <3>1, LeastElement
      <3>3. id \in op.left
        BY <3>2 DEF id
      <3> QED BY <1>3, <3>1, <3>3
    <2> QED BY <2>3, <2>4
  <1> QED BY <1>4, <1>5

\* A claim is decided on a listing of completed blockers; an update's task is
\* still pending.
LEMMA DecideKeeps ==
    ASSUME TaskInv, NEW w \in Workers, Decide(w)
    PROVE  TaskInv'
  <1> DEFINE op == taskOp[w]
             widened == [op EXCEPT !.at = "saving", !.task.blockedBy = @ \cup op.adds]
             claimed == [op EXCEPT !.at = "saving", !.task.status = "in_progress"]
  <1>1. /\ op \in Calls /\ op.id \in TaskIds /\ CallSound(op, everDone) /\ op.at = "listing"
        /\ op.task \in Document /\ op.adds \in SUBSET TaskIds /\ taskOps \in Nat
    BY DEF TaskInv, TaskType, Decide, Calls
  <1>2. Readable(op.task) /\ op.task.status = "pending"
    BY <1>1 DEF CallSound
  <1>3. \/ TaskFails(w)
        \/ op.tool = "update_task" /\ Goto(w, widened) /\ KeepStore
        \/ DepsSatisfied(op.task, op.seen) /\ Goto(w, claimed) /\ KeepStore
    BY DEF Decide
  <1>4. /\ [op.task EXCEPT !.blockedBy = @ \cup op.adds] \in Document
        /\ [op.task EXCEPT !.blockedBy = @ \cup op.adds].kind = op.task.kind
        /\ [op.task EXCEPT !.blockedBy = @ \cup op.adds].status = op.task.status
        /\ [op.task EXCEPT !.status = "in_progress"] \in Document
        /\ [op.task EXCEPT !.status = "in_progress"].kind = op.task.kind
        /\ [op.task EXCEPT !.status = "in_progress"].blockedBy = op.task.blockedBy
    BY <1>1 DEF Document
  <1>5. CASE op.tool = "update_task" /\ Goto(w, widened) /\ KeepStore
    <2>1. /\ widened = [op EXCEPT !.at = "saving",
                                  !.task = [op.task EXCEPT !.blockedBy = @ \cup op.adds]]
      BY <1>1 DEF Calls
    <2> HIDE DEF widened
    <2>2. /\ widened \in Calls /\ widened.at = "saving" /\ widened.id = op.id
          /\ widened.seen = op.seen
          /\ widened.task = [op.task EXCEPT !.blockedBy = @ \cup op.adds]
      BY <1>1, <1>4, <2>1 DEF Calls
    <2>3. CallSound(widened, everDone)
      BY <1>1, <1>2, <1>4, <2>2 DEF CallSound, Readable
    <2> QED BY <1>1, <1>5, <2>2, <2>3, GotoKeeps DEF KeepStore
  <1>6. CASE DepsSatisfied(op.task, op.seen) /\ Goto(w, claimed) /\ KeepStore
    <2>1. /\ claimed = [op EXCEPT !.at = "saving", !.task = [op.task EXCEPT !.status = "in_progress"]]
      BY <1>1 DEF Calls
    <2> HIDE DEF claimed
    <2>2. /\ claimed \in Calls /\ claimed.at = "saving" /\ claimed.id = op.id
          /\ claimed.seen = op.seen
          /\ claimed.task = [op.task EXCEPT !.status = "in_progress"]
      BY <1>1, <1>4, <2>1 DEF Calls
    <2>3. op.task.blockedBy \subseteq everDone
      BY <1>1, <1>6 DEF CallSound, DepsSatisfied
    <2>4. CallSound(claimed, everDone)
      BY <1>1, <1>2, <1>4, <2>2, <2>3 DEF CallSound, Readable
    <2> QED BY <1>1, <1>6, <2>2, <2>4, GotoKeeps DEF KeepStore
  <1> QED BY <1>3, <1>5, <1>6, FailsKeeps

\* A truncated document blocks nobody and is claimed by nobody.
LEMMA TruncateKeeps ==
    ASSUME TaskInv, NEW w \in Workers, TruncateDoc(w)
    PROVE  TaskInv'
  <1> DEFINE next == [taskOp[w] EXCEPT !.at = "writing"]
  <1>1. /\ taskOp[w] \in Calls /\ taskOp[w].id \in TaskIds /\ CallSound(taskOp[w], everDone)
        /\ taskOp[w].at = "saving"
    BY DEF TaskInv, TaskType, TruncateDoc
  <1>2. /\ next \in Calls /\ next.at = "writing" /\ next.task = taskOp[w].task
        /\ next.seen = taskOp[w].seen /\ next.id = taskOp[w].id
    BY <1>1 DEF Calls
  <1>3. WriteDoc(w, Torn, next) /\ UNCHANGED <<everDone, raced, taskOps>>
    BY DEF TruncateDoc
  <1> HIDE DEF next
  <1>4. CallSound(next, everDone') /\ Sound(taskOp[w].id, Torn, everDone')
    BY <1>1, <1>2, <1>3, Blanks DEF CallSound, Sound
  <1>5. everDone' \subseteq TaskIds /\ everDone \subseteq everDone'
    BY <1>3 DEF TaskInv, TaskType
  <1> QED BY <1>1, <1>2, <1>3, <1>4, <1>5, Blanks, WriteKeeps

\* A completed document reaches the file and the record in one step.
LEMMA WriteTaskKeeps ==
    ASSUME TaskInv, NEW w \in Workers, WriteTask(w)
    PROVE  TaskInv'
  <1> DEFINE op == taskOp[w]
  <1>1. /\ op \in Calls /\ op.id \in TaskIds /\ CallSound(op, everDone) /\ op.at = "writing"
        /\ op.task \in Document /\ taskOps' = taskOps /\ everDone \subseteq TaskIds
    BY DEF TaskInv, TaskType, WriteTask, Calls
  <1>2. everDone' = everDone \cup (IF op.task.status = "completed" THEN {op.id} ELSE {})
    BY DEF WriteTask
  <1>3. PICK doc \in {op.task} \cup (IF docs[op.id] = Torn THEN {} ELSE {Torn}) :
           WriteDoc(w, doc, NoTaskOp)
    BY DEF WriteTask
  <1>4. doc \in {op.task, Torn} /\ doc \in Document
    BY <1>1, <1>3, Blanks
  <1>5. everDone \subseteq everDone' /\ everDone' \subseteq TaskIds
    BY <1>1, <1>2
  <1>6. Sound(op.id, doc, everDone')
    BY <1>1, <1>2, <1>4, <1>5, Blanks DEF CallSound, Sound
  <1>7. CallSound(NoTaskOp, everDone')
    BY Blanks DEF CallSound
  <1> QED BY <1>1, <1>3, <1>4, <1>5, <1>6, <1>7, Blanks, WriteKeeps

-----------------------------------------------------------------------------
(* Every step, and what follows.                                           *)

\* A call that starts has seen nothing yet.
LEMMA StartsKeep ==
    ASSUME TaskInv, NEW w \in Workers,
           StartCreate(w) \/ StartUpdate(w) \/ StartClaim(w) \/ StartComplete(w)
    PROVE  TaskInv'
  <1>0. NoTaskOp \in Calls /\ DOMAIN NoTaskOp.seen = {}
    BY Blanks
  <1>1. CASE StartCreate(w)
    <2>1. PICK id \in TaskIds :
            StartTool(w, [NoTaskOp EXCEPT !.at = "creating", !.tool = "create_task", !.id = id])
      BY <1>1 DEF StartCreate
    <2> DEFINE op == [NoTaskOp EXCEPT !.at = "creating", !.tool = "create_task", !.id = id]
    <2>2. op \in Calls /\ op.at = "creating" /\ op.id = id /\ op.seen = NoTaskOp.seen
      BY <1>0 DEF Calls, Tools
    <2> QED BY <1>0, <2>1, <2>2, StartKeeps
  <1>2. CASE StartUpdate(w)
    <2>1. PICK id \in TaskIds : \E adds \in (SUBSET (TaskIds \ {id})) \ {{}} :
            StartTool(w, [NoTaskOp EXCEPT !.at = "loading", !.tool = "update_task", !.id = id, !.adds = adds])
      BY <1>2 DEF StartUpdate
    <2>2. PICK adds \in (SUBSET (TaskIds \ {id})) \ {{}} :
            StartTool(w, [NoTaskOp EXCEPT !.at = "loading", !.tool = "update_task", !.id = id, !.adds = adds])
      BY <2>1
    <2> DEFINE op == [NoTaskOp EXCEPT !.at = "loading", !.tool = "update_task", !.id = id, !.adds = adds]
    <2>3. /\ op \in Calls /\ op.at = "loading" /\ op.id = id /\ op.seen = NoTaskOp.seen
          /\ op.tool = "update_task"
      BY <1>0 DEF Calls, Tools
    <2> QED BY <1>0, <2>2, <2>3, StartKeeps
  <1>3. CASE StartClaim(w)
    <2>1. PICK id \in TaskIds :
            StartTool(w, [NoTaskOp EXCEPT !.at = "loading", !.tool = "claim_task", !.id = id])
      BY <1>3 DEF StartClaim
    <2> DEFINE op == [NoTaskOp EXCEPT !.at = "loading", !.tool = "claim_task", !.id = id]
    <2>2. /\ op \in Calls /\ op.at = "loading" /\ op.id = id /\ op.seen = NoTaskOp.seen
          /\ op.tool = "claim_task"
      BY <1>0 DEF Calls, Tools
    <2> QED BY <1>0, <2>1, <2>2, StartKeeps
  <1>4. CASE StartComplete(w)
    <2>1. PICK id \in TaskIds :
            StartTool(w, [NoTaskOp EXCEPT !.at = "loading", !.tool = "complete_task", !.id = id])
      BY <1>4 DEF StartComplete
    <2> DEFINE op == [NoTaskOp EXCEPT !.at = "loading", !.tool = "complete_task", !.id = id]
    <2>2. /\ op \in Calls /\ op.at = "loading" /\ op.id = id /\ op.seen = NoTaskOp.seen
          /\ op.tool = "complete_task"
      BY <1>0 DEF Calls, Tools
    <2> QED BY <1>0, <2>1, <2>2, StartKeeps
  <1> QED BY <1>1, <1>2, <1>3, <1>4

\* Every step keeps it.
LEMMA TaskStepKeeps ==
    ASSUME TaskInv, [TaskNext]_taskVars
    PROVE  TaskInv'
  <1>1. ASSUME NEW w \in Workers, StartCreate(w) \/ StartUpdate(w) \/ StartClaim(w) \/ StartComplete(w)
        PROVE  TaskInv'
    BY <1>1, StartsKeep
  <1>2. ASSUME NEW w \in Workers, CreateFile(w) PROVE TaskInv'
    BY <1>2, CreateKeeps
  <1>3. ASSUME NEW w \in Workers, LoadTask(w) PROVE TaskInv'
    BY <1>3, LoadKeeps
  <1>4. ASSUME NEW w \in Workers, LoadDep(w) PROVE TaskInv'
    BY <1>4, DepKeeps
  <1>5. ASSUME NEW w \in Workers, ReadDir(w) PROVE TaskInv'
    BY <1>5, ReadDirKeeps
  <1>6. ASSUME NEW w \in Workers, ListOne(w) PROVE TaskInv'
    BY <1>6, ListKeeps
  <1>7. ASSUME NEW w \in Workers, Decide(w) PROVE TaskInv'
    BY <1>7, DecideKeeps
  <1>8. ASSUME NEW w \in Workers, TruncateDoc(w) PROVE TaskInv'
    BY <1>8, TruncateKeeps
  <1>9. ASSUME NEW w \in Workers, WriteTask(w) PROVE TaskInv'
    BY <1>9, WriteTaskKeeps
  <1>10. ASSUME NEW w \in Workers, Abandon(w) PROVE TaskInv'
    BY <1>10, FailsKeeps DEF Abandon
  <1>11. CASE UNCHANGED taskVars
    BY <1>11 DEF taskVars, TaskInv, TaskType
  <1> QED BY <1>1, <1>2, <1>3, <1>4, <1>5, <1>6, <1>7, <1>8, <1>9, <1>10, <1>11 DEF TaskNext

\* Every document and every call respects what was completed.
THEOREM TasksStaySound == TaskSpec => []TaskInv
  <1>1. TaskInv /\ [TaskNext]_taskVars => TaskInv'
    BY TaskStepKeeps
  <1> QED BY <1>1, TaskInitHolds, PTL DEF TaskSpec

\* A task that left "pending" has only blockers that were completed first, for
\* any tasks, processes and calls, whatever overlaps or is torn (claim_task,
\* deps_satisfied).
THEOREM ClaimsFollowBlockers == TaskSpec => []ClaimedAfterBlockers
  <1>1. TaskInv => ClaimedAfterBlockers
    BY DEF TaskInv, Sound, ClaimedAfterBlockers
  <1> QED BY <1>1, TasksStaySound, PTL

-----------------------------------------------------------------------------
(* The store cannot wedge.  Blockers are files that stay; and as long as no *)
(* save fell into another worker's call, waiting goes round in no circle -  *)
(* now, and with what a worker that nobody disturbed is about to write.     *)

Waiting(d) == {i \in TaskIds : Readable(d[i]) /\ d[i].status = "pending"}

\* Of any tasks that wait, one waits for none of them.
Acyclic(d) ==
    \A S \in SUBSET Waiting(d) : S # {} => \E i \in S : d[i].blockedBy \cap S = {}

BlockersStored == \A i \in TaskIds : Readable(docs[i]) => docs[i].blockedBy \subseteq Stored

\* A file that is there holds a task or is torn.
FilesWhole == \A i \in TaskIds : docs[i] = Torn \/ Readable(docs[i]) \/ docs[i].kind = "absent"

\* A call that nobody disturbed decides on what is in the files.
Undisturbed(op) ==
    /\ op.at \in {"deps", "readdir", "listing"} => docs[op.id] = op.task
    /\ op.at = "listing" =>
          \A i \in TaskIds : Readable(docs[i]) =>
              i \in op.left \/ (i \in DOMAIN op.seen /\ op.seen[i] = docs[i])
    /\ ~raced /\ op.at \in {"saving", "writing"} => Acyclic([docs EXCEPT ![op.id] = op.task])

\* The blockers a call holds were stored when it looked, and files stay.
Prepared(op) ==
    /\ op.at \in {"deps", "readdir", "listing", "saving", "writing"} => op.task.blockedBy \subseteq Stored
    /\ op.at = "deps" => op.tool = "update_task" /\ op.adds \ op.left \subseteq Stored
    /\ op.tool = "update_task" /\ op.at \in {"readdir", "listing"} => op.adds \subseteq Stored
    /\ ~op.dirty => Undisturbed(op)

\* The inductive invariant, beside TaskInv.
WaitInv ==
    /\ FilesWhole /\ BlockersStored
    /\ ~raced => Acyclic(docs)
    /\ \A w \in Workers : Prepared(taskOp[w])

\* Fewer tasks that wait, for the same tasks, go round in no circle either.
LEMMA FewerWait ==
    ASSUME NEW d, NEW e, Acyclic(d), Waiting(e) \subseteq Waiting(d),
           \A i \in Waiting(e) : e[i].blockedBy = d[i].blockedBy
    PROVE  Acyclic(e)
  <1> SUFFICES ASSUME NEW S \in SUBSET Waiting(e), S # {}
               PROVE  \E i \in S : e[i].blockedBy \cap S = {}
    BY DEF Acyclic
  <1>1. PICK i \in S : d[i].blockedBy \cap S = {}
    BY DEF Acyclic
  <1> QED BY <1>1

\* would_cycle: a task that none of its new blockers leads to may wait for them.
LEMMA NoCycleAdded ==
    ASSUME NEW d \in [TaskIds -> Document], NEW id \in TaskIds, NEW adds \in SUBSET TaskIds,
           NEW edges, Acyclic(d), ~WouldCycle(edges, id, adds),
           \A i \in TaskIds : Readable(d[i]) => i \in DOMAIN edges /\ edges[i] = d[i].blockedBy
    PROVE  Acyclic([d EXCEPT ![id] = [d[id] EXCEPT !.blockedBy = @ \cup adds]])
  <1> DEFINE e == [d EXCEPT ![id] = [d[id] EXCEPT !.blockedBy = @ \cup adds]]
  <1>1. /\ \A i \in TaskIds : i # id => e[i] = d[i]
        /\ e[id].kind = d[id].kind /\ e[id].status = d[id].status
        /\ e[id].blockedBy = d[id].blockedBy \cup adds
    BY DEF Document
  <1>2. Waiting(e) = Waiting(d)
    BY <1>1 DEF Waiting, Readable
  <1>3. PICK reached \in SUBSET TaskIds :
          /\ adds \subseteq reached /\ id \notin reached
          /\ \A i \in reached \cap DOMAIN edges : edges[i] \subseteq reached
    BY DEF WouldCycle
  <1> HIDE DEF e
  <1>4. SUFFICES ASSUME NEW S \in SUBSET Waiting(e), S # {}, \A i \in S : e[i].blockedBy \cap S # {}
                 PROVE  FALSE
    BY DEF Acyclic, e
  <1>5. CASE S \cap reached # {}
    <2>1. PICK i \in S \cap reached : d[i].blockedBy \cap (S \cap reached) = {}
      <3>1. S \cap reached \in SUBSET Waiting(d)
        BY <1>2
      <3> QED BY <1>5, <3>1 DEF Acyclic
    <2>2. i \in TaskIds /\ i # id /\ Readable(d[i])
      BY <1>2, <1>3 DEF Waiting
    <2>3. PICK j \in S : j \in d[i].blockedBy
      BY <1>1, <1>4, <2>2
    <2>4. j \in reached
      BY <1>3, <2>2, <2>3
    <2> QED BY <2>1, <2>3, <2>4
  <1>6. CASE S \cap reached = {}
    <2>1. PICK i \in S : d[i].blockedBy \cap S = {}
      BY <1>2, <1>4 DEF Acyclic
    <2>2. PICK j \in S : j \in e[i].blockedBy
      BY <1>4
    <2>3. i \in TaskIds
      BY DEF Waiting
    <2>4. i = id /\ j \in adds
      BY <1>1, <2>1, <2>2, <2>3
    <2> QED BY <1>3, <1>6, <2>4
  <1> QED BY <1>5, <1>6

\* It holds before the first call.
LEMMA WaitInit == TaskInit => WaitInv
  <1> SUFFICES ASSUME TaskInit PROVE WaitInv
    OBVIOUS
  <1>1. PICK n \in TaskIds : docs = [id \in TaskIds |-> IF id < n THEN NewDoc ELSE Absent]
    BY DEF TaskInit
  <1>2. \A id \in TaskIds : Readable(docs[id]) => docs[id].blockedBy = {}
    BY <1>1, Blanks DEF NewDoc, Doc
  <1>3. FilesWhole /\ BlockersStored
    BY <1>1, <1>2, Blanks DEF FilesWhole, BlockersStored, Absent, NewDoc, Doc
  <1>4. Acyclic(docs)
    BY <1>2 DEF Acyclic, Waiting
  <1>5. \A w \in Workers : taskOp[w] = NoTaskOp
    BY DEF TaskInit
  <1>6. Prepared(NoTaskOp)
    BY DEF Prepared, Undisturbed, NoTaskOp
  <1> QED BY <1>3, <1>4, <1>5, <1>6 DEF WaitInv

\* A call that goes on, with the files as they are.
LEMMA GotoWaits ==
    ASSUME TaskInv, WaitInv, NEW w \in Workers, NEW op, Goto(w, op), Prepared(op),
           UNCHANGED <<docs, raced>>
    PROVE  WaitInv'
  <1>1. \A v \in Workers : taskOp'[v] \in {op, taskOp[v]}
    BY DEF TaskInv, TaskType, Goto
  <1>2. \A x : Prepared(x) => (FilesWhole /\ BlockersStored /\ (~raced => Acyclic(docs)) /\ Prepared(x))'
    BY DEF WaitInv, Prepared, Undisturbed, FilesWhole, BlockersStored, Stored, Acyclic, Waiting
  <1>3. \A v \in Workers : Prepared(taskOp[v])
    BY DEF WaitInv
  <1>4. ASSUME NEW v \in Workers PROVE Prepared(taskOp[v])'
    <2>1. PICK x : x = taskOp'[v] /\ Prepared(x)
      BY <1>1, <1>3
    <2>2. Prepared(x)'
      BY <1>2, <2>1
    <2> QED BY <2>1, <2>2 DEF Prepared, Undisturbed
  <1> QED BY <1>2, <1>4 DEF WaitInv

\* A call that fails waits for nothing.
LEMMA FailsWait ==
    ASSUME TaskInv, WaitInv, NEW w \in Workers, TaskFails(w)
    PROVE  WaitInv'
  <1>1. Prepared(NoTaskOp)
    BY DEF Prepared, Undisturbed, NoTaskOp
  <1> QED BY <1>1, GotoWaits DEF TaskFails, KeepStore

\* A write disturbs every other call in progress; files stay.
LEMMA SaveWaits ==
    ASSUME TaskInv, WaitInv, NEW w \in Workers, NEW doc \in Document, NEW op \in Calls,
           taskOp[w].at # "idle", WriteDoc(w, doc, op), raced => raced',
           doc = Torn \/ Readable(doc), Readable(doc) => doc.blockedBy \subseteq Stored,
           ~raced' => Acyclic([docs EXCEPT ![taskOp[w].id] = doc]),
           Stored \subseteq Stored' => Prepared(op)'
    PROVE  WaitInv'
  <1>1. /\ docs \in [TaskIds -> Document] /\ taskOp[w].id \in TaskIds
        /\ docs' = [docs EXCEPT ![taskOp[w].id] = doc]
    BY DEF TaskInv, TaskType, WriteDoc
  <1>2. \A id \in TaskIds : docs'[id] = IF id = taskOp[w].id THEN doc ELSE docs[id]
    BY <1>1
  <1>3. Stored \subseteq Stored'
    BY <1>2 DEF Stored, Readable, Torn, NewDoc, Doc
  <1>4. (FilesWhole /\ BlockersStored)'
    BY <1>2, <1>3, Blanks DEF WaitInv, FilesWhole, BlockersStored
  <1>5. ~raced' => Acyclic(docs)'
    BY <1>1 DEF Acyclic, Waiting
  <1>6. ASSUME NEW v \in Workers PROVE Prepared(taskOp[v])'
    <2>1. CASE v = w
      <3>1. taskOp'[v] = op
        BY <2>1 DEF WriteDoc
      <3> QED BY <1>3, <3>1 DEF Prepared, Undisturbed
    <2>2. CASE v # w
      <3>1. taskOp'[v] = [taskOp[v] EXCEPT !.dirty = taskOp[v].at # "idle"]
        BY <2>2 DEF WriteDoc
      <3>2. taskOp[v] \in Calls /\ Prepared(taskOp[v])
        BY DEF TaskInv, TaskType, WaitInv
      <3>3. /\ taskOp'[v].at = taskOp[v].at /\ taskOp'[v].tool = taskOp[v].tool
            /\ taskOp'[v].task = taskOp[v].task /\ taskOp'[v].adds = taskOp[v].adds
            /\ taskOp'[v].left = taskOp[v].left /\ (taskOp'[v].dirty <=> taskOp[v].at # "idle")
        BY <3>1, <3>2 DEF Calls
      <3>4. taskOp'[v].at = "idle" => Undisturbed(taskOp[v])'
        BY DEF Undisturbed
      <3>5. ~taskOp'[v].dirty => Undisturbed(taskOp[v])'
        BY <3>3, <3>4
      <3> QED BY <1>3, <3>2, <3>3, <3>5 DEF Prepared
    <2> QED BY <2>1, <2>2
  <1> QED BY <1>4, <1>5, <1>6 DEF WaitInv

\* A write begins by truncating the file.
LEMMA TruncationWaits ==
    ASSUME TaskInv, WaitInv, NEW w \in Workers, NEW op \in Calls,
           taskOp[w].at # "idle", WriteDoc(w, Torn, op), UNCHANGED raced,
           op.at = "writing", op.id = taskOp[w].id, op.task.blockedBy \subseteq Stored,
           ~raced /\ ~op.dirty => Acyclic([docs EXCEPT ![op.id] = op.task])
    PROVE  WaitInv'
  <1>1. docs \in [TaskIds -> Document] /\ op.id \in TaskIds /\ docs' = [docs EXCEPT ![op.id] = Torn]
    BY DEF TaskInv, TaskType, WriteDoc
  <1> DEFINE e == [docs EXCEPT ![op.id] = Torn]
  <1>2. \A i \in TaskIds : e[i] = IF i = op.id THEN Torn ELSE docs[i]
    BY <1>1
  <1> HIDE DEF e
  <1>3. Waiting(e) \subseteq Waiting(docs) /\ \A i \in Waiting(e) : e[i].blockedBy = docs[i].blockedBy
    BY <1>2, Blanks DEF Waiting
  <1>4. ~raced => Acyclic([docs EXCEPT ![taskOp[w].id] = Torn])
    <2>1. ~raced => Acyclic(e)
      BY <1>3, FewerWait DEF WaitInv
    <2> QED BY <2>1 DEF e
  <1>5. [docs' EXCEPT ![op.id] = op.task] = [docs EXCEPT ![op.id] = op.task]
    BY <1>1
  <1>6. ~raced' /\ ~op.dirty => Acyclic([docs EXCEPT ![op.id] = op.task])'
    BY <1>5 DEF Acyclic, Waiting
  <1>7. Stored \subseteq Stored' => Prepared(op)'
    BY <1>6 DEF Prepared, Undisturbed
  <1> QED BY <1>4, <1>7, Blanks, SaveWaits

-----------------------------------------------------------------------------
(* The steps of a call, again.                                             *)

\* A call that starts holds nothing.
LEMMA StartWaits ==
    ASSUME TaskInv, WaitInv, NEW w \in Workers,
           StartCreate(w) \/ StartUpdate(w) \/ StartClaim(w) \/ StartComplete(w)
    PROVE  WaitInv'
  <1>1. PICK op : Goto(w, op) /\ op.at \in {"creating", "loading"} /\ UNCHANGED <<docs, raced>>
    BY Blanks DEF StartCreate, StartUpdate, StartClaim, StartComplete, StartTool, NoTaskOp
  <1>2. Prepared(op)
    BY <1>1 DEF Prepared, Undisturbed
  <1> QED BY <1>1, <1>2, GotoWaits

\* A new task waits for nothing.
LEMMA CreateWaits ==
    ASSUME TaskInv, WaitInv, NEW w \in Workers, CreateFile(w)
    PROVE  WaitInv'
  <1> DEFINE op == taskOp[w]
             next == [op EXCEPT !.at = "writing", !.task = NewDoc]
  <1>1. /\ op \in Calls /\ op.id \in TaskIds /\ op.at = "creating"
        /\ docs \in [TaskIds -> Document]
    BY DEF TaskInv, TaskType, CreateFile
  <1>2. CASE TaskFails(w)
    BY <1>2, FailsWait
  <1>3. CASE WriteDoc(w, Torn, next) /\ UNCHANGED raced
    <2>1. next \in Calls /\ next.id = op.id /\ next.at = "writing" /\ next.task = NewDoc
      BY <1>1, Blanks DEF Calls
    <2> HIDE DEF next
    <2>3. ~raced => Acyclic([docs EXCEPT ![op.id] = NewDoc])
      <3> DEFINE e == [docs EXCEPT ![op.id] = NewDoc]
      <3>1. \A i \in TaskIds : e[i] = IF i = op.id THEN NewDoc ELSE docs[i]
        BY <1>1
      <3>2. NewDoc.blockedBy = {}
        BY DEF NewDoc, Doc
      <3> HIDE DEF e
      <3>3. SUFFICES ASSUME ~raced, NEW S \in SUBSET Waiting(e), S # {}
                     PROVE  \E i \in S : e[i].blockedBy \cap S = {}
        BY DEF Acyclic, e
      <3>4. CASE op.id \in S
        BY <1>1, <3>1, <3>2, <3>4
      <3>5. CASE op.id \notin S
        <4>1. S \in SUBSET Waiting(docs)
          BY <3>1, <3>5 DEF Waiting
        <4>2. PICK i \in S : docs[i].blockedBy \cap S = {}
          BY <3>3, <4>1 DEF WaitInv, Acyclic
        <4> QED BY <3>1, <3>5, <4>1, <4>2 DEF Waiting
      <3> QED BY <3>4, <3>5
    <2>4. next.task.blockedBy \subseteq Stored
      BY <2>1 DEF NewDoc, Doc
    <2> QED BY <1>1, <1>3, <2>1, <2>3, <2>4, TruncationWaits
  <1> QED BY <1>2, <1>3 DEF CreateFile

\* What was loaded is in the file until somebody writes it.
LEMMA LoadWaits ==
    ASSUME TaskInv, WaitInv, NEW w \in Workers, LoadTask(w)
    PROVE  WaitInv'
  <1> DEFINE op == taskOp[w]
             task == docs[op.id]
             deps == [op EXCEPT !.at = "deps", !.task = task, !.left = op.adds]
             listing == [op EXCEPT !.at = "readdir", !.task = task]
             done == [op EXCEPT !.at = "saving", !.task = Doc("completed", task.blockedBy)]
  <1>1. /\ op \in Calls /\ op.id \in TaskIds /\ op.at = "loading" /\ CallSound(op, everDone)
        /\ task \in Document /\ docs \in [TaskIds -> Document]
    BY DEF TaskInv, TaskType, LoadTask
  <1>2. CASE ~Readable(task) \/ ~Accepts(op.tool, task)
    BY <1>2, FailsWait DEF LoadTask
  <1>3. CASE Readable(task) /\ Accepts(op.tool, task)
    <2>0. task.blockedBy \subseteq Stored
      BY <1>1, <1>3 DEF WaitInv, BlockersStored
    <2>1. UNCHANGED <<docs, raced>>
      BY <1>3 DEF LoadTask, KeepStore
    <2>2. CASE op.tool = "update_task"
      <3>1. Goto(w, deps)
        BY <1>3, <2>2 DEF LoadTask
      <3>2. /\ deps.at = "deps" /\ deps.task = task /\ deps.left = op.adds /\ deps.adds = op.adds
            /\ deps.tool = "update_task" /\ deps.id = op.id
        BY <1>1, <2>2 DEF Calls
      <3> HIDE DEF deps
      <3>3. Prepared(deps)
        BY <2>0, <3>2 DEF Prepared, Undisturbed
      <3> QED BY <2>1, <3>1, <3>3, GotoWaits
    <2>3. CASE op.tool = "claim_task"
      <3>1. Goto(w, listing)
        BY <1>3, <2>3 DEF LoadTask
      <3>2. /\ listing.at = "readdir" /\ listing.task = task /\ listing.tool = "claim_task"
            /\ listing.id = op.id
        BY <1>1, <2>3 DEF Calls
      <3> HIDE DEF listing
      <3>3. Prepared(listing)
        BY <2>0, <3>2 DEF Prepared, Undisturbed
      <3> QED BY <2>1, <3>1, <3>3, GotoWaits
    <2>4. CASE op.tool = "complete_task"
      <3>1. Goto(w, done)
        BY <1>3, <2>4 DEF LoadTask
      <3>2. done.at = "saving" /\ done.task = Doc("completed", task.blockedBy) /\ done.id = op.id
        BY <1>1 DEF Calls
      <3> HIDE DEF done
      <3> DEFINE e == [docs EXCEPT ![op.id] = done.task]
      <3>3. \A i \in TaskIds : e[i] = IF i = op.id THEN done.task ELSE docs[i]
        BY <1>1
      <3>4. done.task.status = "completed" /\ done.task.blockedBy = task.blockedBy
        BY <3>2 DEF Doc
      <3> HIDE DEF e
      <3>5. Waiting(e) \subseteq Waiting(docs) /\ \A i \in Waiting(e) : e[i].blockedBy = docs[i].blockedBy
        BY <3>3, <3>4 DEF Waiting
      <3>6. ~raced => Acyclic(e)
        BY <3>5, FewerWait DEF WaitInv
      <3>7. Prepared(done)
        BY <2>0, <3>2, <3>4, <3>6 DEF Prepared, Undisturbed, e
      <3> QED BY <2>1, <3>1, <3>7, GotoWaits
    <2>5. op.tool \in {"update_task", "claim_task", "complete_task"}
      BY <1>1 DEF CallSound
    <2> QED BY <2>2, <2>3, <2>4, <2>5
  <1> QED BY <1>2, <1>3

\* A blocker that loads is stored.
LEMMA DepWaits ==
    ASSUME TaskInv, WaitInv, NEW w \in Workers, LoadDep(w)
    PROVE  WaitInv'
  <1> DEFINE op == taskOp[w]
  <1>1. /\ op \in Calls /\ op.at = "deps" /\ Prepared(op) /\ docs \in [TaskIds -> Document]
        /\ op.left \in SUBSET TaskIds
    BY DEF TaskInv, TaskType, WaitInv, LoadDep, Calls
  <1>2. PICK dep \in op.left :
          IF ~Readable(docs[dep])
          THEN TaskFails(w)
          ELSE /\ Goto(w, [op EXCEPT !.left = op.left \ {dep},
                                     !.at = IF op.left = {dep} THEN "readdir" ELSE "deps"])
               /\ KeepStore
    BY DEF LoadDep
  <1> DEFINE next == [op EXCEPT !.left = op.left \ {dep},
                                !.at = IF op.left = {dep} THEN "readdir" ELSE "deps"]
  <1>3. CASE ~Readable(docs[dep])
    BY <1>2, <1>3, FailsWait
  <1>4. CASE Readable(docs[dep])
    <2>1. Goto(w, next) /\ UNCHANGED <<docs, raced>>
      BY <1>2, <1>4 DEF KeepStore
    <2>2. /\ next.left = op.left \ {dep} /\ next.adds = op.adds /\ next.task = op.task
          /\ next.tool = op.tool /\ next.id = op.id /\ next.dirty = op.dirty
          /\ next.at = IF op.left = {dep} THEN "readdir" ELSE "deps"
      BY <1>1 DEF Calls
    <2>3. dep \in Stored
      BY <1>1, <1>2, <1>4 DEF Stored, Readable
    <2> HIDE DEF next
    <2>4. /\ next.adds \ next.left \subseteq Stored
          /\ next.at = "readdir" => next.left = {}
      BY <1>1, <2>2, <2>3 DEF Prepared
    <2>5. Prepared(next)
      BY <1>1, <2>2, <2>4 DEF Prepared, Undisturbed
    <2> QED BY <2>1, <2>5, GotoWaits
  <1> QED BY <1>3, <1>4

\* Every document that can be read is yet to be listed.
LEMMA ReadDirWaits ==
    ASSUME TaskInv, WaitInv, NEW w \in Workers, ReadDir(w)
    PROVE  WaitInv'
  <1> DEFINE op == taskOp[w]
             next == [op EXCEPT !.at = "listing", !.left = Stored]
  <1>1. op \in Calls /\ op.at = "readdir" /\ Prepared(op) /\ docs \in [TaskIds -> Document]
    BY DEF TaskInv, TaskType, WaitInv, ReadDir
  <1>2. Goto(w, next) /\ UNCHANGED <<docs, raced>>
    BY DEF ReadDir, KeepStore
  <1>3. /\ next.at = "listing" /\ next.left = Stored /\ next.task = op.task /\ next.tool = op.tool
        /\ next.id = op.id /\ next.dirty = op.dirty /\ next.adds = op.adds
    BY <1>1 DEF Calls
  <1> HIDE DEF next
  <1>4. \A i \in TaskIds : Readable(docs[i]) => i \in next.left
    BY <1>3 DEF Stored, Readable
  <1>5. Prepared(next)
    BY <1>1, <1>3, <1>4 DEF Prepared, Undisturbed
  <1> QED BY <1>2, <1>5, GotoWaits

\* A document that was listed is listed as it is.
LEMMA ListWaits ==
    ASSUME TaskInv, WaitInv, NEW w \in Workers, ListOne(w)
    PROVE  WaitInv'
  <1> DEFINE op == taskOp[w]
             id == CHOOSE i \in op.left : \A j \in op.left : i <= j
             more == [i \in DOMAIN op.seen \cup {id} |-> IF i = id THEN docs[id] ELSE op.seen[i]]
             seen == IF ~Readable(docs[id]) THEN op.seen ELSE more
             next == [op EXCEPT !.left = op.left \ {id}, !.seen = seen]
  <1>1. op \in Calls /\ op.at = "listing" /\ Prepared(op)
    BY DEF TaskInv, TaskType, WaitInv, ListOne
  <1>2. Goto(w, next) /\ UNCHANGED <<docs, raced>>
    BY DEF ListOne, KeepStore
  <1>3. /\ next.at = "listing" /\ next.left = op.left \ {id} /\ next.seen = seen
        /\ next.task = op.task /\ next.tool = op.tool
        /\ next.id = op.id /\ next.dirty = op.dirty /\ next.adds = op.adds
    BY <1>1 DEF Calls
  <1>4. ASSUME ~op.dirty, NEW i \in TaskIds, Readable(docs[i])
        PROVE  i \in next.left \/ (i \in DOMAIN next.seen /\ next.seen[i] = docs[i])
    <2>1. i \in op.left \/ (i \in DOMAIN op.seen /\ op.seen[i] = docs[i])
      BY <1>1, <1>4 DEF Prepared, Undisturbed
    <2>2. PICK file : file = id
      OBVIOUS
    <2> HIDE DEF id
    <2>3. Readable(docs[file]) =>
            /\ DOMAIN seen = DOMAIN op.seen \cup {file}
            /\ \A j \in DOMAIN seen : seen[j] = IF j = file THEN docs[file] ELSE op.seen[j]
      BY <2>2
    <2>4. ~Readable(docs[file]) => seen = op.seen
      BY <2>2
    <2> HIDE DEF seen, next
    <2> QED BY <1>3, <1>4, <2>1, <2>2, <2>3, <2>4
  <1> HIDE DEF next
  <1>5. Prepared(next)
    BY <1>1, <1>3, <1>4 DEF Prepared, Undisturbed
  <1> QED BY <1>2, <1>5, GotoWaits

\* A claimed task waits no more; a widened one waits for nothing that leads back
\* to it, by a listing that shows every document.
LEMMA DecideWaits ==
    ASSUME TaskInv, WaitInv, NEW w \in Workers, Decide(w)
    PROVE  WaitInv'
  <1> DEFINE op == taskOp[w]
             edges == [i \in DOMAIN op.seen |-> op.seen[i].blockedBy]
             wide == [op.task EXCEPT !.blockedBy = @ \cup op.adds]
             active == [op.task EXCEPT !.status = "in_progress"]
             widened == [op EXCEPT !.at = "saving", !.task.blockedBy = @ \cup op.adds]
             claimed == [op EXCEPT !.at = "saving", !.task.status = "in_progress"]
  <1>1. /\ op \in Calls /\ op.id \in TaskIds /\ op.at = "listing" /\ op.left = {} /\ Prepared(op)
        /\ op.task \in Document /\ op.adds \in SUBSET TaskIds /\ docs \in [TaskIds -> Document]
    BY DEF TaskInv, TaskType, WaitInv, Decide, Calls
  <1>2. \/ TaskFails(w)
        \/ op.tool = "update_task" /\ ~WouldCycle(edges, op.id, op.adds) /\ Goto(w, widened) /\ KeepStore
        \/ Goto(w, claimed) /\ KeepStore
    BY DEF Decide
  <1>3. /\ widened = [op EXCEPT !.at = "saving", !.task = wide]
        /\ claimed = [op EXCEPT !.at = "saving", !.task = active]
    BY <1>1 DEF Calls
  <1>4. /\ widened.at = "saving" /\ widened.id = op.id /\ widened.dirty = op.dirty /\ widened.task = wide
        /\ claimed.at = "saving" /\ claimed.id = op.id /\ claimed.dirty = op.dirty /\ claimed.task = active
    BY <1>1, <1>3 DEF Calls
  <1>5. /\ wide.blockedBy = op.task.blockedBy \cup op.adds
        /\ active.blockedBy = op.task.blockedBy /\ active.status = "in_progress"
    BY <1>1 DEF Document
  <1> HIDE DEF widened, claimed
  <1>6. CASE op.tool = "update_task" /\ ~WouldCycle(edges, op.id, op.adds) /\ Goto(w, widened) /\ KeepStore
    <2>1. wide.blockedBy \subseteq Stored
      BY <1>1, <1>5, <1>6 DEF Prepared
    <2>2. ASSUME ~raced, ~op.dirty PROVE Acyclic([docs EXCEPT ![op.id] = wide])
      <3>1. Acyclic(docs) /\ docs[op.id] = op.task
        BY <1>1, <2>2 DEF WaitInv, Prepared, Undisturbed
      <3>2. \A i \in TaskIds : Readable(docs[i]) => i \in DOMAIN op.seen /\ op.seen[i] = docs[i]
        BY <1>1, <2>2 DEF Prepared, Undisturbed
      <3>3. \A i \in TaskIds : Readable(docs[i]) => i \in DOMAIN edges /\ edges[i] = docs[i].blockedBy
        BY <3>2
      <3> HIDE DEF edges
      <3>4. Acyclic([docs EXCEPT ![op.id] = [docs[op.id] EXCEPT !.blockedBy = @ \cup op.adds]])
        <4>1. PICK id \in TaskIds, adds \in SUBSET TaskIds : id = op.id /\ adds = op.adds
          BY <1>1
        <4>2. ~WouldCycle(edges, id, adds)
          BY <1>6, <4>1
        <4>3. Acyclic([docs EXCEPT ![id] = [docs[id] EXCEPT !.blockedBy = @ \cup adds]])
          BY <1>1, <3>1, <3>3, <4>2, NoCycleAdded
        <4> QED BY <4>1, <4>3
      <3> QED BY <3>1, <3>4
    <2> HIDE DEF wide
    <2>3. Prepared(widened)
      BY <1>4, <2>1, <2>2 DEF Prepared, Undisturbed
    <2> QED BY <1>6, <2>3, GotoWaits DEF KeepStore
  <1>7. CASE Goto(w, claimed) /\ KeepStore
    <2> DEFINE e == [docs EXCEPT ![op.id] = active]
    <2>1. \A i \in TaskIds : e[i] = IF i = op.id THEN active ELSE docs[i]
      BY <1>1
    <2> HIDE DEF e, active
    <2>2. Waiting(e) \subseteq Waiting(docs) /\ \A i \in Waiting(e) : e[i].blockedBy = docs[i].blockedBy
      BY <1>5, <2>1 DEF Waiting
    <2>3. ~raced => Acyclic(e)
      BY <2>2, FewerWait DEF WaitInv
    <2>4. active.blockedBy \subseteq Stored
      BY <1>1, <1>5 DEF Prepared
    <2>5. Prepared(claimed)
      BY <1>4, <2>3, <2>4 DEF Prepared, Undisturbed, e
    <2> QED BY <1>7, <2>5, GotoWaits DEF KeepStore
  <1> QED BY <1>2, <1>6, <1>7, FailsWait

\* What was decided is what is being written.
LEMMA TruncateWaits ==
    ASSUME TaskInv, WaitInv, NEW w \in Workers, TruncateDoc(w)
    PROVE  WaitInv'
  <1> DEFINE next == [taskOp[w] EXCEPT !.at = "writing"]
  <1>1. /\ taskOp[w] \in Calls /\ taskOp[w].at = "saving" /\ Prepared(taskOp[w])
    BY DEF TaskInv, TaskType, WaitInv, TruncateDoc
  <1>2. /\ next \in Calls /\ next.at = "writing" /\ next.id = taskOp[w].id
        /\ next.task = taskOp[w].task /\ next.dirty = taskOp[w].dirty
    BY <1>1 DEF Calls
  <1>3. WriteDoc(w, Torn, next) /\ UNCHANGED raced
    BY DEF TruncateDoc
  <1> HIDE DEF next
  <1>4. /\ next.task.blockedBy \subseteq Stored
        /\ ~raced /\ ~next.dirty => Acyclic([docs EXCEPT ![next.id] = next.task])
    BY <1>1, <1>2 DEF Prepared, Undisturbed
  <1> QED BY <1>1, <1>2, <1>3, <1>4, TruncationWaits

\* An undisturbed call writes what it decided on; another one is a race.
LEMMA WriteWaits ==
    ASSUME TaskInv, WaitInv, NEW w \in Workers, WriteTask(w)
    PROVE  WaitInv'
  <1> DEFINE op == taskOp[w]
  <1>1. /\ op \in Calls /\ op.id \in TaskIds /\ CallSound(op, everDone) /\ op.at = "writing"
        /\ op.task \in Document /\ Prepared(op) /\ docs \in [TaskIds -> Document]
        /\ op.dirty \in BOOLEAN
    BY DEF TaskInv, TaskType, WaitInv, WriteTask, Calls
  <1>2. PICK doc \in {op.task} \cup (IF docs[op.id] = Torn THEN {} ELSE {Torn}) :
           WriteDoc(w, doc, NoTaskOp)
    BY DEF WriteTask
  <1>3. doc \in {op.task, Torn} /\ doc \in Document
    BY <1>1, <1>2, Blanks
  <1>4. (raced => raced') /\ (op.dirty => raced')
    BY DEF WriteTask
  <1>5. (doc = Torn \/ Readable(doc)) /\ (Readable(doc) => doc.blockedBy \subseteq Stored)
    BY <1>1, <1>3, Blanks DEF CallSound, Prepared
  <1>6. ASSUME ~raced' PROVE Acyclic([docs EXCEPT ![op.id] = doc])
    <2>1. CASE doc = op.task
      BY <1>1, <1>4, <1>6, <2>1 DEF Prepared, Undisturbed
    <2>2. CASE doc = Torn
      <3> DEFINE e == [docs EXCEPT ![op.id] = Torn]
      <3>1. \A i \in TaskIds : e[i] = IF i = op.id THEN Torn ELSE docs[i]
        BY <1>1
      <3> HIDE DEF e
      <3>2. Waiting(e) \subseteq Waiting(docs) /\ \A i \in Waiting(e) : e[i].blockedBy = docs[i].blockedBy
        BY <3>1, Blanks DEF Waiting
      <3>3. Acyclic(e)
        BY <1>4, <1>6, <3>2, FewerWait DEF WaitInv
      <3> QED BY <2>2, <3>3 DEF e
    <2> QED BY <1>3, <2>1, <2>2
  <1>7. Prepared(NoTaskOp)'
    BY DEF Prepared, Undisturbed, NoTaskOp
  <1> QED BY <1>1, <1>2, <1>3, <1>4, <1>5, <1>6, <1>7, Blanks, SaveWaits

\* Every step keeps it.
LEMMA WaitStepKeeps ==
    ASSUME TaskInv, WaitInv, [TaskNext]_taskVars
    PROVE  WaitInv'
  <1>1. ASSUME NEW w \in Workers, StartCreate(w) \/ StartUpdate(w) \/ StartClaim(w) \/ StartComplete(w)
        PROVE  WaitInv'
    BY <1>1, StartWaits
  <1>2. ASSUME NEW w \in Workers, CreateFile(w) PROVE WaitInv'
    BY <1>2, CreateWaits
  <1>3. ASSUME NEW w \in Workers, LoadTask(w) PROVE WaitInv'
    BY <1>3, LoadWaits
  <1>4. ASSUME NEW w \in Workers, LoadDep(w) PROVE WaitInv'
    BY <1>4, DepWaits
  <1>5. ASSUME NEW w \in Workers, ReadDir(w) PROVE WaitInv'
    BY <1>5, ReadDirWaits
  <1>6. ASSUME NEW w \in Workers, ListOne(w) PROVE WaitInv'
    BY <1>6, ListWaits
  <1>7. ASSUME NEW w \in Workers, Decide(w) PROVE WaitInv'
    BY <1>7, DecideWaits
  <1>8. ASSUME NEW w \in Workers, TruncateDoc(w) PROVE WaitInv'
    BY <1>8, TruncateWaits
  <1>9. ASSUME NEW w \in Workers, WriteTask(w) PROVE WaitInv'
    BY <1>9, WriteWaits
  <1>10. ASSUME NEW w \in Workers, Abandon(w) PROVE WaitInv'
    BY <1>10, FailsWait DEF Abandon
  <1>11. CASE UNCHANGED taskVars
    BY <1>11 DEF taskVars, WaitInv, Prepared, Undisturbed, FilesWhole, BlockersStored, Stored, Acyclic, Waiting
  <1> QED BY <1>1, <1>2, <1>3, <1>4, <1>5, <1>6, <1>7, <1>8, <1>9, <1>10, <1>11 DEF TaskNext

\* Waiting goes round in no circle, as long as nothing raced.
THEOREM WaitingIsAcyclic == TaskSpec => []WaitInv
  <1>1. TaskInv /\ WaitInv /\ [TaskNext]_taskVars => WaitInv'
    BY WaitStepKeeps
  <1> QED BY <1>1, WaitInit, TasksStaySound, PTL DEF TaskSpec

\* WorkNeverSticks: for any tasks, processes and calls, when no save fell into
\* another worker's call, no file is torn and nobody works, a pending task can be
\* claimed or one is in progress (would_cycle, update_task, claim_task).
THEOREM WorkNeverWedges == TaskSpec => []WorkNeverSticks
  <1>1. ASSUME TaskInv, WaitInv PROVE WorkNeverSticks
    <2> DEFINE listed == [i \in {i \in TaskIds : Readable(docs[i])} |-> docs[i]]
               pending == {i \in DOMAIN listed : listed[i].status = "pending"}
    <2>1. SUFFICES ASSUME ~raced, \A id \in TaskIds : docs[id] # Torn, pending # {},
                          \A i \in DOMAIN listed : listed[i].status # "in_progress"
                   PROVE  \E i \in pending : DepsSatisfied(listed[i], listed)
      BY DEF WorkNeverSticks
    <2>2. /\ DOMAIN listed = {i \in TaskIds : Readable(docs[i])}
          /\ \A i \in DOMAIN listed : listed[i] = docs[i]
      OBVIOUS
    <2> HIDE DEF listed
    <2>3. pending = Waiting(docs)
      BY <2>2 DEF Waiting
    <2>4. PICK i \in pending : docs[i].blockedBy \cap pending = {}
      BY <1>1, <2>1, <2>3 DEF WaitInv, Acyclic
    <2>5. ASSUME NEW dep \in docs[i].blockedBy PROVE dep \in DOMAIN listed /\ listed[dep].status = "completed"
      <3>1. dep \in Stored
        BY <1>1, <2>2, <2>4 DEF WaitInv, BlockersStored
      <3>2. dep \in TaskIds /\ Readable(docs[dep])
        BY <1>1, <2>1, <3>1 DEF WaitInv, FilesWhole, Stored
      <3>3. dep \in DOMAIN listed /\ listed[dep] = docs[dep]
        BY <2>2, <3>2
      <3>4. docs[dep].status # "pending"
        BY <2>3, <2>4, <2>5, <3>2 DEF Waiting
      <3>5. docs[dep] \in Document
        BY <1>1, <3>2 DEF TaskInv, TaskType
      <3> QED BY <2>1, <3>3, <3>4, <3>5 DEF Document
    <2> QED BY <2>2, <2>4, <2>5 DEF DepsSatisfied
  <1> QED BY <1>1, TasksStaySound, WaitingIsAcyclic, PTL

-----------------------------------------------------------------------------
(***************************************************************************)
(* TursoStore: whatever statement fails and whenever the process ends, the *)
(* tables agree with the journal and with every receipt, and a journal only*)
(* grows by whole operations.                                              *)
(***************************************************************************)

-----------------------------------------------------------------------------
(* Type correctness.                                                       *)

Entry ==
    [kind : {"message"}]
    \cup [kind : {"artifact"}, hash : Hashes, preview : Previews]
    \cup [kind : {"compaction"}, head : Nat]
    \cup [kind : {"checkpoint"}, covers : Nat]
Tables ==
    [journal : [Ids -> Seq(Entry)],
     artifacts : SUBSET [session : Ids, hash : Hashes, preview : Previews],
     checkpoints : SUBSET [session : Ids, seq : Nat, covers : Nat]]
Operation == {op \in Appends \cup Artifacts \cup Checkpoints \cup Compactions : Acceptable(op)}
Receipts == [session : Ids, seq : Nat, proves : Entry]

\* What the steps use of an operation.
LEMMA OperationFields ==
    ASSUME NEW op \in Operation
    PROVE  /\ op.session \in Ids
           /\ op.name \in {"append", "artifact", "checkpoint", "compaction"}
           /\ op.name = "artifact" => op.expected \in Nat /\ op.hash \in Hashes /\ op.preview \in Previews
           /\ op.name \in {"checkpoint", "compaction"} => op.covers \in Nat
           /\ op.name = "compaction" => op.expected \in Nat /\ op.covers = op.expected
  <1>1. CASE op \in Appends
    BY <1>1 DEF Appends
  <1>2. CASE op \in Artifacts
    BY <1>2 DEF Artifacts
  <1>3. CASE op \in Checkpoints
    BY <1>3 DEF Checkpoints
  <1>4. CASE op \in Compactions
    BY <1>4 DEF Compactions, Operation, Acceptable, ValidCommit
  <1> QED BY <1>1, <1>2, <1>3, <1>4 DEF Operation

-----------------------------------------------------------------------------
(* TablesAgree, of any tables: an entry has its row, and a row its entry.   *)

EntryAgrees(d, s, i) ==
    /\ d.journal[s][i].kind = "checkpoint" =>
          /\ [session |-> s, seq |-> i, covers |-> d.journal[s][i].covers] \in d.checkpoints
          /\ d.journal[s][i].covers < i
    /\ d.journal[s][i].kind = "artifact" =>
          /\ [session |-> s, hash |-> d.journal[s][i].hash, preview |-> d.journal[s][i].preview] \in d.artifacts
          /\ FactsOf(d, s, d.journal[s][i].hash) = {i}
    /\ d.journal[s][i].kind = "compaction" =>
          /\ d.journal[s][i].head = i - 1 /\ i < Len(d.journal[s])
          /\ d.journal[s][i + 1] = [kind |-> "checkpoint", covers |-> d.journal[s][i].head]

Agree(d) ==
    /\ \A s \in Ids : \A i \in 1..Len(d.journal[s]) : EntryAgrees(d, s, i)
    /\ \A c \in d.checkpoints :
          /\ c.seq \in 1..Len(d.journal[c.session])
          /\ d.journal[c.session][c.seq] = [kind |-> "checkpoint", covers |-> c.covers]
    /\ \A r \in d.artifacts : FactsOf(d, r.session, r.hash) # {}

\* What a receipt says of the tables.
Stands(r, d) ==
    r.seq \in 1..Len(d.journal[r.session]) /\ d.journal[r.session][r.seq] = r.proves

\* A journal that only had entries added.
Grows(d, old) ==
    \A s \in Ids :
        /\ Len(old.journal[s]) <= Len(d.journal[s])
        /\ \A i \in 1..Len(old.journal[s]) : d.journal[s][i] = old.journal[s][i]

\* An entry at the end of one journal.
LEMMA InsertAdds ==
    ASSUME NEW d \in Tables, NEW s \in Ids, NEW e \in Entry
    PROVE  /\ Insert(d, s, e) \in Tables
           /\ Insert(d, s, e).artifacts = d.artifacts /\ Insert(d, s, e).checkpoints = d.checkpoints
           /\ Len(d.journal[s]) \in Nat
           /\ Len(Insert(d, s, e).journal[s]) = Len(d.journal[s]) + 1
           /\ Insert(d, s, e).journal[s] = Append(d.journal[s], e)
           /\ \A i \in 1..Len(d.journal[s]) : Insert(d, s, e).journal[s][i] = d.journal[s][i]
           /\ Insert(d, s, e).journal[s][Len(d.journal[s]) + 1] = e
           /\ \A t \in Ids \ {s} : Insert(d, s, e).journal[t] = d.journal[t]
  <1>1. PICK seq \in Seq(Entry) : seq = d.journal[s]
    BY DEF Tables
  <1>2. /\ Append(seq, e) \in Seq(Entry) /\ Len(Append(seq, e)) = Len(seq) + 1 /\ Len(seq) \in Nat
        /\ \A i \in 1..Len(seq) : Append(seq, e)[i] = seq[i]
        /\ Append(seq, e)[Len(seq) + 1] = e
    OBVIOUS
  <1>3. Insert(d, s, e) = [d EXCEPT !.journal = [d.journal EXCEPT ![s] = Append(seq, e)]]
    BY <1>1 DEF Insert, Tables
  <1>4. [d.journal EXCEPT ![s] = Append(seq, e)] \in [Ids -> Seq(Entry)]
    BY <1>2 DEF Tables
  <1>5. /\ Insert(d, s, e) \in Tables
        /\ Insert(d, s, e).artifacts = d.artifacts /\ Insert(d, s, e).checkpoints = d.checkpoints
        /\ Insert(d, s, e).journal = [d.journal EXCEPT ![s] = Append(seq, e)]
    BY <1>3, <1>4 DEF Tables
  <1>6. /\ Insert(d, s, e).journal[s] = Append(seq, e)
        /\ \A t \in Ids \ {s} : Insert(d, s, e).journal[t] = d.journal[t]
    BY <1>5 DEF Tables
  <1> QED BY <1>1, <1>2, <1>5, <1>6

\* What holds of the tables with one more entry.
Adds(made, d, s, e) ==
    /\ made \in Tables
    /\ made.artifacts = d.artifacts /\ made.checkpoints = d.checkpoints
    /\ Len(made.journal[s]) = Len(d.journal[s]) + 1
    /\ \A i \in 1..Len(d.journal[s]) : made.journal[s][i] = d.journal[s][i]
    /\ made.journal[s][Len(d.journal[s]) + 1] = e
    /\ \A t \in Ids \ {s} : made.journal[t] = d.journal[t]

\* It holds of an insertion.
LEMMA Inserted ==
    ASSUME NEW d \in Tables, NEW s \in Ids, NEW e \in Entry
    PROVE  Adds(Insert(d, s, e), d, s, e)
  <1>1. PICK made : made = Insert(d, s, e)
    OBVIOUS
  <1>2. made \in Tables /\ made.artifacts = d.artifacts /\ made.checkpoints = d.checkpoints
    BY <1>1, InsertAdds
  <1>3. Len(made.journal[s]) = Len(d.journal[s]) + 1
        /\ made.journal[s][Len(d.journal[s]) + 1] = e
    BY <1>1, InsertAdds
  <1>4. /\ \A i \in 1..Len(d.journal[s]) : made.journal[s][i] = d.journal[s][i]
        /\ \A t \in Ids \ {s} : made.journal[t] = d.journal[t]
    BY <1>1, InsertAdds
  <1> QED BY <1>1, <1>2, <1>3, <1>4 DEF Adds

\* The facts of a content after an entry that is not one of them.
LEMMA FactsKept ==
    ASSUME NEW d \in Tables, NEW s \in Ids, NEW e \in Entry, NEW t \in Ids, NEW h,
           ~(t = s /\ e.kind = "artifact" /\ e.hash = h)
    PROVE  FactsOf(Insert(d, s, e), t, h) = FactsOf(d, t, h)
  <1>1. CASE t # s
    BY <1>1, InsertAdds DEF FactsOf
  <1>2. CASE t = s
    <2>1. PICK n \in Nat : n = Len(d.journal[s])
      BY InsertAdds
    <2>2. /\ 1..Len(Insert(d, s, e).journal[s]) = 1..n \cup {n + 1}
          /\ Insert(d, s, e).journal[s][n + 1] = e
          /\ \A i \in 1..n : Insert(d, s, e).journal[s][i] = d.journal[s][i]
      <3>1. PICK made : made = Insert(d, s, e)
        OBVIOUS
      <3>2. /\ Len(made.journal[s]) = n + 1 /\ made.journal[s][n + 1] = e
            /\ \A i \in 1..n : made.journal[s][i] = d.journal[s][i]
        BY <2>1, <3>1, InsertAdds
      <3>3. 1..(n + 1) = 1..n \cup {n + 1}
        OBVIOUS
      <3> QED BY <3>1, <3>2, <3>3
    <2>3. \A i : i \in FactsOf(Insert(d, s, e), s, h) <=> i \in FactsOf(d, s, h)
      BY <1>2, <2>1, <2>2 DEF FactsOf
    <2> QED BY <1>2, <2>3
  <1> QED BY <1>1, <1>2

\* The facts of a content after one more of them.
LEMMA FactsAdded ==
    ASSUME NEW d \in Tables, NEW s \in Ids, NEW e \in Entry, e.kind = "artifact"
    PROVE  FactsOf(Insert(d, s, e), s, e.hash) = FactsOf(d, s, e.hash) \cup {Len(d.journal[s]) + 1}
  <1>1. PICK n \in Nat : n = Len(d.journal[s])
    BY InsertAdds
  <1>2. /\ 1..Len(Insert(d, s, e).journal[s]) = 1..n \cup {n + 1}
        /\ Insert(d, s, e).journal[s][n + 1] = e
        /\ \A i \in 1..n : Insert(d, s, e).journal[s][i] = d.journal[s][i]
    BY <1>1, InsertAdds
  <1>3. \A i : i \in FactsOf(Insert(d, s, e), s, e.hash) <=> i \in FactsOf(d, s, e.hash) \cup {n + 1}
    BY <1>1, <1>2 DEF FactsOf
  <1> QED BY <1>1, <1>3

\* Facts are of the journal alone.
LEMMA FactsOfJournal ==
    ASSUME NEW d, NEW e, d.journal = e.journal, NEW s, NEW h
    PROVE  FactsOf(d, s, h) = FactsOf(e, s, h)
  BY DEF FactsOf

-----------------------------------------------------------------------------
(* What an operation makes of tables that agree.                           *)

MessageEntry == [kind |-> "message"]
FactEntry(op) == [kind |-> "artifact", hash |-> op.hash, preview |-> op.preview]
EventEntry(op) == [kind |-> "compaction", head |-> op.expected]
RefEntry(op) == [kind |-> "checkpoint", covers |-> op.covers]

\* The tables a transaction may commit over the tables d, and their receipt.
Committable(op, d, made) ==
    \/ /\ op.name = "append"
       /\ made = Insert(d, op.session, MessageEntry)
    \/ /\ op.name = "artifact" /\ Verified(op, made)
       /\ \/ made = d
          \/ /\ <<op.session, op.hash>> \notin ArtifactKeys(d)
             /\ made = Insert([d EXCEPT !.artifacts = @ \cup
                                  {[session |-> op.session, hash |-> op.hash, preview |-> op.preview]}],
                              op.session, FactEntry(op))
    \/ /\ op.name = "checkpoint" /\ op.covers < NextSeq(d, op.session)
       /\ made = Insert([d EXCEPT !.checkpoints = @ \cup
                            {[session |-> op.session, seq |-> NextSeq(d, op.session), covers |-> op.covers]}],
                        op.session, RefEntry(op))
    \/ /\ op.name = "compaction" /\ op.expected = Len(d.journal[op.session])
       /\ made = Insert([Insert(d, op.session, EventEntry(op)) EXCEPT !.checkpoints = @ \cup
                            {[session |-> op.session, seq |-> NextSeq(d, op.session) + 1, covers |-> op.covers]}],
                        op.session, RefEntry(op))

\* What agreed goes on agreeing in tables that grew, when no fact was added for
\* a content that had a row.
LEMMA OldAgrees ==
    ASSUME NEW d \in Tables, NEW made \in Tables, Agree(d), Grows(made, d),
           d.artifacts \subseteq made.artifacts, d.checkpoints \subseteq made.checkpoints,
           \A r \in d.artifacts : FactsOf(made, r.session, r.hash) = FactsOf(d, r.session, r.hash)
    PROVE  /\ \A s \in Ids : \A i \in 1..Len(d.journal[s]) : EntryAgrees(made, s, i)
           /\ \A c \in d.checkpoints :
                 /\ c.seq \in 1..Len(made.journal[c.session])
                 /\ made.journal[c.session][c.seq] = [kind |-> "checkpoint", covers |-> c.covers]
           /\ \A r \in d.artifacts : FactsOf(made, r.session, r.hash) # {}
  <1>1. ASSUME NEW s \in Ids, NEW i \in 1..Len(d.journal[s]) PROVE EntryAgrees(made, s, i)
    <2>1. PICK e : e = d.journal[s][i]
      OBVIOUS
    <2>2. PICK n, m \in Nat : n = Len(d.journal[s]) /\ m = Len(made.journal[s])
      BY DEF Tables
    <2>3. /\ made.journal[s][i] = e /\ n <= m /\ i \in 1..n
          /\ \A j \in 1..n : made.journal[s][j] = d.journal[s][j]
      BY <2>1, <2>2 DEF Grows
    <2>4. EntryAgrees(d, s, i)
      BY DEF Agree
    <2>5. e.kind = "checkpoint" =>
              [session |-> s, seq |-> i, covers |-> e.covers] \in made.checkpoints /\ e.covers < i
      BY <2>1, <2>4 DEF EntryAgrees
    <2>6. e.kind = "artifact" =>
              /\ [session |-> s, hash |-> e.hash, preview |-> e.preview] \in made.artifacts
              /\ FactsOf(made, s, e.hash) = {i}
      <3>1. SUFFICES ASSUME e.kind = "artifact"
                     PROVE  /\ [session |-> s, hash |-> e.hash, preview |-> e.preview] \in made.artifacts
                            /\ FactsOf(made, s, e.hash) = {i}
        OBVIOUS
      <3>2. /\ [session |-> s, hash |-> e.hash, preview |-> e.preview] \in d.artifacts
            /\ FactsOf(d, s, e.hash) = {i}
        BY <2>1, <2>4, <3>1 DEF EntryAgrees
      <3>3. PICK r \in d.artifacts : r = [session |-> s, hash |-> e.hash, preview |-> e.preview]
        BY <3>2
      <3>4. r.session = s /\ r.hash = e.hash
        BY <3>3
      <3> QED BY <3>2, <3>3, <3>4
    <2>7. e.kind = "compaction" =>
              /\ e.head = i - 1 /\ i < m
              /\ made.journal[s][i + 1] = [kind |-> "checkpoint", covers |-> e.head]
      <3>1. SUFFICES ASSUME e.kind = "compaction"
                     PROVE  /\ e.head = i - 1 /\ i < m
                            /\ made.journal[s][i + 1] = [kind |-> "checkpoint", covers |-> e.head]
        OBVIOUS
      <3>2. /\ e.head = i - 1 /\ i < n
            /\ d.journal[s][i + 1] = [kind |-> "checkpoint", covers |-> e.head]
        BY <2>1, <2>2, <2>4, <3>1 DEF EntryAgrees
      <3>3. i + 1 \in 1..n /\ i < m
        BY <2>2, <2>3, <3>2
      <3> QED BY <2>3, <3>2, <3>3
    <2> QED BY <2>2, <2>3, <2>5, <2>6, <2>7 DEF EntryAgrees
  <1>2. ASSUME NEW c \in d.checkpoints
        PROVE  /\ c.seq \in 1..Len(made.journal[c.session])
               /\ made.journal[c.session][c.seq] = [kind |-> "checkpoint", covers |-> c.covers]
    <2>1. c.session \in Ids
      BY DEF Tables
    <2>2. PICK n, m \in Nat : n = Len(d.journal[c.session]) /\ m = Len(made.journal[c.session])
      BY <2>1 DEF Tables
    <2> QED BY <2>1, <2>2 DEF Agree, Grows
  <1>3. \A r \in d.artifacts : FactsOf(made, r.session, r.hash) # {}
    BY DEF Agree
  <1> QED BY <1>1, <1>2, <1>3

\* What an entry at the end leaves.
LEMMA InsertGrows ==
    ASSUME NEW d \in Tables, NEW s \in Ids, NEW e \in Entry
    PROVE  Grows(Insert(d, s, e), d)
  <1>1. ASSUME NEW t \in Ids
        PROVE  /\ Len(d.journal[t]) <= Len(Insert(d, s, e).journal[t])
               /\ \A i \in 1..Len(d.journal[t]) : Insert(d, s, e).journal[t][i] = d.journal[t][i]
    <2>1. PICK n \in Nat : n = Len(d.journal[t])
      BY DEF Tables
    <2>2. CASE t = s
      <3>1. Len(Insert(d, s, e).journal[t]) = n + 1
        BY <2>1, <2>2, InsertAdds
      <3> QED BY <2>1, <2>2, <3>1, InsertAdds
    <2>3. CASE t # s
      BY <2>1, <2>3, InsertAdds
    <2> QED BY <2>2, <2>3
  <1> QED BY <1>1 DEF Grows

\* A message agrees with any tables.
LEMMA AppendAgrees ==
    ASSUME NEW d \in Tables, Agree(d), NEW s \in Ids
    PROVE  Agree(Insert(d, s, MessageEntry)) /\ Insert(d, s, MessageEntry) \in Tables
  <1>m. PICK made : made = Insert(d, s, MessageEntry)
    OBVIOUS
  <1>0. MessageEntry \in Entry /\ MessageEntry.kind = "message"
    BY DEF MessageEntry, Entry
  <1>1. PICK n \in Nat : n = Len(d.journal[s])
    BY InsertAdds, <1>0
  <1>2. /\ made \in Tables /\ made.artifacts = d.artifacts /\ made.checkpoints = d.checkpoints
        /\ Len(made.journal[s]) = n + 1
        /\ made.journal[s][n + 1] = MessageEntry
        /\ \A t \in Ids \ {s} : made.journal[t] = d.journal[t]
        /\ Grows(made, d)
    BY <1>m, <1>0, <1>1, InsertAdds, InsertGrows
  <1>3. \A t \in Ids : \A h : FactsOf(made, t, h) = FactsOf(d, t, h)
    BY <1>m, <1>0, FactsKept
  <1>4. \A r \in d.artifacts : FactsOf(made, r.session, r.hash) = FactsOf(d, r.session, r.hash)
    BY <1>3 DEF Tables
  <1>5. ASSUME NEW t \in Ids, NEW i \in 1..Len(made.journal[t]) PROVE EntryAgrees(made, t, i)
    <2>1. CASE i \in 1..Len(d.journal[t])
      BY <1>2, <1>4, <2>1, OldAgrees
    <2>2. CASE t = s /\ i = n + 1
      BY <1>0, <1>2, <2>2 DEF EntryAgrees
    <2> QED BY <1>1, <1>2, <1>5, <2>1, <2>2
  <1>6. /\ \A c \in made.checkpoints :
              /\ c.seq \in 1..Len(made.journal[c.session])
              /\ made.journal[c.session][c.seq] = [kind |-> "checkpoint", covers |-> c.covers]
        /\ \A r \in made.artifacts : FactsOf(made, r.session, r.hash) # {}
    BY <1>2, <1>4, OldAgrees
  <1> QED BY <1>m, <1>2, <1>5, <1>6 DEF Agree

\* A new content gets its row and its one fact.
LEMMA PutAgrees ==
    ASSUME NEW d \in Tables, Agree(d), NEW op \in Operation, op.name = "artifact",
           <<op.session, op.hash>> \notin ArtifactKeys(d),
           NEW row \in [session : Ids, hash : Hashes, preview : Previews],
           row.session = op.session, row.hash = op.hash, row.preview = op.preview,
           NEW mid \in Tables, mid.journal = d.journal, mid.checkpoints = d.checkpoints,
           mid.artifacts = d.artifacts \cup {row}
    PROVE  /\ Agree(Insert(mid, op.session, FactEntry(op)))
           /\ Insert(mid, op.session, FactEntry(op)) \in Tables
  <1>0. op.session \in Ids /\ op.hash \in Hashes /\ op.preview \in Previews
    BY OperationFields
  <1>1. PICK s \in Ids, e \in Entry : s = op.session /\ e = FactEntry(op)
    BY <1>0 DEF FactEntry, Entry
  <1>2. /\ e.kind = "artifact" /\ e.hash = op.hash /\ e.preview = op.preview
        /\ row.session = s /\ row.hash = e.hash /\ row.preview = e.preview
    BY <1>1 DEF FactEntry
  <1>3. /\ mid \in Tables /\ mid.journal = d.journal /\ mid.checkpoints = d.checkpoints
        /\ mid.artifacts = d.artifacts \cup {row}
    OBVIOUS
  <1>4. PICK n \in Nat : n = Len(d.journal[s])
    BY DEF Tables
  <1>m. PICK made : made = Insert(mid, s, e) /\ Adds(made, mid, s, e)
    BY Inserted
  <1>5. /\ made \in Tables /\ made.artifacts = d.artifacts \cup {row} /\ made.checkpoints = d.checkpoints
        /\ Len(made.journal[s]) = n + 1
        /\ made.journal[s][n + 1] = e
        /\ \A t \in Ids \ {s} : made.journal[t] = d.journal[t]
    <2>1. made \in Tables /\ made.artifacts = mid.artifacts /\ made.checkpoints = mid.checkpoints
      BY <1>m DEF Adds
    <2>3. Len(made.journal[s]) = Len(mid.journal[s]) + 1
      BY <1>m DEF Adds
    <2>4. made.journal[s][Len(mid.journal[s]) + 1] = e
      BY <1>m DEF Adds
    <2>2. \A t \in Ids \ {s} : made.journal[t] = mid.journal[t]
      BY <1>m DEF Adds
    <2> QED BY <1>3, <1>4, <2>1, <2>2, <2>3, <2>4
  <1>6. Grows(made, d)
    <2>1. Grows(made, mid)
      BY <1>m, <1>3, InsertGrows
    <2> QED BY <1>3, <2>1 DEF Grows
  <1>7. \A t \in Ids : \A h : ~(t = s /\ h = e.hash) => FactsOf(made, t, h) = FactsOf(d, t, h)
    <2>1. \A t, h : FactsOf(mid, t, h) = FactsOf(d, t, h)
      BY <1>3, FactsOfJournal
    <2>2. \A t \in Ids : \A h : ~(t = s /\ h = e.hash) => FactsOf(made, t, h) = FactsOf(mid, t, h)
      BY <1>m, <1>3, FactsKept
    <2> QED BY <2>1, <2>2
  <1>8. FactsOf(made, s, e.hash) = {n + 1}
    <2>1. FactsOf(d, s, e.hash) = {}
      <3>1. ASSUME NEW i \in 1..n, d.journal[s][i].kind = "artifact", d.journal[s][i].hash = e.hash
            PROVE  FALSE
        <4>1. [session |-> s, hash |-> e.hash, preview |-> d.journal[s][i].preview] \in d.artifacts
          BY <1>4, <3>1 DEF Agree, EntryAgrees
        <4>2. PICK r \in d.artifacts : r.session = s /\ r.hash = e.hash
          BY <4>1
        <4> QED BY <1>1, <1>2, <4>2 DEF ArtifactKeys
      <3> QED BY <1>4, <3>1 DEF FactsOf
    <2>2. FactsOf(made, s, e.hash) = FactsOf(mid, s, e.hash) \cup {Len(mid.journal[s]) + 1}
      BY <1>m, <1>1, <1>2, <1>3, FactsAdded
    <2> QED BY <1>3, <1>4, <2>1, <2>2, FactsOfJournal
  <1>9. \A r \in d.artifacts : FactsOf(made, r.session, r.hash) = FactsOf(d, r.session, r.hash)
    <2>1. ASSUME NEW r \in d.artifacts PROVE ~(r.session = s /\ r.hash = e.hash) /\ r.session \in Ids
      BY <1>1, <1>2, <2>1 DEF ArtifactKeys, Tables
    <2> QED BY <1>7, <2>1
  <1>10. ASSUME NEW t \in Ids, NEW i \in 1..Len(made.journal[t]) PROVE EntryAgrees(made, t, i)
    <2>1. CASE i \in 1..Len(d.journal[t])
      BY <1>5, <1>6, <1>9, <2>1, OldAgrees
    <2>2. CASE t = s /\ i = n + 1
      <3>1. made.journal[t][i] = e
        BY <1>5, <2>2
      <3>2. [session |-> t, hash |-> e.hash, preview |-> e.preview] \in made.artifacts
        <4>1. row = [session |-> t, hash |-> e.hash, preview |-> e.preview]
          BY <1>2, <2>2
        <4> QED BY <1>5, <4>1
      <3> QED BY <1>2, <1>8, <2>2, <3>1, <3>2 DEF EntryAgrees
    <2> QED BY <1>4, <1>5, <1>10, <2>1, <2>2
  <1>11. /\ \A c \in made.checkpoints :
              /\ c.seq \in 1..Len(made.journal[c.session])
              /\ made.journal[c.session][c.seq] = [kind |-> "checkpoint", covers |-> c.covers]
         /\ \A r \in d.artifacts : FactsOf(made, r.session, r.hash) # {}
    BY <1>5, <1>6, <1>9, OldAgrees
  <1>12. \A r \in made.artifacts : FactsOf(made, r.session, r.hash) # {}
    BY <1>2, <1>5, <1>8, <1>11
  <1>13. Agree(made)
    BY <1>10, <1>11, <1>12 DEF Agree
  <1> QED BY <1>m, <1>1, <1>3, <1>5, <1>13

\* A checkpoint gets its row and its entry, and covers what was before it.
LEMMA CheckpointAgrees ==
    ASSUME NEW d \in Tables, Agree(d), NEW op \in Operation, op.name = "checkpoint",
           NEW row \in [session : Ids, seq : Nat, covers : Nat],
           row.session = op.session, row.covers = op.covers,
           row.seq = Len(d.journal[op.session]) + 1, op.covers < row.seq,
           NEW mid \in Tables, mid.journal = d.journal, mid.artifacts = d.artifacts,
           mid.checkpoints = d.checkpoints \cup {row}
    PROVE  /\ Agree(Insert(mid, op.session, RefEntry(op)))
           /\ Insert(mid, op.session, RefEntry(op)) \in Tables
  <1>0. op.session \in Ids /\ op.covers \in Nat
    BY OperationFields
  <1>1. PICK s \in Ids, e \in Entry : s = op.session /\ e = RefEntry(op)
    BY <1>0 DEF RefEntry, Entry
  <1>2. e = [kind |-> "checkpoint", covers |-> op.covers] /\ e.kind = "checkpoint" /\ e.covers = op.covers
    BY <1>1 DEF RefEntry
  <1>4. PICK n \in Nat : n = Len(d.journal[s]) /\ n = Len(mid.journal[s])
    BY DEF Tables
  <1>m. PICK made : made = Insert(mid, s, e) /\ Adds(made, mid, s, e)
    BY Inserted
  <1>5. /\ made \in Tables /\ made.artifacts = d.artifacts /\ made.checkpoints = d.checkpoints \cup {row}
        /\ Len(made.journal[s]) = n + 1
        /\ made.journal[s][n + 1] = e
        /\ \A t \in Ids \ {s} : made.journal[t] = d.journal[t]
    <2>1. made \in Tables /\ made.artifacts = mid.artifacts /\ made.checkpoints = mid.checkpoints
      BY <1>m DEF Adds
    <2>2. \A t \in Ids \ {s} : made.journal[t] = mid.journal[t]
      BY <1>m DEF Adds
    <2>3. Len(made.journal[s]) = Len(mid.journal[s]) + 1
      BY <1>m DEF Adds
    <2>4. made.journal[s][Len(mid.journal[s]) + 1] = e
      BY <1>m DEF Adds
    <2> QED BY <1>4, <2>1, <2>2, <2>3, <2>4
  <1>6. Grows(made, d)
    <2>1. Grows(made, mid)
      BY <1>m, InsertGrows
    <2> QED BY <2>1 DEF Grows
  <1>7. \A t \in Ids : \A h : FactsOf(made, t, h) = FactsOf(d, t, h)
    <2>1. \A t, h : FactsOf(mid, t, h) = FactsOf(d, t, h)
      BY FactsOfJournal
    <2>2. \A t \in Ids : \A h : FactsOf(made, t, h) = FactsOf(mid, t, h)
      BY <1>m, <1>2, FactsKept
    <2> QED BY <2>1, <2>2
  <1>8. \A r \in d.artifacts : FactsOf(made, r.session, r.hash) = FactsOf(d, r.session, r.hash)
    BY <1>7 DEF Tables
  <1>9. ASSUME NEW t \in Ids, NEW i \in 1..Len(made.journal[t]) PROVE EntryAgrees(made, t, i)
    <2>1. CASE i \in 1..Len(d.journal[t])
      BY <1>5, <1>6, <1>8, <2>1, OldAgrees
    <2>2. CASE t = s /\ i = n + 1
      <3>1. made.journal[t][i] = e
        BY <1>5, <2>2
      <3>2. row = [session |-> t, seq |-> i, covers |-> e.covers]
        BY <1>1, <1>2, <1>4, <2>2
      <3>3. [session |-> t, seq |-> i, covers |-> e.covers] \in made.checkpoints
        BY <1>5, <3>2
      <3>4. e.covers < i
        BY <1>1, <1>2, <1>4, <2>2
      <3> QED BY <1>2, <3>1, <3>3, <3>4 DEF EntryAgrees
    <2> QED BY <1>4, <1>5, <1>9, <2>1, <2>2
  <1>10. /\ \A c \in d.checkpoints :
              /\ c.seq \in 1..Len(made.journal[c.session])
              /\ made.journal[c.session][c.seq] = [kind |-> "checkpoint", covers |-> c.covers]
         /\ \A r \in d.artifacts : FactsOf(made, r.session, r.hash) # {}
    BY <1>5, <1>6, <1>8, OldAgrees
  <1>11. /\ row.seq \in 1..Len(made.journal[row.session])
         /\ made.journal[row.session][row.seq] = [kind |-> "checkpoint", covers |-> row.covers]
    BY <1>1, <1>2, <1>4, <1>5
  <1>12. Agree(made)
    BY <1>5, <1>9, <1>10, <1>11 DEF Agree
  <1> QED BY <1>m, <1>1, <1>5, <1>12

\* A compaction gets its event, and right after it the checkpoint of the head
\* it was built on.
LEMMA CompactionAgrees ==
    ASSUME NEW d \in Tables, Agree(d), NEW op \in Operation, op.name = "compaction",
           op.expected = Len(d.journal[op.session]),
           NEW row \in [session : Ids, seq : Nat, covers : Nat],
           row.session = op.session, row.covers = op.covers,
           row.seq = Len(d.journal[op.session]) + 2,
           NEW first \in Tables, first = Insert(d, op.session, EventEntry(op)),
           NEW mid \in Tables, mid.journal = first.journal, mid.artifacts = first.artifacts,
           mid.checkpoints = first.checkpoints \cup {row}
    PROVE  /\ Agree(Insert(mid, op.session, RefEntry(op)))
           /\ Insert(mid, op.session, RefEntry(op)) \in Tables
  <1>0. op.session \in Ids /\ op.covers \in Nat /\ op.covers = op.expected
    BY OperationFields
  <1>1. PICK s \in Ids, f \in Entry, e \in Entry :
            s = op.session /\ f = EventEntry(op) /\ e = RefEntry(op)
    BY <1>0 DEF RefEntry, EventEntry, Entry
  <1>f. Adds(first, d, s, f)
    BY <1>1, Inserted
  <1>2. /\ e = [kind |-> "checkpoint", covers |-> op.covers] /\ e.kind = "checkpoint" /\ e.covers = op.covers
        /\ f.kind = "compaction" /\ f.head = op.expected
    BY <1>1 DEF RefEntry, EventEntry
  <1>3. PICK n \in Nat : n = Len(d.journal[s]) /\ op.expected = n /\ op.covers = n
    BY <1>0, <1>1 DEF Tables
  <1>4. /\ first.artifacts = d.artifacts /\ first.checkpoints = d.checkpoints
        /\ Len(first.journal[s]) = n + 1 /\ first.journal[s][n + 1] = f
        /\ \A t \in Ids \ {s} : first.journal[t] = d.journal[t]
    <2>1. first.artifacts = d.artifacts /\ first.checkpoints = d.checkpoints
      BY <1>f DEF Adds
    <2>2. \A t \in Ids \ {s} : first.journal[t] = d.journal[t]
      BY <1>f DEF Adds
    <2>3. Len(first.journal[s]) = Len(d.journal[s]) + 1
      BY <1>f DEF Adds
    <2>4. first.journal[s][Len(d.journal[s]) + 1] = f
      BY <1>f DEF Adds
    <2> QED BY <1>3, <2>1, <2>2, <2>3, <2>4
  <1>m. PICK made : made = Insert(mid, s, e) /\ Adds(made, mid, s, e)
    BY Inserted
  <1>5. /\ made \in Tables /\ made.artifacts = d.artifacts /\ made.checkpoints = d.checkpoints \cup {row}
        /\ Len(made.journal[s]) = n + 2
        /\ made.journal[s][n + 1] = f /\ made.journal[s][n + 2] = e
        /\ \A t \in Ids \ {s} : made.journal[t] = d.journal[t]
    <2>1. made \in Tables
      BY <1>m DEF Adds
    <2>0. made.artifacts = mid.artifacts /\ made.checkpoints = mid.checkpoints
      BY <1>m DEF Adds
    <2>2. \A t \in Ids \ {s} : made.journal[t] = mid.journal[t]
      BY <1>m DEF Adds
    <2>3. Len(made.journal[s]) = Len(mid.journal[s]) + 1
      BY <1>m DEF Adds
    <2>4. made.journal[s][Len(mid.journal[s]) + 1] = e
      BY <1>m DEF Adds
    <2>5. \A i \in 1..Len(mid.journal[s]) : made.journal[s][i] = mid.journal[s][i]
      BY <1>m DEF Adds
    <2>6. Len(mid.journal[s]) = n + 1 /\ mid.journal[s][n + 1] = f
      BY <1>4
    <2>7. made.journal[s][n + 1] = f
      BY <2>5, <2>6
    <2>8. Len(made.journal[s]) = n + 2 /\ made.journal[s][n + 2] = e
      BY <2>3, <2>4, <2>6
    <2> QED BY <1>4, <2>0, <2>1, <2>2, <2>7, <2>8
  <1>6. Grows(made, d)
    <2>1. Grows(made, mid) /\ Grows(first, d)
      BY <1>m, <1>1, InsertGrows
    <2>2. ASSUME NEW t \in Ids
          PROVE  /\ Len(d.journal[t]) <= Len(made.journal[t])
                 /\ \A i \in 1..Len(d.journal[t]) : made.journal[t][i] = d.journal[t][i]
      <3>1. PICK k, l, m \in Nat : /\ k = Len(d.journal[t]) /\ l = Len(mid.journal[t])
                                   /\ m = Len(made.journal[t])
        BY <1>5 DEF Tables
      <3>2. /\ k <= l /\ l <= m
            /\ \A i \in 1..k : mid.journal[t][i] = d.journal[t][i]
            /\ \A i \in 1..l : made.journal[t][i] = mid.journal[t][i]
        BY <2>1, <3>1 DEF Grows
      <3>3. \A i \in 1..k : i \in 1..l
        BY <3>2
      <3>4. \A i \in 1..k : made.journal[t][i] = d.journal[t][i]
        BY <3>2, <3>3
      <3>5. k <= m
        BY <3>2
      <3> QED BY <3>1, <3>4, <3>5
    <2> QED BY <2>2 DEF Grows
  <1>7. \A t \in Ids : \A h : FactsOf(made, t, h) = FactsOf(d, t, h)
    <2>1. \A t, h : FactsOf(mid, t, h) = FactsOf(first, t, h)
      BY FactsOfJournal
    <2>2. \A t \in Ids : \A h : FactsOf(made, t, h) = FactsOf(mid, t, h)
      BY <1>m, <1>2, FactsKept
    <2>3. \A t \in Ids : \A h : FactsOf(first, t, h) = FactsOf(d, t, h)
      BY <1>1, <1>2, FactsKept
    <2> QED BY <2>1, <2>2, <2>3
  <1>8. \A r \in d.artifacts : FactsOf(made, r.session, r.hash) = FactsOf(d, r.session, r.hash)
    BY <1>7 DEF Tables
  <1>9. ASSUME NEW t \in Ids, NEW i \in 1..Len(made.journal[t]) PROVE EntryAgrees(made, t, i)
    <2>1. CASE i \in 1..Len(d.journal[t])
      BY <1>5, <1>6, <1>8, <2>1, OldAgrees
    <2>2. CASE t = s /\ i = n + 1
      <3>1. made.journal[t][i] = f /\ f.head = i - 1 /\ i < Len(made.journal[t])
        BY <1>2, <1>3, <1>5, <2>2
      <3>2. made.journal[t][i + 1] = [kind |-> "checkpoint", covers |-> f.head]
        BY <1>2, <1>3, <1>5, <2>2
      <3> QED BY <1>2, <3>1, <3>2 DEF EntryAgrees
    <2>3. CASE t = s /\ i = n + 2
      <3>1. made.journal[t][i] = e
        BY <1>5, <2>3
      <3>2. row = [session |-> t, seq |-> i, covers |-> e.covers]
        BY <1>1, <1>2, <1>3, <2>3
      <3>3. [session |-> t, seq |-> i, covers |-> e.covers] \in made.checkpoints
        BY <1>5, <3>2
      <3>4. e.covers < i
        BY <1>2, <1>3, <2>3
      <3> QED BY <1>2, <3>1, <3>3, <3>4 DEF EntryAgrees
    <2> QED BY <1>3, <1>5, <1>9, <2>1, <2>2, <2>3
  <1>10. /\ \A c \in d.checkpoints :
              /\ c.seq \in 1..Len(made.journal[c.session])
              /\ made.journal[c.session][c.seq] = [kind |-> "checkpoint", covers |-> c.covers]
         /\ \A r \in d.artifacts : FactsOf(made, r.session, r.hash) # {}
    BY <1>5, <1>6, <1>8, OldAgrees
  <1>11. /\ row.seq \in 1..Len(made.journal[row.session])
         /\ made.journal[row.session][row.seq] = [kind |-> "checkpoint", covers |-> row.covers]
    BY <1>1, <1>2, <1>3, <1>5
  <1>12. Agree(made)
    BY <1>5, <1>9, <1>10, <1>11 DEF Agree
  <1> QED BY <1>m, <1>1, <1>5, <1>12

\* Whatever may be committed over tables that agree is tables that agree.
LEMMA CommittableAgrees ==
    ASSUME NEW d \in Tables, Agree(d), NEW op \in Operation, NEW made, Committable(op, d, made)
    PROVE  made \in Tables /\ Agree(made)
  <1>0. /\ op.session \in Ids
        /\ op.name = "artifact" => op.hash \in Hashes /\ op.preview \in Previews
        /\ op.name \in {"checkpoint", "compaction"} => op.covers \in Nat
        /\ op.name = "compaction" => op.expected \in Nat
    BY OperationFields
  <1>1. PICK n \in Nat : n = Len(d.journal[op.session])
    BY <1>0 DEF Tables
  <1>2. CASE made = d
    BY <1>2
  <1>3. CASE op.name = "append"
    BY <1>0, <1>3, AppendAgrees DEF Committable
  <1>4. CASE op.name = "artifact" /\ made # d
    <2>1. PICK row : row = [session |-> op.session, hash |-> op.hash, preview |-> op.preview]
      OBVIOUS
    <2>2. PICK mid : mid = [d EXCEPT !.artifacts = @ \cup {row}]
      OBVIOUS
    <2>3. /\ row \in [session : Ids, hash : Hashes, preview : Previews]
          /\ row.session = op.session /\ row.hash = op.hash /\ row.preview = op.preview
      BY <1>0, <1>4, <2>1
    <2>4. /\ mid \in Tables /\ mid.journal = d.journal /\ mid.checkpoints = d.checkpoints
          /\ mid.artifacts = d.artifacts \cup {row}
      BY <2>2, <2>3 DEF Tables
    <2>5. <<op.session, op.hash>> \notin ArtifactKeys(d) /\ made = Insert(mid, op.session, FactEntry(op))
      BY <1>4, <2>1, <2>2 DEF Committable
    <2> QED BY <1>4, <2>3, <2>4, <2>5, PutAgrees
  <1>5. CASE op.name = "checkpoint"
    <2>1. PICK row : row = [session |-> op.session, seq |-> NextSeq(d, op.session), covers |-> op.covers]
      OBVIOUS
    <2>2. PICK mid : mid = [d EXCEPT !.checkpoints = @ \cup {row}]
      OBVIOUS
    <2>3. /\ row \in [session : Ids, seq : Nat, covers : Nat]
          /\ row.session = op.session /\ row.covers = op.covers
          /\ row.seq = Len(d.journal[op.session]) + 1
      BY <1>0, <1>1, <1>5, <2>1 DEF NextSeq
    <2>4. /\ mid \in Tables /\ mid.journal = d.journal /\ mid.artifacts = d.artifacts
          /\ mid.checkpoints = d.checkpoints \cup {row}
      BY <2>2, <2>3 DEF Tables
    <2>5. op.covers < row.seq /\ made = Insert(mid, op.session, RefEntry(op))
      BY <1>5, <2>1, <2>2 DEF Committable
    <2> QED BY <1>5, <2>3, <2>4, <2>5, CheckpointAgrees
  <1>6. CASE op.name = "compaction"
    <2>1. PICK row : row = [session |-> op.session, seq |-> NextSeq(d, op.session) + 1, covers |-> op.covers]
      OBVIOUS
    <2>2. PICK first : first = Insert(d, op.session, EventEntry(op))
      OBVIOUS
    <2>3. PICK mid : mid = [first EXCEPT !.checkpoints = @ \cup {row}]
      OBVIOUS
    <2>4. EventEntry(op) \in Entry
      BY <1>0, <1>6 DEF EventEntry, Entry
    <2>5. first \in Tables
      BY <1>0, <2>2, <2>4, InsertAdds
    <2>6. /\ row \in [session : Ids, seq : Nat, covers : Nat]
          /\ row.session = op.session /\ row.covers = op.covers
          /\ row.seq = Len(d.journal[op.session]) + 2
      BY <1>0, <1>1, <1>6, <2>1 DEF NextSeq
    <2>7. /\ mid \in Tables /\ mid.journal = first.journal /\ mid.artifacts = first.artifacts
          /\ mid.checkpoints = first.checkpoints \cup {row}
      BY <2>3, <2>5, <2>6 DEF Tables
    <2>8. /\ op.expected = Len(d.journal[op.session])
          /\ made = Insert(mid, op.session, RefEntry(op))
      BY <1>6, <2>1, <2>2, <2>3 DEF Committable
    <2> QED BY <1>6, <2>2, <2>5, <2>6, <2>7, <2>8, CompactionAgrees
  <1> QED BY <1>2, <1>3, <1>4, <1>5, <1>6 DEF Committable

-----------------------------------------------------------------------------
(* What a commit adds to the journal.                                      *)

\* AddsWholeOperation, between any journals and any tables.
WholeAdded(old, new) ==
    /\ IsPrefix(old, new)
    /\ [i \in 1..Len(SubSeq(new, Len(old) + 1, Len(new))) |->
          SubSeq(new, Len(old) + 1, Len(new))[i].kind] \in Whole
AddsWhole(d, made) ==
    \/ made.journal = d.journal
    \/ \E s \in Ids :
          /\ WholeAdded(d.journal[s], made.journal[s])
          /\ \A t \in Ids \ {s} : made.journal[t] = d.journal[t]

\* One entry more, and two.
LEMMA OneMore ==
    ASSUME NEW old \in Seq(Entry), NEW e \in Entry, NEW new, new = Append(old, e),
           e.kind \in {"message", "artifact", "checkpoint"}
    PROVE  WholeAdded(old, new) /\ Len(old) <= Len(new) /\ \A i \in 1..Len(old) : new[i] = old[i]
  <1>1. PICK n \in Nat : n = Len(old)
    OBVIOUS
  <1>2. /\ new \in Seq(Entry) /\ Len(new) = n + 1 /\ new[n + 1] = e
        /\ \A i \in 1..n : new[i] = old[i]
    BY <1>1
  <1>3. IsPrefix(old, new)
    BY <1>1, <1>2 DEF IsPrefix
  <1>4. PICK added : added = SubSeq(new, n + 1, n + 1)
    OBVIOUS
  <1>5. Len(added) = 1 /\ added[1] = e
    BY <1>1, <1>2, <1>4
  <1>6. [i \in 1..Len(added) |-> added[i].kind] = <<e.kind>>
    BY <1>5
  <1>7. [i \in 1..Len(added) |-> added[i].kind] \in Whole
    BY <1>6 DEF Whole
  <1> QED BY <1>1, <1>2, <1>3, <1>4, <1>7 DEF WholeAdded

\* A compaction and its checkpoint, appended together, are a whole operation.
LEMMA TwoMore ==
    ASSUME NEW old \in Seq(Entry), NEW f \in Entry, NEW e \in Entry, NEW new,
           new = Append(Append(old, f), e), f.kind = "compaction", e.kind = "checkpoint"
    PROVE  WholeAdded(old, new) /\ Len(old) <= Len(new) /\ \A i \in 1..Len(old) : new[i] = old[i]
  <1>1. PICK n \in Nat : n = Len(old)
    OBVIOUS
  <1>0. Append(old, f) \in Seq(Entry)
    OBVIOUS
  <1>2. PICK mid \in Seq(Entry) : mid = Append(old, f)
    BY <1>0
  <1>3. /\ Len(mid) = n + 1 /\ mid[n + 1] = f /\ \A i \in 1..n : mid[i] = old[i]
    BY <1>1, <1>2
  <1>4. /\ new \in Seq(Entry) /\ Len(new) = n + 2 /\ new[n + 2] = e
        /\ \A i \in 1..(n + 1) : new[i] = mid[i]
    BY <1>2, <1>3
  <1>5. new[n + 1] = f /\ \A i \in 1..n : new[i] = old[i]
    BY <1>3, <1>4
  <1>6. IsPrefix(old, new)
    BY <1>1, <1>4, <1>5 DEF IsPrefix
  <1>7. PICK added : added = SubSeq(new, n + 1, n + 2)
    OBVIOUS
  <1>8. Len(added) = 2 /\ added[1] = f /\ added[2] = e
    BY <1>4, <1>5, <1>7
  <1>9. [i \in 1..Len(added) |-> added[i].kind] = <<"compaction", "checkpoint">>
    BY <1>8
  <1>10. [i \in 1..Len(added) |-> added[i].kind] \in Whole
    BY <1>9 DEF Whole
  <1>11. WholeAdded(old, new)
    BY <1>1, <1>4, <1>6, <1>7, <1>10 DEF WholeAdded
  <1> QED BY <1>1, <1>4, <1>5, <1>11

\* The entries an operation writes.
LEMMA EntriesOf ==
    ASSUME NEW op \in Operation
    PROVE  /\ MessageEntry \in Entry /\ MessageEntry.kind = "message"
           /\ op.name = "artifact" => FactEntry(op) \in Entry /\ FactEntry(op).kind = "artifact"
           /\ op.name \in {"checkpoint", "compaction"} =>
                 RefEntry(op) \in Entry /\ RefEntry(op).kind = "checkpoint"
           /\ op.name = "compaction" => EventEntry(op) \in Entry /\ EventEntry(op).kind = "compaction"
           /\ op.name = "append" => Proof(op) = MessageEntry
           /\ op.name = "artifact" => Proof(op) = FactEntry(op)
           /\ op.name \in {"checkpoint", "compaction"} => Proof(op) = RefEntry(op)
  BY OperationFields DEF Entry, MessageEntry, FactEntry, RefEntry, EventEntry, Proof

\* The journals after one entry of a session, and after two, the last of them
\* the one the operation is for.
AddsOne(op, s, d, made) ==
    \E e \in Entry :
        /\ e = Proof(op) /\ e.kind \in {"message", "artifact", "checkpoint"}
        /\ made.journal = [d.journal EXCEPT ![s] = Append(@, e)]
AddsTwo(op, s, d, made) ==
    \E f, e \in Entry :
        /\ e = Proof(op) /\ f.kind = "compaction" /\ e.kind = "checkpoint"
        /\ made.journal = [d.journal EXCEPT ![s] = Append(Append(@, f), e)]

\* What a commit leaves of the journals.
LEMMA CommittableJournal ==
    ASSUME NEW d \in Tables, NEW op \in Operation, NEW made, Committable(op, d, made)
    PROVE  \/ op.name = "artifact" /\ made.journal = d.journal
           \/ AddsOne(op, op.session, d, made)
           \/ AddsTwo(op, op.session, d, made)
  <1>0. op.session \in Ids
    BY OperationFields
  <1>1. CASE op.name = "append"
    <2>1. made = Insert(d, op.session, MessageEntry)
      BY <1>1 DEF Committable
    <2>2. made.journal = [d.journal EXCEPT ![op.session] = Append(@, MessageEntry)]
      BY <2>1 DEF Insert, Tables
    <2> QED BY <1>1, <2>2, EntriesOf DEF AddsOne
  <1>2. CASE op.name = "artifact" /\ made # d
    <2>1. PICK mid : /\ mid = [d EXCEPT !.artifacts = @ \cup
                            {[session |-> op.session, hash |-> op.hash, preview |-> op.preview]}]
                     /\ made = Insert(mid, op.session, FactEntry(op))
      BY <1>2 DEF Committable
    <2>2. mid.journal = d.journal /\ made.journal = [mid.journal EXCEPT ![op.session] = Append(@, FactEntry(op))]
      BY <2>1 DEF Insert, Tables
    <2> QED BY <1>2, <2>2, EntriesOf DEF AddsOne
  <1>3. CASE op.name = "checkpoint"
    <2>1. PICK mid : /\ mid = [d EXCEPT !.checkpoints = @ \cup
                            {[session |-> op.session, seq |-> NextSeq(d, op.session), covers |-> op.covers]}]
                     /\ made = Insert(mid, op.session, RefEntry(op))
      BY <1>3 DEF Committable
    <2>2. mid.journal = d.journal /\ made.journal = [mid.journal EXCEPT ![op.session] = Append(@, RefEntry(op))]
      BY <2>1 DEF Insert, Tables
    <2> QED BY <1>3, <2>2, EntriesOf DEF AddsOne
  <1>4. CASE op.name = "compaction"
    <2>1. PICK first, mid :
              /\ first = Insert(d, op.session, EventEntry(op))
              /\ mid = [first EXCEPT !.checkpoints = @ \cup
                            {[session |-> op.session, seq |-> NextSeq(d, op.session) + 1, covers |-> op.covers]}]
              /\ made = Insert(mid, op.session, RefEntry(op))
      BY <1>4 DEF Committable
    <2>2. first.journal = [d.journal EXCEPT ![op.session] = Append(@, EventEntry(op))]
      BY <2>1 DEF Insert, Tables
    <2>3. first \in Tables
      BY <1>0, <1>4, <2>1, EntriesOf, InsertAdds
    <2>4. /\ mid.journal = first.journal
          /\ made.journal = [mid.journal EXCEPT ![op.session] = Append(@, RefEntry(op))]
      BY <2>1, <2>3 DEF Insert, Tables
    <2>5. made.journal = [d.journal EXCEPT ![op.session] = Append(Append(@, EventEntry(op)), RefEntry(op))]
      BY <1>0, <2>2, <2>4 DEF Tables
    <2> QED BY <1>4, <2>5, EntriesOf DEF AddsTwo
  <1> QED BY <1>1, <1>2, <1>3, <1>4 DEF Committable

\* A commit adds a whole operation to one journal, and what was there stays.
LEMMA CommittableIsWhole ==
    ASSUME NEW d \in Tables, NEW op \in Operation, NEW made \in Tables, Committable(op, d, made)
    PROVE  AddsWhole(d, made) /\ Grows(made, d)
  <1>0. PICK s \in Ids : s = op.session
    BY OperationFields
  <1>1. PICK old, new \in Seq(Entry) : old = d.journal[s] /\ new = made.journal[s]
    BY DEF Tables
  <1>2. CASE made.journal = d.journal
    <2>1. \A t \in Ids : Len(made.journal[t]) \in Nat
      BY DEF Tables
    <2> QED BY <1>2, <2>1 DEF AddsWhole, Grows
  <1>3. CASE made.journal # d.journal
    <2>1. AddsOne(op, s, d, made) \/ AddsTwo(op, s, d, made)
      BY <1>0, <1>3, CommittableJournal
    <2>2. \A t \in Ids \ {s} : made.journal[t] = d.journal[t]
      BY <2>1 DEF Tables, AddsOne, AddsTwo
    <2>3. \/ \E e \in Entry : e.kind \in {"message", "artifact", "checkpoint"} /\ new = Append(old, e)
          \/ \E f, e \in Entry :
                f.kind = "compaction" /\ e.kind = "checkpoint" /\ new = Append(Append(old, f), e)
      BY <1>1, <2>1 DEF Tables, AddsOne, AddsTwo
    <2>4. WholeAdded(old, new) /\ Len(old) <= Len(new) /\ \A i \in 1..Len(old) : new[i] = old[i]
      BY <2>3, OneMore, TwoMore
    <2>5. ASSUME NEW t \in Ids
          PROVE  /\ Len(d.journal[t]) <= Len(made.journal[t])
                 /\ \A i \in 1..Len(d.journal[t]) : made.journal[t][i] = d.journal[t][i]
      <3>1. CASE t = s
        BY <1>1, <2>4, <3>1
      <3>2. CASE t # s
        <4>1. made.journal[t] = d.journal[t] /\ Len(d.journal[t]) \in Nat
          BY <2>2, <3>2 DEF Tables
        <4> QED BY <4>1
      <3> QED BY <3>1, <3>2
    <2> QED BY <1>1, <2>2, <2>4, <2>5 DEF AddsWhole, Grows
  <1> QED BY <1>2, <1>3

\* What stood goes on standing.
LEMMA StandsKept ==
    ASSUME NEW d \in Tables, NEW made \in Tables, Grows(made, d), NEW r \in Receipts, Stands(r, d)
    PROVE  Stands(r, made)
  <1>1. r.session \in Ids
    BY DEF Receipts
  <1>2. Len(d.journal[r.session]) \in Nat /\ Len(made.journal[r.session]) \in Nat
    BY <1>1 DEF Tables
  <1>3. PICK n, m \in Nat : n = Len(d.journal[r.session]) /\ m = Len(made.journal[r.session])
    BY <1>2
  <1>4. /\ n <= m /\ r.seq \in 1..n /\ d.journal[r.session][r.seq] = r.proves
        /\ \A i \in 1..n : made.journal[r.session][i] = d.journal[r.session][i]
    BY <1>1, <1>3 DEF Grows, Stands
  <1>5. r.seq \in 1..m /\ made.journal[r.session][r.seq] = r.proves
    BY <1>4
  <1> QED BY <1>3, <1>5 DEF Stands

\* The new receipt names the operation's entry.
LEMMA ReceiptStands ==
    ASSUME NEW d \in Tables, NEW op \in Operation, NEW made \in Tables, Committable(op, d, made)
    PROVE  Receipt(op, made) \in Receipts /\ Stands(Receipt(op, made), made)
  <1>0. PICK s \in Ids : s = op.session
    BY OperationFields
  <1>1. PICK n \in Nat, journal \in Seq(Entry) :
            n = Len(made.journal[s]) /\ n = Len(journal) /\ journal = made.journal[s]
    BY DEF Tables
  <1>2. CASE op.name = "artifact"
    <2>1. PICK i \in FactsOf(made, s, op.hash) :
             FactsOf(made, s, op.hash) = {i} /\ made.journal[s][i].preview = op.preview
      BY <1>0, <1>2 DEF Committable, Verified
    <2>2. i \in 1..n /\ journal[i] \in Entry /\ journal[i].kind = "artifact" /\ journal[i].hash = op.hash
          /\ journal[i].preview = op.preview
      BY <1>1, <2>1 DEF FactsOf
    <2>3. journal[i] = FactEntry(op)
      BY <2>2 DEF Entry, FactEntry
    <2>4. SeqOfFact(op, made) = i
      BY <1>0, <2>1 DEF SeqOfFact
    <2>5. Receipt(op, made) = [session |-> s, seq |-> i, proves |-> FactEntry(op)]
      BY <1>0, <1>2, <2>4, EntriesOf DEF Receipt, ReceiptSeq
    <2>6. Receipt(op, made) \in Receipts
      BY <1>2, <2>2, <2>5, EntriesOf DEF Receipts
    <2> QED BY <1>1, <2>2, <2>3, <2>5, <2>6 DEF Stands
  <1>3. CASE op.name # "artifact"
    <2>1. PICK e \in Entry : e = Proof(op) /\ \E old \in Seq(Entry) : journal = Append(old, e)
      <3>1. PICK before \in Seq(Entry) : before = d.journal[s]
        BY DEF Tables
      <3>2. CASE AddsOne(op, s, d, made)
        <4>1. PICK e \in Entry : /\ e = Proof(op)
                                 /\ made.journal = [d.journal EXCEPT ![s] = Append(@, e)]
          BY <3>2 DEF AddsOne
        <4>2. journal = Append(before, e)
          BY <1>1, <3>1, <4>1 DEF Tables
        <4> QED BY <3>1, <4>1, <4>2
      <3>3. CASE AddsTwo(op, s, d, made)
        <4>1. PICK f, e \in Entry : /\ e = Proof(op)
                                    /\ made.journal = [d.journal EXCEPT ![s] = Append(Append(@, f), e)]
          BY <3>3 DEF AddsTwo
        <4>2. journal = Append(Append(before, f), e)
          BY <1>1, <3>1, <4>1 DEF Tables
        <4>3. Append(before, f) \in Seq(Entry)
          OBVIOUS
        <4> QED BY <4>1, <4>2, <4>3
      <3> QED BY <1>0, <1>3, <3>2, <3>3, CommittableJournal
    <2>2. n >= 1 /\ journal[n] = e
      <3>1. PICK old \in Seq(Entry) : journal = Append(old, e)
        BY <2>1
      <3> QED BY <1>1, <3>1
    <2>3. Receipt(op, made) = [session |-> s, seq |-> n, proves |-> e]
      BY <1>0, <1>1, <1>3, <2>1 DEF Receipt, ReceiptSeq, HeadAsSeq
    <2>4. Receipt(op, made) \in Receipts
      BY <2>3 DEF Receipts
    <2>5. n \in 1..Len(made.journal[s]) /\ made.journal[s][n] = e
      BY <1>1, <2>2
    <2> QED BY <2>3, <2>4, <2>5 DEF Stands
  <1> QED BY <1>2, <1>3

-----------------------------------------------------------------------------
(* The open transaction.  Nothing else is committed while it is open, so    *)
(* what it sees follows from the statements it has run.                    *)

\* The tables after the statements that are done, with what the checks among
\* them found.
Progress(op, todo, d) ==
    \/ /\ op.name = "append"
       /\ \/ todo = <<"message", "touch">> /\ d = disk
          \/ todo \in {<<"touch">>, <<>>} /\ d = Effect("message", op, disk)
    \/ /\ op.name = "artifact"
       /\ \/ /\ todo \in {<<"compare", "artifact", "fact", "verify">>, <<"artifact", "fact", "verify">>}
             /\ d = disk
          \/ todo = <<"fact", "verify">> /\ d = Effect("artifact", op, disk)
          \/ todo = <<"verify">> /\ d = Effect("fact", op, Effect("artifact", op, disk))
          \/ /\ todo = <<>> /\ d = Effect("fact", op, Effect("artifact", op, disk))
             /\ Verified(op, d)
    \/ /\ op.name = "checkpoint"
       /\ \/ todo = <<"validate", "checkpoint", "ref", "touch">> /\ d = disk
          \/ /\ op.covers < NextSeq(disk, op.session)
             /\ \/ todo = <<"checkpoint", "ref", "touch">> /\ d = disk
                \/ todo = <<"ref", "touch">> /\ d = Effect("checkpoint", op, disk)
                \/ todo \in {<<"touch">>, <<>>} /\ d = Effect("ref", op, Effect("checkpoint", op, disk))
    \/ /\ op.name = "compaction"
       /\ \/ todo = <<"compare", "event", "validate", "checkpoint", "ref", "touch">> /\ d = disk
          \/ /\ op.expected = Len(disk.journal[op.session])
             /\ \/ /\ todo = <<"event", "validate", "checkpoint", "ref", "touch">> /\ d = disk
                \/ /\ todo \in {<<"validate", "checkpoint", "ref", "touch">>, <<"checkpoint", "ref", "touch">>}
                   /\ d = Effect("event", op, disk)
                \/ todo = <<"ref", "touch">> /\ d = Effect("checkpoint", op, Effect("event", op, disk))
                \/ /\ todo \in {<<"touch">>, <<>>}
                   /\ d = Effect("ref", op, Effect("checkpoint", op, Effect("event", op, disk)))

\* It is of the tables as committed, and of nothing else that changes.
LEMMA EffectStays ==
    ASSUME disk' = disk, NEW step, NEW op, NEW d
    PROVE  Effect(step, op, d)' = Effect(step, op, d)
  <1>1. IsNewRow(op)' <=> IsNewRow(op)
    BY DEF IsNewRow
  <1>2. WriteFact(op, d)' = WriteFact(op, d)
    BY <1>1 DEF WriteFact
  <1> QED BY <1>1, <1>2 DEF Effect

\* While the disk stands still, so does what the transaction sees.
LEMMA ProgressStays ==
    ASSUME disk' = disk, NEW op, NEW todo, NEW d, Progress(op, todo, d)
    PROVE  Progress(op, todo, d)'
  <1>1. \A step, e : Effect(step, op, e)' = Effect(step, op, e)
    BY EffectStays
  <1>2. PICK message, row, fact, check, ref, event, eventCheck, eventRef :
            /\ message = Effect("message", op, disk)
            /\ row = Effect("artifact", op, disk) /\ fact = Effect("fact", op, row)
            /\ check = Effect("checkpoint", op, disk) /\ ref = Effect("ref", op, check)
            /\ event = Effect("event", op, disk) /\ eventCheck = Effect("checkpoint", op, event)
            /\ eventRef = Effect("ref", op, eventCheck)
    OBVIOUS
  <1>3. /\ message = Effect("message", op, disk)'
        /\ row = Effect("artifact", op, disk)' /\ fact = Effect("fact", op, row)'
        /\ check = Effect("checkpoint", op, disk)' /\ ref = Effect("ref", op, check)'
        /\ event = Effect("event", op, disk)' /\ eventCheck = Effect("checkpoint", op, event)'
        /\ eventRef = Effect("ref", op, eventCheck)'
    BY <1>1, <1>2
  <1> QED BY <1>2, <1>3 DEF Progress

\* A statement that succeeds makes progress.
LEMMA StatementProgress ==
    ASSUME NEW op, NEW todo, NEW d, Progress(op, todo, d), todo # <<>>, Holds(Head(todo), op, d)
    PROVE  Progress(op, Tail(todo), Effect(Head(todo), op, d))
  <1>1. CASE op.name = "append"
    <2>1. CASE todo = <<"message", "touch">>
      <3>1. Head(todo) = "message" /\ Tail(todo) = <<"touch">> /\ d = disk
        BY <1>1, <2>1 DEF Progress
      <3> QED BY <1>1, <3>1 DEF Progress
    <2>2. CASE todo = <<"touch">>
      <3>1. Head(todo) = "touch" /\ Tail(todo) = <<>> /\ d = Effect("message", op, disk)
        BY <1>1, <2>2 DEF Progress
      <3>2. Effect("touch", op, d) = d
        BY DEF Effect
      <3> QED BY <1>1, <3>1, <3>2 DEF Progress
    <2> QED BY <1>1, <2>1, <2>2 DEF Progress
  <1>2. CASE op.name = "artifact"
    <2>1. CASE todo = <<"compare", "artifact", "fact", "verify">>
      <3>1. Head(todo) = "compare" /\ Tail(todo) = <<"artifact", "fact", "verify">> /\ d = disk
        BY <1>2, <2>1 DEF Progress
      <3>2. Effect("compare", op, d) = d
        BY DEF Effect
      <3> QED BY <1>2, <3>1, <3>2 DEF Progress
    <2>2. CASE todo = <<"artifact", "fact", "verify">>
      <3>1. Head(todo) = "artifact" /\ Tail(todo) = <<"fact", "verify">> /\ d = disk
        BY <1>2, <2>2 DEF Progress
      <3> QED BY <1>2, <3>1 DEF Progress
    <2>3. CASE todo = <<"fact", "verify">>
      <3>1. Head(todo) = "fact" /\ Tail(todo) = <<"verify">> /\ d = Effect("artifact", op, disk)
        BY <1>2, <2>3 DEF Progress
      <3> QED BY <1>2, <3>1 DEF Progress
    <2>4. CASE todo = <<"verify">>
      <3>1. /\ Head(todo) = "verify" /\ Tail(todo) = <<>>
            /\ d = Effect("fact", op, Effect("artifact", op, disk))
        BY <1>2, <2>4 DEF Progress
      <3>2. Effect("verify", op, d) = d /\ Verified(op, d)
        BY <3>1 DEF Effect, Holds
      <3> QED BY <1>2, <3>1, <3>2 DEF Progress
    <2> QED BY <1>2, <2>1, <2>2, <2>3, <2>4 DEF Progress
  <1>3. CASE op.name = "checkpoint"
    <2>1. CASE todo = <<"validate", "checkpoint", "ref", "touch">>
      <3>1. Head(todo) = "validate" /\ Tail(todo) = <<"checkpoint", "ref", "touch">> /\ d = disk
        BY <1>3, <2>1 DEF Progress
      <3>2. Effect("validate", op, d) = d /\ op.covers < NextSeq(d, op.session)
        BY <3>1 DEF Effect, Holds, ValidCheckpoint
      <3> QED BY <1>3, <3>1, <3>2 DEF Progress
    <2>2. CASE todo = <<"checkpoint", "ref", "touch">>
      <3>1. /\ Head(todo) = "checkpoint" /\ Tail(todo) = <<"ref", "touch">> /\ d = disk
            /\ op.covers < NextSeq(disk, op.session)
        BY <1>3, <2>2 DEF Progress
      <3> QED BY <1>3, <3>1 DEF Progress
    <2>3. CASE todo = <<"ref", "touch">>
      <3>1. /\ Head(todo) = "ref" /\ Tail(todo) = <<"touch">> /\ d = Effect("checkpoint", op, disk)
            /\ op.covers < NextSeq(disk, op.session)
        BY <1>3, <2>3 DEF Progress
      <3> QED BY <1>3, <3>1 DEF Progress
    <2>4. CASE todo = <<"touch">>
      <3>1. /\ Head(todo) = "touch" /\ Tail(todo) = <<>>
            /\ d = Effect("ref", op, Effect("checkpoint", op, disk))
            /\ op.covers < NextSeq(disk, op.session)
        BY <1>3, <2>4 DEF Progress
      <3>2. Effect("touch", op, d) = d
        BY DEF Effect
      <3> QED BY <1>3, <3>1, <3>2 DEF Progress
    <2> QED BY <1>3, <2>1, <2>2, <2>3, <2>4 DEF Progress
  <1>4. CASE op.name = "compaction"
    <2>1. CASE todo = <<"compare", "event", "validate", "checkpoint", "ref", "touch">>
      <3>1. /\ Head(todo) = "compare"
            /\ Tail(todo) = <<"event", "validate", "checkpoint", "ref", "touch">> /\ d = disk
        BY <1>4, <2>1 DEF Progress
      <3>2. Effect("compare", op, d) = d /\ op.expected = Len(d.journal[op.session])
        BY <3>1 DEF Effect, Holds, CompareAndLock
      <3> QED BY <1>4, <3>1, <3>2 DEF Progress
    <2>2. CASE todo = <<"event", "validate", "checkpoint", "ref", "touch">>
      <3>1. /\ Head(todo) = "event" /\ Tail(todo) = <<"validate", "checkpoint", "ref", "touch">>
            /\ d = disk /\ op.expected = Len(disk.journal[op.session])
        BY <1>4, <2>2 DEF Progress
      <3> QED BY <1>4, <3>1 DEF Progress
    <2>3. CASE todo = <<"validate", "checkpoint", "ref", "touch">>
      <3>1. /\ Head(todo) = "validate" /\ Tail(todo) = <<"checkpoint", "ref", "touch">>
            /\ d = Effect("event", op, disk) /\ op.expected = Len(disk.journal[op.session])
        BY <1>4, <2>3 DEF Progress
      <3>2. Effect("validate", op, d) = d
        BY DEF Effect
      <3> QED BY <1>4, <3>1, <3>2 DEF Progress
    <2>4. CASE todo = <<"checkpoint", "ref", "touch">>
      <3>1. /\ Head(todo) = "checkpoint" /\ Tail(todo) = <<"ref", "touch">>
            /\ d = Effect("event", op, disk) /\ op.expected = Len(disk.journal[op.session])
        BY <1>4, <2>4 DEF Progress
      <3> QED BY <1>4, <3>1 DEF Progress
    <2>5. CASE todo = <<"ref", "touch">>
      <3>1. /\ Head(todo) = "ref" /\ Tail(todo) = <<"touch">>
            /\ d = Effect("checkpoint", op, Effect("event", op, disk))
            /\ op.expected = Len(disk.journal[op.session])
        BY <1>4, <2>5 DEF Progress
      <3> QED BY <1>4, <3>1 DEF Progress
    <2>6. CASE todo = <<"touch">>
      <3>1. /\ Head(todo) = "touch" /\ Tail(todo) = <<>>
            /\ d = Effect("ref", op, Effect("checkpoint", op, Effect("event", op, disk)))
            /\ op.expected = Len(disk.journal[op.session])
        BY <1>4, <2>6 DEF Progress
      <3>2. Effect("touch", op, d) = d
        BY DEF Effect
      <3> QED BY <1>4, <3>1, <3>2 DEF Progress
    <2> QED BY <1>4, <2>1, <2>2, <2>3, <2>4, <2>5, <2>6 DEF Progress
  <1> QED BY <1>1, <1>2, <1>3, <1>4 DEF Progress

\* What a statement does, by its name.
LEMMA Effects ==
    ASSUME NEW op, NEW d
    PROVE  /\ Effect("message", op, d) = Insert(d, op.session, MessageEntry)
           /\ Effect("event", op, d) = Insert(d, op.session, EventEntry(op))
           /\ Effect("ref", op, d) = Insert(d, op.session, RefEntry(op))
           /\ Effect("checkpoint", op, d) =
                [d EXCEPT !.checkpoints = @ \cup
                    {[session |-> op.session, seq |-> NextSeq(d, op.session), covers |-> op.covers]}]
  BY DEF Effect, MessageEntry, EventEntry, RefEntry

\* A transaction whose statements are all done may commit what it sees.
LEMMA DoneIsCommittable ==
    ASSUME disk \in Tables, NEW op \in Operation, NEW d, Progress(op, <<>>, d)
    PROVE  Committable(op, disk, d)
  <1>1. CASE op.name = "append"
    <2>1. d = Effect("message", op, disk)
      BY <1>1 DEF Progress
    <2> QED BY <1>1, <2>1, Effects DEF Committable
  <1>2. CASE op.name = "artifact"
    <2>1. d = Effect("fact", op, Effect("artifact", op, disk)) /\ Verified(op, d)
      BY <1>2 DEF Progress
    <2>2. CASE IsNewRow(op)
      <3>1. Effect("artifact", op, disk) = [disk EXCEPT !.artifacts = @ \cup
                {[session |-> op.session, hash |-> op.hash, preview |-> op.preview]}]
        BY <2>2 DEF Effect
      <3>2. d = Insert(Effect("artifact", op, disk), op.session, FactEntry(op))
        BY <2>1, <2>2 DEF Effect, WriteFact, WriteFactAlways, FactEntry
      <3> QED BY <1>2, <2>1, <2>2, <3>1, <3>2 DEF Committable, IsNewRow
    <2>3. CASE ~IsNewRow(op)
      <3>1. d = disk
        BY <2>1, <2>3 DEF Effect, WriteFact
      <3> QED BY <1>2, <2>1, <3>1 DEF Committable
    <2> QED BY <2>2, <2>3
  <1>3. CASE op.name = "checkpoint"
    <2>1. d = Effect("ref", op, Effect("checkpoint", op, disk)) /\ op.covers < NextSeq(disk, op.session)
      BY <1>3 DEF Progress
    <2> QED BY <1>3, <2>1, Effects DEF Committable
  <1>4. CASE op.name = "compaction"
    <2>1. /\ d = Effect("ref", op, Effect("checkpoint", op, Effect("event", op, disk)))
          /\ op.expected = Len(disk.journal[op.session])
      BY <1>4 DEF Progress
    <2>2. PICK first : first = Insert(disk, op.session, EventEntry(op))
      OBVIOUS
    <2>3. /\ EventEntry(op) \in Entry /\ op.session \in Ids
          /\ Len(disk.journal[op.session]) \in Nat
      BY <1>4, EntriesOf, OperationFields DEF Tables
    <2>4. NextSeq(first, op.session) = NextSeq(disk, op.session) + 1
      <3>1. Adds(first, disk, op.session, EventEntry(op))
        BY <2>2, <2>3, Inserted
      <3> QED BY <2>3, <3>1 DEF Adds, NextSeq
    <2>5. d = Insert([first EXCEPT !.checkpoints = @ \cup
                 {[session |-> op.session, seq |-> NextSeq(first, op.session), covers |-> op.covers]}],
                 op.session, RefEntry(op))
      <3>1. first = Effect("event", op, disk)
        BY <2>2, Effects
      <3>2. PICK mid : mid = Effect("checkpoint", op, first)
        OBVIOUS
      <3>3. mid = [first EXCEPT !.checkpoints = @ \cup
                 {[session |-> op.session, seq |-> NextSeq(first, op.session), covers |-> op.covers]}]
        BY <3>2, Effects
      <3>4. d = Effect("ref", op, mid)
        BY <2>1, <3>1, <3>2
      <3>5. d = Insert(mid, op.session, RefEntry(op))
        BY <3>4, Effects
      <3> QED BY <3>3, <3>5
    <2> QED BY <1>4, <2>1, <2>2, <2>4, <2>5 DEF Committable
  <1> QED BY <1>1, <1>2, <1>3, <1>4 DEF Progress

-----------------------------------------------------------------------------
(* Every step, and what follows.                                           *)

\* An open transaction, by its operation, its remaining statements and what it sees.
OpenTx(op, todo, d) == [open |-> TRUE, op |-> op, todo |-> todo, seen |-> d]

\* The inductive invariant.
StoreInv ==
    /\ disk \in Tables /\ Agree(disk)
    /\ receipts \subseteq Receipts /\ \A r \in receipts : Stands(r, disk)
    /\ \/ tx = Closed
       \/ \E op \in Operation : \E todo, d : tx = OpenTx(op, todo, d) /\ Progress(op, todo, d)

\* It holds of the empty database.
LEMMA StoreInitHolds == StoreInit => StoreInv
  <1> SUFFICES ASSUME StoreInit PROVE StoreInv
    OBVIOUS
  <1>1. <<>> \in Seq(Entry) /\ Len(<<>>) = 0
    OBVIOUS
  <1>2. /\ disk \in Tables /\ disk.artifacts = {} /\ disk.checkpoints = {}
        /\ \A s \in Ids : disk.journal[s] = <<>>
    BY <1>1 DEF StoreInit, Tables
  <1>3. Agree(disk)
    BY <1>1, <1>2 DEF Agree
  <1> QED BY <1>2, <1>3 DEF StoreInit, StoreInv

\* What an open transaction is.
LEMMA OpenFields ==
    ASSUME StoreInv, tx.open
    PROVE  \E op \in Operation : \E todo, d :
              /\ tx = OpenTx(op, todo, d) /\ Progress(op, todo, d)
              /\ tx.op = op /\ tx.todo = todo /\ tx.seen = d
  <1>1. tx # Closed
    BY DEF Closed
  <1>2. PICK op \in Operation : \E todo, d : tx = OpenTx(op, todo, d) /\ Progress(op, todo, d)
    BY <1>1 DEF StoreInv
  <1>3. PICK todo, d : tx = OpenTx(op, todo, d) /\ Progress(op, todo, d)
    BY <1>2
  <1>4. tx.op = op /\ tx.todo = todo /\ tx.seen = d
    BY <1>3 DEF OpenTx
  <1> QED BY <1>3, <1>4

\* A transaction that ends with what it sees committed.
LEMMA CommitKeeps ==
    ASSUME StoreInv, tx.open, tx.todo = <<>>, disk' = tx.seen, tx' = Closed,
           receipts' \in {receipts, receipts \cup {Receipt(tx.op, tx.seen)}}
    PROVE  StoreInv' /\ AddsWhole(disk, disk')
  <1>1. PICK op \in Operation : \E todo, d :
              /\ tx = OpenTx(op, todo, d) /\ Progress(op, todo, d)
              /\ tx.op = op /\ tx.todo = todo /\ tx.seen = d
    BY OpenFields
  <1>2. PICK d : Progress(op, <<>>, d) /\ tx.op = op /\ tx.seen = d
    BY <1>1
  <1>3. Committable(op, disk, d)
    BY <1>2, DoneIsCommittable DEF StoreInv
  <1>4. d \in Tables /\ Agree(d)
    BY <1>3, CommittableAgrees DEF StoreInv
  <1>5. AddsWhole(disk, d) /\ Grows(d, disk)
    BY <1>3, <1>4, CommittableIsWhole DEF StoreInv
  <1>6. Receipt(op, d) \in Receipts /\ Stands(Receipt(op, d), d)
    BY <1>3, <1>4, ReceiptStands DEF StoreInv
  <1>7. \A r \in receipts : Stands(r, d)
    BY <1>4, <1>5, StandsKept DEF StoreInv
  <1>8. disk' = d /\ receipts' \subseteq Receipts /\ \A r \in receipts' : Stands(r, d)
    BY <1>2, <1>6, <1>7 DEF StoreInv
  <1>9. \A r \in receipts' : Stands(r, disk')
    BY <1>8
  <1> QED BY <1>4, <1>5, <1>8, <1>9 DEF StoreInv

\* A transaction that ends with nothing committed.
LEMMA RollbackKeeps ==
    ASSUME StoreInv, tx' = Closed, UNCHANGED <<disk, receipts>>
    PROVE  StoreInv' /\ AddsWhole(disk, disk')
  BY DEF StoreInv, AddsWhole

\* Every statement, commit, rollback and crash keeps it and adds whole operations.
LEMMA StoreStepKeeps ==
    ASSUME StoreInv, [StoreNext]_storeVars
    PROVE  StoreInv' /\ AddsWhole(disk, disk')
  <1>1. CASE BeginTransaction
    <2>1. PICK op \in Appends \cup Artifacts \cup Checkpoints \cup Compactions :
            /\ Acceptable(op) /\ tx' = [open |-> TRUE, op |-> op, todo |-> Statements(op), seen |-> disk]
      BY <1>1 DEF BeginTransaction
    <2>2. op \in Operation /\ UNCHANGED <<disk, receipts>>
      BY <1>1, <2>1 DEF Operation, BeginTransaction
    <2>3. Progress(op, Statements(op), disk)
      BY <2>2, OperationFields DEF Statements, Progress
    <2>4. PICK todo, d : todo = Statements(op) /\ d = disk
      OBVIOUS
    <2>5. tx' = OpenTx(op, todo, d) /\ Progress(op, todo, d)'
      BY <2>1, <2>2, <2>3, <2>4, ProgressStays DEF OpenTx
    <2> QED BY <2>2, <2>5 DEF StoreInv, AddsWhole
  <1>2. CASE RunStatement
    <2>1. PICK op \in Operation : \E todo, d :
              /\ tx = OpenTx(op, todo, d) /\ Progress(op, todo, d)
              /\ tx.op = op /\ tx.todo = todo /\ tx.seen = d
      BY <1>2, OpenFields DEF RunStatement
    <2>2. PICK todo, d :
              /\ tx = OpenTx(op, todo, d) /\ Progress(op, todo, d)
              /\ tx.op = op /\ tx.todo = todo /\ tx.seen = d
      BY <2>1
    <2>3. /\ todo # <<>> /\ Holds(Head(todo), op, d)
          /\ tx' = [tx EXCEPT !.todo = Tail(@), !.seen = Effect(Head(tx.todo), tx.op, @)]
          /\ UNCHANGED <<disk, receipts>>
      BY <1>2, <2>2 DEF RunStatement
    <2>4. PICK left, seen : left = Tail(todo) /\ seen = Effect(Head(todo), op, d)
      OBVIOUS
    <2>5. tx' = OpenTx(op, left, seen)
      <3>1. tx = [open |-> TRUE, op |-> op, todo |-> todo, seen |-> d]
        BY <2>2 DEF OpenTx
      <3>2. tx' = [[tx EXCEPT !.todo = left] EXCEPT !.seen = seen]
        BY <2>2, <2>3, <2>4, <3>1
      <3> QED BY <3>1, <3>2 DEF OpenTx
    <2>6. Progress(op, left, seen)
      BY <2>2, <2>3, <2>4, StatementProgress
    <2>7. Progress(op, left, seen)'
      BY <2>3, <2>6, ProgressStays
    <2> QED BY <2>3, <2>5, <2>7 DEF StoreInv, AddsWhole
  <1>3. CASE StatementFails \/ Abandoned
    BY <1>3, RollbackKeeps DEF StatementFails, Abandoned, Rollback
  <1>4. CASE CommitTransaction
    BY <1>4, CommitKeeps DEF CommitTransaction
  <1>5. CASE CommitOutcomeUnknown
    BY <1>5, CommitKeeps, RollbackKeeps DEF CommitOutcomeUnknown
  <1>6. CASE UNCHANGED storeVars
    <2>1. UNCHANGED <<disk, receipts>> /\ tx' = tx
      BY <1>6 DEF storeVars
    <2>2. CASE tx = Closed
      BY <2>1, <2>2 DEF StoreInv, AddsWhole
    <2>3. ASSUME NEW op \in Operation, NEW todo, NEW d, tx = OpenTx(op, todo, d), Progress(op, todo, d)
          PROVE  StoreInv' /\ AddsWhole(disk, disk')
      <3>1. Progress(op, todo, d)' /\ tx' = OpenTx(op, todo, d)
        BY <2>1, <2>3, ProgressStays
      <3> QED BY <2>1, <2>3, <3>1 DEF StoreInv, AddsWhole
    <2> QED BY <2>2, <2>3 DEF StoreInv
  <1> QED BY <1>1, <1>2, <1>3, <1>4, <1>5, <1>6 DEF StoreNext

\* The store's account of its tables, in every state.
THEOREM StoreHolds == StoreSpec => []StoreInv
  <1>1. StoreInv /\ [StoreNext]_storeVars => StoreInv'
    BY StoreStepKeeps
  <1> QED BY <1>1, StoreInitHolds, PTL DEF StoreSpec

\* TablesAgree: the tables agree with the journal and with every receipt the
\* store returned, whatever statement fails and whenever the process ends
\* (session_store/turso).
THEOREM TablesAlwaysAgree == StoreSpec => []TablesAgree
  <1>1. StoreInv => RowsAgree
    BY DEF StoreInv, Agree, EntryAgrees, RowsAgree
  <1>2. StoreInv => ReceiptsStand
    BY DEF StoreInv, Stands, ReceiptsStand
  <1>3. StoreInv => TablesAgree
    BY <1>1, <1>2 DEF TablesAgree
  <1> QED BY <1>3, StoreHolds, PTL

\* What one transaction adds to a journal is a whole operation, or nothing.
THEOREM OperationsAreWhole == StoreSpec => WholeOperationsOnly
  <1>1. AddsWhole(disk, disk') => AddsWholeOperation
    BY DEF AddsWhole, WholeAdded, AddsWholeOperation
  <1>2. StoreInv /\ [StoreNext]_storeVars => [AddsWholeOperation]_storeVars
    BY <1>1, StoreStepKeeps
  <1> QED BY <1>2, StoreHolds, PTL DEF StoreSpec, WholeOperationsOnly

===============================================================================
