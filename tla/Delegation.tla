------------------------------ MODULE Delegation ------------------------------
(***************************************************************************)
(* The turns of a session as far as documents scanned at the start shape    *)
(* them: agent types and skills stand below a global and a workspace root,  *)
(* a delegation derives its runner from an agent type, its model calls are  *)
(* billed to the turn, and every request is framed by the system message    *)
(* and the plan.  What a call may do and how a transcript stays paired is   *)
(* in other modules.                                                        *)
(*                                                                         *)
(* A document keeps what tells documents apart: whether its front matter is *)
(* closed, the fields in it, and what its bytes are.  A model call costs    *)
(* one unit.                                                                *)
(***************************************************************************)
EXTENDS Naturals, Sequences, SequencesExt, FiniteSets

CONSTANTS
    Unset,           \* a field, a model or a plan that is not there
    Shelves,         \* [agents, skills]: the documents of each of the two roots, sorted by file
    ParentTools,     \* tools registered for the session
    Registry,        \* name of a model or profile -> the model and its output budget
    Requested,       \* agent types a model may ask for, "" for none
    MaxIterations,   \* model calls of a turn
    MaxBatch,        \* bound on the tool calls of a batch
    MaxTurns         \* bound on the turns and model switches of a history

ASSUME UnsetIsNoPlan == Unset \notin {0, 1}
ASSUME ShelvesHaveTwoRoots ==
    \A s \in Shelves : /\ s = [agents |-> s.agents, skills |-> s.skills]
                       /\ \A root \in {1, 2} : s.agents[root] \in Seq(ToSet(s.agents[root]))
ASSUME RegistryOfModels ==
    \A n \in DOMAIN Registry : Registry[n] = [model |-> Registry[n].model, maxTokens |-> Registry[n].maxTokens]

VARIABLES
    shelf,      \* the documents on disk
    types,      \* the agent types scanned at the start
    skills,     \* the skills scanned at the start
    runner,     \* model and output budget
    session,    \* is compaction enabled; plan, messages and compactions
    turn,       \* the turn in progress
    task,       \* the delegation being served, or NoTask
    requests,       \* the last two requests of the session, the newer one last
    spent       \* history: model calls of the turn, and those nobody is billed for

catalogVars == <<types, skills>>
delegationVars == <<shelf, catalogVars, runner, session, turn, task, requests, spent>>

-----------------------------------------------------------------------------
(* Documents.  Front matter that is not closed is body.                     *)

Field(d, field) == IF d.closed THEN d[field] ELSE Unset
DocumentName(d) == IF Field(d, "name") = Unset THEN d.file ELSE d.name
ReadSkill(d) == d.form \notin {"unreadable", "binary", "blank"} /\ DocumentName(d) # ""

Builtins == {"general", "fork"}
ReadAnyType(d) == ReadSkill(d)
ReadAgentType(d) == ReadSkill(d) /\ DocumentName(d) \notin Builtins

\* A list of nothing but blanks restricts nothing.
ParseTools(list) ==
    IF list = Unset \/ ToSet(list) \subseteq {""} THEN Unset ELSE ToSet(list) \ {""}

AgentType(name, tools, instructions, model) ==
    [name |-> name, tools |-> tools, instructions |-> instructions, model |-> model]
BuiltinType(name) == AgentType(name, Unset, name = "fork", Unset)
TypeOf(d) ==
    AgentType(DocumentName(d), ParseTools(Field(d, "tools")), d.form # "bodyless",
              IF Field(d, "model") = "" THEN Unset ELSE Field(d, "model"))

\* The usable documents of all roots by name, a later one in the place of an
\* earlier one.
InsertFirst(catalog, name, value) ==
    IF name \in DOMAIN catalog THEN catalog ELSE [n \in DOMAIN catalog \cup {name} |-> IF n = name THEN value ELSE catalog[n]]
InsertEntry(catalog, name, value) == [n \in DOMAIN catalog \cup {name} |-> IF n = name THEN value ELSE catalog[n]]
Scan(docs, usable) ==
    LET catalog[n \in 0..Len(docs)] ==
          IF n = 0 THEN [name \in {} |-> Unset]
          ELSE IF docs[n] \in usable THEN InsertEntry(catalog[n - 1], DocumentName(docs[n]), docs[n]) ELSE catalog[n - 1]
    IN catalog[Len(docs)]
Documents(roots) == roots[1] \o roots[2]
AgentTypesIn(docs) == {d \in ToSet(docs) : ReadAgentType(d)}
SkillsIn(docs) == {d \in ToSet(docs) : ReadSkill(d)}
ScanTypes(roots) ==
    LET found == Scan(Documents(roots), AgentTypesIn(Documents(roots)))
    IN [n \in DOMAIN found |-> TypeOf(found[n])]
ScanSkills(roots) == DOMAIN Scan(Documents(roots), SkillsIn(Documents(roots)))

Resolve(name) ==
    IF name \in Builtins THEN BuiltinType(name)
    ELSE IF name \in DOMAIN types THEN types[name] ELSE Unset

-----------------------------------------------------------------------------
(* The runner of a delegation, and the frame of a request.                  *)

WithoutTool(tools, name) == tools \ {name}
KeepsRegistered(tools, names) == IF names = Unset THEN tools ELSE ParentTools \cap names
KeepingTools(tools, names) == IF names = Unset THEN tools ELSE tools \cap names

\* A type's own model, if the registry knows it, comes with its own budget.
SubagentModelOnly(type) ==
    IF type.model \in DOMAIN Registry THEN [runner EXCEPT !.model = Registry[type.model].model] ELSE runner
SubagentModel(type) == IF type.model \in DOMAIN Registry THEN Registry[type.model] ELSE runner
SubagentRunner(type) ==
    [model |-> SubagentModel(type).model, maxTokens |-> SubagentModel(type).maxTokens,
     tools |-> KeepingTools(WithoutTool(ParentTools, "task"), type.tools),
     extra |-> type.instructions, compaction |-> FALSE]

\* The system message warns of summaries and of the runtime state, and the plan
\* follows the conversation in every request that has been warned of it.
Protects(s) == s.enabled \/ s.compactions > 0
Projects(s) == Protects(s) \/ s.plan # 0
SystemMessageOfDisk(s) ==
    [tools |-> ParentTools, types |-> DOMAIN types, skills |-> ScanSkills(shelf.skills), summaries |-> Protects(s), state |-> Projects(s)]
SystemMessage(s) ==
    [tools |-> ParentTools, types |-> DOMAIN types, skills |-> skills, summaries |-> Protects(s), state |-> Projects(s)]
SessionRequest(s) ==
    [system |-> SystemMessage(s), messages |-> s.messages, compactions |-> s.compactions,
     tail |-> IF Projects(s) THEN s.plan ELSE Unset]

-----------------------------------------------------------------------------
(* The turn.                                                                *)

Idle == [phase |-> "idle", iteration |-> 0, calls |-> 0, usage |-> 0, meter |-> 0, outcome |-> "none"]
Unspent == [calls |-> 0, lost |-> 0]
NoTask == [iteration |-> 0]

\* A session that is resumed may begin with a summary.
DelegationInit ==
    /\ shelf \in Shelves /\ types = ScanTypes(shelf.agents) /\ skills = ScanSkills(shelf.skills)
    /\ runner \in {Registry[n] : n \in DOMAIN Registry}
    /\ session \in [enabled : BOOLEAN, plan : {0}, messages : {0, 1}, compactions : {0, 1}, turns : {0}]
    /\ session.compactions = session.messages
    /\ turn = Idle /\ task = NoTask /\ requests = <<>> /\ spent = Unspent

\* A document is changed or removed while the process runs.
EditSkill(root, i) ==
    /\ shelf.skills[root][i].form # "unreadable"
    /\ shelf' = [shelf EXCEPT !.skills[root][i].form = "unreadable"]
    /\ UNCHANGED <<catalogVars, runner, session, turn, task, requests, spent>>

\* A switch replaces the model and its budget together; a delegation's own model
\* stays as it was resolved at the start.
SwitchRunner(name) ==
    /\ turn.phase = "idle" /\ session.turns < MaxTurns
    /\ runner' = Registry[name] /\ session' = [session EXCEPT !.turns = @ + 1]
    /\ UNCHANGED <<shelf, catalogVars, turn, task, requests, spent>>

Says(s) == [s EXCEPT !.messages = @ + 1]
BeginTurn ==
    /\ turn.phase = "idle" /\ session.turns < MaxTurns
    /\ session' = Says([session EXCEPT !.turns = @ + 1])
    /\ turn' = [Idle EXCEPT !.phase = "asking"]
    /\ UNCHANGED <<shelf, catalogVars, runner, task, requests, spent>>

Compact ==
    /\ turn.phase = "asking" /\ session.enabled /\ session.compactions < 2 /\ session.messages > 1
    /\ session' = [session EXCEPT !.messages = 1, !.compactions = @ + 1]
    /\ UNCHANGED <<shelf, catalogVars, runner, turn, task, requests, spent>>

Ask ==
    /\ turn.phase = "asking" /\ turn.iteration < MaxIterations
    /\ turn' = [turn EXCEPT !.phase = "model", !.iteration = @ + 1]
    /\ requests' = (IF requests = <<>> THEN <<>> ELSE <<Last(requests)>>) \o <<SessionRequest(session)>>
    /\ UNCHANGED <<shelf, catalogVars, runner, session, task, spent>>
Exhausted ==
    /\ turn.phase = "asking" /\ turn.iteration = MaxIterations
    /\ turn' = [turn EXCEPT !.phase = "over", !.outcome = "exhausted"]
    /\ UNCHANGED <<shelf, catalogVars, runner, session, task, requests, spent>>

\* The model answers, or asks for a batch of calls.
ModelAnswers ==
    /\ turn.phase = "model" /\ session' = Says(session) /\ spent' = [spent EXCEPT !.calls = @ + 1]
    /\ \/ turn' = [turn EXCEPT !.phase = "over", !.outcome = "answered", !.usage = @ + 1]
       \/ \E n \in 1..MaxBatch : turn' = [turn EXCEPT !.phase = "batch", !.calls = n, !.usage = @ + 1, !.meter = 0]
    /\ UNCHANGED <<shelf, catalogVars, runner, task, requests>>

\* The request fails, or the turn is cancelled: its bill is lost with it.
TurnFails ==
    /\ turn.phase \in {"asking", "model", "batch"}
    /\ turn' = [turn EXCEPT !.phase = "over", !.outcome = "failed"] /\ task' = NoTask
    /\ UNCHANGED <<shelf, catalogVars, runner, session, requests, spent>>
CloseTurn ==
    /\ turn.phase = "over" /\ turn' = Idle /\ spent' = Unspent
    /\ UNCHANGED <<shelf, catalogVars, runner, session, task, requests>>

-----------------------------------------------------------------------------
(* The calls of a batch, one after the other.                               *)

Serving == turn.phase = "batch" /\ turn.calls > 0 /\ task = NoTask
Served == turn' = [turn EXCEPT !.calls = @ - 1] /\ session' = Says(session)

BatchEndsUnmetered ==
    /\ turn.phase = "batch" /\ turn.calls = 0 /\ turn' = [turn EXCEPT !.phase = "asking"]
    /\ UNCHANGED <<shelf, catalogVars, runner, session, task, requests, spent>>
BatchEnds ==
    /\ turn.phase = "batch" /\ turn.calls = 0
    /\ turn' = [turn EXCEPT !.phase = "asking", !.usage = @ + turn.meter]
    /\ UNCHANGED <<shelf, catalogVars, runner, session, task, requests, spent>>

\* todo_write replaces the whole list, the empty one clears it; a list that is
\* not valid leaves the plan as it is.
WritePlan ==
    /\ Serving /\ turn' = [turn EXCEPT !.calls = @ - 1]
    /\ \E plan \in {0, 1} : session' = [Says(session) EXCEPT !.plan = plan]
    /\ UNCHANGED <<shelf, catalogVars, runner, task, requests, spent>>

\* Another tool, or a task call without prompt, of a type that does not exist,
\* or that is denied: a result, and nothing else.
OtherCall ==
    /\ Serving /\ Served
    /\ UNCHANGED <<shelf, catalogVars, runner, task, requests, spent>>

Delegate(name) ==
    LET type == Resolve(IF name = "" THEN "general" ELSE name)
    IN /\ Serving /\ type # Unset
       /\ task' = [type |-> type.name, runner |-> SubagentRunner(type), iteration |-> 0]
       /\ UNCHANGED <<shelf, catalogVars, runner, session, turn, requests, spent>>

SubagentAsks ==
    /\ task # NoTask /\ task.iteration < MaxIterations
    /\ task' = [task EXCEPT !.iteration = @ + 1] /\ spent' = [spent EXCEPT !.calls = @ + 1]
    /\ UNCHANGED <<shelf, catalogVars, runner, session, turn, requests>>

\* A report, or a budget used up, is billed to the batch; any other failure
\* carries no usage.
SubagentEnds ==
    /\ task # NoTask /\ task' = NoTask /\ session' = Says(session)
    /\ \/ /\ task.iteration > 0
          /\ turn' = [turn EXCEPT !.calls = @ - 1, !.meter = @ + task.iteration] /\ UNCHANGED spent
       \/ /\ turn' = [turn EXCEPT !.calls = @ - 1] /\ spent' = [spent EXCEPT !.lost = @ + task.iteration]
    /\ UNCHANGED <<shelf, catalogVars, runner, requests>>

DelegationNext ==
    \/ \E root \in DOMAIN shelf.skills : \E i \in DOMAIN shelf.skills[root] : EditSkill(root, i)
    \/ \E name \in DOMAIN Registry : SwitchRunner(name)
    \/ \E name \in Requested : Delegate(name)
    \/ BeginTurn \/ Compact \/ Ask \/ Exhausted \/ ModelAnswers \/ TurnFails \/ CloseTurn
    \/ BatchEnds \/ WritePlan \/ OtherCall \/ SubagentAsks \/ SubagentEnds
DelegationSpec == DelegationInit /\ [][DelegationNext]_delegationVars
-----------------------------------------------------------------------------
(* Properties.                                                              *)

\* The catalogs are what stood on the shelves at the start, the most specific
\* document of a name and of one root the last; a built-in is never replaced
\* (AgentTypeCatalog::scan, SkillCatalog::scan).
CatalogIsExact ==
    LET docs == Documents(shelf.agents)
        Named(n) == {i \in DOMAIN docs : ReadAgentType(docs[i]) /\ DocumentName(docs[i]) = n}
    IN /\ \A n \in DOMAIN types : \E i \in Named(n) :
             /\ \A k \in Named(n) : k <= i
             /\ types[n] = TypeOf(docs[i])
       /\ \A i \in DOMAIN docs : ReadAgentType(docs[i]) => DocumentName(docs[i]) \in DOMAIN types
       /\ \A b \in Builtins : b \notin DOMAIN types /\ Resolve(b).tools = Unset

\* A delegation never has a tool the session has not, never delegates again, and
\* keeps within the list of its type; its budget belongs to its model
\* (subagent_runner).
DelegationsOnlyNarrow ==
    task # NoTask =>
        /\ task.runner.tools \subseteq ParentTools \ {"task"}
        /\ Resolve(task.type).tools # Unset => task.runner.tools \subseteq Resolve(task.type).tools
        /\ [model |-> task.runner.model, maxTokens |-> task.runner.maxTokens] \in {Registry[n] : n \in DOMAIN Registry}

\* A turn that comes back with a bill has every model call on it, its own and its
\* delegations', but those of delegations that failed otherwise than by their
\* budget; a summary is accounted for by its compaction (accrued_usage,
\* classify_failure).
EveryCallIsBilled ==
    turn.outcome \in {"answered", "exhausted"} => turn.usage = spent.calls - spent.lost

\* From one request to the next only the end of the conversation and the plan
\* behind it change, so what a provider has cached stays good, unless the
\* conversation was compacted or, where compaction is off, a plan was begun or
\* cleared (freeze_request_projector, SystemPrompt).
RequestsGrow ==
    Len(requests) = 2 =>
        LET old == requests[1]
            new == requests[2]
        IN /\ new.messages > old.messages \/ new.compactions > old.compactions
           /\ \/ old.system = new.system
              \/ ~session.enabled /\ (old.tail = Unset) # (new.tail = Unset)

\* A delegation is its session's, with less: its type is what the most specific
\* document of that name says, it has no tool the session or the type does
\* without, its model calls are on the turn's bill, and the session's requests
\* go on as if it had not been (AgentTypeCatalog::scan, subagent_runner,
\* accrued_usage, freeze_request_projector).
DelegationsStand == CatalogIsExact /\ DelegationsOnlyNarrow /\ EveryCallIsBilled /\ RequestsGrow

===============================================================================
