--------------------------------- MODULE Memory ---------------------------------
(***************************************************************************)
(* Memories across sessions: load_memory and write_memory on the documents *)
(* below the project's memory root, the index scanned at startup, and the  *)
(* read ledger that licenses replacing a document.  load_memory records    *)
(* the file it resolved, write_memory asks about the path it composed.     *)
(*                                                                         *)
(* Every write makes a new version, which is its own stamp, as in          *)
(* ReadLedger.  Of a document's content only its form is kept: "long" does *)
(* not fit the bound of a loaded body, "binary" is not UTF-8.              *)
(***************************************************************************)
EXTENDS Sightings, FiniteSets

CONSTANTS
    Slugs,       \* names of memories
    Starts,      \* what may be stored at first, by name
    LinkTarget,  \* the document a symlink of a name leads to, by name
    MaxLoads     \* bound on the tool calls and sessions of a history

VARIABLES
    linked,   \* is the memory root reached through a symlink
    stored,   \* the documents
    made,     \* versions made so far
    index,    \* names listed in the system prompt
    memCall,  \* the tool call in progress
    sighted,  \* the ledger, by path
    told,     \* the conversation: versions its results show
    loads     \* tool calls and sessions begun

memVars == <<linked, stored, made, index, memCall, sighted, told, loads>>

Forms == {"text", "long", "blank", "binary"}
Document(kind, version, form) == [kind |-> kind, version |-> version, form |-> form]
Absent == Document("absent", 0, "blank")
Documents == {Document(k, v, f) : k \in {"absent", "file", "link", "dir"}, v \in 0..MaxVersion, f \in Forms}

\* A link of the root leads to a name of the root; what is there at first was
\* there before any write of this history.
ASSUME RootAssumption ==
    /\ LinkTarget \in [Slugs -> Slugs]
    /\ Starts \subseteq [Slugs -> Documents]
    /\ \A start \in Starts : \A n \in Slugs :
          /\ start[n].version <= 1
          /\ start[n].kind = "absent" => start[n] = Absent
          /\ start[n].kind = "file" => start[n].version = 1

Unseen == [known |-> FALSE, stamp |-> 0, witness |-> 0, evicted |-> FALSE, how |-> "seen"]
NoCall == [at |-> "idle", tool |-> "none", id |-> 0, name |-> "none", path |-> <<>>, version |-> 0, form |-> "text"]

\* Paths: the one composed from the root, and the one canonicalize returns.
PathsOf(n) == {<<"given", n>>, <<"real", n>>}
Composed(n) == IF linked THEN <<"given", n>> ELSE <<"real", n>>
Followed(n) == IF stored[n].kind = "link" THEN LinkTarget[n] ELSE n
Reached(n) == <<"real", Followed(n)>>

At(path) == stored[path[2]]
StampAt(path) == IF At(path).kind = "absent" THEN NoStamp ELSE At(path).version

\* refuse_unseen_overwrite: a link is left to the open that will not follow it.
UnseenOverwrite(n) == stored[n].kind = "file" /\ Standing(sighted[Composed(n)], stored[n].version) # "current"

Readable(n) == At(Reached(n)).kind = "file" /\ At(Reached(n)).form # "binary"

-----------------------------------------------------------------------------
(* The index: every file of a memory's name that holds readable text.       *)

ScanOfNames == {n \in Slugs : stored[n].kind # "absent"}
Scan == {n \in Slugs : Readable(n) /\ At(Reached(n)).form # "blank"}

MemoryInit ==
    /\ linked \in BOOLEAN
    /\ stored \in Starts
    /\ made = 1 /\ loads = 0 /\ memCall = NoCall /\ index = Scan
    /\ sighted = [p \in UNION {PathsOf(n) : n \in Slugs} |-> Unseen]
    /\ told = {}

MemoryIdle == memCall.at = "idle" /\ loads < MaxLoads

\* A session ends and another begins, with a ledger and a conversation of its own.
NewSession ==
    /\ MemoryIdle /\ loads' = loads + 1
    /\ index' = Scan
    /\ sighted' = [p \in DOMAIN sighted |-> Unseen] /\ told' = {}
    /\ UNCHANGED <<linked, stored, made, memCall>>

BeginMemory(call) == memCall' = [call EXCEPT !.id = loads + 1] /\ loads' = loads + 1
EndCall == memCall' = NoCall /\ UNCHANGED <<linked, stored, made, index, sighted, told, loads>>

RecordCarried(path, how) ==
    sighted' = [sighted EXCEPT ![path] =
        [known |-> TRUE, stamp |-> StampAt(path), witness |-> memCall.id, evicted |-> @.evicted, how |-> how]]
Record(path, how) ==
    sighted' = [sighted EXCEPT ![path] =
        [known |-> TRUE, stamp |-> StampAt(path), witness |-> memCall.id, evicted |-> FALSE, how |-> how]]
Tell(version, form) == told' = told \cup {[id |-> memCall.id, version |-> version, form |-> form]}

\* Did the path stay what the call read or wrote until it was stamped?
Observed == IF At(memCall.path).version = memCall.version THEN "seen" ELSE "absorbed"

-----------------------------------------------------------------------------
(* load_memory: resolve, ask, read, stamp.                                  *)

LoadAsk(n) ==
    /\ MemoryIdle /\ At(Reached(n)).kind # "absent"
    /\ BeginMemory([NoCall EXCEPT !.at = "asked", !.tool = "load", !.name = n, !.path = Reached(n)])
    /\ UNCHANGED <<linked, stored, made, index, sighted, told>>

LoadRead ==
    /\ memCall.at = "asked" /\ memCall.tool = "load"
    /\ IF At(memCall.path).kind = "file" /\ At(memCall.path).form # "binary"
       THEN /\ memCall' = [memCall EXCEPT !.at = "stamping", !.version = At(memCall.path).version,
                                          !.form = At(memCall.path).form]
            /\ UNCHANGED <<linked, stored, made, index, sighted, told, loads>>
       ELSE EndCall

\* A document too long is shown cut, and counts as seen.
LoadStamp ==
    /\ memCall.at = "stamping" /\ memCall.tool = "load"
    /\ Record(memCall.path, Observed)
    /\ Tell(memCall.version, IF memCall.form = "long" THEN "cut" ELSE "full")
    /\ memCall' = NoCall
    /\ UNCHANGED <<linked, stored, made, index, loads>>

-----------------------------------------------------------------------------
(* write_memory: refused before the prompt, and again after it.             *)

WriteAsk(n) ==
    /\ MemoryIdle /\ ~UnseenOverwrite(n)
    /\ BeginMemory([NoCall EXCEPT !.at = "asked", !.tool = "write", !.name = n, !.path = Composed(n)])
    /\ UNCHANGED <<linked, stored, made, index, sighted, told>>

RecheckOnce ==
    /\ memCall.at = "asked" /\ memCall.tool = "write"
    /\ memCall' = [memCall EXCEPT !.at = "writing"]
    /\ UNCHANGED <<linked, stored, made, index, sighted, told, loads>>
Recheck ==
    /\ memCall.at = "asked" /\ memCall.tool = "write"
    /\ IF UnseenOverwrite(memCall.name)
       THEN EndCall
       ELSE /\ memCall' = [memCall EXCEPT !.at = "writing"]
            /\ UNCHANGED <<linked, stored, made, index, sighted, told, loads>>

\* A link is not followed and a directory not opened; a write that fails leaves
\* a document cut short.
WriteDocument ==
    /\ memCall.at = "writing" /\ made < MaxVersion
    /\ IF stored[memCall.name].kind \in {"link", "dir"}
       THEN EndCall
       ELSE /\ \/ /\ \E f \in {"text", "long"} : stored' =
                        [stored EXCEPT ![memCall.name] = Document("file", made + 1, f)]
                  /\ memCall' = [memCall EXCEPT !.at = "stamping", !.version = made + 1]
               \/ /\ stored' = [stored EXCEPT ![memCall.name] = Document("file", made + 1, "blank")]
                  /\ memCall' = NoCall
            /\ made' = made + 1
            /\ UNCHANGED <<linked, index, sighted, told, loads>>

WroteStamp ==
    /\ memCall.at = "stamping" /\ memCall.tool = "write"
    /\ Record(memCall.path, Observed)
    /\ Tell(memCall.version, "full")
    /\ memCall' = NoCall
    /\ UNCHANGED <<linked, stored, made, index, loads>>

\* The user denies, the turn is cancelled, or the file cannot be opened.
CallDropped == memCall.at \in {"asked", "writing"} /\ EndCall

-----------------------------------------------------------------------------
(* Another process of the project, and compaction.                          *)

OtherChanges ==
    /\ \E n \in Slugs :
        /\ stored[n].kind \in {"absent", "file"}
        /\ \/ /\ made < MaxVersion /\ made' = made + 1
              /\ \E f \in Forms : stored' = [stored EXCEPT ![n] = Document("file", made + 1, f)]
           \/ stored[n].kind = "file" /\ stored' = [stored EXCEPT ![n] = Absent] /\ UNCHANGED made
    /\ UNCHANGED <<linked, index, memCall, sighted, told, loads>>

CompactTold ==
    /\ memCall.at = "idle"
    /\ \E keep \in SUBSET {x.id : x \in told} : \E spilled \in SUBSET keep :
        /\ told' = {[x EXCEPT !.form = IF x.id \in spilled THEN "marker" ELSE x.form] :
                      x \in {x \in told : x.id \in keep}}
        /\ sighted' = [p \in DOMAIN sighted |->
                        [sighted[p] EXCEPT !.evicted = @ \/ sighted[p].witness \notin keep]]
    /\ UNCHANGED <<linked, stored, made, index, memCall, loads>>

MemoryNext ==
    \/ \E n \in Slugs : LoadAsk(n) \/ WriteAsk(n)
    \/ LoadRead \/ LoadStamp \/ Recheck \/ WriteDocument \/ WroteStamp \/ CallDropped
    \/ OtherChanges \/ CompactTold \/ NewSession

MemorySpec == MemoryInit /\ [][MemoryNext]_memVars

-----------------------------------------------------------------------------
Replaces == memCall.at = "asked" /\ memCall.tool = "write" /\ memCall'.at = "writing"
            /\ stored[memCall.name].kind = "file"
ShownWhole(version) == \E x \in told : x.version = version /\ x.form = "full"

\* A memory is replaced unseen only if it changed between a call's own read or
\* write and its stamp, if a spill took the result that showed it, or if it was
\* too long to be shown whole (write_memory, refuse_unseen_overwrite).
ReplacesByKnownWay ==
    Replaces /\ ~ShownWhole(stored[memCall.name].version) =>
        LET s == sighted[Composed(memCall.name)]
        IN s.how = "absorbed" \/ \E x \in told : x.id = s.witness /\ x.form \in {"marker", "cut"}

\* Loading a memory always unlocks replacing it, unless a symlink makes the two
\* tools speak of it by different paths (load_memory, write_memory).
LoadUnlocks ==
    LoadStamp /\ Observed = "seen" /\ Reached(memCall.name) = Composed(memCall.name)
        => Standing(sighted'[Composed(memCall.name)], stored[memCall.name].version) = "current"

\* A sighting that stands has its result in the conversation.
SightingsHaveResults ==
    \A p \in DOMAIN sighted :
        sighted[p].known /\ ~sighted[p].evicted => sighted[p].witness \in {x.id : x \in told}

\* Every name a session's index lists can be loaded (MemoryCatalog::scan).
IndexedLoads == NewSession => \A n \in index' : Readable(n)

\* A write of a memory replaces content the conversation does not show only in
\* the ways named here, and only under a sighting that has its witness; loading
\* the memory always unlocks the write; a name the index lists can be loaded
\* (refuse_unseen_overwrite, LoadMemory::run_prepared, MemoryCatalog::scan).
MemoriesAreGuarded ==
    [][ReplacesByKnownWay /\ SightingsHaveResults /\ LoadUnlocks /\ IndexedLoads]_memVars

\* "a write landing between the two leaves the file no longer matching what was
\* recorded and is caught as a change rather than absorbed" (ReadLedger::record).
ChangeIsCaught == LoadStamp /\ Observed = "absorbed" =>
    Standing(sighted'[memCall.path], StampAt(memCall.path)) # "current"
CaughtNotAbsorbed == [][ChangeIsCaught]_memVars

=============================================================================
