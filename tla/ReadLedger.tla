------------------------------- MODULE ReadLedger -------------------------------
(***************************************************************************)
(* read_file, write_file and edit_file on one path, the read ledger that    *)
(* licenses whole-file writes, the eviction of sightings when compaction    *)
(* replaces the conversation, a subagent with a ledger of its own, and      *)
(* another process that writes or deletes the file at any time.             *)
(*                                                                         *)
(* Every write to disk makes a new version; a version is its own stamp      *)
(* (modification time and size together tell versions apart).  The content  *)
(* of a version is abstracted to how often an edit's old_text occurs in it. *)
(***************************************************************************)
EXTENDS Sightings, FiniteSets

CONSTANTS
    Races,      \* BOOLEAN: may the other process write while a call runs
    Spills,     \* BOOLEAN: may compaction spill a result that stays
    MaxIds      \* bound on the tool calls of a history

VARIABLES
    disk,      \* the file: version (0 when absent) and occurrences of old_text
    fresh,     \* versions made so far
    reader,    \* the session whose call runs: "parent" or "child"
    fileCall,  \* the tool call in progress
    ledger,    \* each session's sighting of the path
    view,      \* each session's conversation: what its results show of the file
    fileCalls  \* tool calls begun

ledgerVars == <<disk, fresh, reader, fileCall, ledger, view, fileCalls>>

Readers == {"parent", "child"}
NoSighting == [known |-> FALSE, stamp |-> 0, witness |-> 0, evicted |-> FALSE, how |-> "seen"]
NoStep == [at |-> "idle", tool |-> "none", id |-> 0, stamp |-> 0, all |-> FALSE, occ |-> 0, base |-> 0]

StampNow == IF disk.version = 0 THEN NoStamp ELSE disk.version

\* Is overwriting the file as it stands refused?
Refused == disk.version # 0 /\ Standing(ledger[reader], disk.version) # "current"

Matches(all) == IF all THEN disk.occ > 0 ELSE disk.occ = 1

\* What the conversation shows: a call's result names a version, in full or as
\* the marker the spill pass left in its place.
Shown(id, version) == [id |-> id, version |-> version, form |-> "full"]
InView(s, version) == \E x \in view[s] : x.version = version /\ x.form = "full"
Witnessed(s) == {x.id : x \in view[s]}

LedgerInit ==
    /\ disk \in {[version |-> 0, occ |-> 0], [version |-> 1, occ |-> 1], [version |-> 1, occ |-> 2]}
    /\ fresh = 1 /\ reader = "parent" /\ fileCall = NoStep /\ fileCalls = 0
    /\ ledger = [s \in Readers |-> NoSighting]
    /\ view = [s \in Readers |-> {}]

SightKeepsEviction(stamp, how) ==
    ledger' = [ledger EXCEPT ![reader] =
        [known |-> TRUE, stamp |-> stamp, witness |-> fileCall.id, evicted |-> @.evicted, how |-> how]]
Sight(stamp, how) ==
    ledger' = [ledger EXCEPT ![reader] =
        [known |-> TRUE, stamp |-> stamp, witness |-> fileCall.id, evicted |-> FALSE, how |-> how]]

TouchRevives(stamp, how) ==
    ledger' = IF ledger[reader].known
              THEN [ledger EXCEPT ![reader].stamp = stamp, ![reader].how = how, ![reader].evicted = FALSE]
              ELSE ledger
\* Only the stamp of a sighting moves, and only if there is one.
Touch(stamp, how) ==
    ledger' = IF ledger[reader].known
              THEN [ledger EXCEPT ![reader].stamp = stamp, ![reader].how = how]
              ELSE ledger

ShowVersion(version) == view' = [view EXCEPT ![reader] = @ \cup {Shown(fileCall.id, version)}]

\* The call ends without touching the file or the ledger.
RefuseTool == fileCall' = NoStep /\ UNCHANGED <<disk, fresh, reader, ledger, view, fileCalls>>

BeginTool(call) == fileCall' = [call EXCEPT !.id = fileCalls + 1] /\ fileCalls' = fileCalls + 1
ToolIdle == fileCall.at = "idle" /\ fileCalls < MaxIds

-----------------------------------------------------------------------------
(* read_file: stamp, then contents.                                        *)

ReadOpen ==
    /\ ToolIdle /\ disk.version # 0
    /\ BeginTool([NoStep EXCEPT !.at = "reading", !.tool = "read", !.stamp = StampNow])
    /\ UNCHANGED <<disk, fresh, reader, ledger, view>>

\* The open file may show what it held or what was written into it since.
ReadContents ==
    /\ fileCall.at = "reading"
    /\ \E version \in {fileCall.stamp, disk.version} \ {0} : ShowVersion(version)
    /\ Sight(fileCall.stamp, "seen")
    /\ fileCall' = NoStep
    /\ UNCHANGED <<disk, fresh, reader, fileCalls>>

-----------------------------------------------------------------------------
(* write_file: refused before the prompt, and again after it.              *)

WritePrepare ==
    /\ ToolIdle /\ ~Refused
    /\ BeginTool([NoStep EXCEPT !.at = "asked", !.tool = "write"])
    /\ UNCHANGED <<disk, fresh, reader, ledger, view>>

WriteCheckOnce ==
    /\ fileCall.at = "asked" /\ fileCall.tool = "write"
    /\ fileCall' = [fileCall EXCEPT !.at = "writing"]
    /\ UNCHANGED <<disk, fresh, reader, ledger, view, fileCalls>>

WriteCheck ==
    /\ fileCall.at = "asked" /\ fileCall.tool = "write"
    /\ IF Refused
       THEN RefuseTool
       ELSE /\ fileCall' = [fileCall EXCEPT !.at = "writing"]
            /\ UNCHANGED <<disk, fresh, reader, ledger, view, fileCalls>>

\* Content goes to disk whole; a failed write leaves a truncated file behind.
WriteDisk ==
    /\ fileCall.at = "writing" /\ fresh < MaxVersion
    /\ \E occ \in 0..2 : disk' = [version |-> fresh + 1, occ |-> occ]
    /\ fresh' = fresh + 1
    /\ \/ fileCall' = [fileCall EXCEPT !.at = "stamping", !.stamp = fresh + 1]
       \/ fileCall' = NoStep
    /\ UNCHANGED <<reader, ledger, view, fileCalls>>

StampKind == IF disk.version = fileCall.stamp THEN "seen" ELSE "absorbed"

WriteStamp ==
    /\ fileCall.at = "stamping" /\ fileCall.tool = "write"
    /\ Sight(StampNow, StampKind)
    /\ ShowVersion(fileCall.stamp)
    /\ fileCall' = NoStep
    /\ UNCHANGED <<disk, fresh, reader, fileCalls>>

-----------------------------------------------------------------------------
(* edit_file: matched before the prompt, and again after it.               *)

EditPrepare(all) ==
    /\ ToolIdle /\ disk.version # 0 /\ Matches(all)
    /\ BeginTool([NoStep EXCEPT !.at = "asked", !.tool = "edit", !.all = all, !.occ = disk.occ])
    /\ UNCHANGED <<disk, fresh, reader, ledger, view>>

\* The file is read again; the edit is redone on what it holds now.
EditCheck ==
    /\ fileCall.at = "asked" /\ fileCall.tool = "edit"
    /\ IF disk.version = 0 \/ ~Matches(fileCall.all) \/ disk.occ # fileCall.occ
       THEN RefuseTool
       ELSE /\ fileCall' = [fileCall EXCEPT !.at = "writing", !.base = disk.version]
            /\ UNCHANGED <<disk, fresh, reader, ledger, view, fileCalls>>

\* fileCall.base names the version the edited text was computed from.
EditStamp ==
    LET s == ledger[reader]
        how == IF StampKind = "absorbed" THEN "absorbed"
               ELSE IF Standing(s, fileCall.base) = "stale" THEN "laundered" ELSE s.how
    IN
    /\ fileCall.at = "stamping" /\ fileCall.tool = "edit"
    /\ Touch(StampNow, how)
    /\ view' = [view EXCEPT ![reader] = @ \cup
            {[x EXCEPT !.version = fileCall.stamp] : x \in {x \in view[reader] : x.version = fileCall.base}}]
    /\ fileCall' = NoStep
    /\ UNCHANGED <<disk, fresh, reader, fileCalls>>

\* The contents are not UTF-8, or the file cannot be opened for writing.
ToolFails == fileCall.at \in {"reading", "writing"} /\ RefuseTool

\* The user denies, or the turn is cancelled at the prompt.
PromptDenied == fileCall.at = "asked" /\ RefuseTool

-----------------------------------------------------------------------------
(* The world around a call.                                                *)

OtherWrites ==
    /\ Races \/ fileCall.at \in {"idle", "asked"}
    /\ \/ /\ fresh < MaxVersion
          /\ \E occ \in 0..2 : disk' = [version |-> fresh + 1, occ |-> occ]
          /\ fresh' = fresh + 1
       \/ /\ disk.version # 0
          /\ disk' = [version |-> 0, occ |-> 0] /\ UNCHANGED fresh
    /\ UNCHANGED <<reader, fileCall, ledger, view, fileCalls>>

\* A compacted context is installed: some results are gone, some are markers;
\* a sighting whose witness is gone is evicted.
CompactView ==
    /\ fileCall.at = "idle" /\ reader = "parent"
    /\ \E keep \in SUBSET Witnessed("parent") :
       \E spilled \in (IF Spills THEN SUBSET keep ELSE {{}}) :
          /\ view' = [view EXCEPT !["parent"] =
                {[x EXCEPT !.form = IF x.id \in spilled THEN "marker" ELSE x.form] :
                    x \in {x \in @ : x.id \in keep}}]
          /\ ledger' = [ledger EXCEPT !["parent"].evicted = @ \/ ledger["parent"].witness \notin keep]
    /\ UNCHANGED <<disk, fresh, reader, fileCall, fileCalls>>

\* A subagent reads and writes with a ledger of its own while its parent waits
\* in the task call; a fork starts from the parent's messages.
ChildStarts ==
    /\ ToolIdle /\ reader = "parent"
    /\ reader' = "child"
    /\ ledger' = [ledger EXCEPT !["child"] = NoSighting]
    /\ \E start \in {view["parent"], {}} : view' = [view EXCEPT !["child"] = start]
    /\ fileCalls' = fileCalls + 1
    /\ UNCHANGED <<disk, fresh, fileCall>>

ChildReturns ==
    /\ fileCall.at = "idle" /\ reader = "child"
    /\ reader' = "parent"
    /\ ledger' = [ledger EXCEPT !["child"] = NoSighting]
    /\ view' = [view EXCEPT !["child"] = {}]
    /\ UNCHANGED <<disk, fresh, fileCall, fileCalls>>

LedgerNext ==
    \/ ReadOpen \/ ReadContents
    \/ WritePrepare \/ WriteCheck \/ WriteDisk \/ WriteStamp
    \/ \E all \in BOOLEAN : EditPrepare(all)
    \/ EditCheck \/ EditStamp
    \/ ToolFails \/ PromptDenied \/ OtherWrites \/ CompactView \/ ChildStarts \/ ChildReturns

LedgerSpec == LedgerInit /\ [][LedgerNext]_ledgerVars

-----------------------------------------------------------------------------
Overwrites == fileCall.at = "asked" /\ fileCall.tool = "write" /\ fileCall'.at = "writing" /\ disk.version # 0

\* What the ledger is for: a write_file that passes its check replaces content
\* the conversation still shows (read_ledger.rs, refuse_blind_overwrite).
OverwriteIsSeen == Overwrites => InView(reader, disk.version)
OverwritesOnlySeen == [][OverwriteIsSeen]_ledgerVars

\* The exact exposure of that promise: content the session does not have in
\* view is overwritten only after an edit moved a stale baseline, a change that
\* fell between a tool's own write and its stamp, or a spill that left a marker
\* under the witness.  A change during the prompt, a moved or evicted reading,
\* a failed write or a subagent's write never licenses it.
BlindByKnownWay ==
    Overwrites /\ ~InView(reader, disk.version) =>
        \/ ledger[reader].how \in {"laundered", "absorbed"}
        \/ \E x \in view[reader] : x.id = ledger[reader].witness /\ x.form = "marker"
\* A sighting that stands always has its witness in the conversation: neither
\* an edit nor a later call can revive one that compaction took away
\* (evict_unwitnessed, touch).
StandingIsWitnessed ==
    \A s \in Readers :
        ledger[s].known /\ ~ledger[s].evicted => ledger[s].witness \in Witnessed(s)

\* The guard leaves a move that satisfies it: reading the file, if nobody
\* changed it meanwhile, always makes the next whole-file write possible.
RereadIsCurrent ==
    ReadContents /\ disk.version = fileCall.stamp
        => Standing(ledger'[reader], disk.version) = "current"

\* The guard against blind overwrites has no hole but the known ones, and keeps
\* nobody out who has read the file (refuse_blind_overwrite, record).
BlindOnlyByKnownWays == [][BlindByKnownWay /\ RereadIsCurrent]_ledgerVars

=============================================================================
