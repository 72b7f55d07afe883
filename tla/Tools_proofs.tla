-------------------------------- MODULE Tools_proofs --------------------------------
(***************************************************************************)
(* Proofs about the tools.  ReadLedger and Memory: for any number of        *)
(* versions and calls, a sighting that licenses a whole-file write has its  *)
(* witness in the conversation, and content the conversation does not show  *)
(* is overwritten only in the known ways.  WebFetch: whatever the server,   *)
(* its redirects and the lookups answer, a fetch connects only to the host  *)
(* it was authorized for, and to no address that leads inside.  BashTool:   *)
(* whatever a shell and its children do, a call ends as its exit says, and  *)
(* with the head and the tail of the output.                                *)
(***************************************************************************)
EXTENDS ReadLedger, Memory, WebFetch, BashTool, Counting, SequenceTheorems

-----------------------------------------------------------------------------
(* ReadLedger: type correctness.                                            *)

Sighting == [known : BOOLEAN, stamp : Nat, witness : Nat, evicted : BOOLEAN,
             how : {"seen", "absorbed", "laundered"}]
Result == [id : Nat, version : Nat, form : {"full", "marker"}]
Step == [at : {"idle", "reading", "asked", "writing", "stamping"},
         tool : {"none", "read", "write", "edit"},
         id : Nat, stamp : Nat, all : BOOLEAN, occ : 0..2, base : Nat]

\* A version is made once: the file holds the newest one, or is absent.
LedgerType ==
    /\ disk \in [version : Nat, occ : 0..2]
    /\ fresh \in 1..MaxVersion
    /\ disk.version \in {0, fresh}
    /\ reader \in Readers
    /\ fileCall \in Step
    /\ ledger \in [Readers -> Sighting]
    /\ view \in [Readers -> SUBSET Result]
    /\ fileCalls \in Nat

\* The sighting's result, in full at the stamped version or as a marker.
Witness(s) ==
    \E x \in view[s] : /\ x.id = ledger[s].witness
                       /\ x.form = "marker" \/ x.version = ledger[s].stamp

\* The version an edit in progress was computed from.
Editing(s) ==
    s = reader /\ fileCall.tool = "edit" /\ fileCall.at \in {"writing", "stamping"}

\* A sighting known from a reading or from the session's own writes alone: when
\* it is good for the file, or for the edit in progress, its witness shows it.
SightingTrue(s) ==
    ledger[s].known /\ ~ledger[s].evicted /\ ledger[s].how = "seen" =>
        /\ ledger[s].stamp \in 1..fresh
        /\ ledger[s].stamp = disk.version \/ (Editing(s) /\ ledger[s].stamp = fileCall.base)
           => Witness(s)

\* The call in progress works on versions there have been.
CallTrue ==
    /\ fileCall.at \in {"reading", "stamping"} => fileCall.stamp \in 1..fresh
    /\ Editing(reader) => fileCall.base \in 1..fresh
    /\ fileCall.at = "reading" => fileCall.tool = "read"

\* The inductive invariant.
LedgerInv ==
    /\ LedgerType
    /\ CallTrue
    /\ StandingIsWitnessed
    /\ \A s \in Readers : SightingTrue(s)

\* It holds before any file was read.
LEMMA InitType == LedgerInit => LedgerInv
  <1> SUFFICES ASSUME LedgerInit PROVE LedgerInv
    OBVIOUS
  <1>1. NoSighting \in Sighting /\ NoStep \in Step
    BY DEF NoSighting, Sighting, NoStep, Step
  <1>2. LedgerType
    BY <1>1, LedgerAssumption DEF LedgerInit, LedgerType, Readers
  <1>3. \A s \in Readers : ~ledger[s].known
    BY DEF LedgerInit, NoSighting
  <1> QED BY <1>2, <1>3 DEF LedgerInit, LedgerInv, CallTrue, StandingIsWitnessed, SightingTrue,
          NoStep, Editing

\* The stamp of the file as it is, when it is there.
LEMMA StampIsVersion ==
    ASSUME LedgerType
    PROVE  /\ StampNow \in Nat
           /\ disk.version # 0 => StampNow = disk.version /\ StampNow = fresh
           /\ NoStamp \in Nat /\ NoStamp \notin 1..fresh /\ NoStamp # disk.version
  BY LedgerAssumption DEF LedgerType, StampNow, NoStamp

\* Steps that leave the sightings and the conversations alone, and make no
\* version good that was not.
LEMMA QuietLedger ==
    ASSUME LedgerInv, LedgerType', CallTrue', UNCHANGED <<ledger, view>>, fresh <= fresh',
           \A s \in Readers : \A v \in 1..fresh :
               v = disk'.version \/ (Editing(s)' /\ v = fileCall'.base)
               => v = disk.version \/ (Editing(s) /\ v = fileCall.base)
    PROVE  LedgerInv'
  <1>1. StandingIsWitnessed'
    BY DEF LedgerInv, StandingIsWitnessed, Witnessed
  <1>2. ASSUME NEW s \in Readers PROVE SightingTrue(s)'
    BY <1>2 DEF LedgerInv, LedgerType, SightingTrue, Witness
  <1> QED BY <1>1, <1>2 DEF LedgerInv

\* A call that stops, and one that begins.
LEMMA RefuseKeeps ==
    ASSUME LedgerInv, RefuseTool
    PROVE  LedgerInv'
  <1>1. NoStep \in Step /\ NoStep.at = "idle"
    BY DEF NoStep, Step
  <1>2. LedgerType' /\ CallTrue' /\ \A s : ~Editing(s)'
    BY <1>1 DEF RefuseTool, LedgerInv, LedgerType, CallTrue, Editing
  <1> QED BY <1>2, QuietLedger DEF RefuseTool, LedgerInv, LedgerType

\* A call that begins has touched neither the file nor the ledger.
LEMMA BeginKeeps ==
    ASSUME LedgerInv, ToolIdle, NEW call \in Step, BeginTool(call),
           call.at \in {"reading", "asked"},
           call.at = "reading" => call.tool = "read" /\ call.stamp \in 1..fresh,
           UNCHANGED <<disk, fresh, reader, ledger, view>>
    PROVE  LedgerInv'
  <1>1. fileCall' = [call EXCEPT !.id = fileCalls + 1] /\ fileCalls' = fileCalls + 1
        /\ fileCalls \in Nat
    BY DEF BeginTool, LedgerInv, LedgerType
  <1>2. /\ fileCall' \in Step /\ fileCall'.at = call.at
        /\ fileCall'.tool = call.tool /\ fileCall'.stamp = call.stamp
    BY <1>1 DEF Step
  <1>3. LedgerType' /\ CallTrue' /\ \A s : ~Editing(s)'
    BY <1>1, <1>2 DEF LedgerInv, LedgerType, CallTrue, Editing
  <1> QED BY <1>3, QuietLedger DEF LedgerInv, LedgerType

-----------------------------------------------------------------------------
(* The reading and the writing calls.                                      *)

\* A sighting taken by a call whose result is shown in the same step.
LEMMA SightKeeps ==
    ASSUME LedgerInv, fileCall.at \in {"reading", "stamping"},
           NEW stamp \in Nat, NEW how \in {"seen", "absorbed", "laundered"}, NEW version \in Nat,
           Sight(stamp, how), ShowVersion(version), fileCall' = NoStep,
           UNCHANGED <<disk, fresh, reader, fileCalls>>,
           how = "seen" => /\ stamp \in 1..fresh
                           /\ stamp = disk.version => version = stamp
    PROVE  LedgerInv'
  <1>0. NoStep \in Step /\ NoStep.at = "idle"
    BY DEF NoStep, Step
  <1>1. /\ reader \in Readers /\ fileCall \in Step /\ fileCall.id \in Nat
        /\ ledger \in [Readers -> Sighting] /\ view \in [Readers -> SUBSET Result]
    BY DEF LedgerInv, LedgerType, Step
  <1> DEFINE seen == [known |-> TRUE, stamp |-> stamp, witness |-> fileCall.id,
                      evicted |-> FALSE, how |-> how]
             shown == Shown(fileCall.id, version)
  <1>2. seen \in Sighting /\ shown \in Result
    BY <1>1 DEF Sighting, Result, Shown
  <1>3. /\ ledger' = [ledger EXCEPT ![reader] = seen]
        /\ view' = [view EXCEPT ![reader] = @ \cup {shown}]
    BY DEF Sight, ShowVersion
  <1> HIDE DEF seen, shown
  <1>4. /\ ledger' \in [Readers -> Sighting] /\ view' \in [Readers -> SUBSET Result]
        /\ ledger'[reader] = seen /\ shown \in view'[reader]
        /\ \A s \in Readers \ {reader} : ledger'[s] = ledger[s] /\ view'[s] = view[s]
    BY <1>1, <1>2, <1>3
  <1>5. LedgerType' /\ CallTrue' /\ \A s : ~Editing(s)'
    BY <1>0, <1>4 DEF LedgerInv, LedgerType, CallTrue, Editing
  <1>6. /\ seen.witness = shown.id /\ seen.stamp = stamp /\ seen.how = how
        /\ shown.version = version
    BY DEF seen, shown, Shown
  <1>7. StandingIsWitnessed'
    BY <1>4, <1>6 DEF LedgerInv, StandingIsWitnessed, Witnessed
  <1>8. ASSUME NEW s \in Readers PROVE SightingTrue(s)'
    <2>1. CASE s = reader
      BY <2>1, <1>4, <1>5, <1>6 DEF SightingTrue, Witness
    <2>2. CASE s # reader
      BY <2>2, <1>4, <1>5 DEF LedgerInv, SightingTrue, Witness, Editing
    <2> QED BY <2>1, <2>2
  <1> QED BY <1>5, <1>7, <1>8 DEF LedgerInv

\* What is read may be newer than the stamp; a stamp that is still the file's
\* is the stamp of what was read.
LEMMA ReadContentsKeeps ==
    ASSUME LedgerInv, ReadContents
    PROVE  LedgerInv'
  <1>1. PICK version \in {fileCall.stamp, disk.version} \ {0} : ShowVersion(version)
    BY DEF ReadContents
  <1>2. /\ fileCall.stamp \in 1..fresh /\ fileCall.stamp \in Nat /\ version \in Nat
        /\ fileCall.stamp = disk.version => version = fileCall.stamp
    BY <1>1 DEF ReadContents, LedgerInv, CallTrue, LedgerType, Step
  <1> QED BY <1>1, <1>2, SightKeeps DEF ReadContents

\* A write's stamp is its own version, or is absorbed.
LEMMA WriteStampKeeps ==
    ASSUME LedgerInv, WriteStamp
    PROVE  LedgerInv'
  <1>1. fileCall.stamp \in 1..fresh /\ fileCall.stamp \in Nat
    BY DEF WriteStamp, LedgerInv, CallTrue, LedgerType, Step
  <1>2. /\ StampNow \in Nat
        /\ StampKind \in {"seen", "absorbed"}
        /\ StampKind = "seen" => StampNow = fileCall.stamp
    BY <1>1, StampIsVersion DEF LedgerInv, StampKind, StampNow, LedgerType
  <1> QED BY <1>1, <1>2, SightKeeps DEF WriteStamp

\* The write makes a version nobody has a sighting of.
LEMMA WriteDiskKeeps ==
    ASSUME LedgerInv, WriteDisk
    PROVE  LedgerInv'
  <1>0. NoStep \in Step /\ NoStep.at = "idle"
    BY DEF NoStep, Step
  <1>1. /\ fresh \in Nat /\ fresh >= 1 /\ fresh' = fresh + 1 /\ disk'.version = fresh + 1
        /\ disk' \in [version : Nat, occ : 0..2] /\ fresh' \in 1..MaxVersion
        /\ UNCHANGED <<reader, ledger, view, fileCalls>>
    BY LedgerAssumption DEF WriteDisk, LedgerInv, LedgerType
  <1>2. CASE fileCall' = NoStep
    <2>1. LedgerType' /\ CallTrue' /\ \A s : ~Editing(s)'
      BY <1>0, <1>1, <1>2 DEF LedgerInv, LedgerType, CallTrue, Editing
    <2> QED BY <1>1, <2>1, QuietLedger
  <1>3. CASE fileCall' = [fileCall EXCEPT !.at = "stamping", !.stamp = fresh + 1]
    <2>1. /\ fileCall' \in Step /\ fileCall'.at = "stamping" /\ fileCall'.stamp = fresh + 1
          /\ fileCall'.tool = fileCall.tool /\ fileCall'.base = fileCall.base
          /\ fileCall.at = "writing"
      BY <1>1, <1>3 DEF WriteDisk, LedgerInv, LedgerType, Step
    <2>2. \A s : Editing(s)' => Editing(s)
      BY <1>1, <2>1 DEF Editing
    <2>3. LedgerType' /\ CallTrue'
      BY <1>1, <2>1, <2>2 DEF LedgerInv, LedgerType, CallTrue, Editing
    <2> QED BY <1>1, <2>1, <2>2, <2>3, QuietLedger
  <1> QED BY <1>2, <1>3 DEF WriteDisk

\* The checks after the prompt start the write, or end the call.
LEMMA WriteCheckKeeps ==
    ASSUME LedgerInv, WriteCheck
    PROVE  LedgerInv'
  <1>1. CASE RefuseTool
    BY <1>1, RefuseKeeps
  <1>2. CASE /\ fileCall' = [fileCall EXCEPT !.at = "writing"]
             /\ UNCHANGED <<disk, fresh, reader, ledger, view, fileCalls>>
    <2>1. /\ fileCall' \in Step /\ fileCall'.at = "writing" /\ fileCall'.tool = "write"
          /\ fresh \in Nat
      BY <1>2 DEF WriteCheck, LedgerInv, LedgerType, Step
    <2>2. LedgerType' /\ CallTrue' /\ \A s : ~Editing(s)'
      BY <1>2, <2>1 DEF LedgerInv, LedgerType, CallTrue, Editing
    <2> QED BY <1>2, <2>1, <2>2, QuietLedger
  <1> QED BY <1>1, <1>2 DEF WriteCheck

\* The edit is computed from the file as it is at the check.
LEMMA EditCheckKeeps ==
    ASSUME LedgerInv, EditCheck
    PROVE  LedgerInv'
  <1>1. CASE RefuseTool
    BY <1>1, RefuseKeeps
  <1>2. CASE /\ disk.version # 0
             /\ fileCall' = [fileCall EXCEPT !.at = "writing", !.base = disk.version]
             /\ UNCHANGED <<disk, fresh, reader, ledger, view, fileCalls>>
    <2>0. fresh \in Nat /\ disk.version \in Nat /\ disk.version \in 1..fresh
      BY <1>2 DEF LedgerInv, LedgerType
    <2>1. /\ fileCall' \in Step /\ fileCall'.at = "writing" /\ fileCall'.base = disk.version
          /\ fresh \in Nat /\ disk.version \in 1..fresh
      BY <1>2, <2>0 DEF LedgerInv, LedgerType, Step
    <2>2. LedgerType' /\ CallTrue'
      BY <1>2, <2>1 DEF LedgerInv, LedgerType, CallTrue
    <2> QED BY <1>2, <2>1, <2>2, QuietLedger
  <1> QED BY <1>1, <1>2 DEF EditCheck

-----------------------------------------------------------------------------
(* An edit moves the stamp of a sighting, and shows what it made of what   *)
(* the conversation had.                                                   *)

\* The stamp after an edit keeps it, absorbed writes included.
LEMMA EditStampKeeps ==
    ASSUME LedgerInv, EditStamp
    PROVE  LedgerInv'
  <1> DEFINE s0 == ledger[reader]
             how == IF StampKind = "absorbed" THEN "absorbed"
                    ELSE IF Standing(s0, fileCall.base) = "stale" THEN "laundered" ELSE s0.how
             copy(x) == [x EXCEPT !.version = fileCall.stamp]
             copies == {copy(x) : x \in {x \in view[reader] : x.version = fileCall.base}}
             moved == [s0 EXCEPT !.stamp = StampNow, !.how = how]
  <1>0. NoStep \in Step /\ NoStep.at = "idle"
    BY DEF NoStep, Step
  <1>1. /\ reader \in Readers /\ ledger \in [Readers -> Sighting]
        /\ view \in [Readers -> SUBSET Result] /\ fresh \in Nat
        /\ fileCall.stamp \in 1..fresh /\ fileCall.base \in 1..fresh /\ Editing(reader)
        /\ s0 \in Sighting
    BY DEF EditStamp, LedgerInv, LedgerType, CallTrue, Editing, Step
  <1>2. /\ view' = [view EXCEPT ![reader] = @ \cup copies]
        /\ fileCall' = NoStep /\ UNCHANGED <<disk, fresh, reader, fileCalls>>
    BY DEF EditStamp
  <1>3. ledger' = IF s0.known THEN [ledger EXCEPT ![reader] = moved] ELSE ledger
    BY <1>1 DEF EditStamp, Touch, Sighting
  <1>4. /\ StampNow \in Nat
        /\ StampKind \in {"seen", "absorbed"}
        /\ StampKind = "seen" => StampNow = fileCall.stamp
    BY <1>1, StampIsVersion DEF LedgerInv, StampKind, StampNow, LedgerType
  <1>5. how \in {"seen", "absorbed", "laundered"}
    BY <1>1, <1>4 DEF Sighting
  <1>6. /\ moved \in Sighting /\ moved.stamp = StampNow /\ moved.how = how
        /\ moved.known = s0.known /\ moved.evicted = s0.evicted /\ moved.witness = s0.witness
    BY <1>1, <1>4, <1>5 DEF Sighting
  <1>7. \A x \in view[reader] :
            /\ copy(x) \in Result /\ copy(x).id = x.id /\ copy(x).form = x.form
            /\ copy(x).version = fileCall.stamp
    BY <1>1 DEF Result
  <1>8. copies \subseteq Result
    BY <1>7
  <1>9. how = "seen" =>
            s0.how = "seen" /\ StampKind = "seen" /\ Standing(s0, fileCall.base) # "stale"
    BY <1>4
  <1>10. \A x \in view[reader] : x.version = fileCall.base => copy(x) \in copies
    OBVIOUS
  <1> HIDE DEF how, copy, copies, moved
  <1>11. /\ ledger' \in [Readers -> Sighting] /\ view' \in [Readers -> SUBSET Result]
         /\ ledger'[reader] = IF s0.known THEN moved ELSE s0
         /\ view'[reader] = view[reader] \cup copies
         /\ \A s \in Readers \ {reader} : ledger'[s] = ledger[s] /\ view'[s] = view[s]
    BY <1>1, <1>2, <1>3, <1>6, <1>8
  <1>12. LedgerType' /\ CallTrue' /\ \A s : ~Editing(s)'
    BY <1>0, <1>2, <1>11 DEF LedgerInv, LedgerType, CallTrue, Editing
  <1>13. /\ ledger'[reader].known = s0.known /\ ledger'[reader].evicted = s0.evicted
         /\ ledger'[reader].witness = s0.witness
    BY <1>6, <1>11
  <1>14. StandingIsWitnessed'
    <2> SUFFICES ASSUME NEW s \in Readers, ledger'[s].known, ~ledger'[s].evicted
                 PROVE  ledger'[s].witness \in {x.id : x \in view'[s]}
      BY DEF StandingIsWitnessed, Witnessed
    <2>1. CASE s = reader
      <3>1. s0.witness \in {x.id : x \in view[reader]}
        BY <1>1, <1>13, <2>1 DEF LedgerInv, StandingIsWitnessed, Witnessed
      <3> QED BY <3>1, <1>11, <1>13, <2>1
    <2>2. CASE s # reader
      BY <2>2, <1>11 DEF LedgerInv, StandingIsWitnessed, Witnessed
    <2> QED BY <2>1, <2>2
  <1>15. ASSUME NEW s \in Readers PROVE SightingTrue(s)'
    <2>1. CASE s # reader
      BY <2>1, <1>2, <1>11, <1>12 DEF LedgerInv, SightingTrue, Witness
    <2>2. ASSUME s = reader, ledger'[reader].known, ~ledger'[reader].evicted,
                 ledger'[reader].how = "seen"
          PROVE  /\ ledger'[reader].stamp \in 1..fresh
                 /\ \E x \in view'[reader] :
                        x.id = s0.witness
                        /\ (x.form = "marker" \/ x.version = ledger'[reader].stamp)
      <3>1. /\ s0.known /\ ~s0.evicted /\ ledger'[reader] = moved /\ how = "seen"
        BY <1>6, <1>11, <1>13, <2>2
      <3>2. /\ s0.how = "seen" /\ StampNow = fileCall.stamp
            /\ Standing(s0, fileCall.base) # "stale"
        BY <1>4, <1>9, <3>1
      <3>3. /\ s0.stamp \in 1..fresh
            /\ s0.stamp = fileCall.base => Witness(reader)
        BY <1>1, <3>1, <3>2 DEF LedgerInv, SightingTrue
      <3>4. s0.stamp = fileCall.base
        BY <1>1, <3>1, <3>2, <3>3, StampIsVersion DEF LedgerInv, Standing, Differs
      <3>5. PICK x \in view[reader] : x.id = s0.witness /\ (x.form = "marker" \/ x.version = s0.stamp)
        BY <3>3, <3>4 DEF Witness
      <3>6. CASE x.form = "marker"
        BY <1>1, <1>6, <1>11, <3>1, <3>2, <3>5, <3>6
      <3>7. CASE x.version = fileCall.base
        BY <1>1, <1>6, <1>7, <1>10, <1>11, <3>1, <3>2, <3>5, <3>7
      <3> QED BY <3>4, <3>5, <3>6, <3>7
    <2>3. CASE s = reader
      BY <1>2, <1>13, <2>2, <2>3 DEF SightingTrue, Witness
    <2> QED BY <2>1, <2>3
  <1> QED BY <1>12, <1>14, <1>15 DEF LedgerInv

-----------------------------------------------------------------------------
(* The world around a call.                                                *)

\* Another process makes a version nobody has seen.
LEMMA OtherWritesKeeps ==
    ASSUME LedgerInv, OtherWrites
    PROVE  LedgerInv'
  <1>1. /\ disk' \in [version : Nat, occ : 0..2] /\ fresh \in Nat
        /\ \/ fresh' = fresh + 1 /\ disk'.version = fresh + 1 /\ fresh < MaxVersion
           \/ fresh' = fresh /\ disk'.version = 0
        /\ UNCHANGED <<reader, fileCall, ledger, view, fileCalls>>
    BY DEF OtherWrites, LedgerInv, LedgerType
  <1>2. LedgerType' /\ CallTrue'
    BY <1>1, LedgerAssumption DEF LedgerInv, LedgerType, CallTrue, Editing
  <1>3. \A s : Editing(s)' <=> Editing(s)
    BY <1>1 DEF Editing
  <1> QED BY <1>1, <1>2, <1>3, QuietLedger

\* A sighting that is not evicted keeps its witness, in full or as a marker.
LEMMA CompactViewKeeps ==
    ASSUME LedgerInv, CompactView
    PROVE  LedgerInv'
  <1>0. PICK keep \in SUBSET Witnessed("parent") :
        \E spilled \in (IF Spills THEN SUBSET keep ELSE {{}}) :
          /\ view' = [view EXCEPT !["parent"] =
                {[x EXCEPT !.form = IF x.id \in spilled THEN "marker" ELSE x.form] :
                    x \in {x \in @ : x.id \in keep}}]
          /\ ledger' = [ledger EXCEPT !["parent"].evicted = @ \/ ledger["parent"].witness \notin keep]
    BY DEF CompactView
  <1>1. PICK spilled \in (IF Spills THEN SUBSET keep ELSE {{}}) :
          /\ view' = [view EXCEPT !["parent"] =
                {[x EXCEPT !.form = IF x.id \in spilled THEN "marker" ELSE x.form] :
                    x \in {x \in @ : x.id \in keep}}]
          /\ ledger' = [ledger EXCEPT !["parent"].evicted = @ \/ ledger["parent"].witness \notin keep]
    BY <1>0
  <1> DEFINE kept(x) == [x EXCEPT !.form = IF x.id \in spilled THEN "marker" ELSE x.form]
             left == {kept(x) : x \in {x \in view["parent"] : x.id \in keep}}
             p == ledger["parent"]
  <1>2. /\ ledger \in [Readers -> Sighting] /\ view \in [Readers -> SUBSET Result]
        /\ "parent" \in Readers /\ p \in Sighting
        /\ fileCall.at = "idle" /\ UNCHANGED <<disk, fresh, reader, fileCall, fileCalls>>
    BY DEF LedgerInv, LedgerType, CompactView, Readers
  <1>3. \A x \in view["parent"] :
            /\ kept(x) \in Result /\ kept(x).id = x.id /\ kept(x).version = x.version
            /\ kept(x).form \in {x.form, "marker"}
    BY <1>2 DEF Result
  <1>4. /\ left \subseteq Result
        /\ \A x \in view["parent"] : x.id \in keep => kept(x) \in left
    BY <1>3
  <1>5. view' = [view EXCEPT !["parent"] = left]
    BY <1>1, <1>2
  <1> HIDE DEF kept, left
  <1>6. view' \in [Readers -> SUBSET Result] /\ view'["parent"] = left
        /\ \A s \in Readers \ {"parent"} : view'[s] = view[s]
    BY <1>2, <1>4, <1>5
  <1>7. /\ ledger' \in [Readers -> Sighting]
        /\ \A s \in Readers : /\ ledger'[s].known = ledger[s].known
                              /\ ledger'[s].stamp = ledger[s].stamp
                              /\ ledger'[s].witness = ledger[s].witness
                              /\ ledger'[s].how = ledger[s].how
                              /\ s # "parent" => ledger'[s] = ledger[s]
        /\ ~ledger'["parent"].evicted => ~p.evicted /\ p.witness \in keep
    BY <1>1, <1>2 DEF Sighting
  <1>8. LedgerType' /\ CallTrue' /\ \A s : ~Editing(s)'
    BY <1>2, <1>6, <1>7 DEF LedgerInv, LedgerType, CallTrue, Editing
  <1>9. StandingIsWitnessed'
    <2> SUFFICES ASSUME NEW s \in Readers, ledger'[s].known, ~ledger'[s].evicted
                 PROVE  \E y \in view'[s] : y.id = ledger'[s].witness
      BY DEF StandingIsWitnessed, Witnessed
    <2>1. CASE s = "parent"
      <3>1. PICK x \in view["parent"] : x.id = p.witness
        BY <1>2, <1>7, <2>1 DEF LedgerInv, StandingIsWitnessed, Witnessed
      <3> QED BY <1>3, <1>4, <1>6, <1>7, <2>1, <3>1
    <2>2. CASE s # "parent"
      BY <2>2, <1>6, <1>7 DEF LedgerInv, StandingIsWitnessed, Witnessed
    <2> QED BY <2>1, <2>2
  <1>10. ASSUME NEW s \in Readers PROVE SightingTrue(s)'
    <2>1. CASE s # "parent"
      BY <2>1, <1>2, <1>6, <1>7, <1>8 DEF LedgerInv, SightingTrue, Witness
    <2>2. ASSUME s = "parent", ledger'[s].known, ~ledger'[s].evicted, ledger'[s].how = "seen"
          PROVE  /\ p.stamp \in 1..fresh
                 /\ p.stamp = disk.version =>
                        \E y \in view'["parent"] :
                            y.id = p.witness /\ (y.form = "marker" \/ y.version = p.stamp)
      <3>1. p.known /\ ~p.evicted /\ p.how = "seen" /\ p.witness \in keep
        BY <1>7, <2>2
      <3>2. p.stamp \in 1..fresh /\ (p.stamp = disk.version => Witness("parent"))
        BY <1>2, <3>1 DEF LedgerInv, SightingTrue
      <3>3. ASSUME p.stamp = disk.version
            PROVE  \E y \in view'["parent"] :
                       y.id = p.witness /\ (y.form = "marker" \/ y.version = p.stamp)
        <4>1. PICK x \in view["parent"] : x.id = p.witness /\ (x.form = "marker" \/ x.version = p.stamp)
          BY <3>2, <3>3 DEF Witness
        <4> QED BY <1>3, <1>4, <1>6, <3>1, <4>1
      <3> QED BY <3>2, <3>3
    <2>3. CASE s = "parent"
      BY <1>2, <1>7, <1>8, <2>2, <2>3 DEF SightingTrue, Witness
    <2> QED BY <2>1, <2>3
  <1> QED BY <1>8, <1>9, <1>10 DEF LedgerInv

\* A subagent has a ledger of its own that starts, and ends, empty.
LEMMA ChildKeeps ==
    ASSUME LedgerInv, NEW start \in SUBSET Result, fileCall.at = "idle",
           reader' \in Readers, fileCalls' \in Nat,
           ledger' = [ledger EXCEPT !["child"] = NoSighting],
           view' = [view EXCEPT !["child"] = start],
           UNCHANGED <<disk, fresh, fileCall>>
    PROVE  LedgerInv'
  <1>1. NoSighting \in Sighting /\ ~NoSighting.known
    BY DEF NoSighting, Sighting
  <1>2. /\ ledger \in [Readers -> Sighting] /\ view \in [Readers -> SUBSET Result]
        /\ "child" \in Readers
    BY DEF LedgerInv, LedgerType, Readers
  <1>3. /\ ledger' \in [Readers -> Sighting] /\ view' \in [Readers -> SUBSET Result]
        /\ ~ledger'["child"].known
        /\ \A s \in Readers \ {"child"} : ledger'[s] = ledger[s] /\ view'[s] = view[s]
    BY <1>1, <1>2
  <1>4. LedgerType' /\ CallTrue' /\ \A s : ~Editing(s)'
    BY <1>3 DEF LedgerInv, LedgerType, CallTrue, Editing
  <1>5. StandingIsWitnessed'
    BY <1>3 DEF LedgerInv, StandingIsWitnessed, Witnessed
  <1>6. ASSUME NEW s \in Readers PROVE SightingTrue(s)'
    BY <1>3, <1>4 DEF LedgerInv, SightingTrue, Witness
  <1> QED BY <1>4, <1>5, <1>6 DEF LedgerInv

-----------------------------------------------------------------------------
(* Every step, and what follows.                                           *)

\* Every step keeps it.
LEMMA LedgerStepKeeps ==
    ASSUME LedgerInv, [LedgerNext]_ledgerVars
    PROVE  LedgerInv'
  <1>0. NoStep \in Step /\ LedgerType
    BY DEF NoStep, Step, LedgerInv
  <1>1. CASE ReadOpen
    <2> DEFINE call == [NoStep EXCEPT !.at = "reading", !.tool = "read", !.stamp = StampNow]
    <2>1. /\ call \in Step /\ call.at = "reading" /\ call.tool = "read" /\ call.stamp = StampNow
      BY <1>0, StampIsVersion DEF Step
    <2>2. StampNow \in 1..fresh
      BY <1>0, <1>1, StampIsVersion DEF ReadOpen, LedgerType
    <2> QED BY <1>1, <2>1, <2>2, BeginKeeps DEF ReadOpen
  <1>2. CASE ReadContents
    BY <1>2, ReadContentsKeeps
  <1>3. CASE WritePrepare
    <2> DEFINE call == [NoStep EXCEPT !.at = "asked", !.tool = "write"]
    <2>1. call \in Step /\ call.at = "asked"
      BY <1>0 DEF Step
    <2> QED BY <1>3, <2>1, BeginKeeps DEF WritePrepare
  <1>4. CASE WriteCheck
    BY <1>4, WriteCheckKeeps
  <1>5. CASE WriteDisk
    BY <1>5, WriteDiskKeeps
  <1>6. CASE WriteStamp
    BY <1>6, WriteStampKeeps
  <1>7. ASSUME NEW all \in BOOLEAN, EditPrepare(all) PROVE LedgerInv'
    <2> DEFINE call == [NoStep EXCEPT !.at = "asked", !.tool = "edit", !.all = all, !.occ = disk.occ]
    <2>1. call \in Step /\ call.at = "asked"
      BY <1>0 DEF Step, LedgerType
    <2> QED BY <1>7, <2>1, BeginKeeps DEF EditPrepare
  <1>8. CASE EditCheck
    BY <1>8, EditCheckKeeps
  <1>9. CASE EditStamp
    BY <1>9, EditStampKeeps
  <1>10. CASE ToolFails \/ PromptDenied
    BY <1>10, RefuseKeeps DEF ToolFails, PromptDenied
  <1>11. CASE OtherWrites
    BY <1>11, OtherWritesKeeps
  <1>12. CASE CompactView
    BY <1>12, CompactViewKeeps
  <1>13. CASE ChildStarts
    <2>1. /\ fileCall.at = "idle" /\ reader' \in Readers /\ fileCalls' \in Nat
          /\ ledger' = [ledger EXCEPT !["child"] = NoSighting]
          /\ UNCHANGED <<disk, fresh, fileCall>>
      BY <1>0, <1>13 DEF ChildStarts, ToolIdle, Readers, LedgerType
    <2>2. PICK start \in {view["parent"], {}} : view' = [view EXCEPT !["child"] = start]
      BY <1>13 DEF ChildStarts
    <2>3. start \in SUBSET Result
      BY <1>0, <2>2 DEF Readers, LedgerType
    <2> QED BY <2>1, <2>2, <2>3, ChildKeeps
  <1>14. CASE ChildReturns
    <2>1. /\ fileCall.at = "idle" /\ reader' \in Readers /\ fileCalls' \in Nat
          /\ ledger' = [ledger EXCEPT !["child"] = NoSighting]
          /\ view' = [view EXCEPT !["child"] = {}]
          /\ UNCHANGED <<disk, fresh, fileCall>>
      BY <1>0, <1>14 DEF ChildReturns, Readers, LedgerType
    <2>2. {} \in SUBSET Result
      OBVIOUS
    <2> QED BY <2>1, <2>2, ChildKeeps
  <1>15. CASE UNCHANGED ledgerVars
    BY <1>15 DEF ledgerVars, LedgerInv, LedgerType, CallTrue, StandingIsWitnessed, Witnessed, SightingTrue, Witness, Editing
  <1> QED BY <1>1, <1>2, <1>3, <1>4, <1>5, <1>6, <1>7, <1>8, <1>9, <1>10, <1>11, <1>12, <1>13,
             <1>14, <1>15 DEF LedgerNext

\* The ledger's account of the file, in every state.
THEOREM LedgerHolds == LedgerSpec => []LedgerInv
  <1>1. LedgerInit => LedgerInv
    BY InitType
  <1>2. LedgerInv /\ [LedgerNext]_ledgerVars => LedgerInv'
    BY LedgerStepKeeps
  <1> QED BY <1>1, <1>2, PTL DEF LedgerSpec

\* A sighting that stands has its witness in the conversation, after any
\* number of calls, compactions and subagents (evict_unwitnessed, touch).
THEOREM StandingAlwaysWitnessed == LedgerSpec => []StandingIsWitnessed
  <1>1. LedgerInv => StandingIsWitnessed
    BY DEF LedgerInv
  <1> QED BY <1>1, LedgerHolds, PTL

\* A sighting a write passes on, of a file that is there, is the file's.
LEMMA LicensedWriteIsSeen ==
    ASSUME LedgerInv, [LedgerNext]_ledgerVars
    PROVE  BlindByKnownWay
  <1> SUFFICES ASSUME Overwrites, ~InView(reader, disk.version),
                      ledger[reader].how \notin {"laundered", "absorbed"}
               PROVE  \E x \in view[reader] : x.id = ledger[reader].witness /\ x.form = "marker"
    BY DEF BlindByKnownWay
  <1>0. /\ reader \in Readers /\ ledger[reader] \in Sighting /\ view[reader] \subseteq Result
        /\ ledger[reader].how = "seen"
    BY DEF LedgerInv, LedgerType, Sighting
  <1>1. ~Refused
    <2>1. fileCall.at = "asked" /\ fileCall.tool = "write" /\ fileCall'.at = "writing"
      BY DEF Overwrites
    <2>2. NoStep.at = "idle" /\ fileCall \in Step
      BY DEF NoStep, LedgerInv, LedgerType
    <2>3. \A call : ~BeginTool(call) \/ ~ToolIdle
      BY <2>1 DEF ToolIdle
    <2>4. fileCall' # NoStep /\ fileCall' # fileCall
      BY <2>1, <2>2
    <2> QED BY <2>1, <2>3, <2>4 DEF LedgerNext, ledgerVars, ReadOpen, ReadContents, WritePrepare,
              WriteCheck, WriteDisk, WriteStamp, EditPrepare, EditCheck, EditStamp, ToolFails,
              PromptDenied, RefuseTool, OtherWrites, CompactView, ChildStarts, ChildReturns
  <1>2. Standing(ledger[reader], disk.version) = "current"
    BY <1>1 DEF Refused, Overwrites
  <1>3. /\ ledger[reader].known /\ ~ledger[reader].evicted
        /\ ~Differs(ledger[reader].stamp, disk.version)
    BY <1>2 DEF Standing
  <1>4. ledger[reader].stamp \in 1..fresh
        /\ (ledger[reader].stamp = disk.version => Witness(reader))
    BY <1>0, <1>3 DEF LedgerInv, SightingTrue
  <1>5. ledger[reader].stamp = disk.version
    BY <1>3, <1>4, StampIsVersion DEF LedgerInv, Differs
  <1>6. PICK x \in view[reader] : /\ x.id = ledger[reader].witness
                                  /\ x.form = "marker" \/ x.version = disk.version
    BY <1>4, <1>5 DEF Witness
  <1>7. x.form \in {"full", "marker"}
    BY <1>0 DEF Result
  <1> QED BY <1>6, <1>7 DEF InView

(* A reading makes the sighting good for the file it found.                 *)
LEMMA ReadingUnlocks ==
    ASSUME LedgerInv
    PROVE  RereadIsCurrent
  <1> SUFFICES ASSUME ReadContents, disk.version = fileCall.stamp
               PROVE  Standing(ledger'[reader], disk.version) = "current"
    BY DEF RereadIsCurrent
  <1>1. ledger'[reader] = [known |-> TRUE, stamp |-> fileCall.stamp, witness |-> fileCall.id,
                           evicted |-> FALSE, how |-> "seen"]
    BY DEF ReadContents, Sight, LedgerInv, LedgerType
  <1> QED BY <1>1 DEF Standing, Differs

\* Content out of the conversation's view is overwritten only in the known
\* ways, and a reading unlocks the write, for any number of versions, calls,
\* racing writers and compactions (refuse_blind_overwrite).
THEOREM OverwritesStayLicensed == LedgerSpec => BlindOnlyByKnownWays
  <1>1. LedgerInv /\ [LedgerNext]_ledgerVars => [BlindByKnownWay /\ RereadIsCurrent]_ledgerVars
    BY LicensedWriteIsSeen, ReadingUnlocks
  <1> QED BY <1>1, LedgerHolds, PTL DEF LedgerSpec, BlindOnlyByKnownWays

-----------------------------------------------------------------------------
(* Memory.                                                                  *)

MemPaths == UNION {PathsOf(n) : n \in Slugs}

\* What there is has a version made before, unless it is absent.
RootTrue ==
    /\ made \in 1..MaxVersion /\ loads \in Nat
    /\ stored \in [Slugs -> Documents]
    /\ \A n \in Slugs :
          /\ stored[n].version <= made
          /\ stored[n].kind = "absent" => stored[n].version = 0
          /\ stored[n].kind = "file" => stored[n].version > 0

\* The two tools speak of a name by the path each has found for it.
MemCallTrue ==
    /\ memCall = [at |-> memCall.at, tool |-> memCall.tool, id |-> memCall.id, name |-> memCall.name,
                  path |-> memCall.path, version |-> memCall.version, form |-> memCall.form]
    /\ memCall.id \in Nat
    /\ memCall.at # "idle" =>
          /\ memCall.name \in Slugs
          /\ memCall.tool = "load" => memCall.path = Reached(memCall.name)
          /\ memCall.tool = "write" => memCall.path = Composed(memCall.name)
          /\ memCall.tool \in {"load", "write"}
    /\ memCall.at = "stamping" => memCall.version \in 1..made

MemSighting == [known : BOOLEAN, stamp : Nat, witness : Nat, evicted : BOOLEAN, how : {"seen", "absorbed"}]
Telling == [id : Nat, version : 1..MaxVersion, form : {"full", "cut", "marker"}]

\* A sighting that stands for what its call saw has a result that named it.
MemSightingTrue(p) ==
    sighted[p].known /\ ~sighted[p].evicted /\ sighted[p].how = "seen" =>
        \E x \in told : x.id = sighted[p].witness /\ x.version = sighted[p].stamp

MemInv ==
    /\ RootTrue /\ MemCallTrue
    /\ sighted \in [MemPaths -> MemSighting] /\ told \subseteq Telling
    /\ SightingsHaveResults
    /\ \A p \in MemPaths : MemSightingTrue(p)

(* What a name leads to is a name, and its paths are paths.                 *)
LEMMA NamesHavePaths ==
    ASSUME NEW n \in Slugs
    PROVE  Composed(n) \in MemPaths /\ Reached(n) \in MemPaths /\ Followed(n) \in Slugs
  <1>1. Followed(n) \in Slugs
    BY RootAssumption DEF Followed
  <1>2. \A m \in Slugs : <<"given", m>> \in MemPaths /\ <<"real", m>> \in MemPaths
    BY DEF MemPaths, PathsOf
  <1> QED BY <1>1, <1>2 DEF Composed, Reached

(* Every document has a version within the bound.                           *)
LEMMA DocumentFields ==
    ASSUME NEW d \in Documents
    PROVE  d.version \in 0..MaxVersion /\ d.kind \in {"absent", "file", "link", "dir"} /\ d.form \in Forms
  BY DEF Documents, Document

LEMMA MemoryBegins == MemoryInit => MemInv
  <1> SUFFICES ASSUME MemoryInit PROVE MemInv
    OBVIOUS
  <1>1. RootTrue
    <2>1. stored \in Starts /\ made = 1 /\ loads = 0
      BY DEF MemoryInit
    <2>2. stored \in [Slugs -> Documents]
      BY <2>1, RootAssumption
    <2>3. ASSUME NEW n \in Slugs
          PROVE  /\ stored[n].version <= made
                 /\ stored[n].kind = "absent" => stored[n].version = 0
                 /\ stored[n].kind = "file" => stored[n].version > 0
      BY <2>1, RootAssumption DEF Absent, Document
    <2> QED BY <2>1, <2>2, <2>3, LedgerAssumption DEF RootTrue
  <1>2. MemCallTrue
    BY DEF MemoryInit, MemCallTrue, NoCall
  <1>3. sighted = [p \in MemPaths |-> Unseen] /\ told = {}
    BY DEF MemoryInit, MemPaths
  <1> QED BY <1>1, <1>2, <1>3 DEF MemInv, SightingsHaveResults, MemSightingTrue, Unseen, MemSighting

(* A step that leaves the ledger and the conversation alone.                *)
LEMMA LedgerUntouched ==
    ASSUME MemInv, RootTrue', MemCallTrue', UNCHANGED <<sighted, told>>
    PROVE  MemInv'
  BY DEF MemInv, SightingsHaveResults, MemSightingTrue, MemPaths, PathsOf

(* The tools' first steps, and the end of a call that did nothing.          *)
LEMMA CallsBegin ==
    ASSUME MemInv, NEW n \in Slugs, LoadAsk(n) \/ WriteAsk(n)
    PROVE  MemInv'
  <1>1. UNCHANGED <<linked, stored, made, sighted, told>> /\ loads' = loads + 1
    BY DEF LoadAsk, WriteAsk, BeginMemory
  <1>2. RootTrue'
    BY <1>1 DEF MemInv, RootTrue
  <1>3. \/ memCall' = [at |-> "asked", tool |-> "load", id |-> loads + 1, name |-> n, path |-> Reached(n), version |-> 0, form |-> "text"]
        \/ memCall' = [at |-> "asked", tool |-> "write", id |-> loads + 1, name |-> n, path |-> Composed(n), version |-> 0, form |-> "text"]
    BY DEF LoadAsk, WriteAsk, BeginMemory, NoCall
  <1>4. Reached(n)' = Reached(n) /\ Composed(n)' = Composed(n)
    BY <1>1 DEF Reached, Composed, Followed
  <1>5. MemCallTrue'
    BY <1>2, <1>3, <1>4 DEF MemCallTrue, MemInv, RootTrue
  <1> QED BY <1>1, <1>2, <1>5, LedgerUntouched

LEMMA CallsEnd ==
    ASSUME MemInv, EndCall
    PROVE  MemInv'
  <1>1. RootTrue'
    BY DEF EndCall, MemInv, RootTrue
  <1>2. MemCallTrue'
    BY DEF EndCall, MemCallTrue, NoCall
  <1> QED BY <1>1, <1>2, LedgerUntouched DEF EndCall

(* A call's document, read or decided on.                                   *)
LEMMA CallsGoOn ==
    ASSUME MemInv, LoadRead \/ Recheck
    PROVE  MemInv'
  <1>1. CASE EndCall
    BY <1>1, CallsEnd
  <1>2. CASE ~EndCall
    <2>1. UNCHANGED <<linked, stored, made, index, sighted, told, loads>>
      BY <1>2 DEF LoadRead, Recheck
    <2>2. RootTrue'
      BY <2>1 DEF MemInv, RootTrue
    <2>3. \A n : Reached(n)' = Reached(n) /\ Composed(n)' = Composed(n)
      BY <2>1 DEF Reached, Composed, Followed
    <2>4. MemCallTrue /\ memCall.at = "asked"
      BY DEF LoadRead, Recheck, MemInv
    <2>5. CASE Recheck
      <3>1. memCall' = [memCall EXCEPT !.at = "writing"]
        BY <1>2, <2>5 DEF Recheck
      <3>2. MemCallTrue'
        BY <2>3, <2>4, <3>1 DEF MemCallTrue
      <3> QED BY <2>1, <2>2, <3>2, LedgerUntouched
    <2>6. CASE LoadRead
      <3>1. /\ memCall' = [memCall EXCEPT !.at = "stamping", !.version = At(memCall.path).version, !.form = At(memCall.path).form]
            /\ At(memCall.path).kind = "file" /\ memCall.tool = "load"
        BY <1>2, <2>6 DEF LoadRead
      <3>2. At(memCall.path).version \in 1..made
        <4>1. PICK m \in Slugs : At(memCall.path) = stored[m]
          BY <2>4, <3>1, NamesHavePaths DEF MemCallTrue, Reached, At
        <4> QED BY <3>1, <4>1, DocumentFields DEF MemInv, RootTrue
      <3>3. MemCallTrue'
        BY <2>1, <2>3, <2>4, <3>1, <3>2 DEF MemCallTrue
      <3> QED BY <2>1, <2>2, <3>3, LedgerUntouched
    <2> QED BY <2>5, <2>6
  <1> QED BY <1>1, <1>2

(* A document is made or removed: what leads where does not change.         *)
LEMMA DocumentChanges ==
    ASSUME MemInv, NEW n \in Slugs, NEW d \in Documents, stored[n].kind \in {"absent", "file"},
           d.kind \in {"absent", "file"}, d.kind = "absent" => d.version = 0,
           d.kind = "file" => d.version = made', made' = made \/ (made' = made + 1 /\ made < MaxVersion),
           stored' = [stored EXCEPT ![n] = d], UNCHANGED <<linked, loads>>
    PROVE  RootTrue' /\ \A m \in Slugs : Reached(m)' = Reached(m) /\ Composed(m)' = Composed(m)
  <1>1. made' \in 1..MaxVersion /\ made' >= made
    BY LedgerAssumption DEF MemInv, RootTrue
  <1>2. stored' \in [Slugs -> Documents] /\ stored'[n] = d /\ \A m \in Slugs : m # n => stored'[m] = stored[m]
    BY DEF MemInv, RootTrue
  <1>3. ASSUME NEW m \in Slugs
        PROVE  /\ stored'[m].version <= made'
               /\ stored'[m].kind = "absent" => stored'[m].version = 0
               /\ stored'[m].kind = "file" => stored'[m].version > 0
    <2>1. CASE m = n
      BY <1>1, <1>2, <2>1
    <2>2. CASE m # n
      BY <1>1, <1>2, <2>2, DocumentFields DEF MemInv, RootTrue
    <2> QED BY <2>1, <2>2
  <1>4. RootTrue'
    BY <1>1, <1>2, <1>3 DEF MemInv, RootTrue
  <1>5. \A m \in Slugs : (stored'[m].kind = "link") = (stored[m].kind = "link")
    BY <1>2
  <1> QED BY <1>4, <1>5 DEF Reached, Composed, Followed

(* A document of a form, under a version.                                   *)
LEMMA DocumentMade ==
    ASSUME NEW v \in 0..MaxVersion, NEW f \in Forms, NEW k \in {"absent", "file"}
    PROVE  Document(k, v, f) \in Documents /\ Document(k, v, f).kind = k /\ Document(k, v, f).version = v
  BY DEF Documents, Document

LEMMA DocumentWritten ==
    ASSUME MemInv, WriteDocument
    PROVE  MemInv'
  <1>1. CASE EndCall
    BY <1>1, CallsEnd
  <1>2. CASE ~EndCall
    <2>1. PICK n : n = memCall.name
      OBVIOUS
    <2>2. n \in Slugs /\ memCall.at = "writing" /\ made < MaxVersion /\ stored[n].kind \notin {"link", "dir"}
      BY <1>2, <2>1 DEF WriteDocument, MemInv, MemCallTrue
    <2>3. stored[n].kind \in {"absent", "file"}
      BY <2>2, DocumentFields DEF MemInv, RootTrue
    <2>4. made' = made + 1 /\ UNCHANGED <<linked, index, sighted, told, loads>>
      BY <2>1, <2>2 DEF WriteDocument
    <2>5. made + 1 \in 0..MaxVersion
      BY <2>2, LedgerAssumption DEF MemInv, RootTrue
    <2>6. PICK f \in Forms :
              /\ stored' = [stored EXCEPT ![n] = Document("file", made + 1, f)]
              /\ memCall' = NoCall \/ memCall' = [memCall EXCEPT !.at = "stamping", !.version = made + 1]
      BY <2>1, <2>2 DEF WriteDocument, Forms
    <2>7. RootTrue' /\ \A m \in Slugs : Reached(m)' = Reached(m) /\ Composed(m)' = Composed(m)
      <3>1. PICK d : d = Document("file", made + 1, f)
        OBVIOUS
      <3>2. d \in Documents /\ d.kind = "file" /\ d.version = made + 1
        BY <2>5, <3>1, DocumentMade
      <3>3. stored' = [stored EXCEPT ![n] = d]
        BY <2>6, <3>1
      <3> QED BY <2>2, <2>3, <2>4, <3>2, <3>3, DocumentChanges
    <2>8. MemCallTrue'
      <3>1. CASE memCall' = NoCall
        BY <3>1 DEF MemCallTrue, NoCall
      <3>2. CASE memCall' = [memCall EXCEPT !.at = "stamping", !.version = made + 1]
        <4>1. MemCallTrue /\ made' \in Nat /\ made' > 0 /\ made + 1 = made'
          BY <2>4 DEF MemInv, RootTrue
        <4>2. /\ memCall'.at = "stamping" /\ memCall'.tool = memCall.tool /\ memCall'.id = memCall.id
              /\ memCall'.name = n /\ memCall'.path = memCall.path /\ memCall'.version = made'
              /\ memCall' = [at |-> memCall'.at, tool |-> memCall'.tool, id |-> memCall'.id, name |-> memCall'.name,
                             path |-> memCall'.path, version |-> memCall'.version, form |-> memCall'.form]
          BY <2>1, <3>2, <4>1 DEF MemCallTrue
        <4> QED BY <2>1, <2>2, <2>7, <4>1, <4>2 DEF MemCallTrue
      <3> QED BY <2>6, <3>1, <3>2
    <2> QED BY <2>4, <2>7, <2>8, LedgerUntouched
  <1> QED BY <1>1, <1>2

LEMMA OthersWrite ==
    ASSUME MemInv, OtherChanges
    PROVE  MemInv'
  <1>1. PICK n \in Slugs :
          /\ stored[n].kind \in {"absent", "file"}
          /\ \/ /\ made < MaxVersion /\ made' = made + 1
                /\ \E f \in Forms : stored' = [stored EXCEPT ![n] = Document("file", made + 1, f)]
             \/ stored[n].kind = "file" /\ stored' = [stored EXCEPT ![n] = Absent] /\ UNCHANGED made
    BY DEF OtherChanges
  <1>2. UNCHANGED <<linked, index, memCall, sighted, told, loads>>
    BY DEF OtherChanges
  <1>3. RootTrue' /\ \A m \in Slugs : Reached(m)' = Reached(m) /\ Composed(m)' = Composed(m)
    <2>1. CASE made < MaxVersion /\ made' = made + 1 /\ \E f \in Forms : stored' = [stored EXCEPT ![n] = Document("file", made + 1, f)]
      <3>1. PICK f \in Forms : stored' = [stored EXCEPT ![n] = Document("file", made + 1, f)]
        BY <2>1
      <3>2. made + 1 \in 0..MaxVersion
        BY <2>1, LedgerAssumption DEF MemInv, RootTrue
      <3>3. PICK d : d = Document("file", made + 1, f)
        OBVIOUS
      <3>4. d \in Documents /\ d.kind = "file" /\ d.version = made + 1
        BY <3>2, <3>3, DocumentMade
      <3>5. stored' = [stored EXCEPT ![n] = d]
        BY <3>1, <3>3
      <3> QED BY <1>1, <1>2, <2>1, <3>4, <3>5, DocumentChanges
    <2>2. CASE stored' = [stored EXCEPT ![n] = Absent] /\ UNCHANGED made
      <3>1. Absent \in Documents /\ Absent.kind = "absent" /\ Absent.version = 0
        BY LedgerAssumption DEF Absent, Documents, Document, Forms
      <3> QED BY <1>1, <1>2, <2>2, <3>1, DocumentChanges
    <2> QED BY <1>1, <2>1, <2>2
  <1>4. MemCallTrue'
    BY <1>1, <1>2, <1>3 DEF MemCallTrue, MemInv, RootTrue
  <1> QED BY <1>2, <1>3, <1>4, LedgerUntouched

(* What a call has read or written is stamped, and told.                    *)
LEMMA CallRecords ==
    ASSUME MemInv, NEW form \in {"full", "cut"}, memCall.at = "stamping", Record(memCall.path, Observed),
           Tell(memCall.version, form), memCall' = NoCall, UNCHANGED <<linked, stored, made, index, loads>>
    PROVE  MemInv'
  <1>1. PICK p : p = memCall.path
    OBVIOUS
  <1>2. memCall.name \in Slugs /\ p \in MemPaths /\ memCall.version \in 1..made /\ memCall.id \in Nat
    BY <1>1, NamesHavePaths DEF MemInv, MemCallTrue
  <1>3. PICK m \in Slugs : p[2] = m /\ At(p) = stored[m]
    BY <1>2 DEF MemPaths, PathsOf, At
  <1>4. PICK v : v = StampAt(p)
    OBVIOUS
  <1>5. v \in Nat
    BY <1>3, <1>4, DocumentFields, LedgerAssumption DEF MemInv, RootTrue, StampAt, NoStamp
  <1>6. Observed \in {"seen", "absorbed"} /\ (Observed = "seen" => v = memCall.version)
    BY <1>1, <1>2, <1>3, <1>4 DEF Observed, StampAt, MemInv, RootTrue
  <1>7. PICK s : s = [known |-> TRUE, stamp |-> v, witness |-> memCall.id, evicted |-> FALSE, how |-> Observed]
    OBVIOUS
  <1>8. s \in MemSighting
    BY <1>2, <1>5, <1>6, <1>7 DEF MemSighting
  <1>9. sighted' = [sighted EXCEPT ![p] = s]
    BY <1>1, <1>4, <1>7 DEF Record
  <1>10. PICK x : x = [id |-> memCall.id, version |-> memCall.version, form |-> form]
    OBVIOUS
  <1>11. told' = told \cup {x} /\ x \in Telling
    BY <1>2, <1>10, LedgerAssumption DEF Tell, Telling, MemInv, RootTrue
  <1>12. RootTrue' /\ MemCallTrue'
    BY DEF MemInv, RootTrue, MemCallTrue, NoCall
  <1>13. sighted' \in [MemPaths -> MemSighting] /\ told' \subseteq Telling /\ DOMAIN sighted' = MemPaths
    BY <1>8, <1>9, <1>11 DEF MemInv
  <1>14. sighted'[p] = s /\ \A q \in MemPaths : q # p => sighted'[q] = sighted[q]
    BY <1>2, <1>9 DEF MemInv
  <1>15. SightingsHaveResults'
    <2> SUFFICES ASSUME NEW q \in MemPaths, sighted'[q].known, ~sighted'[q].evicted
                 PROVE  \E y \in told' : y.id = sighted'[q].witness
      BY <1>13 DEF SightingsHaveResults
    <2>1. CASE q = p
      BY <1>7, <1>10, <1>11, <1>14, <2>1
    <2>2. CASE q # p
      BY <1>11, <1>14, <2>2 DEF MemInv, SightingsHaveResults
    <2> QED BY <2>1, <2>2
  <1>16. ASSUME NEW q \in MemPaths PROVE MemSightingTrue(q)'
    <2>1. CASE q = p
      BY <1>6, <1>7, <1>10, <1>11, <1>14, <2>1 DEF MemSightingTrue
    <2>2. CASE q # p
      BY <1>11, <1>14, <2>2 DEF MemInv, MemSightingTrue
    <2> QED BY <2>1, <2>2
  <1>17. MemPaths' = MemPaths
    BY DEF MemPaths, PathsOf
  <1> QED BY <1>12, <1>13, <1>15, <1>16, <1>17 DEF MemInv

(* Compaction drops results, and evicts the sightings they were for.        *)
LEMMA CompactionEvicts ==
    ASSUME MemInv, CompactTold
    PROVE  MemInv'
  <1>1. PICK keep \in SUBSET {x.id : x \in told} : \E spilled \in SUBSET keep :
        /\ told' = {[x EXCEPT !.form = IF x.id \in spilled THEN "marker" ELSE x.form] :
                      x \in {x \in told : x.id \in keep}}
        /\ sighted' = [p \in DOMAIN sighted |->
                        [sighted[p] EXCEPT !.evicted = @ \/ sighted[p].witness \notin keep]]
    BY DEF CompactTold
  <1>2. PICK spilled \in SUBSET keep :
        /\ told' = {[x EXCEPT !.form = IF x.id \in spilled THEN "marker" ELSE x.form] :
                      x \in {x \in told : x.id \in keep}}
        /\ sighted' = [p \in DOMAIN sighted |->
                        [sighted[p] EXCEPT !.evicted = @ \/ sighted[p].witness \notin keep]]
    BY <1>1
  <1>3. RootTrue' /\ MemCallTrue'
    BY DEF CompactTold, MemInv, RootTrue, MemCallTrue, Reached, Composed, Followed
  <1>4. ASSUME NEW x \in told, x.id \in keep
        PROVE  \E y \in told' : y.id = x.id /\ y.version = x.version
    <2>1. PICK y : y = [x EXCEPT !.form = IF x.id \in spilled THEN "marker" ELSE x.form]
      OBVIOUS
    <2>2. x \in Telling
      BY DEF MemInv
    <2>3. y.id = x.id /\ y.version = x.version
      BY <2>1, <2>2 DEF Telling
    <2> QED BY <1>2, <1>4, <2>1, <2>3
  <1>5. told' \subseteq Telling
    BY <1>2 DEF MemInv, Telling
  <1>6. DOMAIN sighted = MemPaths
    BY DEF MemInv
  <1>7. ASSUME NEW p \in MemPaths
        PROVE  /\ sighted'[p] \in MemSighting /\ sighted'[p].known = sighted[p].known
               /\ sighted'[p].stamp = sighted[p].stamp /\ sighted'[p].witness = sighted[p].witness
               /\ sighted'[p].how = sighted[p].how
               /\ sighted'[p].evicted = (sighted[p].evicted \/ sighted[p].witness \notin keep)
    <2>1. sighted'[p] = [sighted[p] EXCEPT !.evicted = sighted[p].evicted \/ sighted[p].witness \notin keep]
      BY <1>2, <1>6
    <2>2. sighted[p] \in MemSighting
      BY DEF MemInv
    <2>3. (sighted[p].evicted \/ sighted[p].witness \notin keep) \in BOOLEAN
      OBVIOUS
    <2> QED BY <2>1, <2>2, <2>3 DEF MemSighting
  <1>8. sighted' \in [MemPaths -> MemSighting]
    BY <1>2, <1>6, <1>7
  <1>9. SightingsHaveResults'
    <2> SUFFICES ASSUME NEW p \in MemPaths, sighted'[p].known, ~sighted'[p].evicted
                 PROVE  \E y \in told' : y.id = sighted'[p].witness
      BY <1>8 DEF SightingsHaveResults
    <2>1. sighted[p].known /\ ~sighted[p].evicted /\ sighted[p].witness \in keep
      BY <1>7
    <2>2. PICK x \in told : x.id = sighted[p].witness
      BY <1>6, <2>1 DEF MemInv, SightingsHaveResults
    <2> QED BY <1>4, <1>7, <2>1, <2>2
  <1>10. ASSUME NEW p \in MemPaths PROVE MemSightingTrue(p)'
    <2> SUFFICES ASSUME sighted'[p].known, ~sighted'[p].evicted, sighted'[p].how = "seen"
                 PROVE  \E x \in told' : x.id = sighted'[p].witness /\ x.version = sighted'[p].stamp
      BY DEF MemSightingTrue
    <2>1. sighted[p].known /\ ~sighted[p].evicted /\ sighted[p].how = "seen" /\ sighted[p].witness \in keep
      BY <1>7
    <2>2. PICK x \in told : x.id = sighted[p].witness /\ x.version = sighted[p].stamp
      BY <2>1 DEF MemInv, MemSightingTrue
    <2> QED BY <1>4, <1>7, <2>1, <2>2
  <1>11. MemPaths' = MemPaths
    BY DEF MemPaths, PathsOf
  <1> QED BY <1>3, <1>5, <1>8, <1>9, <1>10, <1>11 DEF MemInv

LEMMA SessionsBegin ==
    ASSUME MemInv, NewSession
    PROVE  MemInv'
  <1>1. RootTrue' /\ MemCallTrue'
    BY DEF NewSession, MemInv, RootTrue, MemCallTrue, Reached, Composed, Followed
  <1>2. sighted' = [p \in MemPaths |-> Unseen] /\ told' = {}
    BY DEF NewSession, MemInv
  <1>3. MemPaths' = MemPaths
    BY DEF MemPaths, PathsOf
  <1> QED BY <1>1, <1>2, <1>3 DEF MemInv, SightingsHaveResults, MemSightingTrue, Unseen, MemSighting

LEMMA MemoryStepKeeps == MemInv /\ [MemoryNext]_memVars => MemInv'
  <1> SUFFICES ASSUME MemInv, [MemoryNext]_memVars PROVE MemInv'
    OBVIOUS
  <1>1. ASSUME NEW n \in Slugs, LoadAsk(n) \/ WriteAsk(n) PROVE MemInv'
    BY <1>1, CallsBegin
  <1>2. CASE LoadRead \/ Recheck
    BY <1>2, CallsGoOn
  <1>3. CASE LoadStamp
    BY <1>3, CallRecords DEF LoadStamp
  <1>4. CASE WriteDocument
    BY <1>4, DocumentWritten
  <1>5. CASE WroteStamp
    BY <1>5, CallRecords DEF WroteStamp
  <1>6. CASE CallDropped
    BY <1>6, CallsEnd DEF CallDropped
  <1>7. CASE OtherChanges
    BY <1>7, OthersWrite
  <1>8. CASE CompactTold
    BY <1>8, CompactionEvicts
  <1>9. CASE NewSession
    BY <1>9, SessionsBegin
  <1>10. CASE UNCHANGED memVars
    <2>1. RootTrue' /\ MemCallTrue' /\ UNCHANGED <<sighted, told>>
      BY <1>10 DEF memVars, MemInv, RootTrue, MemCallTrue, Reached, Composed, Followed
    <2> QED BY <2>1, LedgerUntouched
  <1> QED BY <1>1, <1>2, <1>3, <1>4, <1>5, <1>6, <1>7, <1>8, <1>9, <1>10 DEF MemoryNext

\* The ledger's account of the memories, in every state.
THEOREM MemoryHolds == MemorySpec => []MemInv
  <1> QED BY MemoryBegins, MemoryStepKeeps, PTL DEF MemorySpec

(* A document that a write passes on is the one its sighting names.         *)
LEMMA ReplacedIsSeen ==
    ASSUME MemInv, [MemoryNext]_memVars
    PROVE  ReplacesByKnownWay
  <1> DEFINE n == memCall.name
             s == sighted[Composed(n)]
  <1> SUFFICES ASSUME Replaces, ~ShownWhole(stored[n].version), s.how # "absorbed"
               PROVE  \E x \in told : x.id = s.witness /\ x.form \in {"marker", "cut"}
    BY DEF ReplacesByKnownWay
  <1>1. /\ memCall.at = "asked" /\ memCall.tool = "write" /\ memCall'.at = "writing"
        /\ stored[n].kind = "file" /\ n \in Slugs
    BY DEF Replaces, MemInv, MemCallTrue
  <1>2. ~UnseenOverwrite(n)
    <2>1. NoCall.at = "idle"
      BY DEF NoCall
    <2> QED BY <1>1, <2>1 DEF MemoryNext, memVars, MemoryIdle, LoadAsk, WriteAsk, LoadRead, LoadStamp, Recheck, WriteDocument,
              WroteStamp, CallDropped, EndCall, OtherChanges, CompactTold, NewSession
  <1>3. Standing(s, stored[n].version) = "current"
    BY <1>1, <1>2 DEF UnseenOverwrite
  <1>4. s.known /\ ~s.evicted /\ ~Differs(s.stamp, stored[n].version)
    BY <1>3 DEF Standing
  <1>5. Composed(n) \in MemPaths /\ s \in MemSighting
    BY <1>1, NamesHavePaths DEF MemInv
  <1>6. s.how = "seen"
    BY <1>5 DEF MemSighting
  <1>7. PICK x \in told : x.id = s.witness /\ x.version = s.stamp
    BY <1>4, <1>5, <1>6 DEF MemInv, MemSightingTrue
  <1>8. x.version \in 1..MaxVersion /\ x.form \in {"full", "cut", "marker"}
    BY DEF MemInv, Telling
  <1>9. stored[n].version \in 0..MaxVersion
    BY <1>1, DocumentFields DEF MemInv, RootTrue
  <1>10. x.version = stored[n].version
    BY <1>4, <1>7, <1>8, <1>9, LedgerAssumption DEF Differs, NoStamp
  <1> QED BY <1>7, <1>8, <1>10 DEF ShownWhole

(* A load makes its sighting good for what is there.                        *)
LEMMA LoadingUnlocks ==
    ASSUME MemInv
    PROVE  LoadUnlocks
  <1> SUFFICES ASSUME LoadStamp, Observed = "seen", Reached(memCall.name) = Composed(memCall.name)
               PROVE  Standing(sighted'[Composed(memCall.name)], stored[memCall.name].version) = "current"
    BY DEF LoadUnlocks
  <1>1. PICK p : p = memCall.path
    OBVIOUS
  <1>2. p = Composed(memCall.name) /\ p \in MemPaths
    BY <1>1, NamesHavePaths DEF LoadStamp, MemInv, MemCallTrue
  <1>3. p[2] = memCall.name
    BY <1>2 DEF Composed
  <1>4. sighted'[p] = [known |-> TRUE, stamp |-> StampAt(p), witness |-> memCall.id, evicted |-> FALSE, how |-> Observed]
    BY <1>1, <1>2 DEF LoadStamp, Record, MemInv
  <1>5. StampAt(p) \in {NoStamp, stored[memCall.name].version}
    BY <1>3 DEF StampAt, At
  <1> QED BY <1>2, <1>4, <1>5 DEF Standing, Differs

(* What a session lists is there to be read.                                *)
LEMMA ListedIsReadable ==
    ASSUME MemInv
    PROVE  IndexedLoads
  BY DEF IndexedLoads, NewSession, Scan

\* A memory is replaced unseen only in the known ways, and a load unlocks its
\* replacement, for any names, links, sessions, calls and other writers
\* (refuse_unseen_overwrite, LoadMemory::run_prepared, MemoryCatalog::scan).
THEOREM MemoriesStayGuarded == MemorySpec => MemoriesAreGuarded
  <1>1. MemInv => SightingsHaveResults
    BY DEF MemInv
  <1>2. MemInv /\ [MemoryNext]_memVars =>
            [ReplacesByKnownWay /\ SightingsHaveResults /\ LoadUnlocks /\ IndexedLoads]_memVars
    BY <1>1, ReplacedIsSeen, LoadingUnlocks, ListedIsReadable
  <1> QED BY <1>2, MemoryHolds, PTL DEF MemorySpec, MemoriesAreGuarded

-----------------------------------------------------------------------------
(* WebFetch.                                                                *)

HostAddresses == UNION {UNION Hosts[h] : h \in DOMAIN Hosts}

\* The call in progress is about one host, the one it was prepared for, and a
\* literal host was looked at when it was.
FetchInv ==
    /\ fetch.phase # "idle" =>
          /\ fetch.host \in DOMAIN Hosts
          /\ fetch.previous \in Seq(DOMAIN Hosts) /\ fetch.previous # <<>> /\ Head(fetch.previous) = fetch.host
          /\ fetch.host \in Literals => \A a \in UNION Hosts[fetch.host] : ~IsBlocked(a)
    /\ fetch = [phase |-> fetch.phase, host |-> fetch.host, start |-> fetch.start, max |-> fetch.max,
                previous |-> fetch.previous, status |-> fetch.status]
    /\ \A d \in dialled : d.to \in HostAddresses

WebInv == FetchInv /\ ConnectsAsAuthorized

(* An address is blocked exactly when its packets end inside.               *)
LEMMA BlockedLeadsInside ==
    ASSUME NEW a \in HostAddresses
    PROVE  IsBlocked(a) <=> Reaches(a) \in Internal
  <1>1. a.form = "v4" => a.carries = "none"
    BY AddressShapes DEF HostAddresses
  <1>2. CASE a.form = "v4"
    BY <1>1, <1>2 DEF IsBlocked, BlockedV4, Reaches
  <1>3. CASE a.form # "v4" /\ a.class = "loopback"
    BY <1>3 DEF IsBlocked, Reaches, Internal
  <1>4. CASE a.form # "v4" /\ a.class # "loopback"
    BY <1>4 DEF IsBlocked, BlockedV4, BlockedV6, EmbeddedV4, Reaches
  <1> QED BY <1>2, <1>3, <1>4

(* A call that is over, with its connections made.                          *)
LEMMA EndKeepsInv ==
    ASSUME WebInv, NEW r, Ended(r), UNCHANGED dialled, r.kind # "blocked_address"
    PROVE  WebInv'
  <1>1. fetch' = Idle /\ reply' = r
    BY DEF Ended
  <1> QED BY <1>1 DEF WebInv, FetchInv, ConnectsAsAuthorized, Idle

LEMMA PrepareKeepsInv ==
    ASSUME WebInv, NEW host \in DOMAIN Hosts, NEW max, Prepare(host, max)
    PROVE  WebInv'
  <1>1. fetch.phase = "idle" /\ dialled' = {}
    BY DEF Prepare
  <1>2. CASE host \in Literals /\ \E a \in UNION Hosts[host] : IsBlocked(a)
    <2>1. UNCHANGED fetch
      BY <1>2 DEF Prepare
    <2>2. \E h \in Literals : \E a \in UNION Hosts[h] : Reaches(a) \in Internal
      <3>1. PICK a \in UNION Hosts[host] : IsBlocked(a)
        BY <1>2
      <3>2. a \in HostAddresses
        BY DEF HostAddresses
      <3> QED BY <1>2, <3>1, <3>2, BlockedLeadsInside
    <2> QED BY <1>1, <2>1, <2>2 DEF WebInv, FetchInv, ConnectsAsAuthorized
  <1>3. CASE ~(host \in Literals /\ \E a \in UNION Hosts[host] : IsBlocked(a)) /\ max = 0
    <2>1. UNCHANGED fetch /\ reply' = Failure("invalid_arguments")
      BY <1>3 DEF Prepare
    <2>2. reply'.kind = "invalid_arguments"
      BY <2>1 DEF Failure, NoReply
    <2> QED BY <1>1, <2>1, <2>2 DEF WebInv, FetchInv, ConnectsAsAuthorized
  <1>4. CASE ~(host \in Literals /\ \E a \in UNION Hosts[host] : IsBlocked(a)) /\ max # 0
    <2>1. /\ fetch' = [Idle EXCEPT !.phase = "dial", !.host = host, !.start = learned.next, !.max = max,
                                   !.previous = <<host>>]
          /\ reply' = NoReply
      BY <1>4 DEF Prepare
    <2>2. fetch' = [phase |-> "dial", host |-> host, start |-> learned.next, max |-> max,
                    previous |-> <<host>>, status |-> "ok"]
      BY <2>1 DEF Idle
    <2>3. reply'.kind = "none"
      BY <2>1 DEF NoReply
    <2>4. <<host>> \in Seq(DOMAIN Hosts) /\ <<host>> # <<>> /\ Head(<<host>>) = host
      OBVIOUS
    <2> QED BY <1>1, <1>4, <2>2, <2>3, <2>4 DEF WebInv, FetchInv, ConnectsAsAuthorized
  <1> QED BY <1>2, <1>3, <1>4

LEMMA DialKeepsInv ==
    ASSUME WebInv, Dial
    PROVE  WebInv'
  <1>1. PICK answers \in Hosts[fetch.host] :
          LET usable == IF fetch.host \in Literals THEN answers ELSE Vetted(answers)
          IN IF usable = {} THEN Ended(Failure("fetch")) /\ UNCHANGED dialled
             ELSE \E a \in usable : /\ dialled' = dialled \cup {[host |-> fetch.host, to |-> a]}
                                    /\ fetch' = [fetch EXCEPT !.phase = "head"]
                                    /\ UNCHANGED <<read, reply>>
    BY DEF Dial
  <1>2. PICK usable : usable = IF fetch.host \in Literals THEN answers ELSE Vetted(answers)
    OBVIOUS
  <1>3. fetch.phase = "dial"
    BY DEF Dial
  <1>4. CASE usable = {}
    <2>1. Ended(Failure("fetch")) /\ UNCHANGED dialled
      BY <1>1, <1>2, <1>4
    <2>2. Failure("fetch").kind = "fetch"
      BY DEF Failure, NoReply
    <2> QED BY <2>1, <2>2, EndKeepsInv
  <1>5. CASE usable # {}
    <2>1. PICK a \in usable : /\ dialled' = dialled \cup {[host |-> fetch.host, to |-> a]}
                              /\ fetch' = [fetch EXCEPT !.phase = "head"]
                              /\ UNCHANGED <<read, reply>>
      BY <1>1, <1>2, <1>5
    <2>2. a \in answers /\ ~IsBlocked(a)
      <3>1. a \in UNION Hosts[fetch.host] \/ fetch.host \notin Literals
        BY <1>2
      <3> QED BY <1>2, <1>3, <3>1 DEF Vetted, WebInv, FetchInv
    <2>3. a \in HostAddresses
      BY <1>3, <2>2 DEF HostAddresses, WebInv, FetchInv
    <2>4. Reaches(a) \notin Internal
      BY <2>2, <2>3, BlockedLeadsInside
    <2>5. fetch' = [phase |-> "head", host |-> fetch.host, start |-> fetch.start, max |-> fetch.max,
                    previous |-> fetch.previous, status |-> fetch.status]
      BY <2>1 DEF WebInv, FetchInv
    <2>6. FetchInv'
      BY <1>3, <2>1, <2>3, <2>5 DEF WebInv, FetchInv
    <2>7. \A d \in dialled' : d.host = fetch.host /\ Reaches(d.to) \notin Internal
      BY <1>3, <2>1, <2>4 DEF WebInv, FetchInv, ConnectsAsAuthorized
    <2> QED BY <1>3, <2>1, <2>5, <2>6, <2>7 DEF WebInv, FetchInv, ConnectsAsAuthorized
  <1> QED BY <1>4, <1>5

LEMMA RedirectKeepsInv ==
    ASSUME WebInv, NEW target \in DOMAIN Hosts, Redirected(target) \/ OfferChoices(target)
    PROVE  WebInv'
  <1>1. fetch.phase = "head" /\ UNCHANGED dialled
    BY DEF Redirected, OfferChoices
  <1>2. PICK r : r = Failure(IF target = Head(fetch.previous) THEN "too_many_redirects" ELSE "cross_origin_redirect")
    OBVIOUS
  <1>3. r.kind # "blocked_address"
    BY <1>2 DEF Failure, NoReply
  <1>4. CASE Ended(r)
    BY <1>1, <1>3, <1>4, EndKeepsInv
  <1>5. CASE Follows(target) /\ fetch' = [fetch EXCEPT !.phase = "dial", !.host = target, !.previous = Append(@, target)]
             /\ UNCHANGED reply
    <2>1. target = fetch.host
      BY <1>1, <1>5 DEF Follows, WebInv, FetchInv
    <2>2. fetch' = [phase |-> "dial", host |-> target, start |-> fetch.start, max |-> fetch.max,
                    previous |-> Append(fetch.previous, target), status |-> fetch.status]
      BY <1>5 DEF WebInv, FetchInv
    <2>3. PICK previous : previous = fetch.previous
      OBVIOUS
    <2>4. previous \in Seq(DOMAIN Hosts) /\ previous # <<>> /\ Head(previous) = target
      BY <1>1, <2>1, <2>3 DEF WebInv, FetchInv
    <2>5. /\ Append(previous, target) \in Seq(DOMAIN Hosts) /\ Append(previous, target) # <<>>
          /\ Head(Append(previous, target)) = target
      BY <2>4
    <2> QED BY <1>1, <1>5, <2>1, <2>2, <2>3, <2>5 DEF WebInv, FetchInv, ConnectsAsAuthorized
  <1> QED BY <1>2, <1>4, <1>5 DEF Redirected, OfferChoices

(* The head and the body of a response.                                     *)
LEMMA BodyKeepsInv ==
    ASSUME WebInv, UNCHANGED dialled,
           \/ \E status \in {"ok", "error"} : HeadArrives(status)
           \/ \E n \in 1..Len(page.bytes) : Chunk(n)
           \/ BodyEnds
    PROVE  WebInv'
  <1>1. ASSUME NEW status \in {"ok", "error"}, HeadArrives(status)
        PROVE  WebInv'
    <2>1. fetch' = [phase |-> "body", host |-> fetch.host, start |-> fetch.start, max |-> fetch.max,
                    previous |-> fetch.previous, status |-> status]
      BY <1>1 DEF HeadArrives, WebInv, FetchInv
    <2> QED BY <1>1, <2>1 DEF HeadArrives, WebInv, FetchInv, ConnectsAsAuthorized
  <1>2. ASSUME NEW body, NEW cut, Answer(body, cut)
        PROVE  WebInv'
    <2>1. PICK r : Ended(r) /\ r.kind = IF fetch.status = "ok" THEN "none" ELSE "http_status"
      BY <1>2 DEF Answer
    <2> QED BY <2>1, EndKeepsInv
  <1>3. ASSUME NEW n \in 1..Len(page.bytes), Chunk(n)
        PROVE  WebInv'
    <2>1. CASE Fits(Len(read) + n)
      <3>1. UNCHANGED <<fetch, reply>>
        BY <1>3, <2>1 DEF Chunk
      <3> QED BY <3>1 DEF WebInv, FetchInv, ConnectsAsAuthorized
    <2>2. CASE ~Fits(Len(read) + n)
      BY <1>2, <1>3, <2>2 DEF Chunk
    <2> QED BY <2>1, <2>2
  <1>4. CASE BodyEnds
    BY <1>2, <1>4 DEF BodyEnds
  <1> QED BY <1>1, <1>3, <1>4

\* A fetch connects only to the host it was authorized for and never to an
\* address that leads inside, whatever redirects and lookups say, and refuses a
\* literal only for an address that does (GuardedResolver, is_blocked,
\* same_origin_redirects).
THEOREM FetchesConnectAsAuthorized == WebSpec => []ConnectsAsAuthorized
  <1>1. WebInit => WebInv
    BY DEF WebInit, WebInv, FetchInv, ConnectsAsAuthorized, Idle, NoReply
  <1>2. WebInv /\ [WebNext]_webVars => WebInv'
    <2> SUFFICES ASSUME WebInv, [WebNext]_webVars
                 PROVE  WebInv'
      OBVIOUS
    <2>1. ASSUME NEW host \in DOMAIN Hosts, NEW max \in MaxLengths, Prepare(host, max)
          PROVE  WebInv'
      BY <2>1, PrepareKeepsInv
    <2>2. CASE Dial
      BY <2>2, DialKeepsInv
    <2>3. ASSUME NEW target \in DOMAIN Hosts, Redirected(target) \/ OfferChoices(target)
          PROVE  WebInv'
      BY <2>3, RedirectKeepsInv
    <2>4. CASE \/ \E status \in {"ok", "error"} : HeadArrives(status)
               \/ \E n \in 1..Len(page.bytes) : Chunk(n)
               \/ BodyEnds
      <3>1. UNCHANGED dialled
        BY <2>4 DEF HeadArrives, Chunk, BodyEnds
      <3> QED BY <2>4, <3>1, BodyKeepsInv
    <2>5. ASSUME NEW kind \in {"timeout", "fetch"}, Fails(kind)
          PROVE  WebInv'
      <3>1. Failure(kind).kind = kind
        BY DEF Failure, NoReply
      <3> QED BY <2>5, <3>1, EndKeepsInv DEF Fails
    <2>6. CASE UNCHANGED webVars
      BY <2>6 DEF webVars, WebInv, FetchInv, ConnectsAsAuthorized
    <2> QED BY <2>1, <2>2, <2>3, <2>4, <2>5, <2>6 DEF WebNext
  <1>3. WebInv => ConnectsAsAuthorized
    BY DEF WebInv
  <1> QED BY <1>1, <1>2, <1>3, PTL DEF WebSpec

-----------------------------------------------------------------------------
(* BashTool.                                                                *)

ProcessType == [st : {"none", "alive", "dead"}, inGroup : BOOLEAN, holds : BOOLEAN]
NoHolders == \A p \in All : ~(Alive(p) /\ procs[p].holds)

\* A capture that has taken the first n bytes: the head is full before the tail
\* takes one, and the tail is the last ones.
Captured(c, n) ==
    /\ c = [head |-> c.head, tail |-> c.tail, total |-> n, closed |-> c.closed]
    /\ c.head \in Seq(Nat) /\ c.tail \in Seq(Nat) /\ c.closed \in BOOLEAN
    /\ \A i \in 1..Len(c.head) : c.head[i] = i
    /\ \A i \in 1..Len(c.tail) : c.tail[i] = (n - Len(c.tail)) + i
    /\ Len(c.head) <= HeadBytes /\ (Len(c.head) < HeadBytes => Len(c.head) = n)
    /\ Len(c.head) + Len(c.tail) <= n

BashType ==
    /\ procs \in [All -> ProcessType]
    /\ pipe = [written |-> pipe.written, read |-> pipe.read, capture |-> pipe.capture, attached |-> pipe.attached]
    /\ pipe.written \in Nat /\ pipe.read \in Nat /\ pipe.attached \in BOOLEAN

\* Until the result is out the capture holds what was read, and a reader that met
\* the end of the pipe has read all there will ever be.
Reading ==
    phase # "done" =>
        /\ Captured(pipe.capture, pipe.read)
        /\ pipe.capture.closed => pipe.read = pipe.written /\ NoHolders /\ ~pipe.attached

Phases ==
    /\ phase = "preparing" => procs = [p \in All |-> NoProcess] /\ ~pipe.attached /\ ~pipe.capture.closed
    /\ phase \in {"preparing", "waiting"} => shellResult = NoResult
    /\ phase = "done" => ~pipe.attached

BashInv == BashType /\ Reading /\ Phases /\ NoStragglers /\ OutputIsHonest

(* A chunk is taken by the head as long as it has room, then by the tail.   *)
LEMMA PushCaptures ==
    ASSUME NEW c, NEW r \in Nat, NEW n \in Nat \ {0}, Captured(c, r), NEW bytes, bytes = [i \in 1..n |-> r + i]
    PROVE  Captured(Push(c, bytes), r + n) /\ Push(c, bytes).closed = c.closed
  <1>1. bytes \in Seq(Nat) /\ Len(bytes) = n /\ \A i \in 1..n : bytes[i] = r + i
    <2>1. bytes \in [1..n -> Nat]
      OBVIOUS
    <2>2. bytes \in Seq(Nat)
      BY <2>1, SeqDef
    <2> QED BY <2>1, <2>2, LenProperties
  <1>2. PICK head, tail : head = c.head /\ tail = c.tail
    OBVIOUS
  <1>3. /\ head \in Seq(Nat) /\ tail \in Seq(Nat) /\ Len(head) \in Nat /\ Len(tail) \in Nat
        /\ \A i \in 1..Len(head) : head[i] = i
        /\ \A i \in 1..Len(tail) : tail[i] = (r - Len(tail)) + i
        /\ Len(head) <= HeadBytes /\ (Len(head) < HeadBytes => Len(head) = r)
        /\ Len(head) + Len(tail) <= r /\ HeadBytes \in Nat /\ TailBytes \in Nat
    BY <1>2, LenProperties, CaptureSizes DEF Captured
  <1>4. PICK h : h = IF n < HeadBytes - Len(head) THEN n ELSE HeadBytes - Len(head)
    OBVIOUS
  <1>5. /\ h \in 0..n /\ Len(head) + h <= HeadBytes
        /\ (h > 0 => Len(head) = r /\ Len(tail) = 0)
        /\ (Len(head) + h < HeadBytes => Len(head) + h = r + n)
    <2>1. PICK a, b : a = Len(head) /\ b = Len(tail)
      OBVIOUS
    <2>2. /\ a \in Nat /\ b \in Nat /\ a <= HeadBytes /\ (a < HeadBytes => a = r) /\ a + b <= r
          /\ HeadBytes \in Nat /\ h = (IF n < HeadBytes - a THEN n ELSE HeadBytes - a)
      BY <1>3, <1>4, <2>1
    <2>3. CASE n < HeadBytes - a
      <3>1. h = n /\ a < HeadBytes /\ a = r /\ b = 0
        BY <2>2, <2>3
      <3> QED BY <2>1, <2>2, <2>3, <3>1
    <2>4. CASE ~(n < HeadBytes - a)
      <3>1. h = HeadBytes - a /\ h \in Nat /\ h <= n /\ a + h = HeadBytes
        BY <2>2, <2>4
      <3>2. h > 0 => a = r /\ b = 0
        BY <2>2, <3>1
      <3>3. a + h < HeadBytes => a + h = r + n
        BY <2>2, <3>1
      <3>4. h \in 0..n /\ a + h <= HeadBytes
        BY <2>2, <3>1
      <3> QED BY <2>1, <3>2, <3>3, <3>4
    <2> QED BY <2>3, <2>4
  <1>6. PICK first, rest : first = SubSeq(bytes, 1, h) /\ rest = SubSeq(bytes, h + 1, n)
    OBVIOUS
  <1>7. first \in Seq(Nat) /\ Len(first) = h /\ \A i \in 1..h : first[i] = r + i
    <2>1. \A i \in 1..h : bytes[i] \in Nat
      BY <1>1, <1>5
    <2>2. /\ first \in Seq(Nat) /\ Len(first) = (IF 1 <= h THEN h - 1 + 1 ELSE 0)
          /\ \A i \in 1..(h - 1 + 1) : first[i] = bytes[1 + i - 1]
      BY <1>5, <1>6, <2>1, SubSeqProperties
    <2>3. Len(first) = h
      BY <1>5, <2>2
    <2>4. ASSUME NEW i \in 1..h PROVE first[i] = r + i
      <3>1. i \in 1..(h - 1 + 1) /\ 1 + i - 1 = i /\ i \in 1..n
        BY <1>5
      <3> QED BY <1>1, <2>2, <3>1
    <2> QED BY <2>2, <2>3, <2>4
  <1>8. rest \in Seq(Nat) /\ Len(rest) = n - h /\ \A i \in 1..(n - h) : rest[i] = r + h + i
    <2>1. \A i \in (h + 1)..n : bytes[i] \in Nat
      BY <1>1, <1>5
    <2>2. /\ rest \in Seq(Nat) /\ Len(rest) = (IF h + 1 <= n THEN n - (h + 1) + 1 ELSE 0)
          /\ \A i \in 1..(n - (h + 1) + 1) : rest[i] = bytes[h + 1 + i - 1]
      <3>1. h + 1 \in Int /\ n \in Int
        BY <1>5
      <3> QED BY <1>6, <2>1, <3>1, SubSeqProperties
    <2>3. Len(rest) = n - h
      BY <1>5, <2>2
    <2>4. ASSUME NEW i \in 1..(n - h) PROVE rest[i] = r + h + i
      <3>1. h + 1 + i - 1 = h + i /\ h + i \in 1..n /\ i \in 1..(n - (h + 1) + 1)
        BY <1>5
      <3>2. bytes[h + i] = r + (h + i)
        BY <1>1, <3>1
      <3>3. rest[i] = r + (h + i)
        BY <2>2, <3>1, <3>2
      <3> QED BY <1>5, <3>3
    <2> QED BY <2>2, <2>3, <2>4
  <1>9. PICK front, long : front = head \o first /\ long = tail \o rest
    OBVIOUS
  <1>10. front \in Seq(Nat) /\ Len(front) = Len(head) + h /\ \A i \in 1..(Len(head) + h) : front[i] = i
    <2>1. /\ front \in Seq(Nat) /\ Len(front) = Len(head) + Len(first)
          /\ \A i \in 1..(Len(head) + Len(first)) : front[i] = IF i <= Len(head) THEN head[i] ELSE first[i - Len(head)]
      BY <1>3, <1>7, <1>9, ConcatProperties
    <2>2. ASSUME NEW i \in 1..(Len(head) + h) PROVE front[i] = i
      <3>1. CASE i <= Len(head)
        <4>1. i \in 1..(Len(head) + Len(first)) /\ i \in 1..Len(head)
          BY <1>3, <1>5, <1>7, <3>1
        <4> QED BY <1>3, <2>1, <3>1, <4>1
      <3>2. CASE ~(i <= Len(head))
        <4>1. i - Len(head) \in 1..h /\ h > 0 /\ Len(head) = r
          BY <1>3, <1>5, <3>2
        <4> QED BY <1>3, <1>7, <2>1, <3>2, <4>1
      <3> QED BY <3>1, <3>2
    <2> QED BY <1>7, <2>1, <2>2
  <1>11. /\ long \in Seq(Nat) /\ Len(long) = Len(tail) + (n - h)
         /\ \A i \in 1..(Len(tail) + (n - h)) : long[i] = (r + n - (Len(tail) + (n - h))) + i
    <2>1. /\ long \in Seq(Nat) /\ Len(long) = Len(tail) + Len(rest)
          /\ \A i \in 1..(Len(tail) + Len(rest)) : long[i] = IF i <= Len(tail) THEN tail[i] ELSE rest[i - Len(tail)]
      BY <1>3, <1>8, <1>9, ConcatProperties
    <2>2. ASSUME NEW i \in 1..(Len(tail) + (n - h)) PROVE long[i] = (r + n - (Len(tail) + (n - h))) + i
      <3>1. CASE i <= Len(tail)
        <4>1. h = 0 /\ i \in 1..Len(tail)
          BY <1>3, <1>5, <3>1
        <4>2. long[i] = (r - Len(tail)) + i
          BY <1>3, <1>8, <2>1, <3>1, <4>1
        <4> QED BY <1>3, <4>1, <4>2
      <3>2. CASE ~(i <= Len(tail))
        <4>1. i - Len(tail) \in 1..(n - h)
          BY <1>3, <1>5, <3>2
        <4>2. long[i] = r + h + (i - Len(tail))
          BY <1>8, <2>1, <3>2, <4>1
        <4> QED BY <1>3, <1>5, <4>2
      <3> QED BY <3>1, <3>2
    <2> QED BY <1>8, <2>1, <2>2
  <1>12. PICK over : over = IF Len(long) > TailBytes THEN Len(long) - TailBytes ELSE 0
    OBVIOUS
  <1>13. Len(long) \in Nat /\ over \in 0..Len(long)
    <2>1. Len(long) \in Nat
      BY <1>11, LenProperties
    <2>2. TailBytes \in Nat
      BY CaptureSizes
    <2> QED BY <1>12, <2>1, <2>2
  <1>14. PICK kept : kept = SubSeq(long, over + 1, Len(long))
    OBVIOUS
  <1>15. /\ kept \in Seq(Nat) /\ Len(kept) = Len(long) - over
         /\ \A i \in 1..(Len(long) - over) : kept[i] = (r + n - (Len(long) - over)) + i
    <2>1. \A i \in (over + 1)..Len(long) : long[i] \in Nat
      BY <1>11, <1>13, ElementOfSeq
    <2>2. /\ kept \in Seq(Nat) /\ Len(kept) = (IF over + 1 <= Len(long) THEN Len(long) - (over + 1) + 1 ELSE 0)
          /\ \A i \in 1..(Len(long) - (over + 1) + 1) : kept[i] = long[over + 1 + i - 1]
      BY <1>13, <1>14, <2>1, SubSeqProperties
    <2>3. ASSUME NEW i \in 1..(Len(long) - over) PROVE kept[i] = (r + n - (Len(long) - over)) + i
      <3>1. over + 1 + i - 1 = over + i /\ over + i \in 1..Len(long) /\ i \in 1..(Len(long) - (over + 1) + 1)
        BY <1>13
      <3>2. long[over + i] = (r + n - Len(long)) + (over + i)
        BY <1>11, <3>1
      <3> QED BY <1>13, <2>2, <3>1, <3>2
    <2> QED BY <1>13, <2>2, <2>3
  <1>16. Push(c, bytes) = [c EXCEPT !.total = @ + n, !.head = front, !.tail = kept]
    BY <1>1, <1>2, <1>4, <1>6, <1>9, <1>12, <1>14 DEF Push
  <1>17. Push(c, bytes) = [head |-> front, tail |-> kept, total |-> r + n, closed |-> c.closed]
    <2>1. c = [head |-> c.head, tail |-> c.tail, total |-> r, closed |-> c.closed]
      BY DEF Captured
    <2>2. PICK p : p = Push(c, bytes)
      OBVIOUS
    <2>3. p = [c EXCEPT !.total = @ + n, !.head = front, !.tail = kept]
      BY <1>16, <2>2
    <2>4. p = [head |-> front, tail |-> kept, total |-> r + n, closed |-> c.closed]
      <3>1. c.closed \in BOOLEAN /\ c.total = r
        BY <2>1 DEF Captured
      <3>2. p = [c EXCEPT !.total = r + n, !.head = front, !.tail = kept]
        BY <2>3, <3>1
      <3> QED BY <2>1, <3>1, <3>2
    <2> QED BY <2>2, <2>4
  <1>18. Len(front) <= HeadBytes /\ (Len(front) < HeadBytes => Len(front) = r + n) /\ Len(front) + Len(kept) <= r + n
    BY <1>3, <1>5, <1>10, <1>11, <1>13, <1>15
  <1>19. PICK p : p = Push(c, bytes)
    OBVIOUS
  <1>20. /\ p = [head |-> front, tail |-> kept, total |-> r + n, closed |-> c.closed]
         /\ p.head = front /\ p.tail = kept /\ p.closed = c.closed
    BY <1>17, <1>19
  <1>21. p = [head |-> p.head, tail |-> p.tail, total |-> r + n, closed |-> p.closed]
    BY <1>20
  <1>22. \A i \in 1..Len(kept) : kept[i] = (r + n - Len(kept)) + i
    BY <1>15
  <1>23. \A i \in 1..Len(front) : front[i] = i
    BY <1>10
  <1>24. c.closed \in BOOLEAN
    BY DEF Captured
  <1>25. Captured(p, r + n)
    BY <1>10, <1>15, <1>18, <1>20, <1>21, <1>22, <1>23, <1>24 DEF Captured
  <1> QED BY <1>19, <1>20, <1>25

(* What is returned is what was captured.                                   *)
LEMMA TextIsCaptured ==
    ASSUME NEW c, NEW n \in Nat, Captured(c, n)
    PROVE  /\ Text(c).head = [i \in 1..Len(Text(c).head) |-> i]
           /\ Text(c).tail = [i \in 1..Len(Text(c).tail) |-> Text(c).from + i]
           /\ ~Truncated(c) => c.closed /\ Text(c).head \o Text(c).tail = [i \in 1..n |-> i]
  <1>1. PICK head, tail : head = c.head /\ tail = c.tail
    OBVIOUS
  <1>0. c.total = n
    <2>1. c = [head |-> c.head, tail |-> c.tail, total |-> n, closed |-> c.closed]
      BY DEF Captured
    <2> QED BY <2>1
  <1>2. /\ head \in Seq(Nat) /\ tail \in Seq(Nat) /\ c.total = n
        /\ \A i \in 1..Len(head) : head[i] = i
        /\ \A i \in 1..Len(tail) : tail[i] = (n - Len(tail)) + i
        /\ Len(head) + Len(tail) <= n /\ Len(head) \in Nat /\ Len(tail) \in Nat
        /\ head \in [1..Len(head) -> Nat] /\ tail \in [1..Len(tail) -> Nat]
    BY <1>1, LenProperties DEF Captured
  <1>3. Text(c).head = head /\ Text(c).tail = tail /\ Text(c).from = n - Len(tail)
    BY <1>1, <1>2 DEF Text
  <1>4. head = [i \in 1..Len(head) |-> i] /\ tail = [i \in 1..Len(tail) |-> (n - Len(tail)) + i]
    BY <1>2
  <1>5. ASSUME ~Truncated(c)
        PROVE  c.closed /\ head \o tail = [i \in 1..n |-> i]
    <2>1. c.closed /\ ~(n - (Len(head) + Len(tail)) > 0)
      <3>1. ~(Omitted(c) > 0) /\ c.closed
        BY <1>5 DEF Truncated
      <3>2. Omitted(c) = n - (Len(head) + Len(tail))
        BY <1>1, <1>2 DEF Omitted
      <3> QED BY <3>1, <3>2
    <2>2. Len(head) + Len(tail) = n
      <3>1. PICK a, b : a = Len(head) /\ b = Len(tail)
        OBVIOUS
      <3>2. a \in Nat /\ b \in Nat /\ a + b <= n /\ ~(n - (a + b) > 0)
        BY <1>2, <2>1, <3>1
      <3>3. a + b = n
        BY <3>2
      <3> QED BY <3>1, <3>3
    <2>3. PICK all : all = head \o tail
      OBVIOUS
    <2>4. /\ all \in Seq(Nat) /\ Len(all) = Len(head) + Len(tail)
          /\ \A i \in 1..(Len(head) + Len(tail)) : all[i] = IF i <= Len(head) THEN head[i] ELSE tail[i - Len(head)]
      BY <1>2, <2>3, ConcatProperties
    <2>5. ASSUME NEW i \in 1..n PROVE all[i] = i
      <3>1. CASE i <= Len(head)
        BY <1>2, <2>2, <2>4, <3>1
      <3>2. CASE ~(i <= Len(head))
        <4>1. i - Len(head) \in 1..Len(tail)
          BY <1>2, <2>2, <3>2
        <4>2. i \in 1..(Len(head) + Len(tail))
          BY <2>2
        <4>3. all[i] = tail[i - Len(head)]
          BY <2>4, <3>2, <4>2
        <4>4. all[i] = (n - Len(tail)) + (i - Len(head))
          BY <1>2, <4>1, <4>3
        <4>5. PICK a, b : a = Len(head) /\ b = Len(tail)
          OBVIOUS
        <4>6. a \in Nat /\ b \in Nat /\ a + b = n /\ all[i] = (n - b) + (i - a)
          BY <1>2, <2>2, <4>4, <4>5
        <4>7. (n - b) + (i - a) = i
          BY <4>6
        <4> QED BY <4>6, <4>7
      <3> QED BY <3>1, <3>2
    <2>6. all \in [1..n -> Nat]
      BY <2>2, <2>4, LenProperties
    <2> QED BY <2>1, <2>3, <2>5, <2>6
  <1> QED BY <1>3, <1>4, <1>5

(* Who is killed is dead; nobody else changes.                              *)
LEMMA KilledAreGone ==
    ASSUME BashType, NEW who, procs' = Kill(procs, who)
    PROVE  /\ procs' \in [All -> ProcessType]
           /\ \A p \in All : Alive(p)' => /\ Alive(p) /\ p \notin who
                                          /\ procs'[p].inGroup = procs[p].inGroup /\ procs'[p].holds = procs[p].holds
  <1>1. \A p \in All : procs'[p] = IF p \in who THEN [procs[p] EXCEPT !.st = "dead", !.holds = FALSE] ELSE procs[p]
    BY DEF Kill
  <1>2. \A p \in All : procs[p] \in ProcessType
    BY DEF BashType
  <1>3. \A p \in All : /\ [procs[p] EXCEPT !.st = "dead", !.holds = FALSE] \in ProcessType
                       /\ [procs[p] EXCEPT !.st = "dead", !.holds = FALSE].st = "dead"
    BY <1>2 DEF ProcessType
  <1>4. procs' \in [All -> ProcessType]
    <2>1. procs' = [p \in All |-> procs'[p]]
      BY DEF Kill
    <2> QED BY <1>1, <1>2, <1>3, <2>1
  <1> QED BY <1>1, <1>3, <1>4 DEF Alive

(* Whatever the processes do among themselves, who is alive afterwards came *)
(* from one that was, with no more than it had.                             *)
LEMMA ProcessesFade ==
    ASSUME BashType, Fork \/ Detach \/ CloseOutput \/ Exit
    PROVE  /\ procs' \in [All -> ProcessType]
           /\ \A p \in All : Alive(p)' => \E q \in All : /\ Alive(q)
                                                         /\ procs'[p].inGroup => procs[q].inGroup
                                                         /\ procs'[p].holds => procs[q].holds
  <1> USE DEF BashType
  <1>1. CASE Fork
    <2>1. PICK p \in All, q \in Helpers : Alive(p) /\ procs[q].st = "none" /\ procs' = [procs EXCEPT ![q] = procs[p]]
      BY <1>1 DEF Fork
    <2>2. \A r \in All : procs'[r] = IF r = q THEN procs[p] ELSE procs[r]
      BY <2>1
    <2> QED BY <2>1, <2>2 DEF Alive
  <1>2. CASE Detach
    <2>1. PICK p \in Helpers : Alive(p) /\ procs' = [procs EXCEPT ![p].inGroup = FALSE]
      BY <1>2 DEF Detach
    <2>2. p \in All
      BY DEF All
    <2>3. [procs[p] EXCEPT !.inGroup = FALSE] \in ProcessType
      BY <2>2 DEF ProcessType
    <2>4. \A r \in All : procs'[r] = IF r = p THEN [procs[p] EXCEPT !.inGroup = FALSE] ELSE procs[r]
      BY <2>1
    <2>5. procs' \in [All -> ProcessType]
      BY <2>1, <2>3
    <2>6. \A r \in All : /\ procs'[r].st = procs[r].st /\ (procs'[r].inGroup => procs[r].inGroup)
                         /\ (procs'[r].holds => procs[r].holds)
      BY <2>2, <2>4 DEF ProcessType
    <2> QED BY <2>5, <2>6 DEF Alive
  <1>3. CASE CloseOutput
    <2>1. PICK p \in All : Alive(p) /\ procs' = [procs EXCEPT ![p].holds = FALSE]
      BY <1>3 DEF CloseOutput
    <2>3. [procs[p] EXCEPT !.holds = FALSE] \in ProcessType
      BY DEF ProcessType
    <2>4. \A r \in All : procs'[r] = IF r = p THEN [procs[p] EXCEPT !.holds = FALSE] ELSE procs[r]
      BY <2>1
    <2>5. procs' \in [All -> ProcessType]
      BY <2>1, <2>3
    <2>6. \A r \in All : /\ procs'[r].st = procs[r].st /\ (procs'[r].inGroup => procs[r].inGroup)
                         /\ (procs'[r].holds => procs[r].holds)
      BY <2>4 DEF ProcessType
    <2> QED BY <2>5, <2>6 DEF Alive
  <1>4. CASE Exit
    <2>1. PICK p \in All : procs' = Kill(procs, {p})
      BY <1>4 DEF Exit
    <2> QED BY <2>1, KilledAreGone
  <1> QED BY <1>1, <1>2, <1>3, <1>4

(* The processes of the command among themselves, and their output.         *)
LEMMA ProcessesKeepInv ==
    ASSUME BashInv, Fork \/ Detach \/ CloseOutput \/ Exit \/ Write
    PROVE  BashInv'
  <1> USE DEF BashInv
  <1>1. phase # "preparing" /\ \E p \in All : Alive(p)
    <2>1. \E p \in All : Alive(p)
      BY DEF Fork, Detach, CloseOutput, Exit, Write, All
    <2> QED BY <2>1 DEF Phases, Alive, NoProcess
  <1>2. CASE Fork \/ Detach \/ CloseOutput \/ Exit
    <2>1. UNCHANGED <<phase, pipe, shellResult>>
      BY <1>2 DEF Fork, Detach, CloseOutput, Exit
    <2>2. BashType'
      BY <1>2, <2>1, ProcessesFade DEF BashType
    <2>3. (NoHolders => NoHolders') /\ NoStragglers'
      BY <1>2, <2>1, ProcessesFade DEF NoHolders, NoStragglers
    <2>4. OutputIsHonest'
      BY <2>1, <2>3 DEF OutputIsHonest, NoHolders
    <2>5. Reading' /\ Phases'
      BY <1>1, <2>1, <2>3 DEF Reading, Phases
    <2> QED BY <2>2, <2>3, <2>4, <2>5
  <1>3. CASE Write
    <2>1. ~NoHolders /\ UNCHANGED <<phase, procs, shellResult>> /\ pipe' = [pipe EXCEPT !.written = @ + 1]
      BY <1>3 DEF Write, NoHolders
    <2>2. pipe' = [written |-> pipe.written + 1, read |-> pipe.read, capture |-> pipe.capture, attached |-> pipe.attached]
      BY <2>1 DEF BashType
    <2>3. BashType'
      BY <2>1, <2>2 DEF BashType
    <2>4. NoStragglers'
      BY <2>1 DEF NoStragglers, Alive
    <2>5. OutputIsHonest'
      BY <2>1 DEF OutputIsHonest, NoHolders
    <2>6. Reading' /\ Phases'
      BY <1>1, <2>1, <2>2 DEF Reading, Phases
    <2> QED BY <2>3, <2>4, <2>5, <2>6
  <1> QED BY <1>2, <1>3

LEMMA SpawnKeepsInv ==
    ASSUME BashInv, GiveToken \/ Spawn
    PROVE  BashInv'
  <1> USE DEF BashInv
  <1>1. phase = "preparing" /\ shellResult = NoResult /\ ~pipe.attached /\ ~pipe.capture.closed
    BY DEF GiveToken, Spawn, Phases
  <1>2. CASE GiveToken \/ (Spawn /\ phase' = "done")
    <2>1. UNCHANGED <<procs, pipe>> /\ ((phase' = "preparing" /\ UNCHANGED shellResult)
                                        \/ (phase' = "done" /\ shellResult' = [kind |-> "execution"]))
      BY <1>1, <1>2 DEF GiveToken, Spawn
    <2>2. "text" \notin DOMAIN shellResult' /\ shellResult'.kind \notin {"timeout", "cancelled"}
      BY <1>1, <2>1 DEF NoResult
    <2>3. BashType'
      BY <2>1 DEF BashType
    <2>4. Reading' /\ Phases'
      BY <1>1, <2>1 DEF Reading, Phases, NoHolders, Alive
    <2> QED BY <2>2, <2>3, <2>4 DEF NoStragglers, OutputIsHonest
  <1>3. CASE Spawn /\ phase' # "done"
    <2>1. /\ phase' = "waiting" /\ UNCHANGED shellResult
          /\ procs' = [procs EXCEPT ![Leader] = [st |-> "alive", inGroup |-> TRUE, holds |-> TRUE]]
          /\ pipe' = [pipe EXCEPT !.attached = TRUE]
      BY <1>3 DEF Spawn
    <2>2. pipe' = [written |-> pipe.written, read |-> pipe.read, capture |-> pipe.capture, attached |-> TRUE]
      BY <2>1 DEF BashType
    <2>3. [st |-> "alive", inGroup |-> TRUE, holds |-> TRUE] \in ProcessType
      BY DEF ProcessType
    <2>4. procs' \in [All -> ProcessType]
      BY <2>1, <2>3 DEF BashType
    <2>5. BashType'
      BY <2>2, <2>4 DEF BashType
    <2>6. Reading' /\ Phases'
      BY <1>1, <2>1, <2>2 DEF Reading, Phases
    <2> QED BY <1>1, <2>1, <2>5, <2>6 DEF NoStragglers, OutputIsHonest, NoResult
  <1> QED BY <1>2, <1>3

LEMMA PumpKeepsInv ==
    ASSUME BashInv, Pump
    PROVE  BashInv'
  <1> USE DEF BashInv
  <1>1. pipe.attached /\ phase \notin {"done", "preparing"} /\ UNCHANGED <<phase, procs, shellResult>>
    BY DEF Pump, Phases
  <1>2. NoStragglers' /\ OutputIsHonest'
    BY <1>1 DEF NoStragglers, OutputIsHonest, Alive
  <1>3. PICK c, r, w : c = pipe.capture /\ r = pipe.read /\ w = pipe.written
    OBVIOUS
  <1>4. Captured(c, r) /\ r \in Nat /\ w \in Nat /\ ~c.closed
    BY <1>1, <1>3 DEF Reading, BashType, Captured
  <1>5. ASSUME NEW n \in 1..ChunkBytes, r + n <= w,
               pipe' = [pipe EXCEPT !.read = @ + n, !.capture = Push(@, [i \in 1..n |-> pipe.read + i])]
        PROVE  BashInv'
    <2>1. PICK bytes, d : bytes = [i \in 1..n |-> r + i] /\ d = Push(c, bytes)
      OBVIOUS
    <2>2. pipe' = [written |-> w, read |-> r + n, capture |-> d, attached |-> TRUE]
      BY <1>1, <1>3, <1>5, <2>1 DEF BashType
    <2>3. n \in Nat \ {0}
      BY CaptureSizes
    <2>4. Captured(d, r + n) /\ ~d.closed
      BY <1>4, <2>1, <2>3, PushCaptures
    <2>5. BashType'
      BY <1>1, <1>4, <2>2, <2>3 DEF BashType
    <2>6. Reading' /\ Phases'
      BY <1>1, <2>2, <2>4 DEF Reading, Phases
    <2> QED BY <1>2, <2>5, <2>6
  <1>6. ASSUME r = w, NoHolders, pipe' = [pipe EXCEPT !.capture.closed = TRUE, !.attached = FALSE]
        PROVE  BashInv'
    <2>1. PICK d : d = [c EXCEPT !.closed = TRUE]
      OBVIOUS
    <2>2. d = [head |-> c.head, tail |-> c.tail, total |-> r, closed |-> TRUE]
      <3>1. c = [head |-> c.head, tail |-> c.tail, total |-> r, closed |-> c.closed]
        BY <1>4 DEF Captured
      <3>2. DOMAIN d = {"head", "tail", "total", "closed"} /\ d = [f \in DOMAIN d |-> d[f]]
        BY <2>1, <3>1, Zenon
      <3>3. d.head = c.head /\ d.tail = c.tail /\ d.total = r
        BY <2>1, <3>1
      <3>4. d.closed = TRUE
        BY <2>1, <3>1, Zenon
      <3> QED BY <3>2, <3>3, <3>4
    <2>3. Captured(d, r) /\ d.closed
      <3>1. d.head = c.head /\ d.tail = c.tail /\ d.closed = TRUE
        BY <2>2
      <3>2. d = [head |-> d.head, tail |-> d.tail, total |-> r, closed |-> d.closed]
        BY <2>2, <3>1
      <3> QED BY <1>4, <3>1, <3>2 DEF Captured
    <2>4. pipe' = [written |-> w, read |-> r, capture |-> d, attached |-> FALSE]
      BY <1>3, <1>6, <2>1 DEF BashType
    <2>5. BashType'
      BY <1>1, <1>4, <2>4 DEF BashType
    <2>6. NoHolders'
      BY <1>1, <1>6 DEF NoHolders, Alive
    <2>7. Reading' /\ Phases'
      <3>1. pipe'.read = r /\ pipe'.written = r /\ pipe'.capture = d /\ pipe'.attached = FALSE
        <4>1. pipe'.read = r /\ pipe'.written = w /\ pipe'.capture = d
          BY <2>4
        <4>2. pipe'.attached = FALSE
          BY <2>4, Zenon
        <4> QED BY <1>6, <4>1, <4>2
      <3>2. Reading'
        BY <2>3, <2>6, <3>1 DEF Reading
      <3>3. Phases'
        BY <1>1, <3>1 DEF Phases
      <3> QED BY <3>2, <3>3
    <2> QED BY <1>2, <2>5, <2>7
  <1> QED BY <1>3, <1>5, <1>6 DEF Pump, NoHolders

(* The shell ended, or was stopped.                                         *)
LEMMA StopKeepsInv ==
    ASSUME BashInv, WaitEnds \/ Timeout \/ Drop
    PROVE  BashInv'
  <1> USE DEF BashInv
  <1>1. phase \in {"waiting", "draining"} /\ phase' \in {"draining", "dropped"} /\ UNCHANGED pipe
    BY DEF WaitEnds, Timeout, Drop
  <1>2. \/ UNCHANGED procs /\ shellResult'.kind \in {"ok", "non_zero_exit"}
        \/ UNCHANGED <<procs, shellResult>>
        \/ procs' = Kill(procs, SignalTermination)
    BY DEF WaitEnds, Timeout, Drop
  <1>3. /\ procs' \in [All -> ProcessType]
        /\ \A p \in All : Alive(p)' => Alive(p) /\ (procs'[p].inGroup => procs[p].inGroup) /\ (procs'[p].holds => procs[p].holds)
    <2>1. CASE UNCHANGED procs
      BY <2>1 DEF BashType, Alive
    <2>2. CASE procs' = Kill(procs, SignalTermination)
      BY <2>2, KilledAreGone
    <2> QED BY <1>2, <2>1, <2>2
  <1>4. NoStragglers'
    <2>1. CASE procs' = Kill(procs, SignalTermination)
      <3>1. \A p \in All : Alive(p)' => Alive(p) /\ p \notin SignalTermination /\ procs'[p].inGroup = procs[p].inGroup
        BY <2>1, KilledAreGone
      <3> QED BY <3>1 DEF NoStragglers, SignalTermination
    <2>2. CASE UNCHANGED procs /\ (UNCHANGED shellResult \/ shellResult'.kind \in {"ok", "non_zero_exit"})
      BY <2>2 DEF NoStragglers, Alive
    <2> QED BY <1>2, <2>1, <2>2
  <1>5. NoHolders => NoHolders'
    BY <1>3 DEF NoHolders
  <1>6. BashType'
    BY <1>1, <1>3 DEF BashType
  <1>7. Reading' /\ Phases'
    BY <1>1, <1>5 DEF Reading, Phases
  <1>8. OutputIsHonest'
    BY <1>1 DEF OutputIsHonest
  <1> QED BY <1>4, <1>6, <1>7, <1>8

LEMMA ReturnKeepsInv ==
    ASSUME BashInv, DrainEnds \/ GraceElapses
    PROVE  BashInv'
  <1> USE DEF BashInv
  <1>1. phase = "draining" /\ Return
    BY DEF DrainEnds, GraceElapses
  <1>2. PICK c, n, t : c = pipe.capture /\ n = pipe.read /\ t = Text(c)
    OBVIOUS
  <1>3. Captured(c, n) /\ n \in Nat /\ (c.closed => n = pipe.written /\ NoHolders)
    BY <1>1, <1>2 DEF Reading, BashType
  <1>4. /\ phase' = "done" /\ UNCHANGED procs
        /\ pipe' = [pipe EXCEPT !.attached = FALSE, !.capture = EmptyCapture]
        /\ shellResult' = [kind |-> shellResult.kind, text |-> t,
                           truncated |-> Truncated(c) \/ shellResult.kind = "timeout"]
    BY <1>1, <1>2 DEF Return
  <1>5. pipe' = [written |-> pipe.written, read |-> n, capture |-> EmptyCapture, attached |-> FALSE]
    BY <1>2, <1>4 DEF BashType
  <1>6. BashType'
    BY <1>3, <1>4, <1>5 DEF BashType
  <1>7. Reading' /\ Phases'
    BY <1>4, <1>5 DEF Reading, Phases
  <1>8. shellResult'.kind = shellResult.kind /\ shellResult'.text = t /\ (~shellResult'.truncated => ~Truncated(c))
    BY <1>4
  <1>9. NoStragglers'
    BY <1>4, <1>8 DEF NoStragglers, Alive
  <1>10. /\ t.head = [i \in 1..Len(t.head) |-> i] /\ t.tail = [i \in 1..Len(t.tail) |-> t.from + i]
         /\ ~Truncated(c) => c.closed /\ t.head \o t.tail = [i \in 1..n |-> i]
    <2>1. /\ Text(c).head = [i \in 1..Len(Text(c).head) |-> i]
          /\ Text(c).tail = [i \in 1..Len(Text(c).tail) |-> Text(c).from + i]
          /\ ~Truncated(c) => c.closed /\ Text(c).head \o Text(c).tail = [i \in 1..n |-> i]
      BY <1>3, TextIsCaptured
    <2> QED BY <1>2, <2>1
  <1>11. pipe'.written = pipe.written /\ (NoHolders => \A p \in All : ~(Alive(p) /\ procs[p].holds)')
    BY <1>4, <1>5 DEF NoHolders, Alive
  <1>12. OutputIsHonest'
    BY <1>3, <1>8, <1>10, <1>11 DEF OutputIsHonest
  <1> QED BY <1>6, <1>7, <1>9, <1>12

LEMMA BashInit_Inv ==
    ASSUME BashInit
    PROVE  BashInv
  <1>1. [p \in All |-> NoProcess] \in [All -> ProcessType]
    BY DEF NoProcess, ProcessType
  <1>2. Captured(EmptyCapture, 0) /\ ~EmptyCapture.closed
    BY CaptureSizes DEF Captured, EmptyCapture
  <1>3. pipe = [written |-> 0, read |-> 0, capture |-> EmptyCapture, attached |-> FALSE]
    BY DEF BashInit
  <1>4. BashType
    BY <1>1, <1>3 DEF BashInit, BashType
  <1>5. Reading /\ Phases
    BY <1>2, <1>3 DEF BashInit, Reading, Phases
  <1> QED BY <1>4, <1>5 DEF BashInit, BashInv, NoStragglers, OutputIsHonest, NoResult

\* However a command forks, detaches, writes and is stopped, no process of its
\* group survives its timeout or cancellation, and a result that does not say it
\* is cut has every byte, from a pipe nobody can write to any more (ManagedChild,
\* StreamCapture, output_text).
THEOREM CommandsAlwaysEndTruly == BashSpec => []CommandsEndTruly
  <1>1. BashInit => BashInv
    BY BashInit_Inv
  <1>2. BashInv /\ [BashNext]_bashVars => BashInv'
    <2>1. CASE UNCHANGED bashVars
      BY <2>1 DEF bashVars, BashInv, BashType, Reading, Phases, NoStragglers, OutputIsHonest, NoHolders, Alive
    <2> QED BY <2>1, ProcessesKeepInv, SpawnKeepsInv, PumpKeepsInv, StopKeepsInv, ReturnKeepsInv DEF BashNext
  <1>3. BashInv => CommandsEndTruly
    BY DEF BashInv, CommandsEndTruly
  <1> QED BY <1>1, <1>2, <1>3, PTL DEF BashSpec

=============================================================================
