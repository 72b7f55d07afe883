-------------------------- MODULE SessionDurability --------------------------
(***************************************************************************)
(* One durable session: the Turso journal and checkpoint rows of a single  *)
(* session id, the AgentSession objects ("handles") attached to it, the    *)
(* runner's persist-then-push boundary, the compaction pipeline (audit,    *)
(* artifact spill, candidate, atomic commit, receipt-bound install), loss  *)
(* of persistence authority, process crashes and resume.                   *)
(*                                                                         *)
(* A sequence number is a position of the journal (Seq::ZERO is 0), so     *)
(* next_seq is Len(journal) + 1.  A tool exchange is represented by its    *)
(* result message; the assistant request that opens it is in AgentLoop.    *)
(* Token measurements are choices, so that every posture of the budget is  *)
(* explored; hashes are injective on what they hash.                       *)
(***************************************************************************)
EXTENDS Naturals, Sequences, FiniteSets, Functions

CONSTANTS
    Handle,      \* AgentSession objects that may attach to the session
    Text,        \* contents of text messages
    Payload,     \* contents of tool results
    Large,       \* payloads above ARTIFACT_THRESHOLD_TOKENS
    Slimmable,   \* payloads whose tool mints Slimmable retention
    CallId,      \* tool-call ids, unique per call as providers issue them
    NoId,        \* the call id of a message that is no tool result
    NoCheckpoint,
    Manual,      \* TRUE: /compact (compact_now) may be used
    Faults,      \* TRUE: store calls may fail or end with unknown outcomes
    MaxArtifactRefs,  \* MAX_ARTIFACT_REFS of a summary
    MaxJournal,  \* bound on journal entries
    MaxActive    \* bound on the messages of a live context

ASSUME BoundsAssumption ==
    MaxArtifactRefs \in Nat /\ MaxJournal \in Nat /\ MaxActive \in Nat
ASSUME PayloadAssumption == Large \subseteq Payload /\ Slimmable \subseteq Payload
ASSUME ModeAssumption == Manual \in BOOLEAN /\ Faults \in BOOLEAN
ASSUME NoIdAssumption == NoId \notin CallId

VARIABLES
    journal,     \* journal_entries of the session, in sequence order
    artifacts,   \* ids of the tool_artifacts rows of the session
    checkpoint,  \* the latest session_checkpoints row
    sess,        \* per handle: the AgentSession
    att,         \* per handle: the compaction attempt in flight
    fault        \* has any store call failed, or ended with an unknown outcome

vars == <<journal, artifacts, checkpoint, sess, att, fault>>

-----------------------------------------------------------------------------
(* Messages, artifact identities and lineage.                              *)

(* Artifact ids are digests: of the payload text when the spill pass       *)
(* writes the row, of the whole encoded ToolResult when resume recomputes. *)
(* Mutant: the payload itself is used for the digest.                      *)
RawArtifact(m) == m.body

PayloadArtifact(m) == [hashed |-> "payload", id |-> NoId, body |-> m.body]
ResultArtifact(m)  == [hashed |-> "result", id |-> m.id, body |-> m.body]
Artifact == [hashed : {"payload", "result"}, id : CallId \cup {NoId}, body : Payload]

TextMessage   == [kind : {"text"}, id : {NoId}, body : Text]
ResultMessage == [kind : {"full", "marker", "slim"}, id : CallId, body : Payload]
SummaryBody   == [from : Nat, to : Nat, refs : SUBSET Artifact]
SummaryMessage == [kind : {"summary"}, id : {NoId}, body : SummaryBody]
Message == TextMessage \cup ResultMessage \cup SummaryMessage

IsResult(m) == m.kind \in {"full", "marker", "slim"}

Entry == [kind : {"message"}, data : Message]
         \cup [kind : {"artifact"}, data : Artifact]
         \cup [kind : {"compaction", "checkpoint"}, data : {NoId}]

(* One active message with its MessageLineage; from = 0 is no coverage.    *)
Item == [msg : Message, from : Nat, to : Nat, human : BOOLEAN,
         refs : SUBSET Artifact, verbatim : BOOLEAN, slimmable : BOOLEAN]

Appended(m, seq, human, slimmable) ==
    [msg |-> m, from |-> seq, to |-> seq, human |-> human, refs |-> {},
     verbatim |-> seq > 0, slimmable |-> slimmable]

Derived(m, from, to, human, refs) ==
    [msg |-> m, from |-> from, to |-> to, human |-> human, refs |-> refs,
     verbatim |-> FALSE, slimmable |-> FALSE]

(* Mutant: a rewritten item keeps its verbatim claim.                      *)
RewriteVerbatim(item, kind, refs) ==
    [item EXCEPT !.msg.kind = kind, !.refs = @ \cup refs]

Rewrite(item, kind, refs) ==
    Derived([item.msg EXCEPT !.kind = kind], item.from, item.to, item.human,
            item.refs \cup refs)

Messages(items) == [i \in DOMAIN items |-> items[i].msg]
JournalHead == Len(journal)
IsFact(s) == s \in 1..JournalHead /\ journal[s].kind = "message"

Session == [phase : {"down", "deferred", "durable", "failed"},
            items : Seq(Item), frontier : Nat]
NoSession == [phase |-> "down", items |-> <<>>, frontier |-> 0]

Attempt == [stage : {"idle", "spill", "decide", "commit"}, split : Nat,
            next : Nat, frontier : Nat, items : Seq(Item)]
NoAttempt == [stage |-> "idle", split |-> 0, next |-> 0, frontier |-> 0,
              items |-> <<>>]

Checkpoint == [covers : Nat, messages : Seq(Message)]
ASSUME NoCheckpointAssumption == NoCheckpoint \notin Checkpoint

TypeOK ==
    /\ journal \in Seq(Entry)
    /\ artifacts \subseteq Artifact
    /\ checkpoint \in Checkpoint \cup {NoCheckpoint}
    /\ sess \in [Handle -> Session]
    /\ att \in [Handle -> Attempt]
    /\ fault \in BOOLEAN

Idle(h) == att[h].stage = "idle"

-----------------------------------------------------------------------------
(* Opening a fresh session and appending messages.                         *)

Init ==
    /\ journal = <<>>
    /\ artifacts = {}
    /\ checkpoint = NoCheckpoint
    /\ sess = [h \in Handle |-> NoSession]
    /\ att = [h \in Handle |-> NoAttempt]
    /\ fault = FALSE

(* CliRuntime::session without a resume target: a pristine session whose   *)
(* durable identity is deferred to its first message.                      *)
Open(h) ==
    /\ journal = <<>>
    /\ \A g \in Handle : sess[g].phase = "down"
    /\ sess' = [sess EXCEPT ![h].phase = "deferred"]
    /\ UNCHANGED <<journal, artifacts, checkpoint, att, fault>>

UsedIds ==
    {journal[s].data.id : s \in {t \in 1..JournalHead : IsFact(t)}}
    \cup UNION {{sess[g].items[i].msg.id : i \in DOMAIN sess[g].items} : g \in Handle}

NewMessage ==
    TextMessage \cup {m \in ResultMessage : m.kind = "full" /\ m.id \notin UsedIds}

(* The message joins the live context whatever the store said; seq is 0    *)
(* when no receipt proves that it is journaled.                            *)
Pushed(h, m, seq, human) ==
    Append(sess[h].items,
           Appended(m, seq, human, m.kind = "full" /\ m.body \in Slimmable))

PushReady(h, m, human) ==
    /\ Idle(h)
    /\ Len(sess[h].items) < MaxActive
    /\ m \in NewMessage
    /\ human => m.kind = "text"

(* Mutant: the sequence is taken from the session's own frontier.          *)
PushAtFrontier(h, m, human) ==
    /\ PushReady(h, m, human)
    /\ sess[h].phase \in {"deferred", "durable"}
    /\ JournalHead < MaxJournal
    /\ journal' = Append(journal, [kind |-> "message", data |-> m])
    /\ sess' = [sess EXCEPT ![h] =
                   [phase |-> "durable", items |-> Pushed(h, m, sess[h].frontier + 1, human),
                    frontier |-> sess[h].frontier + 1]]
    /\ UNCHANGED <<artifacts, checkpoint, att, fault>>

(* persist_message with a receipt: append_message at the next sequence.    *)
(* The first push materializes the deferred identity at frontier zero.     *)
PushJournaled(h, m, human) ==
    /\ PushReady(h, m, human)
    /\ sess[h].phase \in {"deferred", "durable"}
    /\ JournalHead < MaxJournal
    /\ journal' = Append(journal, [kind |-> "message", data |-> m])
    /\ sess' = [sess EXCEPT ![h] =
                   [phase |-> "durable", items |-> Pushed(h, m, JournalHead + 1, human),
                    frontier |-> JournalHead + 1]]
    /\ UNCHANGED <<artifacts, checkpoint, att, fault>>

(* Mutant: a failed append leaves persistence authority in place.          *)
PushFailedKeepsAuthority(h, m, human, kept) ==
    /\ Faults
    /\ PushReady(h, m, human)
    /\ sess[h].phase = "durable"
    /\ ~kept
    /\ sess' = [sess EXCEPT ![h].items = Pushed(h, m, 0, human)]
    /\ fault' = TRUE
    /\ UNCHANGED <<journal, artifacts, checkpoint, att>>

(* create_session or append failed: authority is lost, the message stays   *)
(* usable in memory.  With an unknown commit outcome (kept = TRUE) the row *)
(* may be durable although no receipt was returned.                        *)
PushFailed(h, m, human, kept) ==
    /\ Faults
    /\ PushReady(h, m, human)
    /\ sess[h].phase \in {"deferred", "durable"}
    /\ kept => JournalHead < MaxJournal
    /\ journal' = IF kept THEN Append(journal, [kind |-> "message", data |-> m])
                          ELSE journal
    /\ sess' = [sess EXCEPT ![h].phase = "failed",
                            ![h].items = Pushed(h, m, 0, human)]
    /\ fault' = TRUE
    /\ UNCHANGED <<artifacts, checkpoint, att>>

(* A session without authority keeps talking in memory only.               *)
PushMemoryOnly(h, m, human) ==
    /\ PushReady(h, m, human)
    /\ sess[h].phase = "failed"
    /\ sess' = [sess EXCEPT ![h].items = Pushed(h, m, 0, human)]
    /\ UNCHANGED <<journal, artifacts, checkpoint, att, fault>>

(* The process ends, between any two steps.                                *)
Crash(h) ==
    /\ sess[h].phase # "down"
    /\ sess' = [sess EXCEPT ![h] = NoSession]
    /\ att' = [att EXCEPT ![h] = NoAttempt]
    /\ UNCHANGED <<journal, artifacts, checkpoint, fault>>

-----------------------------------------------------------------------------
(* The compaction pipeline.  One attempt borrows its session mutably, so   *)
(* nothing else changes the session until it ends; other handles and a     *)
(* crash may act at every await.                                           *)

Covered(item) == item.from > 0

(* journal_snapshot: head and requested rows in one observation.           *)
AuditHolds(h) ==
    /\ sess[h].frontier = JournalHead
    /\ \A i \in DOMAIN sess[h].items :
          LET it == sess[h].items[i]
          IN it.verbatim => IsFact(it.from) /\ journal[it.from].data = it.msg

(* Mutant: nothing is protected from the summary.                          *)
UnprotectedSplit(items, k) == k \in 0..Len(items)

(* The protected tail holds the latest exchange, or else the last message. *)
ProtectedSplit(items, k) ==
    /\ k \in 0..(Len(items) - 1)
    /\ (\E i \in DOMAIN items : IsResult(items[i].msg))
          => \E i \in (k + 1)..Len(items) : IsResult(items[i].msg)

CompactionReady(h) ==
    /\ Idle(h)
    /\ sess[h].phase = "durable"
    /\ sess[h].items # <<>>

LoseAuthority(h) ==
    /\ sess' = [sess EXCEPT ![h].phase = "failed"]
    /\ att' = [att EXCEPT ![h] = NoAttempt]

AuditPasses(h, k) ==
    /\ CompactionReady(h)
    /\ AuditHolds(h)
    /\ ProtectedSplit(sess[h].items, k)
    /\ att' = [att EXCEPT ![h] =
                  [stage |-> "spill", split |-> k, next |-> 0,
                   frontier |-> sess[h].frontier, items |-> sess[h].items]]
    /\ UNCHANGED <<journal, artifacts, checkpoint, sess, fault>>

AuditFails(h) ==
    /\ CompactionReady(h)
    /\ ~AuditHolds(h)
    /\ LoseAuthority(h)
    /\ UNCHANGED <<journal, artifacts, checkpoint, fault>>

(* Only large results with exact verbatim lineage, outside the tail.       *)
Spillable(item) == item.verbatim /\ item.msg.kind = "full" /\ item.msg.body \in Large

SpillTarget(h, i) ==
    /\ att[h].stage = "spill"
    /\ i \in (att[h].next + 1)..att[h].split
    /\ Spillable(att[h].items[i])
    /\ \A j \in (att[h].next + 1)..(i - 1) : ~Spillable(att[h].items[j])

(* Mutant: the frontier is not compared before a transaction.              *)
HeadUnchecked(h) == TRUE

(* compare_and_lock *)
HeadUnmoved(h) == JournalHead = att[h].frontier

(* The row and its journal fact, both new or both already there.           *)
PutRow(a) ==
    /\ a \notin artifacts => JournalHead < MaxJournal
    /\ artifacts' = artifacts \cup {a}
    /\ journal' = IF a \in artifacts THEN journal
                  ELSE Append(journal, [kind |-> "artifact", data |-> a])

(* The payload is durable before the candidate shows its marker.           *)
PutCommitted(h, i) ==
    LET a == PayloadArtifact(att[h].items[i].msg) IN
    /\ SpillTarget(h, i)
    /\ HeadUnmoved(h)
    /\ PutRow(a)
    /\ att' = [att EXCEPT ![h].next = i,
                          ![h].frontier = IF a \in artifacts THEN @ ELSE JournalHead + 1,
                          ![h].items[i] = Rewrite(@, "marker", {a})]
    /\ UNCHANGED <<checkpoint, sess, fault>>

(* Mutant: the marker is projected although the put failed.                *)
PutSkippedWithMarker(h, i) ==
    /\ SpillTarget(h, i)
    /\ att' = [att EXCEPT ![h].next = i,
                          ![h].items[i] = Rewrite(@, "marker", {})]
    /\ UNCHANGED <<journal, artifacts, checkpoint, sess, fault>>

(* A count, parse or ordinary store failure leaves this result inline.     *)
PutSkipped(h, i) ==
    /\ SpillTarget(h, i)
    /\ att' = [att EXCEPT ![h].next = i]
    /\ UNCHANGED <<journal, artifacts, checkpoint, sess, fault>>

PutConflict(h, i) ==
    /\ SpillTarget(h, i)
    /\ ~HeadUnmoved(h)
    /\ LoseAuthority(h)
    /\ UNCHANGED <<journal, artifacts, checkpoint, fault>>

PutUnknown(h, i, kept) ==
    /\ Faults
    /\ SpillTarget(h, i)
    /\ HeadUnmoved(h)
    /\ IF kept THEN PutRow(PayloadArtifact(att[h].items[i].msg))
               ELSE UNCHANGED <<journal, artifacts>>
    /\ LoseAuthority(h)
    /\ fault' = TRUE
    /\ UNCHANGED checkpoint

(* Mutant: the session does not learn the frontier of its own spills.      *)
SpillDoneKeepsFrontier(h) ==
    /\ att[h].stage = "spill"
    /\ \A i \in (att[h].next + 1)..att[h].split : ~Spillable(att[h].items[i])
    /\ att' = [att EXCEPT ![h].stage = "decide"]
    /\ UNCHANGED <<journal, artifacts, checkpoint, sess, fault>>

(* advance_durable_seq(artifacts.frontier())                               *)
SpillDone(h) ==
    /\ att[h].stage = "spill"
    /\ \A i \in (att[h].next + 1)..att[h].split : ~Spillable(att[h].items[i])
    /\ att' = [att EXCEPT ![h].stage = "decide"]
    /\ sess' = [sess EXCEPT ![h].frontier = IF att[h].frontier > @ THEN att[h].frontier ELSE @]
    /\ UNCHANGED <<journal, artifacts, checkpoint, fault>>

(* Below-threshold results with live Slimmable retention.                  *)
SlimCandidates(h) ==
    {i \in 1..att[h].split : att[h].stage = "decide" /\
        LET it == att[h].items[i]
        IN it.slimmable /\ it.verbatim /\ it.msg.kind = "full" /\ it.msg.body \notin Large}

(* deterministic_candidate: spilled and slimmed positions are derived,     *)
(* every other position keeps its lineage.                                 *)
Deterministic(h, slim) ==
    LET items == [i \in DOMAIN att[h].items |->
                    IF i \in slim THEN Rewrite(att[h].items[i], "slim", {})
                                  ELSE att[h].items[i]] IN
    /\ att[h].stage = "decide"
    /\ slim \subseteq SlimCandidates(h)
    /\ items # sess[h].items
    /\ att' = [att EXCEPT ![h].stage = "commit", ![h].items = items]
    /\ UNCHANGED <<journal, artifacts, checkpoint, sess, fault>>

(* Mutant: the summary absorbs the request the model is working on.        *)
NoAnchor(items, k) == <<>>

(* The latest human request, when the prefix would absorb it.              *)
Anchor(items, k) ==
    LET anchors == {a \in 1..k : /\ items[a].human
                                 /\ \A i \in (a + 1)..Len(items) : ~items[i].human}
    IN IF anchors = {} THEN <<>> ELSE <<items[CHOOSE a \in anchors : TRUE]>>

(* Mutant: the range runs from the first to the last message of the prefix.*)
SourceByPosition(items, k, lo, hi) ==
    lo = 1 /\ hi = k /\ \A i \in 1..k : Covered(items[i])

(* source_lineages: the least start and the greatest end of the prefix.    *)
SourceRange(items, k, lo, hi) ==
    /\ lo \in 1..k
    /\ hi \in 1..k
    /\ \A i \in 1..k : /\ Covered(items[i])
                        /\ items[lo].from <= items[i].from
                        /\ items[i].to <= items[hi].to

(* What the summary may refer to: the artifacts of the prefix, those that  *)
(* this pass stored among them.                                            *)
AllowedRefs(items, k) == UNION {items[i].refs : i \in 1..k}

(* The active summary's projection is not part of its own source, so a     *)
(* prefix of nothing else leaves nothing to summarise; nor may the answer  *)
(* be allowed more references than a summary may carry.                    *)
EmptySource(items, k) == k = 1 /\ items[1].msg.kind = "summary"
RefusedSource(items, k) ==
    EmptySource(items, k) \/ Cardinality(AllowedRefs(items, k)) > MaxArtifactRefs

(* SummarySource errors: the model is not asked, and the error counts as a *)
(* provenance violation although no store call failed.                     *)
SourceRefused(h) ==
    /\ att[h].stage = "decide"
    /\ att[h].split > 0
    /\ RefusedSource(att[h].items, att[h].split)
    /\ LoseAuthority(h)
    /\ UNCHANGED <<journal, artifacts, checkpoint, fault>>

(* semantic_candidate: a summary bound to its source range, the anchor,    *)
(* and the tail untouched.                                                 *)
Semantic(h, lo, hi, refs) ==
    LET k == att[h].split
        items == att[h].items
        from == items[lo].from
        to == items[hi].to
        summary == [kind |-> "summary", id |-> NoId,
                    body |-> [from |-> from, to |-> to, refs |-> refs]]
        anchor == Anchor(sess[h].items, k) IN
    /\ att[h].stage = "decide"
    /\ SourceRange(items, k, lo, hi)
    /\ ~RefusedSource(items, k)
    /\ refs \subseteq AllowedRefs(items, k)
    /\ Len(anchor) < k              \* strictly reduces the request
    /\ att' = [att EXCEPT
                 ![h].stage = "commit",
                 ![h].items = <<Derived(summary, from, to, FALSE, refs)>> \o anchor
                              \o SubSeq(sess[h].items, k + 1, Len(sess[h].items))]
    /\ UNCHANGED <<journal, artifacts, checkpoint, sess, fault>>

(* /compact between target and soft with everything protected: selection   *)
(* returns the unchanged deterministic candidate, which has no source      *)
(* range, and InvalidLineage invalidates persistence authority.            *)
NothingToRewrite(h) ==
    /\ Manual
    /\ att[h].stage = "decide"
    /\ att[h].split = 0
    /\ LoseAuthority(h)
    /\ UNCHANGED <<journal, artifacts, checkpoint, fault>>

(* No safe boundary, a failed or cancelled summary, a rejected candidate,  *)
(* or a rolled-back commit: the context and its authority stay.            *)
Bypass(h) ==
    /\ att[h].stage \in {"decide", "commit"}
    /\ att' = [att EXCEPT ![h] = NoAttempt]
    /\ UNCHANGED <<journal, artifacts, checkpoint, sess, fault>>

(* commit_compaction: event and checkpoint in one transaction.             *)
CommitRows(h) ==
    /\ JournalHead + 2 <= MaxJournal
    /\ journal' = journal \o <<[kind |-> "compaction", data |-> NoId],
                              [kind |-> "checkpoint", data |-> NoId]>>
    /\ checkpoint' = [covers |-> att[h].frontier, messages |-> Messages(att[h].items)]

CommitInstalled(h) ==
    /\ att[h].stage = "commit"
    /\ HeadUnmoved(h)
    /\ CommitRows(h)
    /\ sess' = [sess EXCEPT ![h].items = att[h].items, ![h].frontier = JournalHead + 2]
    /\ att' = [att EXCEPT ![h] = NoAttempt]
    /\ UNCHANGED <<artifacts, fault>>

CommitConflict(h) ==
    /\ att[h].stage = "commit"
    /\ ~HeadUnmoved(h)
    /\ LoseAuthority(h)
    /\ UNCHANGED <<journal, artifacts, checkpoint, fault>>

(* Mutant: an unknown commit outcome is treated as a rollback.             *)
CommitUnknownAsRollback(h, kept) ==
    /\ Faults
    /\ att[h].stage = "commit"
    /\ HeadUnmoved(h)
    /\ IF kept THEN CommitRows(h) ELSE UNCHANGED <<journal, checkpoint>>
    /\ att' = [att EXCEPT ![h] = NoAttempt]
    /\ fault' = TRUE
    /\ UNCHANGED <<artifacts, sess>>

CommitUnknown(h, kept) ==
    /\ Faults
    /\ att[h].stage = "commit"
    /\ HeadUnmoved(h)
    /\ IF kept THEN CommitRows(h) ELSE UNCHANGED <<journal, checkpoint>>
    /\ LoseAuthority(h)
    /\ fault' = TRUE
    /\ UNCHANGED artifacts

-----------------------------------------------------------------------------
(* resume_durable_session.                                                 *)

Covers == IF checkpoint = NoCheckpoint THEN 0 ELSE checkpoint.covers
BaseMessages == IF checkpoint = NoCheckpoint THEN <<>> ELSE checkpoint.messages

(* The summary head is proven by its own provenance; the rest is unproven. *)
Unproven == {i \in DOMAIN BaseMessages : BaseMessages[i].kind # "summary"}

(* Mutant: results are matched by content, not by call id.                 *)
ExplainsContent(s, m) == journal[s].data = m

Explains(s, m) ==
    LET fact == journal[s].data
    IN fact = m \/ (IsResult(m) /\ IsResult(fact) /\ fact.id = m.id)

(* match_journal_fact: one forward cursor that stops at the first fact     *)
(* explaining each unproven message.                                       *)
Cursor(f, i) == IF i - 1 \in Unproven THEN f[i - 1] ELSE 0

IsCursorRun(f) ==
    \A i \in Unproven :
        /\ f[i] > Cursor(f, i)
        /\ IsFact(f[i])
        /\ Explains(f[i], BaseMessages[i])
        /\ \A s \in (Cursor(f, i) + 1)..(f[i] - 1) :
              IsFact(s) => ~Explains(s, BaseMessages[i])

CursorRuns == {f \in [Unproven -> 1..Covers] : IsCursorRun(f)}

RestoredItem(f, i) ==
    LET m == BaseMessages[i]
        fact == journal[f[i]].data IN
    IF m.kind = "summary"
    THEN Derived(m, m.body.from, m.body.to, FALSE, m.body.refs)
    ELSE IF fact = m
    THEN Appended(m, f[i], FALSE, FALSE)
    ELSE Derived(m, f[i], f[i], FALSE, {ResultArtifact(fact)} \cap artifacts)

LaterFacts == {s \in (Covers + 1)..JournalHead : IsFact(s)}

Resume(h, f, later) ==
    /\ sess[h].phase = "down"
    /\ \E s \in 1..JournalHead : IsFact(s)     \* list_sessions
    /\ IsCursorRun(f)
    /\ later \in Seq(LaterFacts)
    /\ \A i, j \in DOMAIN later : i < j => later[i] < later[j]
    /\ \A s \in LaterFacts : \E j \in DOMAIN later : later[j] = s
    /\ sess' = [sess EXCEPT ![h] =
         [phase |-> "durable",
          items |-> [i \in DOMAIN BaseMessages |-> RestoredItem(f, i)]
                    \o [j \in DOMAIN later |->
                          Appended(journal[later[j]].data, later[j], FALSE, FALSE)],
          frontier |-> JournalHead]]
    /\ UNCHANGED <<journal, artifacts, checkpoint, att, fault>>

-----------------------------------------------------------------------------

Push(h) ==
    \E m \in NewMessage, human \in BOOLEAN :
        \/ PushJournaled(h, m, human)
        \/ \E kept \in BOOLEAN : PushFailed(h, m, human, kept)
        \/ PushMemoryOnly(h, m, human)

Compact(h) ==
    \/ \E k \in 0..MaxActive : AuditPasses(h, k)
    \/ AuditFails(h)
    \/ \E i \in 1..att[h].split :
          \/ PutCommitted(h, i)
          \/ PutSkipped(h, i)
          \/ PutConflict(h, i)
          \/ \E kept \in BOOLEAN : PutUnknown(h, i, kept)
    \/ SpillDone(h)
    \/ \E slim \in SUBSET SlimCandidates(h) : Deterministic(h, slim)
    \/ \E lo, hi \in 1..att[h].split :
          \E refs \in SUBSET UNION {att[h].items[i].refs : i \in DOMAIN att[h].items} :
              Semantic(h, lo, hi, refs)
    \/ SourceRefused(h)
    \/ NothingToRewrite(h)
    \/ Bypass(h)
    \/ CommitInstalled(h)
    \/ CommitConflict(h)
    \/ \E kept \in BOOLEAN : CommitUnknown(h, kept)

(* upTo[n]: the members of S in 1..n, in order.                            *)
InOrder(S) ==
    LET upTo[n \in Nat] ==
          IF n = 0 THEN <<>>
          ELSE IF n \in S THEN Append(upTo[n - 1], n) ELSE upTo[n - 1]
    IN upTo

LaterInOrder == InOrder(LaterFacts)[JournalHead]

ResumeAny(h) == \E f \in CursorRuns : Resume(h, f, LaterInOrder)

Next == \E h \in Handle : Open(h) \/ Push(h) \/ Crash(h) \/ Compact(h) \/ ResumeAny(h)

Spec == Init /\ [][Next]_vars

-----------------------------------------------------------------------------
(* Properties.                                                             *)

Sole == \A g, h \in Handle : g = h
Live(h) == Range(sess[h].items) \cup Range(att[h].items)

SoundItem(it) ==
    /\ Covered(it) => it.from <= it.to /\ it.to <= JournalHead
    /\ it.verbatim => /\ it.from = it.to
                      /\ IsFact(it.from)
                      /\ journal[it.from].data = it.msg
    /\ Covered(it) /\ IsResult(it.msg) =>
          /\ it.from = it.to
          /\ IsFact(it.from)
          /\ IsResult(journal[it.from].data)
          /\ journal[it.from].data.id = it.msg.id

(* Lineage never lies: coverage lies inside the journal, a verbatim claim  *)
(* names a fact with exactly that content, and a marker or slim skeleton   *)
(* still points at the result of its own call - through concurrent         *)
(* writers, failed writes, crashes and resume's re-matching.               *)
LineageSound == \A h \in Handle : \A it \in Live(h) : SoundItem(it)

(* While a session holds persistence authority every active message is     *)
(* journaled, so candidate construction cannot meet a message without      *)
(* coverage (InvalidLineage).                                              *)
FullyJournaled ==
    \A h \in Handle : sess[h].phase = "durable" => \A it \in Live(h) : Covered(it)

(* What is durable is a gap-free prefix of the conversation: once a        *)
(* message has no receipt, no later message has one.                       *)
NoJournalHole ==
    \A h \in Handle : \A i, j \in DOMAIN sess[h].items :
        i < j /\ Covered(sess[h].items[j]) => Covered(sess[h].items[i])

(* A marker never outruns its payload: wherever a context, a candidate or  *)
(* the checkpoint shows a marker, the row it names is in the store.        *)
MarkerHasArtifact ==
    /\ \A h \in Handle : \A it \in Live(h) :
          it.msg.kind = "marker" => PayloadArtifact(it.msg) \in artifacts
    /\ \A m \in Range(BaseMessages) :
          m.kind = "marker" => PayloadArtifact(m) \in artifacts

(* A session that is alone on its rows passes its own audit: spills,       *)
(* compactions and resume keep its frontier and lineage in step with the   *)
(* journal, so no compaction fails on the session's own writes.            *)
OwnAuditHolds ==
    Sole => \A h \in Handle : CompactionReady(h) => AuditHolds(h)

(* A session that is alone on its rows loses its authority only after the  *)
(* store failed: none of its own legal operations costs it durability.     *)
NoSpuriousPoison ==
    Sole => \A h \in Handle : sess[h].phase = "failed" => fault

(* The steps in which a call on the store fails for good or ends with an   *)
(* unknown outcome.                                                        *)
StoreFails(h) ==
    \/ \E m \in NewMessage, human, kept \in BOOLEAN : PushFailed(h, m, human, kept)
    \/ \E i \in 1..att[h].split, kept \in BOOLEAN : PutUnknown(h, i, kept)
    \/ \E kept \in BOOLEAN : CommitUnknown(h, kept)

Poisoned(h) == sess[h].phase # "failed" /\ sess'[h].phase = "failed"

FactsAfter ==
    LET later == LaterInOrder IN [j \in DOMAIN later |-> journal[later[j]].data]

(* What a resume rebuilds: the checkpoint's projection, then every fact    *)
(* the checkpoint does not cover.                                          *)
Recovered == BaseMessages \o FactsAfter

Renders(new, old) ==
    new = old \/ (IsResult(new) /\ IsResult(old) /\ new.id = old.id)

Transcript == INSTANCE DurableTranscript WITH
    transcript <- Recovered,
    IsSummary <- LAMBDA m : m.kind = "summary"

(* With one handle the durable state implements the                        *)
(* abstract transcript: only a push or a committed compaction changes what *)
(* a resume rebuilds; spills, conflicts, failures and crashes never do.    *)
ImplementsTranscript == Transcript!Spec

(* A crash at any quiet point loses nothing: resume would rebuild exactly  *)
(* the context the live session is showing the model.                      *)
ResumeFaithful ==
    Sole => \A h \in Handle : CompactionReady(h) => Recovered = Messages(sess[h].items)

(* Resume never rejects what the program wrote: the forward cursor finds a *)
(* fact for every unproven checkpoint message (no LineageUnresolved).      *)
Recoverable == CursorRuns # {}

(* What a resume reads is what the session left: it is never rejected, and *)
(* it rebuilds the context the session was showing.                        *)
ResumesAsLeft == Recoverable /\ ResumeFaithful

(* A session that is alone on its rows keeps the right to write them: its  *)
(* own spills, compactions and resumes never fail its audit nor move the   *)
(* frontier it compares with.  It loses its authority in the very step in  *)
(* which the store fails, and otherwise only where the request it built    *)
(* for itself is refused: a summary source with nothing in it or with too  *)
(* many references, or /compact with nothing to select (audit_journal,     *)
(* invalidates_persistence_authority, mark_persistence_failed).            *)
AuthorityKept ==
    [][/\ OwnAuditHolds'
       /\ Sole => \A h \in Handle :
            Poisoned(h) => StoreFails(h) \/ SourceRefused(h) \/ NothingToRewrite(h)]_vars

(* The journal is all there is to the conversation: lineage never claims   *)
(* what it does not hold, a session with authority has a row for every     *)
(* message, what is durable is a prefix, and no marker outruns its payload *)
(* (MessageLineage, persist_message, spill_large_result).                  *)
JournalSound == LineageSound /\ FullyJournaled /\ NoJournalHole /\ MarkerHasArtifact

(* Nothing slipped in between a checkpoint's frontier and the checkpoint:  *)
(* the two entries after covers are its event and its own row, so resume's *)
(* "everything after covers" misses no writer's fact.                      *)
CheckpointSealsJournal ==
    checkpoint # NoCheckpoint =>
        /\ checkpoint.covers + 2 <= JournalHead
        /\ journal[checkpoint.covers + 1].kind = "compaction"
        /\ journal[checkpoint.covers + 2].kind = "checkpoint"

(* Every journaled message is accounted for by the live context: it is     *)
(* shown, rewritten in place, or lies in the range of a summary.  Holds    *)
(* when message contents are distinct.                                     *)
Distinct == \A s, t \in 1..JournalHead :
    IsFact(s) /\ IsFact(t) /\ journal[s].data = journal[t].data => s = t

Accounted(h) ==
    \A s \in 1..JournalHead : IsFact(s) =>
        \E it \in Range(sess[h].items) : it.from <= s /\ s <= it.to

NothingForgotten ==
    Sole /\ Distinct => \A h \in Handle : CompactionReady(h) => Accounted(h)

(* resume.rs: facts at or below covers that no active message claimed were *)
(* absorbed by compaction.  Contents may repeat.                           *)
UnclaimedWereAbsorbed ==
    Sole => \A h \in Handle : CompactionReady(h) => Accounted(h)

(* resume.rs: recomputing the result hashes recovers which artifacts the   *)
(* rewrites reference - a resumed marker keeps its reference.              *)
ResumeKeepsArtifactRefs ==
    \A h \in Handle : \A it \in Range(sess[h].items) :
        it.msg.kind = "marker" => PayloadArtifact(it.msg) \in it.refs

LastOf(items, P(_)) ==
    {items[i] : i \in {j \in DOMAIN items :
        P(items[j]) /\ \A l \in (j + 1)..Len(items) : ~P(items[l])}}

(* Compaction never rewrites what the model is working on: the latest      *)
(* human request, the latest tool exchange and the last message stay in    *)
(* the live context, with their lineage, for as long as the process lives. *)
WorkingSetKept ==
    [][\A h \in Handle :
         sess[h].phase # "down" /\ sess'[h].phase # "down"
         /\ Len(sess'[h].items) <= Len(sess[h].items) =>
            LET now == sess[h].items
                kept == Range(sess'[h].items) IN
            /\ LastOf(now, LAMBDA it : it.human) \subseteq kept
            /\ LastOf(now, LAMBDA it : IsResult(it.msg)) \subseteq kept
            /\ LastOf(now, LAMBDA it : TRUE) \subseteq kept]_vars

=============================================================================
