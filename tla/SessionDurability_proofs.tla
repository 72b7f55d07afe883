----------------------- MODULE SessionDurability_proofs -----------------------
(***************************************************************************)
(* Proofs about SessionDurability for every value of its constants: type   *)
(* correctness; from one inductive invariant over the active items, the    *)
(* journal and the checkpoint, the safety of lineage, of markers and of the*)
(* checkpoint frontier; and what a session's store gives back.             *)
(***************************************************************************)
EXTENDS SessionDurability, Counting, SequenceTheorems

-----------------------------------------------------------------------------
(* Type correctness.                                                       *)

(* A function on an initial segment of the positions is a sequence.        *)
LEMMA SequenceOf ==
    ASSUME NEW S, NEW n \in Nat, NEW f \in [1..n -> S]
    PROVE  f \in Seq(S) /\ Len(f) = n /\ DOMAIN f = 1..n
  <1>1. f \in Seq(S)
    BY SeqDef
  <1>2. DOMAIN f = 1..n
    OBVIOUS
  <1> QED BY <1>1, <1>2, LenProperties

(* A single element is a sequence, and so is no element.                   *)
LEMMA Singleton ==
    ASSUME NEW S, NEW x \in S
    PROVE  <<x>> \in Seq(S) /\ Len(<<x>>) = 1 /\ <<x>>[1] = x
  OBVIOUS

(* A message that is a fact of the journal is a message.                   *)
LEMMA FactType ==
    ASSUME TypeOK, NEW s, IsFact(s)
    PROVE  s \in 1..Len(journal) /\ journal[s].data \in Message
  BY DEF TypeOK, IsFact, JournalHead, Entry

(* Appending a message to a context gives a well-typed item.               *)
LEMMA AppendedType ==
    ASSUME NEW m \in Message, NEW seq \in Nat,
           NEW human \in BOOLEAN, NEW slim \in BOOLEAN
    PROVE  Appended(m, seq, human, slim) \in Item
  BY DEF Appended, Item

(* Derived items are well typed.                                           *)
LEMMA DerivedType ==
    ASSUME NEW m \in Message, NEW from \in Nat, NEW to \in Nat,
           NEW human \in BOOLEAN, NEW refs \in SUBSET Artifact
    PROVE  Derived(m, from, to, human, refs) \in Item
  BY DEF Derived, Item

(* Marking or slimming a full result gives a well-typed item that keeps    *)
(* the call id and the coverage of its source.                             *)
LEMMA RewriteType ==
    ASSUME NEW item \in Item, item.msg.kind = "full",
           NEW kind \in {"marker", "slim"}, NEW refs \in SUBSET Artifact
    PROVE  Rewrite(item, kind, refs) \in Item
  <1>1. item.msg \in ResultMessage
    BY DEF Item, Message, TextMessage, SummaryMessage
  <1>2. [item.msg EXCEPT !.kind = kind] \in Message
    BY <1>1 DEF ResultMessage, Message
  <1>3. item.refs \cup refs \in SUBSET Artifact
    BY DEF Item
  <1> QED BY <1>2, <1>3, DerivedType DEF Item, Rewrite

(* The digest of a result's payload is an artifact id.                     *)
LEMMA PayloadArtifactType ==
    ASSUME NEW m \in Message, m.kind = "full"
    PROVE  PayloadArtifact(m) \in Artifact
  <1>1. m \in ResultMessage
    BY DEF Message, TextMessage, SummaryMessage
  <1> QED BY <1>1 DEF ResultMessage, PayloadArtifact, Artifact

(* The anchor is empty or one item of the prefix.                          *)
LEMMA AnchorCases ==
    ASSUME NEW items, NEW k
    PROVE  \/ Anchor(items, k) = <<>>
           \/ \E a \in 1..k : Anchor(items, k) = <<items[a]>>
  <1> DEFINE anchors == {a \in 1..k : /\ items[a].human
                                      /\ \A i \in (a + 1)..Len(items) : ~items[i].human}
  <1>1. CASE anchors = {}
    BY <1>1 DEF Anchor
  <1>2. CASE anchors # {}
    <2>1. (CHOOSE a \in anchors : TRUE) \in anchors
      BY <1>2
    <2> QED BY <1>2, <2>1 DEF Anchor
  <1> QED BY <1>1, <1>2

(* An attempt belongs to a durable session; until a candidate is built it  *)
(* rewrites the session's messages position by position.                   *)
AttemptShape == \A h \in Handle :
    /\ att[h].stage # "idle" => sess[h].phase = "durable"
    /\ att[h].stage \in {"spill", "decide"} =>
          /\ att[h].split \in 0..Len(att[h].items)
          /\ Len(att[h].items) = Len(sess[h].items)
    /\ att[h].stage = "idle" => att[h].items = <<>>

(* What resume gives an item of the checkpoint is well typed.              *)
LEMMA RestoredType ==
    ASSUME TypeOK, NEW f \in [Unproven -> 1..Covers], IsCursorRun(f),
           NEW i \in DOMAIN BaseMessages
    PROVE  RestoredItem(f, i) \in Item
  <1> DEFINE m == BaseMessages[i]
  <1>1. BaseMessages \in Seq(Message) /\ Covers \in Nat
    BY DEF TypeOK, BaseMessages, Covers, Checkpoint
  <1>2. m \in Message
    BY <1>1
  <1>3. CASE m.kind = "summary"
    <2>1. m \in SummaryMessage
      BY <1>2, <1>3 DEF Message, TextMessage, ResultMessage
    <2>2. m.body.from \in Nat /\ m.body.to \in Nat /\ m.body.refs \in SUBSET Artifact
      BY <2>1 DEF SummaryMessage, SummaryBody
    <2>3. Derived(m, m.body.from, m.body.to, FALSE, m.body.refs) \in Item
      BY <1>2, <2>2, DerivedType
    <2> QED BY <1>3, <2>3 DEF RestoredItem
  <1>4. CASE m.kind # "summary"
    <2>1. i \in Unproven
      BY <1>4 DEF Unproven
    <2>2. f[i] \in Nat
      BY <1>1, <2>1
    <2>3. Appended(m, f[i], FALSE, FALSE) \in Item
      BY <1>2, <2>2, AppendedType
    <2>4. \A a : Derived(m, f[i], f[i], FALSE, {a} \cap artifacts) \in Item
      BY <1>2, <2>2, DerivedType DEF TypeOK
    <2> QED BY <1>4, <2>3, <2>4 DEF RestoredItem
  <1> QED BY <1>3, <1>4

(* The step of the type invariant, one case per action.                    *)
LEMMA TypeStep ==
    ASSUME TypeOK, AttemptShape, NEW h \in Handle
    PROVE  /\ Open(h) => TypeOK'
           /\ Push(h) => TypeOK'
           /\ Crash(h) => TypeOK'
           /\ Compact(h) => TypeOK'
           /\ ResumeAny(h) => TypeOK'
  <1> USE DEF vars
  <1>a. /\ sess[h] \in Session
        /\ att[h] \in Attempt
        /\ journal \in Seq(Entry)
        /\ JournalHead \in Nat
        /\ \A i \in DOMAIN sess[h].items : sess[h].items[i] \in Item
        /\ \A i \in DOMAIN att[h].items : att[h].items[i] \in Item
        /\ sess[h].items \in Seq(Item)
        /\ att[h].items \in Seq(Item)
    BY DEF TypeOK, Session, Attempt, JournalHead
  <1>b. NoSession \in Session /\ NoAttempt \in Attempt
    BY DEF NoSession, NoAttempt, Session, Attempt
  <1>c. ASSUME NEW s \in Session, NEW a \in Attempt,
               sess' = [sess EXCEPT ![h] = s], att' = [att EXCEPT ![h] = a]
        PROVE  sess' \in [Handle -> Session] /\ att' \in [Handle -> Attempt]
    BY <1>c DEF TypeOK
  <1>d. att[h].stage \in {"spill", "decide"} =>
           /\ att[h].split \in 0..Len(att[h].items)
           /\ Len(att[h].items) = Len(sess[h].items)
    BY DEF AttemptShape
  <1>1. Open(h) => TypeOK'
    <2> SUFFICES ASSUME Open(h) PROVE TypeOK'
      OBVIOUS
    <2>1. [sess[h] EXCEPT !.phase = "deferred"] \in Session
      BY <1>a DEF Session
    <2> QED BY <2>1 DEF Open, TypeOK
  <1>2. Crash(h) => TypeOK'
    BY <1>b DEF Crash, TypeOK
  <1>3. Push(h) => TypeOK'
    <2> SUFFICES ASSUME NEW m \in NewMessage, NEW human \in BOOLEAN,
                        \/ PushJournaled(h, m, human)
                        \/ \E kept \in BOOLEAN : PushFailed(h, m, human, kept)
                        \/ PushMemoryOnly(h, m, human)
                 PROVE  TypeOK'
      BY DEF Push
    <2>1. m \in Message
      BY DEF NewMessage, Message
    <2>2. [kind |-> "message", data |-> m] \in Entry
      BY <2>1 DEF Entry
    <2>3. \A seq \in Nat : Pushed(h, m, seq, human) \in Seq(Item)
      <3> SUFFICES ASSUME NEW seq \in Nat
                   PROVE  Pushed(h, m, seq, human) \in Seq(Item)
        OBVIOUS
      <3> DEFINE slim == m.kind = "full" /\ m.body \in Slimmable
      <3>1. slim \in BOOLEAN
        OBVIOUS
      <3>2. Appended(m, seq, human, slim) \in Item
        BY <2>1, <3>1, AppendedType
      <3> QED BY <1>a, <3>2, AppendProperties DEF Pushed
    <2>4. CASE PushJournaled(h, m, human)
      <3>1. [phase |-> "durable", items |-> Pushed(h, m, JournalHead + 1, human),
             frontier |-> JournalHead + 1] \in Session
        <4>1. JournalHead + 1 \in Nat
          BY <1>a
        <4>2. Pushed(h, m, JournalHead + 1, human) \in Seq(Item)
          BY <2>3, <4>1
        <4> QED BY <4>1, <4>2 DEF Session
      <3>2. journal' \in Seq(Entry)
        BY <1>a, <2>2, <2>4 DEF PushJournaled
      <3> QED BY <2>4, <3>1, <3>2 DEF PushJournaled, TypeOK
    <2>5. ASSUME NEW kept \in BOOLEAN, PushFailed(h, m, human, kept)
          PROVE  TypeOK'
      <3>1. [sess[h] EXCEPT !.phase = "failed", !.items = Pushed(h, m, 0, human)] \in Session
        BY <1>a, <2>3 DEF Session
      <3>2. journal' \in Seq(Entry)
        BY <1>a, <2>2, <2>5 DEF PushFailed
      <3>3. sess' \in [Handle -> Session]
        BY <2>5, <3>1 DEF PushFailed, TypeOK
      <3> QED BY <2>5, <3>2, <3>3 DEF PushFailed, TypeOK
    <2>6. CASE PushMemoryOnly(h, m, human)
      <3>1. [sess[h] EXCEPT !.items = Pushed(h, m, 0, human)] \in Session
        BY <1>a, <2>3 DEF Session
      <3> QED BY <2>6, <3>1 DEF PushMemoryOnly, TypeOK
    <2> QED BY <2>4, <2>5, <2>6
  <1>4. Compact(h) => TypeOK'
    <2>1. LoseAuthority(h) => sess' \in [Handle -> Session] /\ att' \in [Handle -> Attempt]
      <3>1. [sess[h] EXCEPT !.phase = "failed"] \in Session
        BY <1>a DEF Session
      <3> QED BY <1>b, <3>1 DEF LoseAuthority, TypeOK
    <2>2. \A i \in DOMAIN att[h].items : Spillable(att[h].items[i]) =>
             PayloadArtifact(att[h].items[i].msg) \in Artifact
      BY <1>a, PayloadArtifactType DEF Spillable, Item
    <2>3. \A i : SpillTarget(h, i) => i \in Nat /\ Spillable(att[h].items[i])
      BY <1>a DEF SpillTarget, Attempt
    <2>4. ASSUME NEW a \in Artifact, PutRow(a)
          PROVE  journal' \in Seq(Entry) /\ artifacts' \subseteq Artifact
      <3>1. [kind |-> "artifact", data |-> a] \in Entry
        BY DEF Entry
      <3> QED BY <1>a, <2>4, <3>1 DEF PutRow, TypeOK
    <2>5. ASSUME NEW k \in 0..MaxActive, AuditPasses(h, k) PROVE TypeOK'
      <3>1. [stage |-> "spill", split |-> k, next |-> 0,
             frontier |-> sess[h].frontier, items |-> sess[h].items] \in Attempt
        <4>1. k \in Nat
          BY <2>5, BoundsAssumption
        <4> QED BY <1>a, <4>1 DEF Session, Attempt
      <3> QED BY <2>5, <3>1 DEF AuditPasses, TypeOK
    <2>6. AuditFails(h) => TypeOK'
      BY <2>1 DEF AuditFails, TypeOK
    <2>7. ASSUME NEW i \in 1..att[h].split, PutCommitted(h, i) PROVE TypeOK'
      <3> DEFINE a == PayloadArtifact(att[h].items[i].msg)
                 marked == Rewrite(att[h].items[i], "marker", {a})
                 items == [att[h].items EXCEPT ![i] = marked]
                 frontier == IF a \in artifacts THEN att[h].frontier ELSE JournalHead + 1
      <3>1. i \in DOMAIN att[h].items /\ Spillable(att[h].items[i]) /\ PutRow(a)
        BY <1>d, <2>3, <2>7 DEF PutCommitted, SpillTarget
      <3>2. a \in Artifact
        BY <2>2, <3>1
      <3>3. marked \in Item
        BY <1>a, <3>1, <3>2, RewriteType DEF Spillable
      <3>4. items \in Seq(Item)
        BY <1>a, <3>1, <3>3, ExceptSeq, LenProperties
      <3>5. frontier \in Nat /\ i \in Nat
        BY <1>a, <2>3, <2>7 DEF PutCommitted, Attempt
      <3>6. [att[h] EXCEPT !.next = i, !.frontier = frontier, !.items = items] \in Attempt
        BY <1>a, <3>4, <3>5 DEF Attempt
      <3>7. att' = [att EXCEPT ![h] =
                      [att[h] EXCEPT !.next = i, !.frontier = frontier, !.items = items]]
        BY <1>a, <2>7 DEF PutCommitted, TypeOK, Attempt
      <3>8. att' \in [Handle -> Attempt]
        BY <3>6, <3>7 DEF TypeOK
      <3> QED BY <2>4, <2>7, <3>1, <3>2, <3>8 DEF PutCommitted, TypeOK
    <2>8. ASSUME NEW i \in 1..att[h].split, PutSkipped(h, i) PROVE TypeOK'
      <3>1. [att[h] EXCEPT !.next = i] \in Attempt
        BY <1>a, <2>3, <2>8 DEF PutSkipped, Attempt
      <3> QED BY <2>8, <3>1 DEF PutSkipped, TypeOK
    <2>9. ASSUME NEW i \in 1..att[h].split, PutConflict(h, i) PROVE TypeOK'
      BY <2>1, <2>9 DEF PutConflict, TypeOK
    <2>10. ASSUME NEW i \in 1..att[h].split, NEW kept \in BOOLEAN, PutUnknown(h, i, kept)
           PROVE  TypeOK'
      <3>1. Spillable(att[h].items[i]) /\ i \in DOMAIN att[h].items
        BY <1>d, <2>3, <2>10 DEF PutUnknown, SpillTarget
      <3>2. PayloadArtifact(att[h].items[i].msg) \in Artifact
        BY <2>2, <3>1
      <3>3. journal' \in Seq(Entry) /\ artifacts' \subseteq Artifact
        BY <2>4, <2>10, <3>2 DEF PutUnknown, TypeOK
      <3> QED BY <2>1, <2>10, <3>3 DEF PutUnknown, TypeOK
    <2>11. SpillDone(h) => TypeOK'
      <3> SUFFICES ASSUME SpillDone(h) PROVE TypeOK'
        OBVIOUS
      <3>1. [att[h] EXCEPT !.stage = "decide"] \in Attempt
        BY <1>a DEF Attempt
      <3>2. (IF att[h].frontier > sess[h].frontier THEN att[h].frontier
             ELSE sess[h].frontier) \in Nat
        BY <1>a DEF Attempt, Session
      <3>3. [sess[h] EXCEPT !.frontier = IF att[h].frontier > @ THEN att[h].frontier ELSE @]
              \in Session
        BY <1>a, <3>2 DEF Session
      <3> QED BY <3>1, <3>3 DEF SpillDone, TypeOK
    <2>12. ASSUME NEW slim \in SUBSET SlimCandidates(h), Deterministic(h, slim)
           PROVE  TypeOK'
      <3> DEFINE items == [i \in DOMAIN att[h].items |->
                             IF i \in slim THEN Rewrite(att[h].items[i], "slim", {})
                             ELSE att[h].items[i]]
      <3>1. \A i \in DOMAIN att[h].items : items[i] \in Item
        BY <1>a, RewriteType DEF SlimCandidates
      <3>2. items \in Seq(Item)
        <4>1. items \in [1..Len(att[h].items) -> Item]
          BY <1>a, <3>1, LenProperties
        <4> QED BY <1>a, <4>1, SequenceOf, LenProperties
      <3>3. [att[h] EXCEPT !.stage = "commit", !.items = items] \in Attempt
        BY <1>a, <3>2 DEF Attempt
      <3>4. att' = [att EXCEPT ![h] = [att[h] EXCEPT !.stage = "commit", !.items = items]]
        BY <2>12 DEF Deterministic
      <3>5. att' \in [Handle -> Attempt]
        BY <3>3, <3>4 DEF TypeOK
      <3> QED BY <2>12, <3>5 DEF Deterministic, TypeOK
    <2>13. ASSUME NEW lo \in 1..att[h].split, NEW hi \in 1..att[h].split,
                  NEW refs \in SUBSET UNION {att[h].items[i].refs : i \in DOMAIN att[h].items},
                  Semantic(h, lo, hi, refs)
           PROVE  TypeOK'
      <3> DEFINE k == att[h].split
                 from == att[h].items[lo].from
                 to == att[h].items[hi].to
                 summary == [kind |-> "summary", id |-> NoId,
                             body |-> [from |-> from, to |-> to, refs |-> refs]]
                 head == <<Derived(summary, from, to, FALSE, refs)>>
                 anchor == Anchor(sess[h].items, k)
                 tail == SubSeq(sess[h].items, k + 1, Len(sess[h].items))
      <3>1. lo \in DOMAIN att[h].items /\ hi \in DOMAIN att[h].items /\ k \in Nat
        BY <1>a, <1>d, <2>13 DEF Semantic, Attempt
      <3>2. from \in Nat /\ to \in Nat
        BY <1>a, <3>1 DEF Item
      <3>3. refs \in SUBSET Artifact
        BY <1>a DEF Item
      <3>4. summary \in Message
        BY <3>2, <3>3 DEF Message, SummaryMessage, SummaryBody
      <3>5. head \in Seq(Item)
        <4>1. Derived(summary, from, to, FALSE, refs) \in Item
          BY <3>2, <3>3, <3>4, DerivedType
        <4> QED BY <4>1, Singleton
      <3>6. anchor \in Seq(Item)
        <4>1. k \in 0..Len(sess[h].items)
          BY <1>d, <2>13 DEF Semantic
        <4>2. \A a \in 1..k : sess[h].items[a] \in Item
          BY <1>a, <4>1
        <4>3. CASE anchor = <<>>
          BY <4>3
        <4>4. ASSUME NEW a \in 1..k, anchor = <<sess[h].items[a]>>
              PROVE  anchor \in Seq(Item)
          BY <4>2, <4>4, Singleton
        <4> QED BY <4>3, <4>4, AnchorCases
      <3>7. tail \in Seq(Item)
        BY <1>a, <3>1, SubSeqProperties
      <3>8. head \o anchor \o tail \in Seq(Item)
        BY <3>5, <3>6, <3>7, ConcatProperties
      <3>9. [att[h] EXCEPT !.stage = "commit", !.items = head \o anchor \o tail] \in Attempt
        BY <1>a, <3>8 DEF Attempt
      <3>10. att' = [att EXCEPT ![h] = [att[h] EXCEPT !.stage = "commit",
                                                     !.items = head \o anchor \o tail]]
        BY <2>13 DEF Semantic
      <3>11. att' \in [Handle -> Attempt]
        BY <3>9, <3>10 DEF TypeOK
      <3> QED BY <2>13, <3>11 DEF Semantic, TypeOK
    <2>14. NothingToRewrite(h) \/ SourceRefused(h) => TypeOK'
      BY <2>1 DEF NothingToRewrite, SourceRefused, TypeOK
    <2>15. Bypass(h) => TypeOK'
      BY <1>b DEF Bypass, TypeOK
    <2>16. CommitRows(h) => journal' \in Seq(Entry) /\ checkpoint' \in Checkpoint
      <3> SUFFICES ASSUME CommitRows(h)
                   PROVE  journal' \in Seq(Entry) /\ checkpoint' \in Checkpoint
        OBVIOUS
      <3>1. <<[kind |-> "compaction", data |-> NoId],
              [kind |-> "checkpoint", data |-> NoId]>> \in Seq(Entry)
        BY DEF Entry
      <3>2. Messages(att[h].items) \in Seq(Message)
        <4>1. Messages(att[h].items) \in [1..Len(att[h].items) -> Message]
          BY <1>a, LenProperties DEF Messages, Item
        <4> QED BY <1>a, <4>1, SequenceOf, LenProperties
      <3>3. att[h].frontier \in Nat
        BY <1>a DEF Attempt
      <3> QED BY <1>a, <3>1, <3>2, <3>3, ConcatProperties DEF CommitRows, Checkpoint
    <2>17. CommitInstalled(h) => TypeOK'
      <3> SUFFICES ASSUME CommitInstalled(h) PROVE TypeOK'
        OBVIOUS
      <3>1. [sess[h] EXCEPT !.items = att[h].items, !.frontier = JournalHead + 2] \in Session
        <4>1. JournalHead + 2 \in Nat
          BY <1>a
        <4>2. att[h].items \in Seq(Item)
          BY <1>a
        <4> QED BY <1>a, <4>1, <4>2 DEF Session
      <3>2. sess' \in [Handle -> Session] /\ att' \in [Handle -> Attempt]
        BY <1>b, <3>1 DEF CommitInstalled, TypeOK
      <3> QED BY <2>16, <3>2 DEF CommitInstalled, TypeOK
    <2>18. CommitConflict(h) => TypeOK'
      BY <2>1 DEF CommitConflict, TypeOK
    <2>19. ASSUME NEW kept \in BOOLEAN, CommitUnknown(h, kept) PROVE TypeOK'
      <3>1. journal' \in Seq(Entry) /\ checkpoint' \in Checkpoint \cup {NoCheckpoint}
        BY <1>a, <2>16, <2>19 DEF CommitUnknown, TypeOK
      <3> QED BY <2>1, <2>19, <3>1 DEF CommitUnknown, TypeOK
    <2> QED BY <2>5, <2>6, <2>7, <2>8, <2>9, <2>10, <2>11, <2>12, <2>13, <2>14,
               <2>15, <2>17, <2>18, <2>19 DEF Compact
  <1>5. ResumeAny(h) => TypeOK'
    <2> SUFFICES ASSUME NEW f \in CursorRuns, NEW later, Resume(h, f, later)
                 PROVE  TypeOK'
      BY DEF ResumeAny
    <2> DEFINE base == [i \in DOMAIN BaseMessages |-> RestoredItem(f, i)]
               live == [j \in DOMAIN later |->
                          Appended(journal[later[j]].data, later[j], FALSE, FALSE)]
    <2>1. BaseMessages \in Seq(Message)
      BY DEF TypeOK, BaseMessages, Checkpoint
    <2>2. base \in Seq(Item)
      <3>1. base \in [1..Len(BaseMessages) -> Item]
        BY <2>1, RestoredType, LenProperties DEF CursorRuns, Resume
      <3> QED BY <2>1, <3>1, SequenceOf, LenProperties
    <2>3. \A j \in DOMAIN later : live[j] \in Item
      <3> SUFFICES ASSUME NEW j \in DOMAIN later PROVE live[j] \in Item
        OBVIOUS
      <3>1. later[j] \in LaterFacts
        BY DEF Resume
      <3>2. IsFact(later[j]) /\ later[j] \in Nat
        BY <3>1 DEF LaterFacts, IsFact, JournalHead
      <3> QED BY <3>2, FactType, AppendedType
    <2>4. live \in Seq(Item)
      <3>1. later \in Seq(LaterFacts)
        BY DEF Resume
      <3>2. live \in [1..Len(later) -> Item]
        BY <2>3, <3>1, LenProperties
      <3> QED BY <3>1, <3>2, SequenceOf, LenProperties
    <2>5. base \o live \in Seq(Item)
      BY <2>2, <2>4, ConcatProperties
    <2>6. [phase |-> "durable", items |-> base \o live, frontier |-> JournalHead] \in Session
      BY <1>a, <2>5 DEF Session
    <2> QED BY <2>6 DEF Resume, TypeOK
  <1> QED BY <1>1, <1>2, <1>3, <1>4, <1>5
-----------------------------------------------------------------------------
(* The inductive invariant.                                                *)

(* What is true of every item of a live context or of a candidate.  A      *)
(* summary's coverage is the provenance its message carries, which is what *)
(* resume restores it from.                                                *)
ItemOK(it) ==
    /\ SoundItem(it)
    /\ it.msg.kind = "summary" =>
          Covered(it) /\ it.from = it.msg.body.from /\ it.to = it.msg.body.to
    /\ it.msg.kind = "marker" => PayloadArtifact(it.msg) \in artifacts

ItemsOK == \A h \in Handle : \A it \in Live(h) : ItemOK(it)

(* A session that has not spoken has nothing to cover.                     *)
UnspokenEmpty ==
    \A h \in Handle : sess[h].phase \in {"down", "deferred"} => sess[h].items = <<>>

(* Only original messages are journaled; rewrites never are.               *)
JournalPlain ==
    \A s \in 1..Len(journal) :
        journal[s].kind = "message" => journal[s].data.kind \in {"text", "full"}

(* The messages of the checkpoint carry their provenance and payloads.     *)
CheckpointOK ==
    \A i \in DOMAIN BaseMessages :
        LET m == BaseMessages[i] IN
        /\ m.kind = "summary" =>
              m.body.from > 0 /\ m.body.from <= m.body.to /\ m.body.to <= Len(journal)
        /\ m.kind = "marker" => PayloadArtifact(m) \in artifacts

IInv ==
    /\ TypeOK
    /\ AttemptShape
    /\ ItemsOK
    /\ FullyJournaled
    /\ NoJournalHole
    /\ UnspokenEmpty
    /\ JournalPlain
    /\ CheckpointOK
    /\ CheckpointSealsJournal

-----------------------------------------------------------------------------
(* Nothing in the store is ever rewritten or removed.                      *)

Grown ==
    /\ Len(journal) <= Len(journal')
    /\ \A s \in 1..Len(journal) : journal'[s] = journal[s]
    /\ artifacts \subseteq artifacts'

Plain(e) == e.kind = "message" => e.data.kind \in {"text", "full"}

(* Rows added at the end of the journal leave every old row in place.      *)
LEMMA RowsAdded ==
    ASSUME TypeOK, JournalPlain, artifacts \subseteq artifacts',
           NEW rows \in Seq(Entry), \A i \in 1..Len(rows) : Plain(rows[i]),
           journal' = journal \o rows
    PROVE  Grown /\ JournalPlain'
  <1>1. journal \in Seq(Entry)
    BY DEF TypeOK
  <1>2. /\ Len(journal') = Len(journal) + Len(rows)
        /\ \A s \in 1..(Len(journal) + Len(rows)) :
              journal'[s] = IF s <= Len(journal) THEN journal[s] ELSE rows[s - Len(journal)]
    BY <1>1, ConcatProperties
  <1>3. Len(journal) \in Nat /\ Len(rows) \in Nat
    BY <1>1, LenProperties
  <1>4. \A s \in 1..Len(journal') : Plain(journal'[s])
    BY <1>2, <1>3 DEF JournalPlain, Plain
  <1> QED BY <1>2, <1>3, <1>4 DEF Grown, JournalPlain, Plain

(* One appended row is a sequence of rows.                                 *)
LEMMA RowAppended ==
    ASSUME TypeOK, JournalPlain, artifacts \subseteq artifacts',
           NEW e \in Entry, Plain(e), journal' = Append(journal, e)
    PROVE  Grown /\ JournalPlain'
  <1>1. journal' = journal \o <<e>>
    BY AppendIsConcat DEF TypeOK
  <1>2. <<e>> \in Seq(Entry) /\ \A i \in 1..Len(<<e>>) : Plain(<<e>>[i])
    BY Singleton
  <1> QED BY <1>1, <1>2, RowsAdded

(* An unchanged store has grown, by nothing.                               *)
LEMMA NothingAdded ==
    ASSUME TypeOK, JournalPlain, UNCHANGED <<journal, artifacts>>
    PROVE  Grown /\ JournalPlain'
  BY DEF TypeOK, Grown, JournalPlain

(* put_tool_artifact only adds.                                            *)
LEMMA PutRowGrows ==
    ASSUME TypeOK, JournalPlain, NEW a \in Artifact, PutRow(a)
    PROVE  Grown /\ JournalPlain' /\ a \in artifacts'
  <1>1. artifacts \subseteq artifacts' /\ a \in artifacts'
    BY DEF PutRow
  <1>2. CASE a \in artifacts
    BY <1>1, <1>2, NothingAdded DEF PutRow, TypeOK, Grown, JournalPlain
  <1>3. CASE a \notin artifacts
    <2>1. [kind |-> "artifact", data |-> a] \in Entry /\ Plain([kind |-> "artifact", data |-> a])
      BY DEF Entry, Plain
    <2> QED BY <1>1, <1>3, <2>1, RowAppended DEF PutRow
  <1> QED BY <1>2, <1>3

(* commit_compaction only adds, and seals the journal at its frontier.     *)
LEMMA CommitRowsGrows ==
    ASSUME TypeOK, JournalPlain, NEW h \in Handle, HeadUnmoved(h), CommitRows(h),
           artifacts' = artifacts
    PROVE  Grown /\ JournalPlain' /\ CheckpointSealsJournal'
  <1> DEFINE e1 == [kind |-> "compaction", data |-> NoId]
             e2 == [kind |-> "checkpoint", data |-> NoId]
             rows == <<e1, e2>>
  <1>1. rows \in Seq(Entry) /\ Len(rows) = 2 /\ rows[1] = e1 /\ rows[2] = e2
    BY DEF Entry
  <1>2. \A i \in 1..Len(rows) : Plain(rows[i])
    BY <1>1 DEF Plain
  <1>3. Grown /\ JournalPlain'
    BY <1>1, <1>2, RowsAdded DEF CommitRows
  <1>4. checkpoint'.covers = Len(journal) /\ Len(journal) \in Nat
    BY LenProperties DEF CommitRows, HeadUnmoved, JournalHead, TypeOK
  <1>5. /\ Len(journal') = Len(journal) + 2
        /\ journal'[Len(journal) + 1] = e1
        /\ journal'[Len(journal) + 2] = e2
    <2>1. journal \in Seq(Entry)
      BY DEF TypeOK
    <2>2. journal' = journal \o rows
      BY DEF CommitRows
    <2>3. /\ Len(journal \o rows) = Len(journal) + Len(rows)
          /\ \A i \in 1..(Len(journal) + Len(rows)) : (journal \o rows)[i] =
                IF i <= Len(journal) THEN journal[i] ELSE rows[i - Len(journal)]
      BY <1>1, <2>1, ConcatProperties
    <2> HIDE DEF rows, e1, e2
    <2>4. journal'[Len(journal) + 1] = rows[1]
      BY <1>1, <1>4, <2>2, <2>3
    <2>5. journal'[Len(journal) + 2] = rows[2]
      BY <1>1, <1>4, <2>2, <2>3
    <2> QED BY <1>1, <1>4, <2>2, <2>3, <2>4, <2>5
  <1> QED BY <1>3, <1>4, <1>5 DEF CheckpointSealsJournal, JournalHead

-----------------------------------------------------------------------------
(* Items stay sound while the store grows, and new items are sound.        *)

(* An item that was right stays right while the store only grows.          *)
LEMMA ItemKept ==
    ASSUME TypeOK, Grown, NEW it \in Item, ItemOK(it)
    PROVE  ItemOK(it)'
  <1>1. Len(journal) \in Nat
    BY LenProperties DEF TypeOK
  <1>2. \A s : IsFact(s) => IsFact(s)' /\ journal'[s] = journal[s]
    BY <1>1 DEF IsFact, JournalHead, Grown, TypeOK
  <1>3. SoundItem(it)'
    <2>1. Covered(it) => it.from <= it.to /\ it.to <= Len(journal')
      BY <1>1 DEF ItemOK, SoundItem, Grown, Item, JournalHead, TypeOK
    <2> QED BY <1>2, <2>1 DEF ItemOK, SoundItem, JournalHead, Covered
  <1> QED BY <1>3 DEF ItemOK, Grown, Covered

(* A message without a receipt claims nothing.                             *)
LEMMA UncoveredOK ==
    ASSUME NEW m \in Message, m.kind \in {"text", "full"},
           NEW human \in BOOLEAN, NEW slim \in BOOLEAN
    PROVE  ItemOK(Appended(m, 0, human, slim))' /\ ~Covered(Appended(m, 0, human, slim))
  <1> DEFINE it == Appended(m, 0, human, slim)
  <1>1. it.msg = m /\ it.from = 0
    BY DEF Appended
  <1>2. it.verbatim = (0 > 0)
    BY Zenon DEF Appended
  <1>3. ~(0 > 0)
    OBVIOUS
  <1>4. ~it.verbatim
    BY <1>2, <1>3, Zenon
  <1> HIDE DEF it
  <1>5. ItemOK(it)' /\ ~Covered(it)
    BY <1>1, <1>4 DEF ItemOK, SoundItem, Covered
  <1> QED BY <1>5 DEF it

(* A message at the position of its own fact is sound.                     *)
LEMMA AppendedOK ==
    ASSUME NEW m \in Message, m.kind \in {"text", "full"},
           NEW human \in BOOLEAN, NEW slim \in BOOLEAN,
           NEW seq \in Nat, seq > 0,
           seq <= Len(journal'), Len(journal') \in Nat,
           journal'[seq].kind = "message", journal'[seq].data = m
    PROVE  ItemOK(Appended(m, seq, human, slim))' /\ Covered(Appended(m, seq, human, slim))
  BY DEF ItemOK, SoundItem, Appended, Covered, IsFact, JournalHead, IsResult

(* Marking or slimming a verbatim result keeps its coverage and call id.   *)
LEMMA RewriteOK ==
    ASSUME TypeOK, Grown, NEW it \in Item, ItemOK(it), it.verbatim, it.msg.kind = "full",
           NEW kind \in {"marker", "slim"}, NEW refs \in SUBSET Artifact,
           kind = "marker" => PayloadArtifact(it.msg) \in artifacts'
    PROVE  /\ ItemOK(Rewrite(it, kind, refs))'
           /\ Covered(Rewrite(it, kind, refs))
  <1> DEFINE new == Rewrite(it, kind, refs)
  <1>1. it.msg \in ResultMessage
    BY DEF Item, Message, TextMessage, SummaryMessage
  <1>2. /\ new.msg.kind = kind
        /\ new.msg.id = it.msg.id
        /\ new.msg.body = it.msg.body
        /\ new.from = it.from /\ new.to = it.to
        /\ new.verbatim = FALSE
    BY <1>1 DEF Rewrite, Derived, ResultMessage
  <1>3. ItemOK(it)'
    BY ItemKept
  <1>4. IsFact(it.from)' /\ it.from = it.to /\ journal'[it.from].data = it.msg
    BY <1>3 DEF ItemOK, SoundItem
  <1>5. it.from > 0 /\ it.from <= Len(journal')
    BY <1>4 DEF IsFact, JournalHead, Item
  <1>6. PayloadArtifact(new.msg) = PayloadArtifact(it.msg)
    BY <1>2 DEF PayloadArtifact
  <1> HIDE DEF new
  <1>7. SoundItem(new)'
    BY <1>2, <1>4, <1>5 DEF SoundItem, IsResult, JournalHead, Item
  <1>8. ItemOK(new)' /\ Covered(new)
    BY <1>2, <1>5, <1>6, <1>7 DEF ItemOK, Covered
  <1> QED BY <1>8 DEF new

-----------------------------------------------------------------------------
(* What a step of handle h does to the live items.                         *)

(* The elements of an extended sequence.                                   *)
LEMMA RangeAppend ==
    ASSUME NEW S, NEW seq \in Seq(S), NEW x \in S
    PROVE  Range(Append(seq, x)) = Range(seq) \cup {x}
  BY AppendProperties, LenProperties DEF Range

(* The elements of a concatenation.                                        *)
LEMMA RangeConcat ==
    ASSUME NEW S, NEW s1 \in Seq(S), NEW s2 \in Seq(S)
    PROVE  Range(s1 \o s2) = Range(s1) \cup Range(s2)
  <1>1. /\ Len(s1 \o s2) = Len(s1) + Len(s2)
        /\ \A i \in 1..(Len(s1) + Len(s2)) :
              (s1 \o s2)[i] = IF i <= Len(s1) THEN s1[i] ELSE s2[i - Len(s1)]
        /\ s1 \o s2 \in Seq(S)
    BY ConcatProperties
  <1>2. /\ DOMAIN s1 = 1..Len(s1) /\ Len(s1) \in Nat
        /\ DOMAIN s2 = 1..Len(s2) /\ Len(s2) \in Nat
        /\ DOMAIN (s1 \o s2) = 1..(Len(s1) + Len(s2))
    BY <1>1, LenProperties
  <1>3. Range(s1 \o s2) \subseteq Range(s1) \cup Range(s2)
    BY <1>1, <1>2 DEF Range
  <1>4. \A i \in DOMAIN s1 : s1[i] \in Range(s1 \o s2)
    BY <1>1, <1>2 DEF Range
  <1>5. ASSUME NEW i \in DOMAIN s2 PROVE s2[i] \in Range(s1 \o s2)
    <2>1. Len(s1) + i \in DOMAIN (s1 \o s2) /\ (s1 \o s2)[Len(s1) + i] = s2[i]
      BY <1>1, <1>2
    <2> QED BY <2>1 DEF Range
  <1> QED BY <1>3, <1>4, <1>5 DEF Range

Unholed(items) ==
    \A i, j \in DOMAIN items : i < j /\ Covered(items[j]) => Covered(items[i])

ShapeOf(a, x) ==
    /\ a.stage # "idle" => x.phase = "durable"
    /\ a.stage \in {"spill", "decide"} =>
          a.split \in 0..Len(a.items) /\ Len(a.items) = Len(x.items)
    /\ a.stage = "idle" => a.items = <<>>

LocalStep(h) ==
    /\ \A g \in Handle : g # h => sess'[g] = sess[g] /\ att'[g] = att[g]
    /\ \A it \in Live(h)' : it \in Live(h) \/ (it \in Item /\ ItemOK(it)')
    /\ sess'[h].phase = "durable" => \A it \in Live(h)' : Covered(it)
    /\ Unholed(sess'[h].items)
    /\ sess'[h].phase \in {"down", "deferred"} => sess'[h].items = <<>>
    /\ ShapeOf(att'[h], sess'[h])

(* What the invariant says of the one handle that moves.                   *)
LEMMA HandleFacts ==
    ASSUME IInv, NEW h \in Handle
    PROVE  /\ sess[h] \in Session /\ att[h] \in Attempt
           /\ sess[h].items \in Seq(Item) /\ att[h].items \in Seq(Item)
           /\ DOMAIN sess = Handle /\ DOMAIN att = Handle
           /\ Len(journal) \in Nat
           /\ \A it \in Live(h) : it \in Item /\ ItemOK(it)
           /\ sess[h].phase = "durable" => \A it \in Live(h) : Covered(it)
           /\ Unholed(sess[h].items)
           /\ sess[h].phase \in {"down", "deferred"} => sess[h].items = <<>>
           /\ ShapeOf(att[h], sess[h])
  <1>1. /\ sess[h] \in Session /\ att[h] \in Attempt
        /\ DOMAIN sess = Handle /\ DOMAIN att = Handle
        /\ Len(journal) \in Nat
    BY LenProperties DEF IInv, TypeOK
  <1>2. sess[h].items \in Seq(Item) /\ att[h].items \in Seq(Item)
    BY <1>1 DEF Session, Attempt
  <1>3. \A it \in Live(h) : it \in Item
    BY <1>2, LenProperties DEF Live, Range
  <1>4. Unholed(sess[h].items)
    BY DEF IInv, NoJournalHole, Unholed
  <1>5. ShapeOf(att[h], sess[h])
    BY DEF IInv, AttemptShape, ShapeOf
  <1> QED BY <1>1, <1>2, <1>3, <1>4, <1>5 DEF IInv, ItemsOK, FullyJournaled, UnspokenEmpty

(* Losing authority keeps the items and ends the attempt.                  *)
LEMMA LoseAuthorityLocal ==
    ASSUME IInv, NEW h \in Handle, LoseAuthority(h)
    PROVE  LocalStep(h)
  <1>1. /\ sess'[h] = [sess[h] EXCEPT !.phase = "failed"]
        /\ att'[h] = NoAttempt
        /\ \A g \in Handle : g # h => sess'[g] = sess[g] /\ att'[g] = att[g]
    BY HandleFacts DEF LoseAuthority
  <1>2. sess'[h].items = sess[h].items /\ sess'[h].phase = "failed"
    BY <1>1, HandleFacts DEF Session
  <1>3. att'[h].items = <<>> /\ att'[h].stage = "idle"
    BY <1>1 DEF NoAttempt
  <1>4. \A it \in Live(h)' : it \in Live(h)
    BY <1>2, <1>3 DEF Live, Range
  <1> QED BY <1>1, <1>2, <1>3, <1>4, HandleFacts DEF LocalStep, ShapeOf

(* Opening, crashing and giving up a candidate bring in no item.           *)
LEMMA QuietLocal ==
    ASSUME IInv, NEW h \in Handle, Open(h) \/ Crash(h) \/ Bypass(h)
    PROVE  LocalStep(h)
  <1>1. CASE Open(h)
    <2>1. /\ sess'[h].items = sess[h].items /\ sess'[h].phase = "deferred"
          /\ att' = att
          /\ \A g \in Handle : g # h => sess'[g] = sess[g]
          /\ sess[h].phase = "down"
      BY <1>1, HandleFacts DEF Open, Session
    <2>2. \A it \in Live(h)' : it \in Live(h)
      BY <2>1 DEF Live, Range
    <2>3. ShapeOf(att'[h], sess'[h])
      BY <2>1, HandleFacts DEF ShapeOf
    <2> QED BY <2>1, <2>2, <2>3, HandleFacts DEF LocalStep
  <1>2. CASE Crash(h)
    <2>1. /\ sess'[h] = NoSession /\ att'[h] = NoAttempt
          /\ \A g \in Handle : g # h => sess'[g] = sess[g] /\ att'[g] = att[g]
      BY <1>2, HandleFacts DEF Crash
    <2>2. \A it : it \notin Live(h)'
      BY <2>1 DEF Live, Range, NoSession, NoAttempt
    <2> QED BY <2>1, <2>2 DEF LocalStep, ShapeOf, Unholed, NoSession, NoAttempt
  <1>3. CASE Bypass(h)
    <2>1. /\ sess' = sess /\ att'[h] = NoAttempt
          /\ \A g \in Handle : g # h => att'[g] = att[g]
      BY <1>3, HandleFacts DEF Bypass
    <2>2. \A it \in Live(h)' : it \in Live(h)
      BY <2>1 DEF Live, Range, NoAttempt
    <2> QED BY <2>1, <2>2, HandleFacts DEF LocalStep, ShapeOf, NoAttempt
  <1> QED BY <1>1, <1>2, <1>3

(* One pushed message: covered exactly when its receipt was returned.      *)
LEMMA PushLocal ==
    ASSUME IInv, NEW h \in Handle, Grown,
           NEW m \in NewMessage, NEW human \in BOOLEAN, NEW seq \in Nat,
           PushReady(h, m, human),
           sess'[h].items = Pushed(h, m, seq, human), att' = att,
           \A g \in Handle : g # h => sess'[g] = sess[g],
           \/ /\ sess[h].phase \in {"deferred", "durable"}
              /\ sess'[h].phase = "durable"
              /\ seq > 0 /\ seq <= Len(journal') /\ Len(journal') \in Nat
              /\ journal'[seq].kind = "message" /\ journal'[seq].data = m
           \/ seq = 0 /\ sess'[h].phase = "failed"
    PROVE  LocalStep(h)
  <1> DEFINE slim == m.kind = "full" /\ m.body \in Slimmable
             new == Appended(m, seq, human, slim)
             items == sess[h].items
  <1>1. m \in Message /\ m.kind \in {"text", "full"} /\ slim \in BOOLEAN
    BY DEF NewMessage, Message, TextMessage
  <1> HIDE DEF slim
  <1>2. new \in Item
    BY <1>1, AppendedType
  <1>3. ItemOK(new)' /\ (sess'[h].phase = "durable" <=> Covered(new))
    <2>1. CASE seq > 0
      BY <1>1, <2>1, AppendedOK
    <2>2. CASE seq = 0
      BY <1>1, <2>2, UncoveredOK
    <2> QED BY <2>1, <2>2
  <1>4. sess'[h].items = Append(items, new)
    BY DEF Pushed, slim
  <1> HIDE DEF new
  <1>5. items \in Seq(Item) /\ att'[h].stage = "idle" /\ att'[h].items = <<>>
    BY HandleFacts DEF PushReady, Idle, ShapeOf
  <1>6. Range(sess'[h].items) = Range(items) \cup {new}
    BY <1>2, <1>4, <1>5, RangeAppend
  <1>7. Live(h)' = Range(items) \cup {new}
    BY <1>5, <1>6 DEF Live, Range
  <1>8. \A it \in Range(items) : it \in Live(h)
    BY DEF Live
  <1>9. sess'[h].phase = "durable" => \A it \in Range(items) : Covered(it)
    BY <1>8, HandleFacts DEF Range
  <1>10. Unholed(sess'[h].items)
    <2>1. Unholed(items)
      BY HandleFacts
    <2>2. /\ DOMAIN Append(items, new) = 1..(Len(items) + 1)
          /\ DOMAIN items = 1..Len(items) /\ Len(items) \in Nat
          /\ \A i \in 1..Len(items) : Append(items, new)[i] = items[i]
          /\ Append(items, new)[Len(items) + 1] = new
      BY <1>2, <1>5, AppendProperties, LenProperties
    <2>3. Covered(new) => \A i \in DOMAIN items : Covered(items[i])
      BY <1>3, <1>9 DEF Range
    <2> QED BY <1>4, <2>1, <2>2, <2>3 DEF Unholed
  <1>11. ShapeOf(att'[h], sess'[h])
    BY <1>5 DEF ShapeOf
  <1> QED BY <1>2, <1>3, <1>7, <1>8, <1>9, <1>10, <1>11 DEF LocalStep

(* The audit copies the items; a skipped result and the end of the spill   *)
(* pass keep them.                                                         *)
LEMMA AttemptLocal ==
    ASSUME IInv, NEW h \in Handle,
           \/ \E k \in 0..MaxActive : AuditPasses(h, k)
           \/ \E i \in 1..att[h].split : PutSkipped(h, i)
           \/ SpillDone(h)
    PROVE  LocalStep(h)
  <1> SUFFICES
        /\ \A g \in Handle : g # h => sess'[g] = sess[g] /\ att'[g] = att[g]
        /\ sess'[h].items = sess[h].items /\ sess'[h].phase = sess[h].phase
        /\ att'[h].items = att[h].items \/ att'[h].items = sess[h].items
        /\ ShapeOf(att'[h], sess'[h])
      BY HandleFacts DEF LocalStep, Live
  <1>1. ASSUME NEW k \in 0..MaxActive, AuditPasses(h, k)
        PROVE  /\ sess' = sess
               /\ \A g \in Handle : g # h => att'[g] = att[g]
               /\ att'[h].items = sess[h].items
               /\ ShapeOf(att'[h], sess'[h])
    <2>1. att'[h] = [stage |-> "spill", split |-> k, next |-> 0,
                     frontier |-> sess[h].frontier, items |-> sess[h].items]
      BY <1>1, HandleFacts DEF AuditPasses
    <2>2. k \in 0..Len(sess[h].items)
      BY <1>1, HandleFacts, LenProperties DEF AuditPasses, ProtectedSplit
    <2> QED BY <1>1, <2>1, <2>2, HandleFacts DEF AuditPasses, CompactionReady, ShapeOf
  <1>2. ASSUME NEW i \in 1..att[h].split, PutSkipped(h, i)
        PROVE  /\ sess' = sess
               /\ \A g \in Handle : g # h => att'[g] = att[g]
               /\ att'[h].items = att[h].items
               /\ ShapeOf(att'[h], sess'[h])
    <2>1. att'[h] = [att[h] EXCEPT !.next = i]
      BY <1>2, HandleFacts DEF PutSkipped
    <2>2. /\ att'[h].items = att[h].items /\ att'[h].stage = att[h].stage
          /\ att'[h].split = att[h].split
      BY <2>1, HandleFacts DEF Attempt
    <2> QED BY <1>2, <2>2, HandleFacts DEF PutSkipped, ShapeOf
  <1>3. ASSUME SpillDone(h)
        PROVE  /\ \A g \in Handle : g # h => sess'[g] = sess[g] /\ att'[g] = att[g]
               /\ sess'[h].items = sess[h].items /\ sess'[h].phase = sess[h].phase
               /\ att'[h].items = att[h].items
               /\ ShapeOf(att'[h], sess'[h])
    <2>1. /\ att'[h].items = att[h].items /\ att'[h].stage = "decide"
          /\ att'[h].split = att[h].split
      BY <1>3, HandleFacts DEF SpillDone, Attempt
    <2>2. sess'[h].items = sess[h].items /\ sess'[h].phase = sess[h].phase
      BY <1>3, HandleFacts DEF SpillDone, Session
    <2> QED BY <1>3, <2>1, <2>2, HandleFacts DEF SpillDone, ShapeOf
  <1> QED BY <1>1, <1>2, <1>3

(* A candidate whose items are old ones or sound rewrites of old ones.     *)
LEMMA CandidateLocal ==
    ASSUME IInv, NEW h \in Handle, att[h].stage # "idle", sess' = sess,
           \A g \in Handle : g # h => att'[g] = att[g],
           \A it \in Range(att'[h].items) :
               it \in Live(h) \/ (it \in Item /\ ItemOK(it)' /\ Covered(it)),
           ShapeOf(att'[h], sess'[h])
    PROVE  LocalStep(h)
  <1>1. \A it \in Live(h)' : it \in Range(sess[h].items) \/ it \in Range(att'[h].items)
    BY DEF Live
  <1>2. \A it \in Range(sess[h].items) : it \in Live(h)
    BY DEF Live
  <1>3. \A it \in Live(h) : Covered(it)
    BY HandleFacts DEF ShapeOf
  <1> QED BY <1>1, <1>2, <1>3, HandleFacts DEF LocalStep

(* A committed payload replaces one result by its marker.                  *)
LEMMA PutCommittedLocal ==
    ASSUME IInv, NEW h \in Handle, NEW i \in 1..att[h].split, PutCommitted(h, i), Grown
    PROVE  LocalStep(h)
  <1> PICK it : it = att[h].items[i]
    OBVIOUS
  <1> DEFINE items == att[h].items
             a == PayloadArtifact(it.msg)
             marked == Rewrite(it, "marker", {a})
  <1>1. att[h].stage = "spill" /\ Spillable(it) /\ PutRow(a) /\ sess' = sess
    BY DEF PutCommitted, SpillTarget
  <1>2. /\ i \in 1..Len(items) /\ items \in Seq(Item) /\ it \in Live(h) /\ it \in Item
        /\ Len(items) = Len(sess[h].items)
    <2>1. i \in 1..Len(items) /\ items \in Seq(Item) /\ Len(items) = Len(sess[h].items)
      BY <1>1, HandleFacts DEF ShapeOf, Attempt
    <2>2. it \in Live(h)
      BY <2>1, LenProperties DEF Live, Range
    <2> QED BY <2>1, <2>2, HandleFacts
  <1>3. a \in Artifact /\ a \in artifacts'
    BY <1>1, <1>2, PayloadArtifactType DEF Spillable, Item, PutRow
  <1>4. marked \in Item /\ ItemOK(marked)' /\ Covered(marked)
    <2>1. TypeOK /\ ItemOK(it)
      BY <1>2, HandleFacts DEF IInv
    <2>2. it.verbatim /\ it.msg.kind = "full" /\ {a} \in SUBSET Artifact
      BY <1>1, <1>3 DEF Spillable
    <2>3. marked \in Item
      BY <1>2, <2>2, RewriteType
    <2> QED BY <1>2, <1>3, <2>1, <2>2, <2>3, RewriteOK
  <1>5. att'[h].items = [items EXCEPT ![i] = marked]
    BY <1>1, <1>2, HandleFacts DEF PutCommitted, Attempt
  <1>6. att'[h].stage = "spill" /\ att'[h].split = att[h].split
    BY <1>1, HandleFacts DEF PutCommitted, Attempt
  <1>7. \A g \in Handle : g # h => att'[g] = att[g]
    BY HandleFacts DEF PutCommitted
  <1> HIDE DEF marked
  <1>8. Len(att'[h].items) = Len(items)
    BY <1>2, <1>4, <1>5, ExceptSeq
  <1>9. ASSUME NEW x \in Range(att'[h].items) PROVE x \in Live(h) \/ x = marked
    BY <1>2, <1>5, LenProperties DEF Range, Live
  <1>10. ShapeOf(att'[h], sess'[h])
    BY <1>1, <1>6, <1>8, HandleFacts DEF ShapeOf
  <1>11. \A x \in Range(att'[h].items) :
            x \in Live(h) \/ (x \in Item /\ ItemOK(x)' /\ Covered(x))
    BY <1>4, <1>9
  <1> QED BY <1>1, <1>7, <1>10, <1>11, CandidateLocal

(* Slimmed positions keep their coverage.                                  *)
LEMMA DeterministicLocal ==
    ASSUME IInv, NEW h \in Handle, NEW slim \in SUBSET SlimCandidates(h),
           Deterministic(h, slim), Grown
    PROVE  LocalStep(h)
  <1> DEFINE slimmed == [i \in DOMAIN att[h].items |->
                           IF i \in slim THEN Rewrite(att[h].items[i], "slim", {})
                           ELSE att[h].items[i]]
  <1>1. /\ att[h].stage = "decide" /\ sess' = sess
        /\ att'[h].items = slimmed /\ att'[h].stage = "commit"
        /\ \A g \in Handle : g # h => att'[g] = att[g]
    BY HandleFacts DEF Deterministic, Attempt
  <1>2. ASSUME NEW x \in Range(att'[h].items)
        PROVE  x \in Live(h) \/ (x \in Item /\ ItemOK(x)' /\ Covered(x))
    <2>1. PICK i \in DOMAIN att[h].items : x = slimmed[i]
      BY <1>1 DEF Range
    <2>2. PICK it : it = att[h].items[i]
      OBVIOUS
    <2>3. it \in Live(h) /\ it \in Item /\ ItemOK(it)
      BY <2>2, HandleFacts DEF Live, Range
    <2>4. CASE i \in slim
      <3>1. it.verbatim /\ it.msg.kind = "full"
        BY <2>2, <2>4 DEF SlimCandidates
      <3>2. TypeOK /\ {} \in SUBSET Artifact
        BY DEF IInv
      <3>3. x = Rewrite(it, "slim", {})
        BY <2>1, <2>2, <2>4
      <3>4. Rewrite(it, "slim", {}) \in Item
        BY <2>3, <3>1, <3>2, RewriteType
      <3>5. ItemOK(Rewrite(it, "slim", {}))' /\ Covered(Rewrite(it, "slim", {}))
        BY <2>3, <3>1, <3>2, RewriteOK
      <3> QED BY <3>3, <3>4, <3>5
    <2>5. CASE i \notin slim
      BY <2>1, <2>2, <2>3, <2>5
    <2> QED BY <2>4, <2>5
  <1>3. ShapeOf(att'[h], sess'[h])
    BY <1>1, HandleFacts DEF ShapeOf
  <1> QED BY <1>1, <1>2, <1>3, CandidateLocal

(* The members of a compacted context: its summary, its anchor, its tail.  *)
LEMMA RangeCompacted ==
    ASSUME NEW S, NEW x \in S, NEW s1 \in Seq(S), NEW s2 \in Seq(S)
    PROVE  Range((<<x>> \o s1) \o s2) = {x} \cup Range(s1) \cup Range(s2)
  <1>1. \A a \in Seq(S) : a \o s1 \in Seq(S) /\ Range(a \o s1) = Range(a) \cup Range(s1)
    BY RangeConcat, ConcatProperties
  <1>2. \A a \in Seq(S) : Range(a \o s2) = Range(a) \cup Range(s2)
    BY RangeConcat
  <1>3. <<x>> \in Seq(S) /\ Range(<<x>>) = {x}
    BY Singleton, LenProperties DEF Range
  <1> DEFINE o == <<x>>
             t == o \o s1
  <1> HIDE DEF o
  <1>4. t \in Seq(S) /\ Range(t) = {x} \cup Range(s1)
    BY <1>1, <1>3 DEF o
  <1> HIDE DEF t
  <1>5. Range(t \o s2) = {x} \cup Range(s1) \cup Range(s2)
    BY <1>2, <1>4
  <1> QED BY <1>5 DEF t, o

(* A suffix of a sequence is a sequence over the same set, with no new     *)
(* members: what the retained tail of a context is.                        *)
LEMMA SuffixFacts ==
    ASSUME NEW S, NEW s \in Seq(S), NEW k \in 0..Len(s)
    PROVE  SubSeq(s, k + 1, Len(s)) \in Seq(S) /\ Range(SubSeq(s, k + 1, Len(s))) \subseteq Range(s)
  <1> DEFINE n == Len(s)
             t == SubSeq(s, k + 1, n)
  <1>1. n \in Nat /\ DOMAIN s = 1..n /\ \A i \in 1..n : s[i] \in S
    BY LenProperties, ElementOfSeq
  <1>2. k \in Nat /\ k <= n
    BY <1>1
  <1> HIDE DEF n
  <1>3. k + 1 \in Int /\ n \in Int /\ k + 1 >= 1 /\ \A i \in (k + 1)..n : s[i] \in S
    BY <1>1, <1>2
  <1>4. /\ t \in Seq(S)
        /\ Len(t) = IF k + 1 <= n THEN n - (k + 1) + 1 ELSE 0
        /\ \A i \in 1..(n - (k + 1) + 1) : t[i] = s[k + 1 + i - 1]
    <2>1. \A i \in (k + 1)..n : s[i] \in S
      BY <1>3
    <2> QED BY <1>3, <2>1, SubSeqProperties
  <1> HIDE DEF t
  <1>5. ASSUME NEW i \in DOMAIN t PROVE t[i] \in Range(s)
    <2>1. i \in 1..Len(t)
      BY <1>4, LenProperties
    <2>2. k + 1 <= n /\ i \in 1..(n - k)
      BY <1>1, <1>2, <1>4, <2>1
    <2>3. i \in 1..(n - (k + 1) + 1) /\ k + 1 + i - 1 = k + i
      BY <1>1, <1>2, <2>2
    <2>4. t[i] = s[k + i]
      BY <1>4, <2>3
    <2>5. k + i \in DOMAIN s
      BY <1>1, <1>2, <2>2
    <2> QED BY <2>4, <2>5 DEF Range
  <1> QED BY <1>4, <1>5 DEF n, t, Range

(* A summary covers exactly the range of the prefix it stands for; anchor  *)
(* and tail are items of the session.                                      *)
LEMMA SemanticLocal ==
    ASSUME IInv, NEW h \in Handle, NEW lo \in 1..att[h].split, NEW hi \in 1..att[h].split,
           NEW refs \in SUBSET UNION {att[h].items[i].refs : i \in DOMAIN att[h].items},
           Semantic(h, lo, hi, refs), Grown
    PROVE  LocalStep(h)
  <1> PICK k, from, to : k = att[h].split /\ from = att[h].items[lo].from
                         /\ to = att[h].items[hi].to
    OBVIOUS
  <1> DEFINE summary == [kind |-> "summary", id |-> NoId,
                         body |-> [from |-> from, to |-> to, refs |-> refs]]
             head == Derived(summary, from, to, FALSE, refs)
             items == sess[h].items
             anchor == Anchor(items, k)
             tail == SubSeq(items, k + 1, Len(items))
  <1>1. /\ att[h].stage = "decide" /\ sess' = sess /\ SourceRange(att[h].items, k, lo, hi)
        /\ att'[h].items = <<head>> \o anchor \o tail /\ att'[h].stage = "commit"
        /\ \A g \in Handle : g # h => att'[g] = att[g]
    BY HandleFacts DEF Semantic, Attempt
  <1>2. /\ k \in 0..Len(items) /\ Len(items) \in Nat
        /\ lo \in DOMAIN att[h].items /\ hi \in DOMAIN att[h].items
    <2>1. /\ k \in 0..Len(att[h].items) /\ Len(att[h].items) = Len(items)
          /\ items \in Seq(Item) /\ att[h].items \in Seq(Item)
      BY <1>1, HandleFacts DEF ShapeOf
    <2>2. /\ Len(items) \in Nat /\ DOMAIN att[h].items = 1..Len(att[h].items)
      BY <2>1, LenProperties
    <2>3. lo \in 1..k /\ hi \in 1..k
      BY <1>1 DEF SourceRange
    <2> QED BY <2>1, <2>2, <2>3
  <1>3. /\ from \in Nat /\ to \in Nat /\ from > 0 /\ from <= to
        /\ to <= Len(journal') /\ Len(journal) \in Nat
    <2>1. /\ att[h].items[lo] \in Item /\ Covered(att[h].items[lo])
          /\ att[h].items[hi] \in Item /\ Covered(att[h].items[hi])
          /\ from <= att[h].items[hi].from
          /\ ItemOK(att[h].items[hi])
      BY <1>1, <1>2, HandleFacts DEF SourceRange, Live, Range
    <2>2. att[h].items[hi].from <= to /\ to <= Len(journal)
      BY <2>1 DEF ItemOK, SoundItem, JournalHead
    <2>3. from \in Nat /\ to \in Nat /\ from > 0 /\ att[h].items[hi].from \in Nat
      BY <2>1 DEF Item, Covered
    <2>4. Len(journal) \in Nat /\ Len(journal) <= Len(journal')
      BY HandleFacts, LenProperties DEF Grown, TypeOK
    <2>5. Len(journal') \in Nat
      BY <2>4 DEF Grown
    <2> QED BY <2>1, <2>2, <2>3, <2>4, <2>5
  <1>4. refs \in SUBSET Artifact
    <2>1. ASSUME NEW i \in DOMAIN att[h].items PROVE att[h].items[i].refs \in SUBSET Artifact
      <3>1. att[h].items[i] \in Item
        BY HandleFacts DEF Live, Range
      <3> QED BY <3>1 DEF Item
    <2> QED BY <2>1
  <1>5. head \in Item
    <2>1. summary \in Message
      BY <1>3, <1>4 DEF Message, SummaryMessage, SummaryBody
    <2> QED BY <1>3, <1>4, <2>1, DerivedType
  <1>6. ItemOK(head)' /\ Covered(head)
    BY <1>3 DEF ItemOK, SoundItem, Derived, Covered, IsResult, JournalHead
  <1>7. anchor \in Seq(Item) /\ Range(anchor) \subseteq Range(items)
    <2>1. CASE anchor = <<>>
      BY <2>1 DEF Range
    <2>2. ASSUME NEW a \in 1..k, anchor = <<items[a]>>
          PROVE  anchor \in Seq(Item) /\ Range(anchor) \subseteq Range(items)
      <3>1. a \in DOMAIN items /\ items[a] \in Item
        BY <1>2, HandleFacts, LenProperties
      <3>2. <<items[a]>> \in Seq(Item) /\ Range(<<items[a]>>) = {items[a]}
        BY <3>1, Singleton, LenProperties DEF Range
      <3> QED BY <2>2, <3>1, <3>2 DEF Range
    <2> QED BY <2>1, <2>2, AnchorCases
  <1>8. tail \in Seq(Item) /\ Range(tail) \subseteq Range(items)
    <2>1. items \in Seq(Item) /\ k \in 0..Len(items)
      BY <1>2, HandleFacts
    <2> HIDE DEF items
    <2> QED BY <2>1, SuffixFacts
  <1> HIDE DEF head, anchor, tail
  <1>9. Range(att'[h].items) = {head} \cup Range(anchor) \cup Range(tail)
    <2>1. Range((<<head>> \o anchor) \o tail) = {head} \cup Range(anchor) \cup Range(tail)
      BY <1>5, <1>7, <1>8, RangeCompacted
    <2>2. att'[h].items = (<<head>> \o anchor) \o tail
      BY <1>1
    <2> QED BY <2>1, <2>2
  <1>10. \A x \in Range(att'[h].items) :
            x \in Live(h) \/ (x \in Item /\ ItemOK(x)' /\ Covered(x))
    BY <1>5, <1>6, <1>7, <1>8, <1>9 DEF Live
  <1>11. ShapeOf(att'[h], sess'[h])
    BY <1>1, HandleFacts DEF ShapeOf
  <1> QED BY <1>1, <1>10, <1>11, CandidateLocal

(* The committed candidate becomes the live context.                       *)
LEMMA CommitInstalledLocal ==
    ASSUME IInv, NEW h \in Handle, CommitInstalled(h)
    PROVE  LocalStep(h)
  <1>1. /\ sess'[h].items = att[h].items /\ sess'[h].phase = sess[h].phase
        /\ att'[h] = NoAttempt /\ att[h].stage = "commit"
        /\ \A g \in Handle : g # h => sess'[g] = sess[g] /\ att'[g] = att[g]
    BY HandleFacts DEF CommitInstalled, Session
  <1>2. sess[h].phase = "durable"
    BY <1>1, HandleFacts DEF ShapeOf
  <1>3. \A it \in Live(h)' : it \in Live(h)
    BY <1>1 DEF Live, Range, NoAttempt
  <1>4. Unholed(sess'[h].items)
    BY <1>1, <1>2, HandleFacts DEF Unholed, Live, Range
  <1> QED BY <1>1, <1>2, <1>3, <1>4, HandleFacts DEF LocalStep, ShapeOf, NoAttempt

(* What resume gives an item of the checkpoint is sound.                   *)
LEMMA RestoredOK ==
    ASSUME IInv, NEW f \in [Unproven -> 1..Covers], IsCursorRun(f),
           NEW i \in DOMAIN BaseMessages
    PROVE  ItemOK(RestoredItem(f, i)) /\ Covered(RestoredItem(f, i))
  <1> PICK m : m = BaseMessages[i]
    OBVIOUS
  <1> DEFINE it == RestoredItem(f, i)
  <1>1. /\ m.kind = "summary" =>
              m.body.from > 0 /\ m.body.from <= m.body.to /\ m.body.to <= Len(journal)
        /\ m.kind = "marker" => PayloadArtifact(m) \in artifacts
    BY DEF IInv, CheckpointOK
  <1>2. CASE m.kind = "summary"
    <2>1. it = Derived(m, m.body.from, m.body.to, FALSE, m.body.refs)
      BY <1>2 DEF RestoredItem
    <2> HIDE DEF it
    <2>2. /\ it.msg = m /\ it.from = m.body.from /\ it.to = m.body.to
          /\ it.verbatim = FALSE
      BY <2>1 DEF Derived
    <2>3. ItemOK(it) /\ Covered(it)
      BY <1>1, <1>2, <2>2 DEF ItemOK, SoundItem, Covered, IsResult, JournalHead
    <2> QED BY <2>3 DEF it
  <1>3. CASE m.kind # "summary"
    <2> PICK s : s = f[i]
      OBVIOUS
    <2> DEFINE fact == journal[s].data
    <2>1. i \in Unproven
      BY <1>3 DEF Unproven
    <2>2. IsFact(s) /\ (fact = m \/ (IsResult(m) /\ IsResult(fact) /\ fact.id = m.id))
      BY <2>1 DEF IsCursorRun, Explains
    <2>3. s \in Nat /\ s > 0 /\ s <= Len(journal) /\ fact.kind \in {"text", "full"}
      BY <2>2 DEF IsFact, IInv, JournalPlain, TypeOK, JournalHead
    <2>4. CASE fact = m
      <3>1. it = Appended(m, s, FALSE, FALSE)
        BY <1>3, <2>4 DEF RestoredItem
      <3> HIDE DEF it
      <3>2. it.msg = m /\ it.from = s /\ it.to = s
        BY <3>1 DEF Appended
      <3>3. ItemOK(it) /\ Covered(it)
        BY <2>2, <2>3, <2>4, <3>2 DEF ItemOK, SoundItem, Covered, JournalHead
      <3> QED BY <3>3 DEF it
    <2>5. CASE fact # m
      <3>1. it = Derived(m, s, s, FALSE, {ResultArtifact(fact)} \cap artifacts)
        BY <1>3, <2>5 DEF RestoredItem
      <3> HIDE DEF it
      <3>2. it.msg = m /\ it.from = s /\ it.to = s /\ it.verbatim = FALSE
        BY <3>1 DEF Derived
      <3>3. ItemOK(it) /\ Covered(it)
        BY <1>1, <1>3, <2>2, <2>3, <2>5, <3>2 DEF ItemOK, SoundItem, Covered, JournalHead
      <3> QED BY <3>3 DEF it
    <2> QED BY <2>4, <2>5
  <1> QED BY <1>2, <1>3

(* A resumed session shows only proven items.                              *)
LEMMA ResumeLocal ==
    ASSUME IInv, NEW h \in Handle, ResumeAny(h), Grown
    PROVE  LocalStep(h)
  <1> SUFFICES ASSUME NEW f \in CursorRuns, NEW later, Resume(h, f, later)
               PROVE  LocalStep(h)
    BY DEF ResumeAny
  <1> DEFINE base == [i \in DOMAIN BaseMessages |-> RestoredItem(f, i)]
             live == [j \in DOMAIN later |->
                        Appended(journal[later[j]].data, later[j], FALSE, FALSE)]
  <1>1. TypeOK /\ f \in [Unproven -> 1..Covers] /\ IsCursorRun(f)
    BY DEF IInv, CursorRuns
  <1>2. /\ sess'[h].items = base \o live /\ sess'[h].phase = "durable" /\ att' = att
        /\ \A g \in Handle : g # h => sess'[g] = sess[g]
        /\ att[h].stage = "idle" /\ att[h].items = <<>>
        /\ journal' = journal /\ artifacts' = artifacts
    BY HandleFacts DEF Resume, ShapeOf
  <1>3. ASSUME NEW i \in DOMAIN BaseMessages, NEW x, x = RestoredItem(f, i)
        PROVE  x \in Item /\ ItemOK(x)' /\ Covered(x)
    <2>1. x \in Item /\ ItemOK(x) /\ Covered(x)
      BY <1>1, <1>3, RestoredType, RestoredOK
    <2> QED BY <1>1, <2>1, ItemKept
  <1>4. ASSUME NEW j \in DOMAIN later, NEW x,
               x = Appended(journal[later[j]].data, later[j], FALSE, FALSE)
        PROVE  x \in Item /\ ItemOK(x)' /\ Covered(x)
    <2> PICK m, s : m = journal[later[j]].data /\ s = later[j]
      OBVIOUS
    <2>1. s \in LaterFacts
      BY DEF Resume
    <2>2. IsFact(s) /\ s \in Nat /\ s > 0 /\ s <= Len(journal) /\ Len(journal) \in Nat
      BY <2>1, HandleFacts DEF LaterFacts, IsFact, JournalHead
    <2>3. m \in Message /\ m.kind \in {"text", "full"} /\ journal[s].kind = "message"
      BY <1>1, <2>2, FactType DEF IInv, JournalPlain, IsFact
    <2>4. Appended(m, s, FALSE, FALSE) \in Item
      BY <2>2, <2>3, AppendedType
    <2>5. ItemOK(Appended(m, s, FALSE, FALSE))' /\ Covered(Appended(m, s, FALSE, FALSE))
      BY <1>2, <2>2, <2>3, AppendedOK
    <2> QED BY <1>4, <2>4, <2>5
  <1>5. base \in Seq(Item) /\ DOMAIN base = DOMAIN BaseMessages
    <2>1. BaseMessages \in Seq(Message)
      BY <1>1 DEF TypeOK, BaseMessages, Checkpoint
    <2>2. base \in [1..Len(BaseMessages) -> Item]
      BY <1>3, <2>1, LenProperties
    <2> QED BY <2>1, <2>2, SequenceOf, LenProperties
  <1>6. live \in Seq(Item) /\ DOMAIN live = DOMAIN later
    <2>1. later \in Seq(LaterFacts)
      BY DEF Resume
    <2>2. live \in [1..Len(later) -> Item]
      BY <1>4, <2>1, LenProperties
    <2> QED BY <2>1, <2>2, SequenceOf, LenProperties
  <1>7. ASSUME NEW x \in Range(base) PROVE x \in Item /\ ItemOK(x)' /\ Covered(x)
    <2>1. PICK i \in DOMAIN BaseMessages : x = RestoredItem(f, i)
      BY <1>5 DEF Range
    <2> QED BY <1>3, <2>1
  <1>8. ASSUME NEW x \in Range(live) PROVE x \in Item /\ ItemOK(x)' /\ Covered(x)
    <2>1. PICK j \in DOMAIN later :
             x = Appended(journal[later[j]].data, later[j], FALSE, FALSE)
      BY <1>6 DEF Range
    <2> QED BY <1>4, <2>1
  <1> HIDE DEF base, live
  <1>9. Live(h)' = Range(base) \cup Range(live)
    <2>1. Range(base \o live) = Range(base) \cup Range(live)
      BY <1>5, <1>6, RangeConcat
    <2>2. Range(<<>>) = {}
      BY DEF Range
    <2>3. Live(h)' = Range(sess'[h].items) \cup Range(att'[h].items)
      BY DEF Live, Range
    <2>4. sess'[h].items = base \o live /\ att'[h].items = <<>>
      BY <1>2
    <2> QED BY <2>1, <2>2, <2>3, <2>4
  <1>10. ASSUME NEW x \in Live(h)' PROVE x \in Item /\ ItemOK(x)' /\ Covered(x)
    BY <1>7, <1>8, <1>9
  <1>11. Unholed(sess'[h].items)
    BY <1>10 DEF Unholed, Live, Range
  <1> QED BY <1>2, <1>10, <1>11 DEF LocalStep, ShapeOf

-----------------------------------------------------------------------------
(* What a step does to the rows.                                           *)

DurableStep == Grown /\ JournalPlain' /\ CheckpointOK' /\ CheckpointSealsJournal'

(* Rows that only grow keep an unchanged checkpoint in order.              *)
LEMMA CheckpointKept ==
    ASSUME IInv, Grown, JournalPlain', checkpoint' = checkpoint
    PROVE  DurableStep
  <1>1. Len(journal) \in Nat /\ Len(journal) <= Len(journal')
    BY LenProperties DEF IInv, TypeOK, Grown
  <1>2. BaseMessages \in Seq(Message) /\ BaseMessages' = BaseMessages
    BY DEF IInv, TypeOK, BaseMessages, Checkpoint
  <1>3. CheckpointOK'
    <2>1. ASSUME NEW i \in DOMAIN BaseMessages, NEW m, m = BaseMessages[i],
                 m.kind = "summary"
          PROVE  /\ m.body.from > 0 /\ m.body.from <= m.body.to
                 /\ m.body.to <= Len(journal')
      <3>1. m \in SummaryMessage
        BY <1>2, <2>1 DEF Message, TextMessage, ResultMessage
      <3>2. m.body.to \in Nat
        BY <3>1 DEF SummaryMessage, SummaryBody
      <3>3. m.body.to <= Len(journal)
        BY <2>1 DEF IInv, CheckpointOK
      <3>4. m.body.to <= Len(journal')
        BY <1>1, <3>2, <3>3 DEF Grown
      <3> QED BY <2>1, <3>4 DEF IInv, CheckpointOK
    <2>2. ASSUME NEW i \in DOMAIN BaseMessages, NEW m, m = BaseMessages[i],
                 m.kind = "marker"
          PROVE  PayloadArtifact(m) \in artifacts'
      BY <2>2 DEF IInv, CheckpointOK, Grown
    <2> QED BY <1>2, <2>1, <2>2 DEF CheckpointOK
  <1>4. CheckpointSealsJournal'
    <2> SUFFICES ASSUME checkpoint # NoCheckpoint
                 PROVE  /\ checkpoint.covers + 2 <= Len(journal')
                        /\ journal'[checkpoint.covers + 1].kind = "compaction"
                        /\ journal'[checkpoint.covers + 2].kind = "checkpoint"
      BY DEF CheckpointSealsJournal, JournalHead
    <2>1. checkpoint.covers \in Nat
      BY DEF IInv, TypeOK, Checkpoint
    <2>2. /\ checkpoint.covers + 2 <= Len(journal)
          /\ journal[checkpoint.covers + 1].kind = "compaction"
          /\ journal[checkpoint.covers + 2].kind = "checkpoint"
      BY DEF IInv, CheckpointSealsJournal, JournalHead
    <2>3. /\ checkpoint.covers + 1 \in 1..Len(journal)
          /\ checkpoint.covers + 2 \in 1..Len(journal)
      BY <1>1, <2>1, <2>2
    <2> QED BY <1>1, <2>1, <2>2, <2>3 DEF Grown, IInv, TypeOK
  <1> QED BY <1>3, <1>4 DEF DurableStep

(* Steps that leave the rows alone.                                        *)
LEMMA RowsUnchanged ==
    ASSUME IInv, UNCHANGED <<journal, artifacts, checkpoint>>
    PROVE  DurableStep
  BY NothingAdded, CheckpointKept DEF IInv

(* append_message adds one row, at the next sequence number.               *)
LEMMA MessageRow ==
    ASSUME IInv, NEW m \in NewMessage,
           journal' = Append(journal, [kind |-> "message", data |-> m]),
           UNCHANGED <<artifacts, checkpoint>>
    PROVE  /\ DurableStep
           /\ Len(journal') = Len(journal) + 1
           /\ Len(journal') \in Nat
           /\ journal'[Len(journal) + 1].kind = "message"
           /\ journal'[Len(journal) + 1].data = m
  <1> PICK e : e = [kind |-> "message", data |-> m]
    OBVIOUS
  <1>1. m \in Message /\ m.kind \in {"text", "full"}
    BY DEF NewMessage, Message, TextMessage
  <1>2. e \in Entry /\ Plain(e)
    BY <1>1 DEF Entry, Plain
  <1>3. journal \in Seq(Entry) /\ TypeOK /\ JournalPlain
    BY DEF IInv, TypeOK
  <1>4. Grown /\ JournalPlain'
    BY <1>2, <1>3, RowAppended
  <1>5. /\ Len(journal') = Len(journal) + 1
        /\ journal'[Len(journal) + 1] = e
        /\ Len(journal') \in Nat
    BY <1>2, <1>3, AppendProperties, LenProperties
  <1> QED BY <1>4, <1>5, CheckpointKept

(* put_tool_artifact.                                                      *)
LEMMA ArtifactRow ==
    ASSUME IInv, NEW a \in Artifact, PutRow(a), checkpoint' = checkpoint
    PROVE  DurableStep
  BY PutRowGrows, CheckpointKept DEF IInv

(* A committed candidate makes a checkpoint in order.                      *)
LEMMA CheckpointRow ==
    ASSUME IInv, NEW h \in Handle, att[h].stage = "commit", HeadUnmoved(h),
           CommitRows(h), artifacts' = artifacts
    PROVE  DurableStep
  <1>1. Grown /\ JournalPlain' /\ CheckpointSealsJournal'
    BY CommitRowsGrows DEF IInv
  <1>2. BaseMessages' = Messages(att[h].items) \/ BaseMessages' = <<>>
    BY DEF CommitRows, BaseMessages
  <1>3. sess[h].phase = "durable"
    BY HandleFacts DEF ShapeOf
  <1>4. ASSUME NEW i \in DOMAIN att[h].items, NEW m, m = att[h].items[i].msg
        PROVE  /\ m.kind = "summary" =>
                    m.body.from > 0 /\ m.body.from <= m.body.to /\ m.body.to <= Len(journal')
               /\ m.kind = "marker" => PayloadArtifact(m) \in artifacts'
    <2> PICK it : it = att[h].items[i]
      OBVIOUS
    <2>1. it \in Live(h)
      BY DEF Live, Range
    <2>2. it \in Item /\ ItemOK(it) /\ Covered(it) /\ TypeOK
      BY <1>3, <2>1, HandleFacts DEF IInv
    <2>3. ItemOK(it)'
      BY <1>1, <2>2, ItemKept
    <2> QED BY <1>4, <2>2, <2>3 DEF ItemOK, SoundItem, Covered, JournalHead
  <1>5. CheckpointOK'
    <2>1. \A i \in DOMAIN Messages(att[h].items) :
             i \in DOMAIN att[h].items /\ Messages(att[h].items)[i] = att[h].items[i].msg
      BY DEF Messages
    <2> QED BY <1>2, <1>4, <2>1 DEF CheckpointOK
  <1> QED BY <1>1, <1>5 DEF DurableStep

-----------------------------------------------------------------------------
(* Every step keeps the invariant.                                         *)

(* Every outcome of persist_message keeps the session's items sound and    *)
(* the store append-only.                                                  *)
LEMMA PushStep ==
    ASSUME IInv, NEW h \in Handle, Push(h)
    PROVE  LocalStep(h) /\ DurableStep
  <1> PICK m \in NewMessage, human \in BOOLEAN :
         \/ PushJournaled(h, m, human)
         \/ \E kept \in BOOLEAN : PushFailed(h, m, human, kept)
         \/ PushMemoryOnly(h, m, human)
    BY DEF Push
  <1>1. CASE PushJournaled(h, m, human)
    <2>1. /\ DurableStep
          /\ Len(journal') = Len(journal) + 1 /\ Len(journal') \in Nat
          /\ journal'[Len(journal) + 1].kind = "message"
          /\ journal'[Len(journal) + 1].data = m
      BY <1>1, MessageRow DEF PushJournaled
    <2>2. PICK seq \in Nat : seq = Len(journal) + 1
      BY HandleFacts
    <2>3. sess' = [sess EXCEPT ![h] = [phase |-> "durable",
                                       items |-> Pushed(h, m, seq, human),
                                       frontier |-> seq]]
      BY <1>1, <2>2 DEF PushJournaled, JournalHead
    <2>4. /\ sess'[h].items = Pushed(h, m, seq, human)
          /\ sess'[h].phase = "durable"
          /\ \A g \in Handle : g # h => sess'[g] = sess[g]
      BY <2>3, HandleFacts
    <2>5. /\ PushReady(h, m, human) /\ att' = att
          /\ sess[h].phase \in {"deferred", "durable"}
      BY <1>1 DEF PushJournaled
    <2>6. seq > 0 /\ seq <= Len(journal')
      BY <2>1, <2>2, HandleFacts
    <2> QED BY <2>1, <2>2, <2>4, <2>5, <2>6, PushLocal DEF DurableStep
  <1>2. ASSUME NEW kept \in BOOLEAN, PushFailed(h, m, human, kept)
        PROVE  LocalStep(h) /\ DurableStep
    <2>1. DurableStep
      BY <1>2, MessageRow, RowsUnchanged DEF PushFailed
    <2>2. /\ sess'[h].items = Pushed(h, m, 0, human)
          /\ sess'[h].phase = "failed"
          /\ \A g \in Handle : g # h => sess'[g] = sess[g]
      BY <1>2, HandleFacts DEF PushFailed, Session
    <2>3. PushReady(h, m, human) /\ att' = att /\ 0 \in Nat
      BY <1>2 DEF PushFailed
    <2> QED BY <2>1, <2>2, <2>3, PushLocal DEF DurableStep
  <1>3. CASE PushMemoryOnly(h, m, human)
    <2>1. DurableStep
      BY <1>3, RowsUnchanged DEF PushMemoryOnly
    <2>2. /\ sess'[h].items = Pushed(h, m, 0, human)
          /\ sess'[h].phase = "failed"
          /\ \A g \in Handle : g # h => sess'[g] = sess[g]
      BY <1>3, HandleFacts DEF PushMemoryOnly, Session
    <2>3. PushReady(h, m, human) /\ att' = att /\ 0 \in Nat
      BY <1>3 DEF PushMemoryOnly
    <2> QED BY <2>1, <2>2, <2>3, PushLocal DEF DurableStep
  <1> QED BY <1>1, <1>2, <1>3

(* So does every step of the compaction pipeline.                          *)
LEMMA CompactStep ==
    ASSUME IInv, NEW h \in Handle, Compact(h)
    PROVE  LocalStep(h) /\ DurableStep
  <1>a. ASSUME NEW i, SpillTarget(h, i)
        PROVE  PayloadArtifact(att[h].items[i].msg) \in Artifact
    <2> PICK it : it = att[h].items[i]
      OBVIOUS
    <2>1. i \in 1..Len(att[h].items) /\ att[h].items \in Seq(Item)
      BY <1>a, HandleFacts DEF SpillTarget, ShapeOf, Attempt
    <2>2. it \in Item /\ it.msg.kind = "full"
      BY <1>a, <2>1, LenProperties DEF SpillTarget, Spillable
    <2> QED BY <2>2, PayloadArtifactType DEF Item
  <1>1. ASSUME NEW k \in 0..MaxActive, AuditPasses(h, k)
        PROVE  LocalStep(h) /\ DurableStep
    BY <1>1, AttemptLocal, RowsUnchanged DEF AuditPasses
  <1>2. CASE AuditFails(h)
    BY <1>2, LoseAuthorityLocal, RowsUnchanged DEF AuditFails
  <1>3. ASSUME NEW i \in 1..att[h].split, PutCommitted(h, i)
        PROVE  LocalStep(h) /\ DurableStep
    <2>1. SpillTarget(h, i) /\ PutRow(PayloadArtifact(att[h].items[i].msg))
          /\ checkpoint' = checkpoint
      BY <1>3 DEF PutCommitted
    <2>2. DurableStep
      BY <1>a, <2>1, ArtifactRow
    <2> QED BY <1>3, <2>2, PutCommittedLocal DEF DurableStep
  <1>4. ASSUME NEW i \in 1..att[h].split, PutSkipped(h, i)
        PROVE  LocalStep(h) /\ DurableStep
    BY <1>4, AttemptLocal, RowsUnchanged DEF PutSkipped
  <1>5. ASSUME NEW i \in 1..att[h].split, PutConflict(h, i)
        PROVE  LocalStep(h) /\ DurableStep
    BY <1>5, LoseAuthorityLocal, RowsUnchanged DEF PutConflict
  <1>6. ASSUME NEW i \in 1..att[h].split, NEW kept \in BOOLEAN, PutUnknown(h, i, kept)
        PROVE  LocalStep(h) /\ DurableStep
    <2>1. CASE kept
      BY <1>a, <1>6, <2>1, ArtifactRow, LoseAuthorityLocal DEF PutUnknown
    <2>2. CASE ~kept
      BY <1>6, <2>2, RowsUnchanged, LoseAuthorityLocal DEF PutUnknown
    <2> QED BY <2>1, <2>2
  <1>7. CASE SpillDone(h)
    BY <1>7, AttemptLocal, RowsUnchanged DEF SpillDone
  <1>8. ASSUME NEW slim \in SUBSET SlimCandidates(h), Deterministic(h, slim)
        PROVE  LocalStep(h) /\ DurableStep
    <2>1. DurableStep
      BY <1>8, RowsUnchanged DEF Deterministic
    <2> QED BY <1>8, <2>1, DeterministicLocal DEF DurableStep
  <1>9. ASSUME NEW lo \in 1..att[h].split, NEW hi \in 1..att[h].split,
               NEW refs \in SUBSET UNION {att[h].items[i].refs : i \in DOMAIN att[h].items},
               Semantic(h, lo, hi, refs)
        PROVE  LocalStep(h) /\ DurableStep
    <2>1. DurableStep
      BY <1>9, RowsUnchanged DEF Semantic
    <2> QED BY <1>9, <2>1, SemanticLocal DEF DurableStep
  <1>10. CASE NothingToRewrite(h) \/ SourceRefused(h)
    BY <1>10, LoseAuthorityLocal, RowsUnchanged DEF NothingToRewrite, SourceRefused
  <1>11. CASE Bypass(h)
    BY <1>11, QuietLocal, RowsUnchanged DEF Bypass
  <1>12. CASE CommitInstalled(h)
    BY <1>12, CommitInstalledLocal, CheckpointRow DEF CommitInstalled
  <1>13. CASE CommitConflict(h)
    BY <1>13, LoseAuthorityLocal, RowsUnchanged DEF CommitConflict
  <1>14. ASSUME NEW kept \in BOOLEAN, CommitUnknown(h, kept)
         PROVE  LocalStep(h) /\ DurableStep
    <2>1. CASE kept
      BY <1>14, <2>1, CheckpointRow, LoseAuthorityLocal DEF CommitUnknown
    <2>2. CASE ~kept
      BY <1>14, <2>2, RowsUnchanged, LoseAuthorityLocal DEF CommitUnknown
    <2> QED BY <2>1, <2>2
  <1> QED BY <1>1, <1>2, <1>3, <1>4, <1>5, <1>6, <1>7, <1>8, <1>9, <1>10,
             <1>11, <1>12, <1>13, <1>14 DEF Compact

(* Handle by handle, the parts of the invariant follow from the local step.*)
LEMMA StepsCompose ==
    ASSUME IInv, TypeOK', NEW h \in Handle, LocalStep(h), DurableStep
    PROVE  IInv'
  <1>1. ASSUME NEW g \in Handle, g # h
        PROVE  sess'[g] = sess[g] /\ att'[g] = att[g] /\ Live(g)' = Live(g)
    BY <1>1 DEF LocalStep, Live, Range
  <1>2. ItemsOK'
    <2> SUFFICES ASSUME NEW g \in Handle, NEW it, it \in Live(g)' PROVE ItemOK(it)'
      BY DEF ItemsOK
    <2>1. CASE it \in Live(g)
      <3>1. it \in Item /\ ItemOK(it) /\ TypeOK /\ Grown
        BY <2>1, HandleFacts DEF IInv, DurableStep
      <3> QED BY <3>1, ItemKept
    <2>2. CASE it \notin Live(g)
      BY <1>1, <2>2 DEF LocalStep
    <2> QED BY <2>1, <2>2
  <1>3. FullyJournaled'
    <2> SUFFICES ASSUME NEW g \in Handle, sess'[g].phase = "durable",
                        NEW it, it \in Live(g)'
                 PROVE  Covered(it)
      BY DEF FullyJournaled, Covered
    <2> QED BY <1>1, HandleFacts DEF LocalStep
  <1>4. NoJournalHole'
    <2>1. ASSUME NEW g \in Handle PROVE Unholed(sess'[g].items)
      BY <1>1, HandleFacts DEF LocalStep
    <2> QED BY <2>1 DEF NoJournalHole, Unholed, Covered
  <1>5. AttemptShape'
    <2>1. ASSUME NEW g \in Handle PROVE ShapeOf(att'[g], sess'[g])
      BY <1>1, HandleFacts DEF LocalStep
    <2> QED BY <2>1 DEF AttemptShape, ShapeOf
  <1>6. UnspokenEmpty'
    <2>1. ASSUME NEW g \in Handle
          PROVE  sess'[g].phase \in {"down", "deferred"} => sess'[g].items = <<>>
      BY <1>1, HandleFacts DEF LocalStep
    <2> QED BY <2>1 DEF UnspokenEmpty
  <1> QED BY <1>2, <1>3, <1>4, <1>5, <1>6 DEF IInv, DurableStep

(* The invariant holds before the session exists.                          *)
LEMMA InitIInv == Init => IInv
  <1> SUFFICES ASSUME Init PROVE IInv
    OBVIOUS
  <1>1. NoSession \in Session /\ NoAttempt \in Attempt
    BY DEF NoSession, NoAttempt, Session, Attempt
  <1>2. TypeOK
    <2>1. journal \in Seq(Entry)
      BY DEF Init
    <2> QED BY <1>1, <2>1 DEF Init, TypeOK
  <1>3. \A h \in Handle : sess[h] = NoSession /\ att[h] = NoAttempt
    BY DEF Init
  <1>4. \A h \in Handle : Live(h) = {}
    BY <1>3 DEF Live, Range, NoSession, NoAttempt
  <1>5. AttemptShape /\ NoJournalHole /\ UnspokenEmpty
    BY <1>3 DEF AttemptShape, NoJournalHole, UnspokenEmpty, NoSession, NoAttempt
  <1>6. ItemsOK /\ FullyJournaled
    BY <1>4 DEF ItemsOK, FullyJournaled
  <1>7. JournalPlain /\ CheckpointOK /\ CheckpointSealsJournal
    BY DEF Init, JournalPlain, CheckpointOK, BaseMessages, CheckpointSealsJournal
  <1> QED BY <1>2, <1>5, <1>6, <1>7 DEF IInv

(* The invariant is inductive.                                             *)
LEMMA NextIInv == IInv /\ [Next]_vars => IInv'
  <1> SUFFICES ASSUME IInv, [Next]_vars PROVE IInv'
    OBVIOUS
  <1>1. ASSUME NEW h \in Handle,
               Open(h) \/ Push(h) \/ Crash(h) \/ Compact(h) \/ ResumeAny(h)
        PROVE  IInv'
    <2>1. TypeOK'
      BY <1>1, TypeStep DEF IInv
    <2>2. LocalStep(h) /\ DurableStep
      <3>1. CASE Open(h)
        BY <3>1, QuietLocal, RowsUnchanged DEF Open
      <3>2. CASE Push(h)
        BY <3>2, PushStep
      <3>3. CASE Crash(h)
        BY <3>3, QuietLocal, RowsUnchanged DEF Crash
      <3>4. CASE Compact(h)
        BY <3>4, CompactStep
      <3>5. CASE ResumeAny(h)
        <4>1. DurableStep
          BY <3>5, RowsUnchanged DEF ResumeAny, Resume
        <4> QED BY <3>5, <4>1, ResumeLocal DEF DurableStep
      <3> QED BY <1>1, <3>1, <3>2, <3>3, <3>4, <3>5
    <2> QED BY <2>1, <2>2, StepsCompose
  <1>2. CASE UNCHANGED vars
    BY <1>2 DEF vars, IInv, TypeOK, AttemptShape, ItemsOK, Live, ItemOK, SoundItem,
                IsFact, JournalHead, FullyJournaled, NoJournalHole, UnspokenEmpty,
                JournalPlain, CheckpointOK, BaseMessages, CheckpointSealsJournal
  <1> QED BY <1>1, <1>2 DEF Next

(* Every reachable state satisfies the inductive invariant, for any number *)
(* of handles, any contents and any bounds.                                *)
THEOREM Invariant == Spec => []IInv
  <1> QED BY InitIInv, NextIInv, PTL DEF Spec

-----------------------------------------------------------------------------
(* The properties.                                                         *)

(* TypeOK: every reachable state of the store, the sessions and their      *)
(* attempts is well typed.                                                 *)
THEOREM TypeCorrect == Spec => []TypeOK
  <1>1. IInv => TypeOK
    BY DEF IInv
  <1> QED BY <1>1, Invariant, PTL

(* LineageSound: whatever several writers, store failures, crashes and     *)
(* resumes do, no live or candidate item claims coverage the journal does  *)
(* not give it (MessageLineage, compaction candidates, resume matching).   *)
THEOREM LineageNeverLies == Spec => []LineageSound
  <1>1. IInv => LineageSound
    BY DEF IInv, ItemsOK, ItemOK, LineageSound
  <1> QED BY <1>1, Invariant, PTL

(* FullyJournaled: holding authority means every message is journaled.     *)
THEOREM AuthorityMeansJournaled == Spec => []FullyJournaled
  <1>1. IInv => FullyJournaled
    BY DEF IInv
  <1> QED BY <1>1, Invariant, PTL

(* NoJournalHole: after a failed append no later message claims a receipt. *)
THEOREM DurablePrefix == Spec => []NoJournalHole
  <1>1. IInv => NoJournalHole
    BY DEF IInv
  <1> QED BY <1>1, Invariant, PTL

(* MarkerHasArtifact: no marker is shown before its payload is durable.    *)
THEOREM PayloadBeforeMarker == Spec => []MarkerHasArtifact
  <1>1. IInv => MarkerHasArtifact
    BY DEF IInv, ItemsOK, ItemOK, CheckpointOK, MarkerHasArtifact, Range
  <1> QED BY <1>1, Invariant, PTL

(* CheckpointSealsJournal: the compare-and-swap of commit_compaction lets  *)
(* no writer's fact fall between covers and the checkpoint row.            *)
THEOREM CheckpointSeals == Spec => []CheckpointSealsJournal
  <1>1. IInv => CheckpointSealsJournal
    BY DEF IInv
  <1> QED BY <1>1, Invariant, PTL

(* JournalSound: the four promises together, for several writers, store    *)
(* failures, crashes and resumes - the journal is all there is to a        *)
(* conversation (MessageLineage, persist_message, spill_large_result).     *)
THEOREM JournalAlwaysSound == Spec => []JournalSound
  <1>1. LineageSound /\ FullyJournaled /\ NoJournalHole /\ MarkerHasArtifact => JournalSound
    BY DEF JournalSound
  <1> QED BY <1>1, LineageNeverLies, AuthorityMeansJournaled, DurablePrefix, PayloadBeforeMarker, PTL

-----------------------------------------------------------------------------
(***************************************************************************)
(* What a session's store gives back: compaction keeps the working set,    *)
(* resume is never rejected and rebuilds what the session was showing, a   *)
(* session alone on its rows keeps its authority and forgets nothing, and  *)
(* the durable state implements the abstract transcript.                   *)
(***************************************************************************)

-----------------------------------------------------------------------------
(* The order of a context.                                                 *)

(* A summary is only ever the first item, a human request is a text, a     *)
(* covered text is verbatim, and coverage advances from item to item.      *)
Ordered(items) ==
    /\ \A i \in DOMAIN items : items[i].msg.kind = "summary" => i = 1
    /\ \A i \in DOMAIN items : items[i].human => items[i].msg.kind = "text"
    /\ \A i \in DOMAIN items :
          Covered(items[i]) /\ items[i].msg.kind = "text" => items[i].verbatim
    /\ \A i, j \in DOMAIN items :
          /\ i < j
          /\ Covered(items[i]) /\ Covered(items[j])
          /\ items[i].msg.kind # "summary" /\ items[j].msg.kind # "summary"
          => items[i].from < items[j].from

(* An item is itself or a result rewritten in place.                       *)
Redrawn(new, old) ==
    \/ new = old
    \/ /\ IsResult(new.msg) /\ IsResult(old.msg) /\ new.msg.id = old.msg.id
       /\ new.from = old.from /\ new.to = old.to /\ ~new.human /\ ~old.human

(* Until a candidate is chosen the attempt holds the session's items,      *)
(* rewritten at most in the prefix.                                        *)
Redraw(new, items, k) ==
    /\ Len(new) = Len(items)
    /\ ProtectedSplit(items, k)
    /\ \A i \in DOMAIN items : Redrawn(new[i], items[i])
    /\ \A i \in DOMAIN items : i > k => new[i] = items[i]

Kept(msgs) == {i \in DOMAIN msgs : msgs[i].kind # "summary"}

(* What DurableTranscript allows a compaction to do to the messages.       *)
Condensed(old, new) ==
    /\ Len(new) \in 1..Len(old)
    /\ new[Len(new)] = old[Len(old)]
    /\ \A i \in DOMAIN new : new[i].kind = "summary" => i = 1
    /\ \E e \in [Kept(new) -> DOMAIN old] :
          /\ \A i \in Kept(new) : Renders(new[i], old[e[i]])
          /\ \A i, j \in Kept(new) : i < j => e[i] < e[j]
    /\ Len(new) < Len(old) => new[1].kind = "summary"

WorkKept(old, new) ==
    /\ LastOf(old, LAMBDA it : it.human) \subseteq Range(new)
    /\ LastOf(old, LAMBDA it : IsResult(it.msg)) \subseteq Range(new)
    /\ LastOf(old, LAMBDA it : TRUE) \subseteq Range(new)

CoveredBy(items, s) == \E it \in Range(items) : it.from <= s /\ s <= it.to

(* A candidate may replace the session's items.                            *)
Candidate(new, items) ==
    /\ Ordered(new)
    /\ Condensed(Messages(items), Messages(new))
    /\ WorkKept(items, new)
    /\ \A s \in Nat : CoveredBy(items, s) => CoveredBy(new, s)

OrderOf(a, x) ==
    /\ Ordered(x.items)
    /\ a.stage \in {"spill", "decide"} => Redraw(a.items, x.items, a.split)
    /\ a.stage = "commit" => Candidate(a.items, x.items)

OrderInv == \A h \in Handle : OrderOf(att[h], sess[h])

(* The messages of a context, position by position.                        *)
LEMMA MessagesOf ==
    ASSUME NEW items \in Seq(Item)
    PROVE  /\ Messages(items) \in Seq(Message)
           /\ Len(Messages(items)) = Len(items)
           /\ DOMAIN Messages(items) = DOMAIN items
           /\ DOMAIN items = 1..Len(items)
           /\ Len(items) \in Nat
           /\ \A i \in DOMAIN items : Messages(items)[i] = items[i].msg
           /\ \A i \in DOMAIN items : items[i] \in Item
  <1>1. DOMAIN items = 1..Len(items) /\ Len(items) \in Nat
    BY LenProperties
  <1>2. \A i \in DOMAIN items : items[i] \in Item
    BY <1>1, ElementOfSeq
  <1>3. Messages(items) \in [1..Len(items) -> Message]
    BY <1>1, <1>2 DEF Messages, Item
  <1>4. Messages(items) \in Seq(Message) /\ Len(Messages(items)) = Len(items)
    BY <1>1, <1>3, SequenceOf
  <1> QED BY <1>1, <1>2, <1>4 DEF Messages

(* A redrawn context is in order.                                          *)
LEMMA RedrawOrdered ==
    ASSUME NEW items \in Seq(Item), NEW new \in Seq(Item), NEW k,
           Ordered(items), Redraw(new, items, k)
    PROVE  Ordered(new)
  <1>1. DOMAIN new = DOMAIN items
    BY MessagesOf DEF Redraw
  <1>2. \A i \in DOMAIN items :
           /\ new[i].msg.kind = "summary" <=> items[i].msg.kind = "summary"
           /\ new[i].from = items[i].from
           /\ new[i].human => new[i] = items[i]
           /\ new[i].msg.kind = "text" => new[i] = items[i]
    BY DEF Redraw, Redrawn, IsResult
  <1> QED BY <1>1, <1>2 DEF Ordered, Covered

(* A redrawn context condenses the one it was drawn from, keeps what the   *)
(* model is working on, and covers the same facts.                         *)
LEMMA RedrawCandidate ==
    ASSUME NEW items \in Seq(Item), NEW new \in Seq(Item), NEW k,
           Ordered(items), Redraw(new, items, k)
    PROVE  Candidate(new, items)
  <1>1. Ordered(new)
    BY RedrawOrdered
  <1>2. /\ DOMAIN new = DOMAIN items /\ Len(new) = Len(items)
        /\ DOMAIN items = 1..Len(items) /\ Len(items) \in Nat
        /\ k \in 0..(Len(items) - 1)
    BY MessagesOf DEF Redraw, ProtectedSplit
  <1>3. Len(items) \in DOMAIN items /\ new[Len(items)] = items[Len(items)]
    BY <1>2 DEF Redraw
  <1>4. \A i \in DOMAIN items : Renders(new[i].msg, items[i].msg)
    BY DEF Redraw, Redrawn, Renders
  <1>5. Condensed(Messages(items), Messages(new))
    <2> PICK old, msgs : old = Messages(items) /\ msgs = Messages(new)
      OBVIOUS
    <2>1. /\ Len(old) = Len(items) /\ Len(msgs) = Len(items)
          /\ DOMAIN old = DOMAIN items /\ DOMAIN msgs = DOMAIN items
          /\ \A i \in DOMAIN items : old[i] = items[i].msg /\ msgs[i] = new[i].msg
      BY <1>2, MessagesOf
    <2>2. [i \in Kept(msgs) |-> i] \in [Kept(msgs) -> DOMAIN old]
      BY <2>1 DEF Kept
    <2>3. \A i \in Kept(msgs) : Renders(msgs[i], old[[j \in Kept(msgs) |-> j][i]])
      BY <1>4, <2>1 DEF Kept
    <2>4. \A i, j \in Kept(msgs) :
             i < j => [l \in Kept(msgs) |-> l][i] < [l \in Kept(msgs) |-> l][j]
      OBVIOUS
    <2>5. \A i \in DOMAIN msgs : msgs[i].kind = "summary" => i = 1
      BY <1>1, <1>2, <2>1 DEF Ordered
    <2>6. /\ Len(msgs) \in 1..Len(old) /\ msgs[Len(msgs)] = old[Len(old)]
          /\ ~(Len(msgs) < Len(old))
      BY <1>2, <1>3, <2>1
    <2>7. Condensed(old, msgs)
      BY <2>2, <2>3, <2>4, <2>5, <2>6 DEF Condensed
    <2> QED BY <2>7
  <1>6. WorkKept(items, new)
    <2>1. \A i \in DOMAIN items : i > k => items[i] \in Range(new)
      BY <1>2 DEF Redraw, Range
    <2>2. \A i \in DOMAIN items : items[i].human => items[i] \in Range(new)
      BY <1>2 DEF Redraw, Redrawn, Range
    <2>3. LastOf(items, LAMBDA it : it.human) \subseteq Range(new)
      BY <2>2 DEF LastOf
    <2>4. LastOf(items, LAMBDA it : IsResult(it.msg)) \subseteq Range(new)
      <3> SUFFICES ASSUME NEW i \in DOMAIN items, IsResult(items[i].msg),
                          \A l \in (i + 1)..Len(items) : ~IsResult(items[l].msg)
                   PROVE  items[i] \in Range(new)
        BY DEF LastOf
      <3>1. PICK j \in (k + 1)..Len(items) : IsResult(items[j].msg)
        BY DEF Redraw, ProtectedSplit
      <3>2. i > k
        BY <1>2, <3>1
      <3> QED BY <2>1, <3>2
    <2>5. LastOf(items, LAMBDA it : TRUE) \subseteq Range(new)
      <3> SUFFICES ASSUME NEW i \in DOMAIN items,
                          \A l \in (i + 1)..Len(items) : FALSE
                   PROVE  items[i] \in Range(new)
        BY DEF LastOf
      <3>1. i > k
        BY <1>2
      <3> QED BY <2>1, <3>1
    <2> QED BY <2>3, <2>4, <2>5 DEF WorkKept
  <1>7. ASSUME NEW s \in Nat, CoveredBy(items, s) PROVE CoveredBy(new, s)
    <2>1. PICK i \in DOMAIN items : items[i].from <= s /\ s <= items[i].to
      BY <1>7 DEF CoveredBy, Range
    <2>2. new[i].from = items[i].from /\ new[i].to = items[i].to
      BY DEF Redraw, Redrawn
    <2> QED BY <1>2, <2>1, <2>2 DEF CoveredBy, Range
  <1> QED BY <1>1, <1>5, <1>6, <1>7 DEF Candidate

(* The anchor is a human request of the prefix.                            *)
LEMMA AnchorHuman ==
    ASSUME NEW items, NEW k
    PROVE  \/ Anchor(items, k) = <<>>
           \/ \E a \in 1..k : Anchor(items, k) = <<items[a]>> /\ items[a].human
  <1> DEFINE anchors == {a \in 1..k : /\ items[a].human
                                      /\ \A i \in (a + 1)..Len(items) : ~items[i].human}
  <1>1. CASE anchors = {}
    BY <1>1 DEF Anchor
  <1>2. CASE anchors # {}
    <2>1. (CHOOSE a \in anchors : TRUE) \in anchors
      BY <1>2
    <2> QED BY <1>2, <2>1 DEF Anchor
  <1> QED BY <1>1, <1>2

(* The latest human request, when it lies in the prefix, is the anchor.    *)
LEMMA AnchorIsLatest ==
    ASSUME NEW items, Len(items) \in Nat, NEW k \in 0..Len(items), NEW p \in 1..k,
           items[p].human, \A l \in (p + 1)..Len(items) : ~items[l].human
    PROVE  Anchor(items, k) = <<items[p]>>
  <1> DEFINE anchors == {a \in 1..k : /\ items[a].human
                                      /\ \A i \in (a + 1)..Len(items) : ~items[i].human}
  <1>1. p \in anchors
    OBVIOUS
  <1>2. ASSUME NEW a \in anchors PROVE a = p
    <2>1. ~(a < p) /\ ~(p < a)
      OBVIOUS
    <2> QED BY <2>1
  <1>3. anchors # {} /\ (CHOOSE a \in anchors : TRUE) \in anchors
    BY <1>1
  <1>4. (CHOOSE a \in anchors : TRUE) = p
    BY <1>2, <1>3
  <1> QED BY <1>3, <1>4 DEF Anchor

Summarised(items, head, k) ==
    <<head>> \o Anchor(items, k) \o SubSeq(items, k + 1, Len(items))

(* What a summarised context is made of: after the summary, the anchor     *)
(* when the prefix holds one, then the tail, all in the old order.         *)
Compacted(new, items, head, k) ==
    /\ new \in Seq(Item)
    /\ new[1] = head
    /\ Len(new) = 1 + Len(Anchor(items, k)) + (Len(items) - k)
    /\ Len(Anchor(items, k)) \in 0..1
    /\ new[Len(new)] = items[Len(items)]
    /\ \E pos \in [2..Len(new) -> DOMAIN items] :
          /\ \A i \in 2..Len(new) : new[i] = items[pos[i]]
          /\ \A i, j \in 2..Len(new) : i < j => pos[i] < pos[j]
          /\ \A i \in 2..Len(new) : pos[i] > k \/ items[pos[i]].human
    /\ \A i \in DOMAIN items : i > k => items[i] \in Range(new)
    /\ Range(Anchor(items, k)) \subseteq Range(new)

(* The candidate of a summary is made that way.                            *)
LEMMA CompactedPositions ==
    ASSUME NEW items \in Seq(Item), NEW head \in Item, NEW k \in 1..(Len(items) - 1),
           NEW new, new = Summarised(items, head, k)
    PROVE  Compacted(new, items, head, k)
  <1>n. PICK n : n = Len(items)
    OBVIOUS
  <1>t. PICK anchor, tail : anchor = Anchor(items, k) /\ tail = SubSeq(items, k + 1, n)
    OBVIOUS
  <1>1. n \in Nat /\ k \in 1..(n - 1) /\ DOMAIN items = 1..n /\ \A i \in 1..n : items[i] \in Item
    BY <1>n, MessagesOf
  <1>2. \/ anchor = <<>>
        \/ \E a \in 1..k : anchor = <<items[a]>> /\ items[a].human
    BY <1>t, AnchorHuman
  <1>3. /\ anchor \in Seq(Item) /\ Len(anchor) \in 0..1
        /\ \E a \in 1..k : Len(anchor) = 1 => anchor[1] = items[a] /\ items[a].human
    <2>1. CASE anchor = <<>>
      <3>1. 1 \in 1..k /\ Len(anchor) = 0 /\ anchor \in Seq(Item)
        BY <1>1, <2>1
      <3> QED BY <3>1
    <2>2. ASSUME NEW b \in 1..k, anchor = <<items[b]>>, items[b].human
          PROVE  /\ anchor \in Seq(Item) /\ Len(anchor) = 1
                 /\ anchor[1] = items[b] /\ items[b].human
      <3>1. items[b] \in Item
        BY <1>1
      <3> QED BY <2>2, <3>1, Singleton
    <2> QED BY <1>2, <2>1, <2>2
  <1>4. PICK a \in 1..k : Len(anchor) = 1 => anchor[1] = items[a] /\ items[a].human
    BY <1>3
  <1>5. /\ tail \in Seq(Item) /\ Len(tail) = n - k
        /\ \A i \in 1..(n - k) : tail[i] = items[k + i]
    <2>1. \A i \in (k + 1)..n : items[i] \in Item
      BY <1>1
    <2>2. k + 1 \in Int /\ n \in Int /\ k + 1 >= 1 /\ k + 1 <= n
      BY <1>1
    <2>3. /\ SubSeq(items, k + 1, n) \in Seq(Item)
          /\ Len(SubSeq(items, k + 1, n)) = n - (k + 1) + 1
          /\ \A i \in 1..(n - (k + 1) + 1) : SubSeq(items, k + 1, n)[i] = items[k + 1 + i - 1]
      BY <2>1, <2>2, SubSeqProperties
    <2>4. n - (k + 1) + 1 = n - k /\ \A i \in 1..(n - k) : k + 1 + i - 1 = k + i
      BY <1>1
    <2> QED BY <1>t, <2>3, <2>4
  <1>o. PICK o : o = <<head>>
    OBVIOUS
  <1>6. o \in Seq(Item) /\ Len(o) = 1 /\ o[1] = head
    BY <1>o, Singleton
  <1>f. PICK front : front = o \o anchor
    OBVIOUS
  <1>7. /\ front \in Seq(Item) /\ Len(front) = 1 + Len(anchor)
        /\ \A i \in 1..(Len(o) + Len(anchor)) :
              front[i] = IF i <= Len(o) THEN o[i] ELSE anchor[i - Len(o)]
    BY <1>f, <1>3, <1>6, ConcatProperties
  <1>8. front[1] = head /\ (Len(anchor) = 1 => front[2] = anchor[1])
    BY <1>3, <1>6, <1>7
  <1>9. /\ new = front \o tail
        /\ new \in Seq(Item) /\ Len(new) = Len(front) + Len(tail)
        /\ \A i \in 1..(Len(front) + Len(tail)) :
              new[i] = IF i <= Len(front) THEN front[i] ELSE tail[i - Len(front)]
    <2>1. new = front \o tail
      BY <1>n, <1>t, <1>o, <1>f DEF Summarised
    <2>2. /\ front \o tail \in Seq(Item) /\ Len(front \o tail) = Len(front) + Len(tail)
          /\ \A i \in 1..(Len(front) + Len(tail)) :
                (front \o tail)[i] = IF i <= Len(front) THEN front[i] ELSE tail[i - Len(front)]
      <3>1. front \in Seq(Item) /\ tail \in Seq(Item)
        BY <1>5, <1>7
      <3> QED BY <3>1, ConcatProperties
    <2> QED BY <2>1, <2>2, Zenon
  <1>c. PICK c : c = Len(anchor)
    OBVIOUS
  <1>10. /\ c \in 0..1 /\ Len(new) = 1 + c + (n - k) /\ Len(front) = 1 + c
         /\ DOMAIN new = 1..Len(new)
    BY <1>c, <1>3, <1>5, <1>7, <1>9, LenProperties
  <1>w. PICK w : w = Len(new)
    OBVIOUS
  <1>16. w = 1 + c + (n - k) /\ w \in Nat /\ c \in 0..1 /\ c \in Nat
         /\ DOMAIN new = 1..w
    BY <1>w, <1>1, <1>10
  <1>11. /\ new[1] = head
         /\ c = 1 => new[2] = items[a]
         /\ \A i \in (2 + c)..w : new[i] = items[k + (i - 1 - c)]
    <2>1. new[1] = head
      BY <1>1, <1>5, <1>7, <1>8, <1>9, <1>10
    <2>2. c = 1 => new[2] = items[a]
      BY <1>c, <1>1, <1>4, <1>5, <1>8, <1>9, <1>10
    <2>3. ASSUME NEW i \in (2 + c)..w PROVE new[i] = items[k + (i - 1 - c)]
      <3>1. i \in 1..(Len(front) + Len(tail)) /\ ~(i <= Len(front)) /\ i - Len(front) = i - 1 - c
        BY <1>1, <1>5, <1>9, <1>10, <1>16
      <3>2. new[i] = tail[i - 1 - c]
        BY <1>9, <3>1
      <3>3. i - 1 - c \in 1..(n - k)
        BY <1>1, <1>16
      <3> QED BY <1>5, <3>2, <3>3
    <2> QED BY <2>1, <2>2, <2>3
  <1>12. new[w] = items[n]
    <2>1. w \in (2 + c)..w /\ k + (w - 1 - c) = n
      BY <1>1, <1>16
    <2> QED BY <1>11, <2>1
  <1>13. \E pos \in [2..w -> DOMAIN items] :
            /\ \A i \in 2..w : new[i] = items[pos[i]]
            /\ \A i, j \in 2..w : i < j => pos[i] < pos[j]
            /\ \A i \in 2..w : pos[i] > k \/ items[pos[i]].human
    <2> DEFINE pos == [i \in 2..w |-> IF i < 2 + c THEN a ELSE k + (i - 1 - c)]
    <2>1. pos \in [2..w -> DOMAIN items]
      BY <1>1, <1>16
    <2>2. \A i \in 2..w : new[i] = items[pos[i]]
      BY <1>1, <1>16, <1>11
    <2>3. \A i, j \in 2..w : i < j => pos[i] < pos[j]
      BY <1>1, <1>16
    <2>4. \A i \in 2..w : pos[i] > k \/ items[pos[i]].human
      BY <1>c, <1>1, <1>3, <1>4, <1>16
    <2> QED BY <2>1, <2>2, <2>3, <2>4
  <1>14. ASSUME NEW i \in DOMAIN items, i > k PROVE items[i] \in Range(new)
    <2>1. i - k + 1 + c \in (2 + c)..w /\ k + ((i - k + 1 + c) - 1 - c) = i
      BY <1>1, <1>16, <1>14
    <2>2. new[i - k + 1 + c] = items[i]
      BY <1>11, <2>1
    <2>3. i - k + 1 + c \in DOMAIN new
      BY <1>16, <2>1
    <2> QED BY <2>2, <2>3 DEF Range
  <1>15. Range(anchor) \subseteq Range(new)
    <2>1. \A x \in Range(anchor) : c = 1 /\ x = anchor[1]
      BY <1>c, <1>3, LenProperties DEF Range
    <2>2. c = 1 => 2 \in DOMAIN new /\ new[2] = anchor[1]
      BY <1>c, <1>1, <1>4, <1>11, <1>16
    <2> QED BY <2>1, <2>2 DEF Range
  <1> QED BY <1>n, <1>t, <1>c, <1>w, <1>3, <1>9, <1>10, <1>11, <1>12, <1>13, <1>14, <1>15 DEF Compacted

(* A summarised context may replace the one it summarises: the latest      *)
(* request is in the tail or is the anchor, the latest exchange and the    *)
(* last message are in the tail, and what the prefix covered lies in the   *)
(* range of the summary.                                                   *)
LEMMA SummaryCandidate ==
    ASSUME NEW items \in Seq(Item), NEW drawn \in Seq(Item), NEW k,
           Ordered(items), Redraw(drawn, items, k),
           NEW lo, NEW hi, SourceRange(drawn, k, lo, hi),
           NEW head \in Item, head.msg.kind = "summary", head.human = FALSE,
           head.from = drawn[lo].from, head.to = drawn[hi].to,
           NEW new, new = Summarised(items, head, k),
           Len(Anchor(items, k)) < k
    PROVE  new \in Seq(Item) /\ Candidate(new, items)
  <1>n. PICK n, c : n = Len(items) /\ c = Len(Anchor(items, k))
    OBVIOUS
  <1>1. /\ n \in Nat /\ DOMAIN items = 1..n /\ k \in 0..(n - 1) /\ lo \in 1..k
        /\ \A i \in 1..n : items[i] \in Item
    BY <1>n, MessagesOf DEF Redraw, ProtectedSplit, SourceRange
  <1>2. k \in 1..(Len(items) - 1)
    BY <1>n, <1>1
  <1>w. PICK w : w = Len(new)
    OBVIOUS
  <1>a. Compacted(new, items, head, k)
    BY <1>2, CompactedPositions
  <1>3. /\ new \in Seq(Item) /\ new[1] = head
        /\ w = 1 + c + (n - k) /\ c \in 0..1 /\ c < k
        /\ new[w] = items[n]
        /\ \A i \in DOMAIN items : i > k => items[i] \in Range(new)
        /\ Range(Anchor(items, k)) \subseteq Range(new)
    BY <1>n, <1>w, <1>a DEF Compacted
  <1>4. PICK pos \in [2..w -> DOMAIN items] :
            /\ \A i \in 2..w : new[i] = items[pos[i]]
            /\ \A i, j \in 2..w : i < j => pos[i] < pos[j]
            /\ \A i \in 2..w : pos[i] > k \/ items[pos[i]].human
    BY <1>n, <1>w, <1>a DEF Compacted
  <1>5. DOMAIN new = 1..w /\ w \in Nat /\ w >= 2 /\ w <= n
    <2>1. w \in Nat /\ w >= 2 /\ w <= n
      <3>1. w = 1 + c + (n - k) /\ c \in 0..1 /\ c < k
        BY <1>3
      <3>2. n \in Nat /\ k \in 0..(n - 1)
        BY <1>1
      <3> QED BY <3>1, <3>2
    <2> QED BY <1>w, <1>3, <2>1, LenProperties
  <1>6. ASSUME NEW i \in 2..w
        PROVE  new[i] = items[pos[i]] /\ new[i].msg.kind # "summary" /\ pos[i] \in DOMAIN items
    <2>1. pos[i] \in DOMAIN items /\ new[i] = items[pos[i]]
      BY <1>4
    <2>2. CASE pos[i] > k
      BY <1>1, <2>1, <2>2 DEF Ordered
    <2>3. CASE items[pos[i]].human
      BY <2>1, <2>3 DEF Ordered
    <2> QED BY <1>4, <2>1, <2>2, <2>3
  <1>7. \A i \in DOMAIN new : i = 1 \/ i \in 2..w
    BY <1>5
  <1>8. Ordered(new)
    <2>1. \A i \in DOMAIN new : new[i].msg.kind = "summary" => i = 1
      BY <1>6, <1>7
    <2>2. \A i \in DOMAIN new : new[i].human => new[i].msg.kind = "text"
      BY <1>3, <1>6, <1>7 DEF Ordered
    <2>3. \A i \in DOMAIN new :
             Covered(new[i]) /\ new[i].msg.kind = "text" => new[i].verbatim
      BY <1>3, <1>6, <1>7 DEF Ordered
    <2>4. ASSUME NEW i \in DOMAIN new, NEW j \in DOMAIN new, i < j,
                 Covered(new[i]), Covered(new[j]), new[i].msg.kind # "summary"
          PROVE  new[i].from < new[j].from
      <3>1. i # 1 /\ j # 1
        BY <1>3, <1>5, <2>4
      <3>2. i \in 2..w /\ j \in 2..w
        BY <1>7, <3>1
      <3>3. pos[i] < pos[j] /\ new[j].msg.kind # "summary"
        BY <1>4, <1>6, <2>4, <3>2
      <3> QED BY <1>6, <2>4, <3>2, <3>3 DEF Ordered
    <2> QED BY <2>1, <2>2, <2>3, <2>4 DEF Ordered
  <1>9. Condensed(Messages(items), Messages(new))
    <2> PICK old, msgs : old = Messages(items) /\ msgs = Messages(new)
      OBVIOUS
    <2>1. /\ Len(old) = n /\ Len(msgs) = w
          /\ DOMAIN old = DOMAIN items /\ DOMAIN msgs = DOMAIN new
          /\ \A i \in DOMAIN items : old[i] = items[i].msg
          /\ \A i \in DOMAIN new : msgs[i] = new[i].msg
      BY <1>n, <1>w, <1>3, MessagesOf
    <2>2. \A i \in Kept(msgs) : i \in 2..w
      BY <1>3, <1>7, <2>1 DEF Kept
    <2> DEFINE e == [i \in Kept(msgs) |-> pos[i]]
    <2>3. e \in [Kept(msgs) -> DOMAIN old]
      BY <1>4, <2>1, <2>2
    <2>4. \A i \in Kept(msgs) : Renders(msgs[i], old[e[i]])
      BY <1>5, <1>6, <2>1, <2>2 DEF Renders
    <2>5. \A i, j \in Kept(msgs) : i < j => e[i] < e[j]
      BY <1>4, <2>2
    <2> HIDE DEF e
    <2>6. \A i \in DOMAIN msgs : msgs[i].kind = "summary" => i = 1
      BY <1>8, <2>1 DEF Ordered
    <2>7. /\ Len(msgs) \in 1..Len(old) /\ msgs[Len(msgs)] = old[Len(old)]
          /\ msgs[1].kind = "summary"
      <3>1. n \in DOMAIN items /\ w \in DOMAIN new /\ 1 \in DOMAIN new
        BY <1>1, <1>5
      <3>2. old[n] = items[n].msg /\ msgs[w] = new[w].msg /\ msgs[1] = new[1].msg
        BY <2>1, <3>1
      <3> QED BY <1>1, <1>3, <1>5, <2>1, <3>2
    <2>8. Condensed(old, msgs)
      BY <2>3, <2>4, <2>5, <2>6, <2>7 DEF Condensed
    <2> QED BY <2>8
  <1>10. WorkKept(items, new)
    <2>1. LastOf(items, LAMBDA it : it.human) \subseteq Range(new)
      <3> SUFFICES ASSUME NEW p \in DOMAIN items, items[p].human,
                          \A l \in (p + 1)..Len(items) : ~items[l].human
                   PROVE  items[p] \in Range(new)
        BY DEF LastOf
      <3>1. CASE p > k
        BY <1>3, <3>1
      <3>2. CASE p <= k
        <4>1. Anchor(items, k) = <<items[p]>>
          <5>1. Len(items) \in Nat /\ k \in 0..Len(items) /\ p \in 1..k
            BY <1>n, <1>1, <3>2
          <5> QED BY <5>1, AnchorIsLatest
        <4>2. items[p] \in Range(<<items[p]>>)
          BY <1>1, Singleton, LenProperties DEF Range
        <4> QED BY <1>3, <4>1, <4>2
      <3> QED BY <1>1, <3>1, <3>2
    <2>2. LastOf(items, LAMBDA it : IsResult(it.msg)) \subseteq Range(new)
      <3> SUFFICES ASSUME NEW i \in DOMAIN items, IsResult(items[i].msg),
                          \A l \in (i + 1)..Len(items) : ~IsResult(items[l].msg)
                   PROVE  items[i] \in Range(new)
        BY DEF LastOf
      <3>1. PICK j \in (k + 1)..Len(items) : IsResult(items[j].msg)
        BY DEF Redraw, ProtectedSplit
      <3>2. k \in Nat /\ i \in Nat /\ Len(items) \in Nat
        BY <1>n, <1>1
      <3>3. i <= k => j \in (i + 1)..Len(items)
        BY <3>2
      <3>4. i > k
        BY <3>1, <3>2, <3>3
      <3> QED BY <1>3, <3>4
    <2>3. LastOf(items, LAMBDA it : TRUE) \subseteq Range(new)
      <3> SUFFICES ASSUME NEW i \in DOMAIN items,
                          \A l \in (i + 1)..Len(items) : FALSE
                   PROVE  items[i] \in Range(new)
        BY DEF LastOf
      <3>1. i > k
        BY <1>n, <1>1
      <3> QED BY <1>3, <3>1
    <2> QED BY <2>1, <2>2, <2>3 DEF WorkKept
  <1>11. ASSUME NEW s \in Nat, CoveredBy(items, s) PROVE CoveredBy(new, s)
    <2>1. PICK i \in DOMAIN items : items[i].from <= s /\ s <= items[i].to
      BY <1>11 DEF CoveredBy, Range
    <2>2. CASE i > k
      BY <1>3, <2>1, <2>2 DEF CoveredBy
    <2>3. CASE i <= k
      <3>1. i \in 1..k /\ drawn[i].from = items[i].from /\ drawn[i].to = items[i].to
        BY <1>1, <2>3 DEF Redraw, Redrawn
      <3>2. head.from <= drawn[i].from /\ drawn[i].to <= head.to
        BY <3>1 DEF SourceRange
      <3>3. /\ head.from \in Nat /\ head.to \in Nat
            /\ items[i].from \in Nat /\ items[i].to \in Nat
        BY <1>1 DEF Item
      <3>4. head.from <= s /\ s <= head.to
        BY <2>1, <3>1, <3>2, <3>3
      <3>5. head \in Range(new)
        BY <1>3, <1>5 DEF Range
      <3> QED BY <3>4, <3>5 DEF CoveredBy
    <2> QED BY <1>1, <2>2, <2>3
  <1> QED BY <1>3, <1>8, <1>9, <1>10, <1>11 DEF Candidate

-----------------------------------------------------------------------------
(* What the checkpoint shows can be found again in the journal.            *)

(* A fact for every unproven message, in the order of the messages, and    *)
(* none beyond the checkpoint's frontier.                                  *)
Explained ==
    /\ \A i \in DOMAIN BaseMessages : BaseMessages[i].kind = "summary" => i = 1
    /\ \E e \in [Unproven -> 1..Covers] :
          /\ \A i \in Unproven : IsFact(e[i]) /\ Explains(e[i], BaseMessages[i])
          /\ \A i, j \in Unproven : i < j => e[i] < e[j]

OrderedInv == IInv /\ OrderInv /\ Explained

(* The checkpoint's messages and the positions among them without proof.   *)
LEMMA BaseFacts ==
    ASSUME OrderedInv
    PROVE  /\ BaseMessages \in Seq(Message) /\ Len(BaseMessages) \in Nat
           /\ DOMAIN BaseMessages = 1..Len(BaseMessages)
           /\ Covers \in Nat /\ Len(journal) \in Nat /\ Covers <= Len(journal)
           /\ Unproven \subseteq 1..Len(BaseMessages)
           /\ \A i \in Unproven : \A j \in 1..Len(BaseMessages) : i < j => j \in Unproven
           /\ \A i \in 1..Len(BaseMessages) : i > 1 => i \in Unproven
  <1>1. TypeOK /\ CheckpointSealsJournal
    BY DEF OrderedInv, IInv
  <1>2. BaseMessages \in Seq(Message) /\ Covers \in Nat /\ Len(journal) \in Nat
    BY <1>1, LenProperties DEF TypeOK, BaseMessages, Covers, Checkpoint
  <1>3. Len(BaseMessages) \in Nat /\ DOMAIN BaseMessages = 1..Len(BaseMessages)
    BY <1>2, LenProperties
  <1>4. Covers <= Len(journal)
    BY <1>1, <1>2 DEF CheckpointSealsJournal, Covers, JournalHead
  <1>5. Unproven \subseteq 1..Len(BaseMessages)
    BY <1>3 DEF Unproven
  <1>6. \A i \in 1..Len(BaseMessages) : i > 1 => i \in Unproven
    BY <1>3 DEF OrderedInv, Explained, Unproven
  <1>7. \A i \in Unproven : \A j \in 1..Len(BaseMessages) : i < j => j \in Unproven
    BY <1>3, <1>5, <1>6
  <1> QED BY <1>2, <1>3, <1>4, <1>5, <1>6, <1>7

(* A cursor run advances from message to message.                          *)
LEMMA CursorAdvances ==
    ASSUME OrderedInv, NEW f \in CursorRuns,
           NEW i \in Unproven, NEW j \in Unproven, i < j
    PROVE  f[i] < f[j]
  <1> PICK n : n = Len(BaseMessages)
    OBVIOUS
  <1> DEFINE Apart == {d \in Nat : \A a \in Unproven :
                          a + 1 + d \in Unproven => f[a] < f[a + 1 + d]}
  <1>1. f \in [Unproven -> 1..Covers] /\ IsCursorRun(f) /\ Covers \in Nat
    BY BaseFacts DEF CursorRuns
  <1>2. \A a \in Unproven : f[a] \in Nat /\ a \in 1..n /\ n \in Nat
    BY <1>1, BaseFacts
  <1>3. \A a \in Unproven : f[a] > Cursor(f, a)
    BY <1>1 DEF IsCursorRun
  <1>4. \A a \in Unproven : a + 1 \in Unproven => f[a] < f[a + 1]
    <2> SUFFICES ASSUME NEW a \in Unproven, a + 1 \in Unproven PROVE f[a] < f[a + 1]
      OBVIOUS
    <2>1. (a + 1) - 1 = a
      BY <1>2
    <2>2. Cursor(f, a + 1) = f[a]
      BY <2>1 DEF Cursor
    <2> QED BY <1>2, <1>3, <2>2
  <1>5. 0 \in Apart
    <2>1. \A a \in Unproven : a + 1 + 0 = a + 1
      BY <1>2
    <2> QED BY <1>4, <2>1
  <1>6. ASSUME NEW d \in Nat, d \in Apart PROVE d + 1 \in Apart
    <2> SUFFICES ASSUME NEW a \in Unproven, a + 1 + (d + 1) \in Unproven
                 PROVE  f[a] < f[a + 1 + (d + 1)]
      OBVIOUS
    <2> PICK b : b = a + 1 + d
      OBVIOUS
    <2>5. a \in 1..n /\ a + 1 + (d + 1) \in 1..n /\ n \in Nat
      BY <1>2
    <2>1. b + 1 = a + 1 + (d + 1) /\ b \in 1..n /\ a < b
      BY <2>5
    <2>2. b \in Unproven /\ b + 1 \in Unproven
      BY <2>1, BaseFacts
    <2>3. f[a] < f[b]
      BY <1>6, <2>2
    <2>4. f[b] < f[b + 1]
      BY <1>4, <2>2
    <2> QED BY <1>2, <2>1, <2>2, <2>3, <2>4
  <1>7. Nat \subseteq Apart
    <2> HIDE DEF Apart
    <2> QED BY <1>5, <1>6, InductionSet
  <1>8. j - i - 1 \in Nat /\ i + 1 + (j - i - 1) = j
    BY <1>2
  <1> QED BY <1>7, <1>8

(* A resumed context: the checkpoint's messages, each with the lineage the *)
(* cursor found, then one item for every later fact.                       *)
Resumed(items, f, later) ==
    /\ items \in Seq(Item)
    /\ Len(items) = Len(BaseMessages) + Len(later)
    /\ \A i \in 1..Len(BaseMessages) : items[i] = RestoredItem(f, i)
    /\ \A j \in 1..Len(later) :
          items[Len(BaseMessages) + j] = Appended(journal[later[j]].data, later[j], FALSE, FALSE)
    /\ later \in Seq(LaterFacts) /\ Len(later) \in Nat /\ DOMAIN later = 1..Len(later)
    /\ \A i, j \in 1..Len(later) : i < j => later[i] < later[j]
    /\ \A s \in LaterFacts : \E j \in 1..Len(later) : later[j] = s

(* Resume installs such a context.                                         *)
LEMMA ResumeInstalls ==
    ASSUME OrderedInv, NEW h \in Handle, NEW f \in CursorRuns, NEW later, Resume(h, f, later),
           sess'[h].items \in Seq(Item)
    PROVE  /\ Resumed(sess'[h].items, f, later)
           /\ sess[h].phase = "down" /\ sess'[h].phase = "durable"
           /\ sess'[h].frontier = JournalHead
           /\ att' = att /\ journal' = journal /\ checkpoint' = checkpoint
  <1>n. PICK n, l : n = Len(BaseMessages) /\ l = Len(later)
    OBVIOUS
  <1>d. PICK base, live :
           /\ base = [i \in DOMAIN BaseMessages |-> RestoredItem(f, i)]
           /\ live = [j \in DOMAIN later |->
                        Appended(journal[later[j]].data, later[j], FALSE, FALSE)]
    OBVIOUS
  <1>1. /\ later \in Seq(LaterFacts)
        /\ \A i, j \in DOMAIN later : i < j => later[i] < later[j]
        /\ \A s \in LaterFacts : \E j \in DOMAIN later : later[j] = s
        /\ sess[h].phase = "down"
        /\ att' = att /\ journal' = journal /\ checkpoint' = checkpoint
    BY DEF Resume
  <1>2. /\ sess'[h].items = base \o live
        /\ sess'[h].phase = "durable" /\ sess'[h].frontier = JournalHead
    BY <1>d, HandleFacts DEF Resume, OrderedInv
  <1>3. l \in Nat /\ DOMAIN later = 1..l /\ n \in Nat /\ DOMAIN BaseMessages = 1..n
    BY <1>n, <1>1, LenProperties, BaseFacts
  <1> DEFINE Any == {base[i] : i \in 1..n} \cup {live[j] : j \in 1..l}
  <1>4. base \in [1..n -> Any] /\ live \in [1..l -> Any]
    BY <1>d, <1>3
  <1> HIDE DEF Any
  <1>5. base \in Seq(Any) /\ Len(base) = n /\ live \in Seq(Any) /\ Len(live) = l
    BY <1>3, <1>4, SequenceOf
  <1>6. /\ Len(base \o live) = Len(base) + Len(live)
        /\ \A i \in 1..(Len(base) + Len(live)) :
              (base \o live)[i] = IF i <= Len(base) THEN base[i] ELSE live[i - Len(base)]
    <2>1. base \in Seq(Any) /\ live \in Seq(Any)
      BY <1>5
    <2> QED BY <2>1, ConcatProperties
  <1> PICK items : items = sess'[h].items
    OBVIOUS
  <1>7. /\ Len(items) = n + l
        /\ \A i \in 1..(n + l) : items[i] = IF i <= n THEN base[i] ELSE live[i - n]
    BY <1>2, <1>5, <1>6
  <1>8. \A i \in 1..n : items[i] = base[i]
    BY <1>3, <1>7
  <1>9. ASSUME NEW j \in 1..l PROVE items[n + j] = live[j]
    <2>1. n + j \in 1..(n + l) /\ ~(n + j <= n) /\ (n + j) - n = j
      BY <1>3
    <2> QED BY <1>7, <2>1
  <1>10. /\ \A i \in 1..n : items[i] = RestoredItem(f, i)
         /\ \A j \in 1..l : items[n + j] = Appended(journal[later[j]].data, later[j], FALSE, FALSE)
    BY <1>d, <1>3, <1>8, <1>9
  <1> QED BY <1>n, <1>1, <1>2, <1>3, <1>7, <1>10 DEF Resumed

(* A message appended at a position of the journal is verbatim.            *)
LEMMA AppendedVerbatim ==
    ASSUME NEW m, NEW s \in Nat, s > 0
    PROVE  Appended(m, s, FALSE, FALSE).verbatim
  <1>1. Appended(m, s, FALSE, FALSE).verbatim <=> (s > 0)
    BY Zenon DEF Appended
  <1> QED BY <1>1

(* A resumed context is in order.                                          *)
LEMMA ResumedOrdered ==
    ASSUME OrderedInv, NEW f \in CursorRuns, NEW later, NEW items, Resumed(items, f, later)
    PROVE  Ordered(items)
  <1>n. PICK n, l : n = Len(BaseMessages) /\ l = Len(later)
    OBVIOUS
  <1>1. /\ items \in Seq(Item) /\ DOMAIN items = 1..(n + l) /\ n \in Nat /\ l \in Nat
        /\ f \in [Unproven -> 1..Covers] /\ IsCursorRun(f) /\ Covers \in Nat
    BY <1>n, BaseFacts, MessagesOf DEF Resumed, CursorRuns
  <1>2. ASSUME NEW i \in 1..n
        PROVE  /\ items[i].human = FALSE
               /\ items[i].msg = BaseMessages[i]
               /\ items[i].msg.kind = "summary" => i = 1
               /\ items[i].msg.kind # "summary" =>
                     i \in Unproven /\ items[i].from = f[i]
               /\ items[i].msg.kind = "text" => items[i].verbatim
    <2>1. items[i] = RestoredItem(f, i) /\ i \in DOMAIN BaseMessages
      BY <1>n, BaseFacts DEF Resumed
    <2> PICK m, s : m = BaseMessages[i] /\ s = f[i]
      OBVIOUS
    <2>2. CASE m.kind = "summary"
      <3>1. items[i] = Derived(m, m.body.from, m.body.to, FALSE, m.body.refs)
        BY <2>1, <2>2 DEF RestoredItem
      <3>2. i = 1
        BY <2>1, <2>2 DEF OrderedInv, Explained
      <3> QED BY <2>2, <3>1, <3>2 DEF Derived
    <2>3. CASE m.kind # "summary"
      <3>1. i \in Unproven
        BY <2>1, <2>3 DEF Unproven
      <3>2. IsFact(s) /\ Explains(s, m) /\ s > 0
        BY <1>1, <3>1 DEF IsCursorRun
      <3>3. CASE journal[s].data = m
        <4>1. items[i] = Appended(m, s, FALSE, FALSE)
          BY <2>1, <2>3, <3>3 DEF RestoredItem
        <4>2. items[i].verbatim
          <5>1. s \in Nat
            BY <1>1, <3>1
          <5> QED BY <3>2, <4>1, <5>1, AppendedVerbatim
        <4>3. items[i].human = FALSE /\ items[i].msg = m /\ items[i].from = s
          BY <4>1 DEF Appended
        <4> QED BY <2>3, <3>1, <3>2, <4>2, <4>3
      <3>4. CASE journal[s].data # m
        <4>1. items[i] = Derived(m, s, s, FALSE, {ResultArtifact(journal[s].data)} \cap artifacts)
          BY <2>1, <2>3, <3>4 DEF RestoredItem
        <4>2. IsResult(m)
          BY <3>2, <3>4 DEF Explains
        <4> QED BY <2>3, <3>1, <4>1, <4>2 DEF Derived, IsResult
      <3> QED BY <3>3, <3>4
    <2> QED BY <2>2, <2>3
  <1>3. ASSUME NEW j \in 1..l
        PROVE  /\ items[n + j].human = FALSE
               /\ items[n + j].msg.kind # "summary"
               /\ items[n + j].from = later[j]
               /\ items[n + j].verbatim
               /\ later[j] \in Nat /\ later[j] > Covers
    <2> PICK s, m : s = later[j] /\ m = journal[s].data
      OBVIOUS
    <2>7. items[n + j] = Appended(m, s, FALSE, FALSE)
      BY <1>n DEF Resumed
    <2>8. s \in LaterFacts
      BY <1>n, ElementOfSeq DEF Resumed
    <2>1. items[n + j] = Appended(m, s, FALSE, FALSE) /\ s \in LaterFacts
      BY <2>7, <2>8
    <2>2. IsFact(s) /\ s \in Nat /\ s > Covers
      BY <1>1, <2>1, BaseFacts DEF LaterFacts, JournalHead
    <2>3. m.kind # "summary"
      BY <2>2 DEF OrderedInv, IInv, JournalPlain, IsFact, JournalHead
    <2>4. items[n + j].verbatim
      <3>1. s \in Nat /\ s > 0
        BY <1>1, <2>2
      <3> QED BY <2>7, <3>1, AppendedVerbatim
    <2>5. items[n + j].human = FALSE /\ items[n + j].msg = m /\ items[n + j].from = s
      BY <2>1 DEF Appended
    <2>6. s > 0
      BY <1>1, <2>2
    <2> QED BY <2>2, <2>3, <2>4, <2>5, <2>6
  <1>4. \A i \in DOMAIN items : i \in 1..n \/ \E j \in 1..l : i = n + j
    <2> SUFFICES ASSUME NEW i \in DOMAIN items, i \notin 1..n
                 PROVE  \E j \in 1..l : i = n + j
      OBVIOUS
    <2>1. i - n \in 1..l /\ i = n + (i - n)
      BY <1>1
    <2> QED BY <2>1
  <1>5. \A i \in DOMAIN items :
           /\ items[i].msg.kind = "summary" => i = 1
           /\ items[i].human => items[i].msg.kind = "text"
           /\ items[i].msg.kind = "text" => items[i].verbatim
    <2> TAKE i \in DOMAIN items
    <2>1. CASE i \in 1..n
      BY <1>2, <2>1
    <2>2. CASE i \notin 1..n
      <3>1. PICK j \in 1..l : i = n + j
        BY <1>4, <2>2
      <3> QED BY <1>3, <3>1
    <2> QED BY <2>1, <2>2
  <1>6. ASSUME NEW i \in DOMAIN items, NEW j \in DOMAIN items, i < j,
               items[i].msg.kind # "summary", items[j].msg.kind # "summary"
        PROVE  items[i].from < items[j].from
    <2>1. CASE i \in 1..n /\ j \in 1..n
      <3>1. /\ i \in Unproven /\ items[i].from = f[i]
            /\ j \in Unproven /\ items[j].from = f[j]
        BY <1>2, <1>6, <2>1
      <3>2. f[i] < f[j]
        BY <1>6, <3>1, CursorAdvances
      <3> QED BY <3>1, <3>2
    <2>2. ASSUME i \in 1..n, NEW b \in 1..l, j = n + b PROVE items[i].from < items[j].from
      <3>1. items[i].from = f[i] /\ f[i] \in 1..Covers
        BY <1>1, <1>2, <1>6, <2>2
      <3>2. items[j].from = later[b] /\ later[b] \in Nat /\ later[b] > Covers
        BY <1>3, <2>2
      <3> QED BY <1>1, <3>1, <3>2
    <2>3. ASSUME NEW a \in 1..l, i = n + a, NEW b \in 1..l, j = n + b
          PROVE  items[i].from < items[j].from
      <3>1. a < b
        BY <1>1, <1>6, <2>3
      <3>2. later[a] < later[b]
        BY <1>n, <3>1 DEF Resumed
      <3> QED BY <1>3, <2>3, <3>2
    <2>4. ASSUME NEW a \in 1..l, i = n + a, j \in 1..n PROVE FALSE
      BY <1>1, <1>6, <2>4
    <2> QED BY <1>4, <2>1, <2>2, <2>3, <2>4
  <1> QED BY <1>5, <1>6 DEF Ordered

(* An appended message that is covered lies after everything covered.      *)
LEMMA AppendOrdered ==
    ASSUME NEW items \in Seq(Item), Ordered(items), NEW new \in Item,
           new.msg.kind # "summary", new.human => new.msg.kind = "text",
           Covered(new) /\ new.msg.kind = "text" => new.verbatim,
           Covered(new) => \A i \in DOMAIN items : Covered(items[i]) => items[i].from < new.from
    PROVE  Ordered(Append(items, new))
  <1>n. PICK n, longer : n = Len(items) /\ longer = Append(items, new)
    OBVIOUS
  <1>1. /\ n \in Nat /\ DOMAIN items = 1..n /\ DOMAIN longer = 1..(n + 1)
        /\ \A i \in 1..n : longer[i] = items[i]
        /\ longer[n + 1] = new
    BY <1>n, AppendProperties, LenProperties
  <1>2. \A i \in DOMAIN longer : i \in 1..n \/ i = n + 1
    BY <1>1
  <1>3. \A i \in DOMAIN longer :
           /\ longer[i].msg.kind = "summary" => i = 1
           /\ longer[i].human => longer[i].msg.kind = "text"
           /\ Covered(longer[i]) /\ longer[i].msg.kind = "text" => longer[i].verbatim
    BY <1>1, <1>2 DEF Ordered
  <1>4. ASSUME NEW i \in DOMAIN longer, NEW j \in DOMAIN longer, i < j,
               Covered(longer[i]), Covered(longer[j]),
               longer[i].msg.kind # "summary", longer[j].msg.kind # "summary"
        PROVE  longer[i].from < longer[j].from
    <2>1. i \in 1..n
      BY <1>1, <1>2, <1>4
    <2>2. CASE j \in 1..n
      BY <1>1, <1>4, <2>1, <2>2 DEF Ordered
    <2>3. CASE j = n + 1
      BY <1>1, <1>4, <2>1, <2>3
    <2> QED BY <1>2, <2>2, <2>3
  <1>5. Ordered(longer)
    BY <1>3, <1>4 DEF Ordered
  <1> QED BY <1>n, <1>5

-----------------------------------------------------------------------------
(* Every step keeps the order of the contexts, and the working set.        *)

(* While the process lives and its context does not grow, the latest       *)
(* request, the latest exchange and the last message stay.                 *)
KeepsWork(h) ==
    /\ sess[h].phase # "down" /\ sess'[h].phase # "down"
    /\ Len(sess'[h].items) <= Len(sess[h].items)
    => WorkKept(sess[h].items, sess'[h].items)

OrderStep(h) == OrderOf(att'[h], sess'[h]) /\ KeepsWork(h)

(* What the order says of the one handle that moves.                       *)
LEMMA OrderFacts ==
    ASSUME OrderedInv, NEW h \in Handle
    PROVE  /\ IInv
           /\ Ordered(sess[h].items)
           /\ att[h].stage \in {"spill", "decide"} =>
                 Redraw(att[h].items, sess[h].items, att[h].split)
           /\ att[h].stage = "commit" => Candidate(att[h].items, sess[h].items)
           /\ WorkKept(sess[h].items, sess[h].items)
  <1>1. WorkKept(sess[h].items, sess[h].items)
    BY DEF WorkKept, LastOf, Range
  <1> QED BY <1>1 DEF OrderedInv, OrderInv, OrderOf

(* Steps that end an attempt or leave the items alone.                     *)
LEMMA QuietOrder ==
    ASSUME OrderedInv, NEW h \in Handle,
           \/ Open(h) \/ Crash(h) \/ Bypass(h) \/ LoseAuthority(h)
           \/ \E i \in 1..att[h].split : PutSkipped(h, i)
           \/ SpillDone(h)
    PROVE  OrderStep(h)
  <1>1. CASE Open(h)
    <2>1. sess'[h].items = sess[h].items /\ att' = att /\ sess[h].phase = "down"
      BY <1>1, HandleFacts DEF Open, Session, OrderedInv
    <2> QED BY <2>1, OrderFacts DEF OrderStep, OrderOf, KeepsWork
  <1>2. CASE Crash(h)
    <2>1. sess'[h] = NoSession /\ att'[h] = NoAttempt
      BY <1>2, HandleFacts DEF Crash, OrderedInv
    <2>2. sess'[h].items = <<>> /\ sess'[h].phase = "down" /\ att'[h].stage = "idle"
      BY <2>1 DEF NoSession, NoAttempt
    <2>3. Ordered(<<>>)
      BY DEF Ordered
    <2> QED BY <2>2, <2>3 DEF OrderStep, OrderOf, KeepsWork
  <1>3. CASE Bypass(h)
    <2>1. sess' = sess /\ att'[h].stage = "idle"
      BY <1>3, HandleFacts DEF Bypass, NoAttempt, OrderedInv
    <2> QED BY <2>1, OrderFacts DEF OrderStep, OrderOf, KeepsWork
  <1>4. CASE LoseAuthority(h)
    <2>1. sess'[h].items = sess[h].items /\ att'[h].stage = "idle"
      BY <1>4, HandleFacts DEF LoseAuthority, NoAttempt, Session, OrderedInv
    <2> QED BY <2>1, OrderFacts DEF OrderStep, OrderOf, KeepsWork
  <1>5. ASSUME NEW i \in 1..att[h].split, PutSkipped(h, i) PROVE OrderStep(h)
    <2>1. /\ sess' = sess /\ att[h].stage = "spill"
          /\ att'[h].items = att[h].items /\ att'[h].stage = att[h].stage
          /\ att'[h].split = att[h].split
      BY <1>5, HandleFacts DEF PutSkipped, SpillTarget, Attempt, OrderedInv
    <2> QED BY <2>1, OrderFacts DEF OrderStep, OrderOf, KeepsWork
  <1>6. CASE SpillDone(h)
    <2>1. /\ att[h].stage = "spill" /\ att'[h].stage = "decide"
          /\ att'[h].items = att[h].items /\ att'[h].split = att[h].split
          /\ sess'[h].items = sess[h].items
      BY <1>6, HandleFacts DEF SpillDone, Attempt, Session, OrderedInv
    <2> QED BY <2>1, OrderFacts DEF OrderStep, OrderOf, KeepsWork
  <1> QED BY <1>1, <1>2, <1>3, <1>4, <1>5, <1>6

(* A pushed message goes to the end, after everything covered.             *)
LEMMA PushOrder ==
    ASSUME OrderedInv, NEW h \in Handle, NEW m \in NewMessage, NEW human \in BOOLEAN,
           NEW seq \in Nat, seq > 0 => seq > Len(journal),
           PushReady(h, m, human), sess'[h].items = Pushed(h, m, seq, human), att' = att
    PROVE  OrderStep(h)
  <1>s. PICK slim \in BOOLEAN : slim = (m.kind = "full" /\ m.body \in Slimmable)
    OBVIOUS
  <1>n. PICK items, new : items = sess[h].items /\ new = Appended(m, seq, human, slim)
    OBVIOUS
  <1>1. m \in Message /\ m.kind \in {"text", "full"}
    BY DEF NewMessage, Message, TextMessage
  <1>2. new \in Item
    BY <1>n, <1>1, AppendedType
  <1>3. /\ items \in Seq(Item) /\ Ordered(items) /\ att[h].stage = "idle"
        /\ Len(journal) \in Nat /\ Len(items) \in Nat
        /\ \A it \in Live(h) : it \in Item /\ ItemOK(it)
    BY <1>n, HandleFacts, OrderFacts, LenProperties DEF PushReady, Idle
  <1>4. new.msg = m /\ new.from = seq /\ (new.human <=> human)
    BY <1>n DEF Appended
  <1>5. seq > 0 => new.verbatim
    <2>1. Appended(m, seq, human, slim).verbatim <=> (seq > 0)
      BY Zenon DEF Appended
    <2> QED BY <1>n, <2>1
  <1>6. ASSUME NEW i \in DOMAIN items, Covered(items[i])
        PROVE  items[i].from <= Len(journal) /\ items[i].from \in Nat
    <2>1. items[i] \in Live(h)
      BY <1>n DEF Live, Range
    <2>2. items[i] \in Item /\ SoundItem(items[i])
      BY <1>3, <2>1 DEF ItemOK
    <2> QED BY <1>3, <1>6, <2>2 DEF SoundItem, Item, JournalHead
  <1>7. Covered(new) => \A i \in DOMAIN items : Covered(items[i]) => items[i].from < new.from
    BY <1>3, <1>4, <1>6 DEF Covered
  <1>8. Ordered(Append(items, new))
    <2>1. new.msg.kind # "summary" /\ (new.human => new.msg.kind = "text")
      BY <1>1, <1>4 DEF PushReady
    <2>2. Covered(new) /\ new.msg.kind = "text" => new.verbatim
      BY <1>4, <1>5 DEF Covered
    <2> QED BY <1>2, <1>3, <1>7, <2>1, <2>2, AppendOrdered
  <1>9. sess'[h].items = Append(items, new)
    BY <1>s, <1>n DEF Pushed
  <1>10. Len(Append(items, new)) = Len(items) + 1
    BY <1>2, <1>3, AppendProperties
  <1>11. KeepsWork(h)
    BY <1>n, <1>3, <1>9, <1>10 DEF KeepsWork
  <1> QED BY <1>3, <1>8, <1>9, <1>11 DEF OrderStep, OrderOf

(* The audit copies the items.                                             *)
LEMMA AuditOrder ==
    ASSUME OrderedInv, NEW h \in Handle, NEW k \in 0..MaxActive, AuditPasses(h, k)
    PROVE  OrderStep(h)
  <1>1. /\ sess' = sess
        /\ att'[h] = [stage |-> "spill", split |-> k, next |-> 0,
                      frontier |-> sess[h].frontier, items |-> sess[h].items]
        /\ ProtectedSplit(sess[h].items, k)
    BY HandleFacts DEF AuditPasses, OrderedInv
  <1>2. Redraw(sess[h].items, sess[h].items, k)
    BY <1>1 DEF Redraw, Redrawn
  <1> QED BY <1>1, <1>2, OrderFacts DEF OrderStep, OrderOf, KeepsWork

(* A result rewritten in the prefix is still drawn from the session's.     *)
LEMMA RewriteRedrawn ==
    ASSUME NEW items, Ordered(items), NEW i \in DOMAIN items, NEW it \in Item,
           Redrawn(it, items[i]), it.msg.kind = "full", NEW kind \in {"marker", "slim"},
           NEW refs
    PROVE  Redrawn(Rewrite(it, kind, refs), items[i])
  <1>1. it.msg \in ResultMessage
    BY DEF Item, Message, TextMessage, SummaryMessage
  <1> DEFINE new == Rewrite(it, kind, refs)
  <1>2. /\ new.msg.kind = kind /\ new.msg.id = it.msg.id
        /\ new.from = it.from /\ new.to = it.to /\ (new.human <=> it.human)
    BY <1>1 DEF Rewrite, Derived, ResultMessage, Item
  <1>3. ~it.human
    BY DEF Redrawn, Ordered
  <1>4. ~items[i].human /\ IsResult(items[i].msg) /\ items[i].msg.id = it.msg.id
        /\ items[i].from = it.from /\ items[i].to = it.to
    BY <1>3 DEF Redrawn, IsResult
  <1> HIDE DEF new
  <1>5. Redrawn(new, items[i])
    BY <1>2, <1>3, <1>4 DEF Redrawn, IsResult
  <1> QED BY <1>5 DEF new

(* A spilled result is a rewrite in the prefix.                            *)
LEMMA PutOrder ==
    ASSUME OrderedInv, NEW h \in Handle, NEW i \in 1..att[h].split, PutCommitted(h, i)
    PROVE  OrderStep(h)
  <1>n. PICK old, drawn, k : old = sess[h].items /\ drawn = att[h].items /\ k = att[h].split
    OBVIOUS
  <1>i. PICK it : it = drawn[i]
    OBVIOUS
  <1>m. PICK marked : marked = Rewrite(it, "marker", {PayloadArtifact(it.msg)})
    OBVIOUS
  <1>1. /\ att[h].stage = "spill" /\ Spillable(it) /\ sess' = sess
        /\ att'[h].items = [drawn EXCEPT ![i] = marked]
        /\ att'[h].stage = "spill" /\ att'[h].split = k
    BY <1>n, <1>i, <1>m, HandleFacts DEF PutCommitted, SpillTarget, Attempt, OrderedInv
  <1>2. /\ Redraw(drawn, old, k) /\ Ordered(old) /\ old \in Seq(Item) /\ drawn \in Seq(Item)
        /\ DOMAIN old = 1..Len(old) /\ DOMAIN drawn = 1..Len(old) /\ Len(old) \in Nat
        /\ k \in 0..(Len(old) - 1)
    BY <1>n, <1>1, OrderFacts, HandleFacts, LenProperties DEF Redraw, ProtectedSplit
  <1>3. i \in 1..k /\ i \in DOMAIN old /\ it \in Item /\ it.msg.kind = "full"
    BY <1>n, <1>i, <1>1, <1>2, ElementOfSeq DEF Spillable
  <1>4. Redrawn(it, old[i])
    BY <1>i, <1>2, <1>3 DEF Redraw
  <1>5. Redrawn(marked, old[i])
    BY <1>m, <1>2, <1>3, <1>4, RewriteRedrawn
  <1> PICK new : new = [drawn EXCEPT ![i] = marked]
    OBVIOUS
  <1>6. /\ new[i] = marked /\ \A j \in DOMAIN old : j # i => new[j] = drawn[j]
    BY <1>2, <1>3
  <1>7. Len(new) = Len(old)
    <2>1. DOMAIN new = 1..Len(old)
      BY <1>2
    <2>2. new \in [1..Len(old) -> Range(new)]
      BY <2>1 DEF Range
    <2> QED BY <1>2, <2>2, SequenceOf
  <1>8. \A j \in DOMAIN old : Redrawn(new[j], old[j]) /\ (j > k => new[j] = old[j])
    BY <1>2, <1>3, <1>5, <1>6 DEF Redraw
  <1>9. Redraw(new, old, k)
    BY <1>2, <1>7, <1>8 DEF Redraw
  <1> QED BY <1>n, <1>1, <1>9, OrderFacts DEF OrderStep, OrderOf, KeepsWork

(* The deterministic candidate slims results of the prefix.                *)
LEMMA DeterministicOrder ==
    ASSUME OrderedInv, NEW h \in Handle, NEW slim \in SUBSET SlimCandidates(h),
           Deterministic(h, slim), TypeOK'
    PROVE  OrderStep(h)
  <1>n. PICK old, drawn, k : old = sess[h].items /\ drawn = att[h].items /\ k = att[h].split
    OBVIOUS
  <1>w. PICK new : new = [i \in DOMAIN drawn |-> IF i \in slim THEN Rewrite(drawn[i], "slim", {})
                                                 ELSE drawn[i]]
    OBVIOUS
  <1>1. /\ att[h].stage = "decide" /\ sess' = sess
        /\ att'[h].items = new /\ att'[h].stage = "commit"
    BY <1>n, <1>w, HandleFacts DEF Deterministic, Attempt, OrderedInv
  <1>2. /\ Redraw(drawn, old, k) /\ Ordered(old) /\ old \in Seq(Item) /\ drawn \in Seq(Item)
        /\ DOMAIN old = 1..Len(old) /\ DOMAIN drawn = 1..Len(old) /\ Len(old) \in Nat
        /\ k \in 0..(Len(old) - 1)
    BY <1>n, <1>1, OrderFacts, HandleFacts, LenProperties DEF Redraw, ProtectedSplit
  <1>3. \A i \in slim : i \in 1..k /\ drawn[i].msg.kind = "full"
    BY <1>n DEF SlimCandidates
  <1>4. ASSUME NEW i \in DOMAIN old
        PROVE  Redrawn(new[i], old[i]) /\ (i > k => new[i] = old[i])
    <2>1. drawn[i] \in Item /\ Redrawn(drawn[i], old[i]) /\ (i > k => drawn[i] = old[i])
      BY <1>2, ElementOfSeq DEF Redraw
    <2>2. CASE i \in slim
      <3>1. new[i] = Rewrite(drawn[i], "slim", {})
        BY <1>w, <1>2, <2>2
      <3>2. Redrawn(Rewrite(drawn[i], "slim", {}), old[i])
        BY <1>2, <1>3, <2>1, <2>2, RewriteRedrawn
      <3>3. ~(i > k)
        BY <1>2, <1>3, <2>2
      <3> QED BY <3>1, <3>2, <3>3
    <2>3. CASE i \notin slim
      BY <1>w, <1>2, <2>1, <2>3
    <2> QED BY <2>2, <2>3
  <1>5. new \in Seq(Item)
    BY <1>1 DEF TypeOK, Attempt
  <1>6. Len(new) = Len(old)
    <2>1. DOMAIN new = 1..Len(old)
      BY <1>w, <1>2
    <2> QED BY <1>2, <1>5, <2>1, LenProperties
  <1>7. Redraw(new, old, k)
    BY <1>2, <1>4, <1>6 DEF Redraw
  <1>8. Candidate(new, old)
    BY <1>2, <1>5, <1>7, RedrawCandidate
  <1> QED BY <1>n, <1>1, <1>8, OrderFacts DEF OrderStep, OrderOf, KeepsWork

(* The semantic candidate is a summary, the anchor and the tail.           *)
LEMMA SemanticOrder ==
    ASSUME OrderedInv, TypeOK', NEW h \in Handle,
           NEW lo \in 1..att[h].split, NEW hi \in 1..att[h].split,
           NEW refs \in SUBSET UNION {att[h].items[i].refs : i \in DOMAIN att[h].items},
           Semantic(h, lo, hi, refs)
    PROVE  OrderStep(h)
  <1>n. PICK old, drawn, k : old = sess[h].items /\ drawn = att[h].items /\ k = att[h].split
    OBVIOUS
  <1>h. PICK head : head = Derived([kind |-> "summary", id |-> NoId,
                                    body |-> [from |-> drawn[lo].from, to |-> drawn[hi].to,
                                              refs |-> refs]],
                                   drawn[lo].from, drawn[hi].to, FALSE, refs)
    OBVIOUS
  <1>w. PICK new : new = Summarised(old, head, k)
    OBVIOUS
  <1>1. /\ att[h].stage = "decide" /\ sess' = sess /\ SourceRange(drawn, k, lo, hi)
        /\ Len(Anchor(old, k)) < k
        /\ att'[h].items = new /\ att'[h].stage = "commit"
    BY <1>n, <1>h, <1>w, HandleFacts DEF Semantic, Summarised, Attempt, OrderedInv
  <1>2. /\ Redraw(drawn, old, k) /\ Ordered(old) /\ old \in Seq(Item) /\ drawn \in Seq(Item)
        /\ DOMAIN old = 1..Len(old) /\ DOMAIN drawn = 1..Len(old) /\ Len(old) \in Nat
        /\ k \in 0..(Len(old) - 1)
    BY <1>n, <1>1, OrderFacts, HandleFacts, LenProperties DEF Redraw, ProtectedSplit
  <1>3. /\ head.msg.kind = "summary" /\ head.human = FALSE
        /\ head.from = drawn[lo].from /\ head.to = drawn[hi].to
    BY <1>h DEF Derived
  <1>4. head \in Item
    <2>1. lo \in 1..k /\ hi \in 1..k
      BY <1>n
    <2>2. drawn[lo] \in Item /\ drawn[hi] \in Item
      BY <1>2, <2>1, ElementOfSeq
    <2>3. \A i \in DOMAIN drawn : drawn[i].refs \in SUBSET Artifact
      BY <1>2, MessagesOf DEF Item
    <2>4. drawn[lo].from \in Nat /\ drawn[hi].to \in Nat /\ refs \in SUBSET Artifact
      BY <1>n, <2>2, <2>3 DEF Item
    <2>5. [kind |-> "summary", id |-> NoId,
           body |-> [from |-> drawn[lo].from, to |-> drawn[hi].to, refs |-> refs]] \in Message
      BY <2>4 DEF Message, SummaryMessage, SummaryBody
    <2> QED BY <1>h, <2>4, <2>5, DerivedType
  <1>5. Candidate(new, old)
    BY <1>w, <1>1, <1>2, <1>3, <1>4, SummaryCandidate
  <1> QED BY <1>n, <1>1, <1>5, OrderFacts DEF OrderStep, OrderOf, KeepsWork

(* The committed candidate becomes the context.                            *)
LEMMA CommitOrder ==
    ASSUME OrderedInv, NEW h \in Handle, CommitInstalled(h)
    PROVE  OrderStep(h)
  <1>1. /\ sess'[h].items = att[h].items /\ att'[h].stage = "idle" /\ att[h].stage = "commit"
    BY HandleFacts DEF CommitInstalled, NoAttempt, Session, OrderedInv
  <1> QED BY <1>1, OrderFacts DEF OrderStep, OrderOf, KeepsWork, Candidate

(* A resumed context is in order.                                          *)
LEMMA ResumeOrder ==
    ASSUME OrderedInv, TypeOK', NEW h \in Handle, ResumeAny(h)
    PROVE  OrderStep(h)
  <1>1. PICK f \in CursorRuns : Resume(h, f, LaterInOrder)
    BY DEF ResumeAny
  <1>2. sess'[h].items \in Seq(Item)
    BY DEF TypeOK, Session
  <1>3. /\ Resumed(sess'[h].items, f, LaterInOrder)
        /\ sess[h].phase = "down" /\ att' = att
    BY <1>1, <1>2, ResumeInstalls
  <1>4. Ordered(sess'[h].items)
    BY <1>3, ResumedOrdered
  <1>5. att'[h].stage = "idle"
    BY <1>3, HandleFacts DEF ShapeOf, OrderedInv, Attempt
  <1> QED BY <1>3, <1>4, <1>5 DEF OrderStep, OrderOf, KeepsWork

(* The step of a handle keeps its context in order.                        *)
LEMMA HandleOrder ==
    ASSUME OrderedInv, TypeOK', NEW h \in Handle,
           Open(h) \/ Push(h) \/ Crash(h) \/ Compact(h) \/ ResumeAny(h)
    PROVE  OrderStep(h)
  <1>1. CASE Open(h) \/ Crash(h)
    BY <1>1, QuietOrder
  <1>2. CASE Push(h)
    <2>1. PICK m \in NewMessage, human \in BOOLEAN :
             \/ PushJournaled(h, m, human)
             \/ \E kept \in BOOLEAN : PushFailed(h, m, human, kept)
             \/ PushMemoryOnly(h, m, human)
      BY <1>2 DEF Push
    <2>2. Len(journal) \in Nat
      BY HandleFacts DEF OrderedInv
    <2>3. CASE PushJournaled(h, m, human)
      <3>1. PICK seq \in Nat : seq = Len(journal) + 1
        BY <2>2
      <3>2. /\ PushReady(h, m, human) /\ att' = att
            /\ sess'[h].items = Pushed(h, m, seq, human)
        BY <2>3, <3>1, HandleFacts DEF PushJournaled, JournalHead, OrderedInv
      <3>3. seq > 0 => seq > Len(journal)
        BY <2>2, <3>1
      <3> QED BY <3>2, <3>3, PushOrder
    <2>4. CASE (\E kept \in BOOLEAN : PushFailed(h, m, human, kept)) \/ PushMemoryOnly(h, m, human)
      <3>1. /\ PushReady(h, m, human) /\ att' = att
            /\ sess'[h].items = Pushed(h, m, 0, human)
        BY <2>4, HandleFacts DEF PushFailed, PushMemoryOnly, Session, OrderedInv
      <3>2. 0 \in Nat /\ ~(0 > 0)
        OBVIOUS
      <3> QED BY <3>1, <3>2, PushOrder
    <2> QED BY <2>1, <2>3, <2>4
  <1>3. CASE Compact(h)
    <2>1. ASSUME NEW k \in 0..MaxActive, AuditPasses(h, k) PROVE OrderStep(h)
      BY <2>1, AuditOrder
    <2>2. ASSUME \/ AuditFails(h) \/ SourceRefused(h)
                 \/ NothingToRewrite(h) \/ CommitConflict(h)
          PROVE  OrderStep(h)
      BY <2>2, QuietOrder DEF AuditFails, SourceRefused, NothingToRewrite, CommitConflict
    <2>3. ASSUME NEW i \in 1..att[h].split,
                 \/ PutCommitted(h, i) \/ PutSkipped(h, i) \/ PutConflict(h, i)
                 \/ \E kept \in BOOLEAN : PutUnknown(h, i, kept)
          PROVE  OrderStep(h)
      <3>1. CASE PutCommitted(h, i)
        BY <3>1, PutOrder
      <3>2. CASE PutSkipped(h, i)
        BY <3>2, QuietOrder
      <3>3. CASE PutConflict(h, i)
        BY <3>3, QuietOrder DEF PutConflict
      <3>4. ASSUME NEW kept \in BOOLEAN, PutUnknown(h, i, kept) PROVE OrderStep(h)
        BY <3>4, QuietOrder DEF PutUnknown
      <3> QED BY <2>3, <3>1, <3>2, <3>3, <3>4
    <2>4. CASE SpillDone(h) \/ Bypass(h)
      BY <2>4, QuietOrder
    <2>5. ASSUME NEW slim \in SUBSET SlimCandidates(h), Deterministic(h, slim)
          PROVE  OrderStep(h)
      BY <2>5, DeterministicOrder
    <2>6. ASSUME NEW lo \in 1..att[h].split, NEW hi \in 1..att[h].split,
                 NEW refs \in SUBSET UNION {att[h].items[i].refs : i \in DOMAIN att[h].items},
                 Semantic(h, lo, hi, refs)
          PROVE  OrderStep(h)
      BY <2>6, SemanticOrder
    <2>7. CASE CommitInstalled(h)
      BY <2>7, CommitOrder
    <2>8. ASSUME NEW kept \in BOOLEAN, CommitUnknown(h, kept) PROVE OrderStep(h)
      BY <2>8, QuietOrder DEF CommitUnknown
    <2> QED BY <1>3, <2>1, <2>2, <2>3, <2>4, <2>5, <2>6, <2>7, <2>8 DEF Compact
  <1>4. CASE ResumeAny(h)
    BY <1>4, ResumeOrder
  <1> QED BY <1>1, <1>2, <1>3, <1>4

-----------------------------------------------------------------------------
(* The cursor always finds its facts.                                      *)

(* A fact stays a fact, with the same content.                             *)
LEMMA FactKept ==
    ASSUME IInv, Grown
    PROVE  \A s : IsFact(s) => IsFact(s)' /\ journal'[s] = journal[s] /\ s \in 1..Len(journal)
  BY DEF IInv, IsFact, JournalHead, Grown, TypeOK

(* Only a committed compaction changes the checkpoint.                     *)
CheckpointMoves(h) ==
    \/ checkpoint' = checkpoint
    \/ att[h].stage = "commit" /\ HeadUnmoved(h) /\ CommitRows(h)

\* A step leaves the checkpoint alone or is the commit of a compaction.
LEMMA CheckpointStep ==
    ASSUME NEW h \in Handle, Open(h) \/ Push(h) \/ Crash(h) \/ Compact(h) \/ ResumeAny(h)
    PROVE  CheckpointMoves(h)
  <1>1. Open(h) \/ Crash(h) \/ ResumeAny(h) => checkpoint' = checkpoint
    BY DEF Open, Crash, ResumeAny, Resume
  <1>2. Push(h) => checkpoint' = checkpoint
    BY DEF Push, PushJournaled, PushFailed, PushMemoryOnly
  <1>3. ASSUME Compact(h) PROVE CheckpointMoves(h)
    <2>1. CASE CommitInstalled(h)
      BY <2>1 DEF CommitInstalled, CheckpointMoves
    <2>2. ASSUME NEW kept \in BOOLEAN, CommitUnknown(h, kept) PROVE CheckpointMoves(h)
      BY <2>2 DEF CommitUnknown, CheckpointMoves
    <2>3. CASE /\ ~CommitInstalled(h)
               /\ ~\E kept \in BOOLEAN : CommitUnknown(h, kept)
      BY <1>3, <2>3 DEF Compact, AuditPasses, AuditFails, PutCommitted, PutSkipped, PutConflict,
         PutUnknown, SpillDone, Deterministic, Semantic, SourceRefused, NothingToRewrite,
         Bypass, CommitConflict, CheckpointMoves
    <2> QED BY <2>1, <2>2, <2>3
  <1> QED BY <1>1, <1>2, <1>3 DEF CheckpointMoves

(* What a committed candidate leaves as the checkpoint.                    *)
LEMMA CommittedBase ==
    ASSUME IInv, NEW h \in Handle, att[h].stage = "commit", HeadUnmoved(h), CommitRows(h)
    PROVE  /\ BaseMessages' = Messages(att[h].items)
           /\ Covers' = Len(journal)
           /\ Unproven' = Kept(Messages(att[h].items))
           /\ Len(journal') = Len(journal) + 2
           /\ journal'[Len(journal) + 1].kind = "compaction"
           /\ journal'[Len(journal) + 2].kind = "checkpoint"
  <1>1. checkpoint' = [covers |-> Len(journal), messages |-> Messages(att[h].items)]
    BY DEF CommitRows, HeadUnmoved, JournalHead
  <1>2. Messages(att[h].items) \in Seq(Message) /\ Len(journal) \in Nat
    BY HandleFacts, MessagesOf
  <1>3. checkpoint' # NoCheckpoint
    BY <1>1, <1>2, NoCheckpointAssumption DEF Checkpoint
  <1>4. BaseMessages' = Messages(att[h].items) /\ Covers' = Len(journal)
    BY <1>1, <1>3 DEF BaseMessages, Covers
  <1>5. Unproven' = Kept(Messages(att[h].items))
    BY <1>4 DEF Unproven, Kept
  <1>6. /\ Len(journal') = Len(journal) + 2
        /\ journal'[Len(journal) + 1].kind = "compaction"
        /\ journal'[Len(journal) + 2].kind = "checkpoint"
    <2> DEFINE rows == <<[kind |-> "compaction", data |-> NoId],
                         [kind |-> "checkpoint", data |-> NoId]>>
    <2>1. /\ rows \in Seq(Entry) /\ Len(rows) = 2
          /\ rows[1].kind = "compaction" /\ rows[2].kind = "checkpoint"
      BY DEF Entry
    <2>2. journal \in Seq(Entry) /\ journal' = journal \o rows
      BY DEF IInv, TypeOK, CommitRows
    <2> HIDE DEF rows
    <2>3. /\ Len(journal \o rows) = Len(journal) + Len(rows)
          /\ \A i \in 1..(Len(journal) + Len(rows)) : (journal \o rows)[i] =
                IF i <= Len(journal) THEN journal[i] ELSE rows[i - Len(journal)]
      BY <2>1, <2>2, ConcatProperties
    <2> PICK n, longer : n = Len(journal) /\ longer = journal \o rows
      OBVIOUS
    <2>4. /\ Len(longer) = n + 2 /\ n \in Nat
          /\ \A i \in 1..(n + 2) : longer[i] = IF i <= n THEN journal[i] ELSE rows[i - n]
      BY <1>2, <2>1, <2>3
    <2>5. longer[n + 1] = rows[1] /\ longer[n + 2] = rows[2]
      BY <2>4
    <2> QED BY <2>1, <2>2, <2>4, <2>5
  <1> QED BY <1>4, <1>5, <1>6

(* What an item of a live context says of the fact it covers.              *)
LEMMA CoveredFact ==
    ASSUME IInv, NEW h \in Handle, NEW items, Ordered(items),
           NEW i \in DOMAIN items, items[i] \in Live(h), Covered(items[i]),
           items[i].msg.kind # "summary"
    PROVE  /\ IsFact(items[i].from) /\ items[i].from = items[i].to
           /\ Explains(items[i].from, items[i].msg)
           /\ items[i].from \in 1..Len(journal)
  <1> PICK it : it = items[i]
    OBVIOUS
  <1>1. it \in Item /\ SoundItem(it)
    BY HandleFacts DEF ItemOK
  <1>2. CASE it.msg.kind = "text"
    BY <1>1, <1>2 DEF Ordered, SoundItem, Explains, IsFact, JournalHead
  <1>3. CASE it.msg.kind # "text"
    <2>1. IsResult(it.msg)
      BY <1>1, <1>3 DEF Item, Message, TextMessage, ResultMessage, SummaryMessage, IsResult
    <2> QED BY <1>1, <2>1 DEF SoundItem, Explains, IsFact, JournalHead
  <1> QED BY <1>2, <1>3

(* A committed candidate shows only what the journal explains.             *)
LEMMA CommitExplained ==
    ASSUME OrderedInv, Grown, NEW h \in Handle,
           att[h].stage = "commit", HeadUnmoved(h), CommitRows(h)
    PROVE  Explained'
  <1>n. PICK items, msgs : items = att[h].items /\ msgs = Messages(items)
    OBVIOUS
  <1>1. IInv /\ items \in Seq(Item) /\ Ordered(items)
    BY <1>n, OrderFacts, HandleFacts DEF Candidate, OrderedInv
  <1>2. /\ BaseMessages' = msgs /\ Covers' = Len(journal) /\ Unproven' = Kept(msgs)
        /\ DOMAIN msgs = DOMAIN items /\ DOMAIN items = 1..Len(items)
        /\ \A i \in DOMAIN items : msgs[i] = items[i].msg
    BY <1>n, <1>1, CommittedBase, MessagesOf
  <1>3. \A i \in DOMAIN items : items[i] \in Live(h) /\ Covered(items[i])
    <2>1. sess[h].phase = "durable"
      BY <1>1, HandleFacts DEF ShapeOf
    <2> QED BY <1>n, <1>1, <2>1, HandleFacts DEF Live, Range
  <1>4. ASSUME NEW i \in Kept(msgs)
        PROVE  /\ IsFact(items[i].from) /\ Explains(items[i].from, msgs[i])
               /\ items[i].from \in 1..Len(journal)
               /\ items[i].msg.kind # "summary" /\ i \in DOMAIN items
    <2>1. i \in DOMAIN items /\ items[i].msg.kind # "summary"
      BY <1>2 DEF Kept
    <2> QED BY <1>1, <1>2, <1>3, <2>1, CoveredFact
  <1>e. PICK e : e = [i \in Kept(msgs) |-> items[i].from]
    OBVIOUS
  <1>5. e \in [Kept(msgs) -> 1..Len(journal)]
    BY <1>e, <1>4
  <1>6. \A i, j \in Kept(msgs) : i < j => e[i] < e[j]
    BY <1>e, <1>1, <1>3, <1>4 DEF Ordered
  <1>7. \A i \in Kept(msgs) : IsFact(e[i])' /\ Explains(e[i], msgs[i])'
    <2> SUFFICES ASSUME NEW i \in Kept(msgs) PROVE IsFact(e[i])' /\ Explains(e[i], msgs[i])'
      OBVIOUS
    <2> PICK s : s = items[i].from
      OBVIOUS
    <2>1. IsFact(s) /\ Explains(s, msgs[i]) /\ e[i] = s
      BY <1>e, <1>4
    <2>2. IsFact(s)' /\ journal'[s] = journal[s]
      BY <1>1, <2>1, FactKept
    <2>3. Explains(s, msgs[i])'
      BY <2>1, <2>2 DEF Explains
    <2> QED BY <2>1, <2>2, <2>3
  <1>8. \A i \in DOMAIN msgs : msgs[i].kind = "summary" => i = 1
    BY <1>1, <1>2 DEF Ordered
  <1> QED BY <1>2, <1>5, <1>6, <1>7, <1>8 DEF Explained

(* With the checkpoint in place it stays explained: facts never change.    *)
LEMMA KeptExplained ==
    ASSUME OrderedInv, Grown, checkpoint' = checkpoint
    PROVE  Explained'
  <1>1. BaseMessages' = BaseMessages /\ Covers' = Covers /\ Unproven' = Unproven
    BY DEF BaseMessages, Covers, Unproven
  <1>2. PICK e \in [Unproven -> 1..Covers] :
           /\ \A i \in Unproven : IsFact(e[i]) /\ Explains(e[i], BaseMessages[i])
           /\ \A i, j \in Unproven : i < j => e[i] < e[j]
    BY DEF OrderedInv, Explained
  <1>3. ASSUME NEW i \in Unproven
        PROVE  IsFact(e[i])' /\ Explains(e[i], BaseMessages[i])'
    <2> PICK s, m : s = e[i] /\ m = BaseMessages[i]
      OBVIOUS
    <2>1. IsFact(s)' /\ journal'[s] = journal[s] /\ Explains(s, m)
      BY <1>2, FactKept DEF OrderedInv
    <2>2. Explains(s, m)'
      BY <2>1 DEF Explains
    <2> QED BY <1>1, <2>1, <2>2
  <1>4. \A i \in DOMAIN BaseMessages' : BaseMessages'[i].kind = "summary" => i = 1
    BY <1>1 DEF OrderedInv, Explained
  <1> QED BY <1>1, <1>2, <1>3, <1>4 DEF Explained

(* Every step of a handle keeps the order and the explanation.             *)
LEMMA NextOrdered ==
    ASSUME OrderedInv, NEW h \in Handle,
           Open(h) \/ Push(h) \/ Crash(h) \/ Compact(h) \/ ResumeAny(h)
    PROVE  /\ OrderedInv'
           /\ LocalStep(h) /\ Grown
           /\ OrderStep(h)
  <1>1. IInv /\ IInv' /\ TypeOK'
    BY NextIInv DEF OrderedInv, Next, IInv
  <1>2. LocalStep(h) /\ Grown
    <2>1. CASE Open(h)
      BY <1>1, <2>1, QuietLocal, RowsUnchanged DEF Open, DurableStep
    <2>2. CASE Push(h)
      BY <1>1, <2>2, PushStep DEF DurableStep
    <2>3. CASE Crash(h)
      BY <1>1, <2>3, QuietLocal, RowsUnchanged DEF Crash, DurableStep
    <2>4. CASE Compact(h)
      BY <1>1, <2>4, CompactStep DEF DurableStep
    <2>5. CASE ResumeAny(h)
      <3>1. Grown
        BY <1>1, <2>5, RowsUnchanged DEF ResumeAny, Resume, DurableStep
      <3> QED BY <1>1, <2>5, <3>1, ResumeLocal
    <2> QED BY <2>1, <2>2, <2>3, <2>4, <2>5
  <1>3. OrderStep(h)
    BY <1>1, HandleOrder
  <1>4. OrderInv'
    <2>1. ASSUME NEW g \in Handle, g # h PROVE OrderOf(att'[g], sess'[g])
      <3>1. sess'[g] = sess[g] /\ att'[g] = att[g]
        BY <1>2, <2>1 DEF LocalStep
      <3> QED BY <3>1 DEF OrderedInv, OrderInv
    <2>2. ASSUME NEW g \in Handle PROVE OrderOf(att'[g], sess'[g])
      BY <1>3, <2>1 DEF OrderStep
    <2> QED BY <2>2 DEF OrderInv
  <1>5. Explained'
    <2>1. CheckpointMoves(h)
      BY CheckpointStep
    <2> QED BY <1>2, <2>1, KeptExplained, CommitExplained DEF CheckpointMoves
  <1> QED BY <1>1, <1>2, <1>3, <1>4, <1>5 DEF OrderedInv

(* The ordered invariant holds at the start.                               *)
LEMMA InitOrdered == Init => OrderedInv
  <1> SUFFICES ASSUME Init PROVE OrderedInv
    OBVIOUS
  <1>1. IInv
    BY InitIInv
  <1>2. \A h \in Handle : sess[h].items = <<>> /\ att[h].stage = "idle"
    BY DEF Init, NoSession, NoAttempt
  <1>3. Ordered(<<>>)
    BY DEF Ordered
  <1>4. OrderInv
    BY <1>2, <1>3 DEF OrderInv, OrderOf
  <1>5. BaseMessages = <<>> /\ Unproven = {}
    BY DEF Init, BaseMessages, Unproven
  <1>6. Explained
    <2> PICK e : e = [i \in {} |-> 0]
      OBVIOUS
    <2>1. e \in [Unproven -> 1..Covers]
      BY <1>5
    <2>2. \A i : i \notin Unproven /\ i \notin DOMAIN BaseMessages
      BY <1>5
    <2> QED BY <2>1, <2>2 DEF Explained
  <1> QED BY <1>1, <1>4, <1>6 DEF OrderedInv

(* It is inductive.                                                        *)
LEMMA StepOrdered == OrderedInv /\ [Next]_vars => OrderedInv'
  <1> SUFFICES ASSUME OrderedInv, [Next]_vars PROVE OrderedInv'
    OBVIOUS
  <1>1. CASE Next
    BY <1>1, NextOrdered DEF Next
  <1>2. CASE UNCHANGED vars
    <2>1. IInv'
      BY NextIInv DEF OrderedInv
    <2>2. OrderInv'
      BY <1>2 DEF vars, OrderedInv, OrderInv
    <2>3. Grown /\ checkpoint' = checkpoint
      BY <1>2, NothingAdded DEF vars, OrderedInv, IInv
    <2>4. Explained'
      BY <2>3, KeptExplained
    <2> QED BY <2>1, <2>2, <2>4 DEF OrderedInv
  <1> QED BY <1>1, <1>2

(* Contexts stay in the order of the journal, candidates may always        *)
(* replace their context, and the checkpoint stays explained.              *)
THEOREM OrderKept == Spec => []OrderedInv
  <1> QED BY InitOrdered, StepOrdered, PTL DEF Spec

-----------------------------------------------------------------------------
(* Compaction never rewrites what the model is working on.                 *)

(* WorkingSetKept: spill, slimming and summary leave the latest human      *)
(* request, the latest tool exchange and the last message in the live      *)
(* context with their lineage (ProtectedSplit, Anchor, the retained tail). *)
THEOREM WorkingSetStays == Spec => WorkingSetKept
  <1> DEFINE Keeps == \A h \in Handle :
                 sess[h].phase # "down" /\ sess'[h].phase # "down"
                 /\ Len(sess'[h].items) <= Len(sess[h].items) =>
                    LET now == sess[h].items
                        kept == Range(sess'[h].items) IN
                    /\ LastOf(now, LAMBDA it : it.human) \subseteq kept
                    /\ LastOf(now, LAMBDA it : IsResult(it.msg)) \subseteq kept
                    /\ LastOf(now, LAMBDA it : TRUE) \subseteq kept
  <1>1. OrderedInv /\ [Next]_vars => [Keeps]_vars
    <2> SUFFICES ASSUME OrderedInv, Next PROVE Keeps
      OBVIOUS
    <2>1. PICK h \in Handle : Open(h) \/ Push(h) \/ Crash(h) \/ Compact(h) \/ ResumeAny(h)
      BY DEF Next
    <2>2. LocalStep(h) /\ OrderStep(h)
      BY <2>1, NextOrdered
    <2>3. ASSUME NEW g \in Handle PROVE KeepsWork(g)
      <3>1. CASE g = h
        BY <2>2, <3>1 DEF OrderStep
      <3>2. CASE g # h
        <4>1. sess'[g] = sess[g]
          BY <2>2, <3>2 DEF LocalStep
        <4> QED BY <4>1, OrderFacts DEF KeepsWork
      <3> QED BY <3>1, <3>2
    <2> QED BY <2>3 DEF KeepsWork, WorkKept
  <1>2. OrderedInv /\ [Next]_vars => [Keeps]_vars
    BY <1>1
  <1>3. Spec => [][Keeps]_vars
    <2> HIDE DEF Keeps
    <2> QED BY <1>2, OrderKept, PTL DEF Spec
  <1> QED BY <1>3 DEF WorkingSetKept, Keeps

-----------------------------------------------------------------------------
(* Resume is never rejected.                                               *)

(* The cursor's choice for one unproven message.                           *)
Chosen(f, i) ==
    /\ f[i] > Cursor(f, i)
    /\ IsFact(f[i])
    /\ Explains(f[i], BaseMessages[i])
    /\ \A s \in (Cursor(f, i) + 1)..(f[i] - 1) : IsFact(s) => ~Explains(s, BaseMessages[i])

(* The forward cursor never falls behind the facts that explain the        *)
(* checkpoint, so it finds one for every unproven message.                 *)
LEMMA CursorExists ==
    ASSUME OrderedInv
    PROVE  CursorRuns # {}
  <1>n. PICK n : n = Len(BaseMessages)
    OBVIOUS
  <1>1. PICK e \in [Unproven -> 1..Covers] :
           /\ \A i \in Unproven : IsFact(e[i]) /\ Explains(e[i], BaseMessages[i])
           /\ \A i, j \in Unproven : i < j => e[i] < e[j]
    BY DEF OrderedInv, Explained
  <1>2. Unproven \subseteq 1..n /\ n \in Nat /\ Covers \in Nat
    BY <1>n, BaseFacts
  <1> DEFINE Good(f, k) == \A i \in Unproven : i <= k => f[i] <= e[i] /\ Chosen(f, i)
             Reached == {k \in Nat : \E f \in [Unproven -> 1..Covers] : Good(f, k)}
  <1>3. 0 \in Reached
    <2>1. Good(e, 0)
      BY <1>2
    <2> QED BY <1>1, <2>1
  <1>4. ASSUME NEW k \in Nat, k \in Reached PROVE k + 1 \in Reached
    <2>1. PICK f \in [Unproven -> 1..Covers] : Good(f, k)
      BY <1>4
    <2>2. CASE k + 1 \notin Unproven
      <3>1. \A i \in Unproven : i <= k + 1 => i <= k
        BY <1>2, <2>2
      <3>2. Good(f, k + 1)
        BY <2>1, <3>1
      <3> QED BY <3>2
    <2>3. CASE k + 1 \in Unproven
      <3> PICK j, c, m : j = k + 1 /\ c = Cursor(f, j) /\ m = BaseMessages[j]
        OBVIOUS
      <3> DEFINE S == {s \in 1..Covers : s > c /\ IsFact(s) /\ Explains(s, m)}
      <3>1. c \in Nat /\ c < e[j]
        <4>1. j - 1 = k /\ j \in Unproven /\ e[j] \in 1..Covers
          BY <1>1, <2>3
        <4>2. CASE k \in Unproven
          <5>1. c = f[k] /\ f[k] \in 1..Covers /\ e[k] \in 1..Covers
            BY <1>1, <4>1, <4>2 DEF Cursor
          <5>2. f[k] <= e[k] /\ e[k] < e[j]
            BY <1>1, <2>1, <4>1, <4>2
          <5> QED BY <1>2, <4>1, <5>1, <5>2
        <4>3. CASE k \notin Unproven
          <5>1. c = 0
            BY <4>1, <4>3 DEF Cursor
          <5> QED BY <1>2, <4>1, <5>1
        <4> QED BY <4>2, <4>3
      <3>2. e[j] \in S
        BY <1>1, <2>3, <3>1, <1>2
      <3>3. S \in SUBSET Nat /\ S # {}
        BY <1>2, <3>2
      <3>4. PICK s \in S : \A t \in S : s <= t
        <4> HIDE DEF S
        <4> QED BY <3>3, LeastElement
      <3>5. s \in 1..Covers /\ s > c /\ IsFact(s) /\ Explains(s, m) /\ s <= e[j]
        BY <3>2, <3>4
      <3>6. ASSUME NEW t \in (c + 1)..(s - 1), IsFact(t) PROVE ~Explains(t, m)
        <4>1. t \in 1..Covers /\ t > c /\ t < s
          BY <1>2, <3>1, <3>5
        <4> QED BY <3>4, <3>6, <4>1, <1>2
      <3> DEFINE g == [f EXCEPT ![j] = s]
      <3>7. /\ g \in [Unproven -> 1..Covers] /\ g[j] = s
            /\ \A i \in Unproven : i # j => g[i] = f[i]
        BY <2>3, <3>5
      <3> HIDE DEF g
      <3>8. \A i \in Unproven : i <= j => Cursor(g, i) = Cursor(f, i)
        <4> SUFFICES ASSUME NEW i \in Unproven, i <= j PROVE Cursor(g, i) = Cursor(f, i)
          OBVIOUS
        <4>1. i - 1 # j
          BY <1>2
        <4> QED BY <3>7, <4>1 DEF Cursor
      <3>9. Chosen(g, j) /\ g[j] <= e[j]
        <4>1. Cursor(g, j) = c
          BY <2>3, <3>8
        <4> QED BY <3>5, <3>6, <3>7, <4>1 DEF Chosen
      <3>10. ASSUME NEW i \in Unproven, i <= k PROVE g[i] <= e[i] /\ Chosen(g, i)
        <4>1. i # j /\ i <= j
          BY <1>2, <3>10
        <4>2. g[i] = f[i] /\ Cursor(g, i) = Cursor(f, i)
          BY <3>7, <3>8, <4>1
        <4>3. f[i] <= e[i] /\ Chosen(f, i)
          BY <2>1, <3>10
        <4> QED BY <4>2, <4>3 DEF Chosen
      <3>11. Good(g, j)
        <4>1. \A i \in Unproven : i <= j => i = j \/ i <= k
          BY <1>2
        <4> QED BY <3>9, <3>10, <4>1
      <3> QED BY <3>7, <3>11
    <2> QED BY <2>2, <2>3
  <1>5. n \in Reached
    <2> HIDE DEF Reached
    <2>1. Nat \subseteq Reached
      BY <1>3, <1>4, InductionSet
    <2> QED BY <1>2, <2>1
  <1>6. PICK f \in [Unproven -> 1..Covers] : Good(f, n)
    BY <1>5
  <1>7. IsCursorRun(f)
    <2>1. \A i \in Unproven : Chosen(f, i)
      BY <1>2, <1>6
    <2> QED BY <2>1 DEF IsCursorRun, Chosen
  <1> QED BY <1>7 DEF CursorRuns

(* Recoverable: whatever several writers, store failures and compactions   *)
(* left in the rows, match_journal_fact finds a fact for every message of  *)
(* the checkpoint that does not carry its own proof.                       *)
THEOREM AlwaysRecoverable == Spec => []Recoverable
  <1>1. OrderedInv => Recoverable
    BY CursorExists DEF Recoverable
  <1> QED BY <1>1, OrderKept, PTL

-----------------------------------------------------------------------------
(* The facts after the checkpoint, in order.                               *)

(* One step of the walk over the positions.                                *)
Walked(S, g, n) == IF n = 0 THEN <<>> ELSE IF n \in S THEN Append(g[n - 1], n) ELSE g[n - 1]

WalksTo(S, g, n) ==
    /\ g \in [0..n -> Seq(Nat)]
    /\ \A i \in 0..n : g[i] = Walked(S, g, i)

(* Two walks over the same positions agree as far as both go.              *)
LEMMA WalksAgree ==
    ASSUME NEW S, NEW n \in Nat, NEW m \in Nat, NEW f, WalksTo(S, f, n),
           NEW g, WalksTo(S, g, m), NEW k \in Nat, k <= n, k <= m
    PROVE  f[k] = g[k]
  <1> DEFINE Same == {j \in Nat : j <= n /\ j <= m => f[j] = g[j]}
  <1>1. 0 \in Same
    BY DEF WalksTo, Walked
  <1>2. ASSUME NEW j \in Nat, j \in Same PROVE j + 1 \in Same
    <2> SUFFICES ASSUME j + 1 <= n, j + 1 <= m PROVE f[j + 1] = g[j + 1]
      OBVIOUS
    <2>1. f[j] = g[j] /\ (j + 1) - 1 = j /\ j + 1 # 0
      BY <1>2
    <2>2. f[j + 1] = Walked(S, f, j + 1) /\ g[j + 1] = Walked(S, g, j + 1)
      BY DEF WalksTo
    <2> QED BY <2>1, <2>2 DEF Walked
  <1>3. Nat \subseteq Same
    <2> HIDE DEF Same
    <2> QED BY <1>1, <1>2, InductionSet
  <1> QED BY <1>3

(* There is a walk as far as any position.                                 *)
LEMMA WalkExists ==
    ASSUME NEW S, NEW n \in Nat
    PROVE  \E g : WalksTo(S, g, n)
  <1> DEFINE Reached == {k \in Nat : \E g : WalksTo(S, g, k)}
  <1>1. 0 \in Reached
    <2> PICK g : g = [i \in 0..0 |-> <<>>]
      OBVIOUS
    <2>1. g \in [0..0 -> Seq(Nat)]
      OBVIOUS
    <2>2. WalksTo(S, g, 0)
      BY <2>1 DEF WalksTo, Walked
    <2> QED BY <2>2
  <1>2. ASSUME NEW k \in Nat, k \in Reached PROVE k + 1 \in Reached
    <2>1. PICK g : WalksTo(S, g, k)
      BY <1>2
    <2> PICK last : last = IF k + 1 \in S THEN Append(g[k], k + 1) ELSE g[k]
      OBVIOUS
    <2> PICK f : f = [i \in 0..(k + 1) |-> IF i <= k THEN g[i] ELSE last]
      OBVIOUS
    <2>2. last \in Seq(Nat)
      BY <2>1, AppendProperties DEF WalksTo
    <2>3. f \in [0..(k + 1) -> Seq(Nat)]
      BY <2>1, <2>2 DEF WalksTo
    <2>4. ASSUME NEW i \in 0..(k + 1) PROVE f[i] = Walked(S, f, i)
      <3>1. CASE i <= k
        <4>1. f[i] = g[i] /\ g[i] = Walked(S, g, i)
          BY <2>1, <3>1 DEF WalksTo
        <4>2. i # 0 => f[i - 1] = g[i - 1]
          BY <3>1
        <4> QED BY <4>1, <4>2 DEF Walked
      <3>2. CASE i = k + 1
        <4>1. f[i] = last /\ i - 1 = k /\ f[k] = g[k] /\ i # 0
          BY <3>2
        <4> QED BY <3>2, <4>1 DEF Walked
      <3> QED BY <3>1, <3>2
    <2>5. WalksTo(S, f, k + 1)
      BY <2>3, <2>4 DEF WalksTo
    <2> QED BY <2>5
  <1>3. Nat \subseteq Reached
    <2> HIDE DEF Reached
    <2> QED BY <1>1, <1>2, InductionSet
  <1> QED BY <1>3

(* InOrder satisfies its recursive definition.                             *)
LEMMA InOrderWalks ==
    ASSUME NEW S
    PROVE  InOrder(S) = [n \in Nat |-> IF n = 0 THEN <<>>
                                       ELSE IF n \in S THEN Append(InOrder(S)[n - 1], n)
                                            ELSE InOrder(S)[n - 1]]
  <1> DEFINE Walk(n) == CHOOSE g : WalksTo(S, g, n)
             whole == [n \in Nat |-> Walk(n)[n]]
  <1>1. \A n \in Nat : WalksTo(S, Walk(n), n)
    BY WalkExists
  <1> HIDE DEF Walk
  <1>2. ASSUME NEW n \in Nat PROVE whole[n] = Walked(S, whole, n)
    <2>1. whole[n] = Walked(S, Walk(n), n)
      BY <1>1 DEF WalksTo
    <2>2. CASE n = 0
      BY <2>1, <2>2 DEF Walked
    <2>3. CASE n # 0
      <3>1. n - 1 \in Nat /\ n - 1 <= n
        BY <2>3
      <3>2. Walk(n)[n - 1] = Walk(n - 1)[n - 1]
        BY <1>1, <3>1, WalksAgree
      <3>3. whole[n - 1] = Walk(n)[n - 1]
        BY <3>1, <3>2
      <3> QED BY <2>1, <3>3 DEF Walked
    <2> QED BY <2>2, <2>3
  <1>3. whole = [n \in Nat |-> whole[n]]
    OBVIOUS
  <1> HIDE DEF whole
  <1>4. whole = [n \in Nat |-> IF n = 0 THEN <<>>
                               ELSE IF n \in S THEN Append(whole[n - 1], n) ELSE whole[n - 1]]
    BY <1>2, <1>3 DEF Walked
  <1> QED BY <1>4 DEF InOrder

(* Position by position: the next one is appended when it is a member.     *)
LEMMA InOrderStep ==
    ASSUME NEW S
    PROVE  /\ InOrder(S)[0] = <<>>
           /\ \A n \in Nat : InOrder(S)[n + 1] =
                 IF n + 1 \in S THEN Append(InOrder(S)[n], n + 1) ELSE InOrder(S)[n]
  <1> PICK w : w = InOrder(S)
    OBVIOUS
  <1>1. w = [n \in Nat |-> IF n = 0 THEN <<>>
                           ELSE IF n \in S THEN Append(w[n - 1], n) ELSE w[n - 1]]
    BY InOrderWalks
  <1>2. w[0] = <<>>
    BY <1>1
  <1>3. ASSUME NEW n \in Nat
        PROVE  w[n + 1] = IF n + 1 \in S THEN Append(w[n], n + 1) ELSE w[n]
    <2>1. n + 1 \in Nat /\ n + 1 # 0 /\ (n + 1) - 1 = n
      OBVIOUS
    <2> QED BY <1>1, <2>1
  <1> QED BY <1>2, <1>3

(* It lists members only.                                                  *)
LEMMA InOrderType ==
    ASSUME NEW S, NEW n \in Nat
    PROVE  InOrder(S)[n] \in Seq(S \cap (1..n))
  <1> PICK w : w = InOrder(S)
    OBVIOUS
  <1> DEFINE Good == {k \in Nat : w[k] \in Seq(S \cap (1..k))}
  <1>0. /\ w[0] = <<>>
        /\ \A k \in Nat : w[k + 1] = IF k + 1 \in S THEN Append(w[k], k + 1) ELSE w[k]
    BY InOrderStep
  <1>1. 0 \in Good
    <2>1. <<>> \in Seq(S \cap (1..0))
      OBVIOUS
    <2> QED BY <1>0, <2>1
  <1>2. ASSUME NEW k \in Nat, k \in Good PROVE k + 1 \in Good
    <2> PICK b, T : b = k + 1 /\ T = Seq(S \cap (1..b))
      OBVIOUS
    <2>1. w[k] \in Seq(S \cap (1..k)) /\ b \in Nat /\ b \in 1..b
          /\ S \cap (1..k) \subseteq S \cap (1..b)
      BY <1>2
    <2>2. w[k] \in T
      BY <2>1, SeqDef
    <2>3. b \in S => Append(w[k], b) \in T
      BY <2>1, <2>2, AppendProperties
    <2>4. (b \in S /\ w[b] = Append(w[k], b)) \/ w[b] = w[k]
      BY <1>0
    <2>5. w[b] \in T
      BY <2>2, <2>3, <2>4, Zenon
    <2> QED BY <2>1, <2>5
  <1>3. Nat \subseteq Good
    <2> HIDE DEF Good
    <2> QED BY <1>1, <1>2, InductionSet
  <1> QED BY <1>3

(* It depends only on the members it has walked over.                      *)
LEMMA InOrderAgree ==
    ASSUME NEW S, NEW T, NEW n \in Nat, \A i \in 1..n : i \in S <=> i \in T
    PROVE  InOrder(S)[n] = InOrder(T)[n]
  <1> PICK v, w : v = InOrder(S) /\ w = InOrder(T)
    OBVIOUS
  <1> DEFINE Same == {k \in Nat : k <= n => v[k] = w[k]}
  <1>0. /\ v[0] = <<>> /\ w[0] = <<>>
        /\ \A k \in Nat : v[k + 1] = IF k + 1 \in S THEN Append(v[k], k + 1) ELSE v[k]
        /\ \A k \in Nat : w[k + 1] = IF k + 1 \in T THEN Append(w[k], k + 1) ELSE w[k]
    BY InOrderStep
  <1>1. 0 \in Same
    BY <1>0
  <1>2. ASSUME NEW k \in Nat, k \in Same PROVE k + 1 \in Same
    <2> SUFFICES ASSUME k + 1 <= n PROVE v[k + 1] = w[k + 1]
      OBVIOUS
    <2>1. k + 1 \in 1..n /\ v[k] = w[k]
      BY <1>2
    <2>2. k + 1 \in S <=> k + 1 \in T
      BY <2>1
    <2> QED BY <1>0, <2>1, <2>2
  <1>3. Nat \subseteq Same
    <2> HIDE DEF Same
    <2> QED BY <1>1, <1>2, InductionSet
  <1> QED BY <1>3

-----------------------------------------------------------------------------
(* What a resume would rebuild, step by step.                              *)

FactsOf(rows, later) == [j \in DOMAIN later |-> rows[later[j]].data]

(* Two sequences with the same elements at the same positions are equal.   *)
LEMMA SameSequence ==
    ASSUME NEW S, NEW a \in Seq(S), NEW b \in Seq(S), Len(a) = Len(b),
           \A i \in 1..Len(a) : a[i] = b[i]
    PROVE  a = b
  <1>1. /\ a = [i \in 1..Len(a) |-> a[i]]
        /\ b = [i \in 1..Len(b) |-> b[i]]
    BY SeqDef, LenProperties
  <1> QED BY <1>1

(* Positions of a journal are positions of the longer one.                 *)
LEMMA PositionsBeyond ==
    ASSUME NEW n \in Nat, NEW T \in SUBSET (1..n), NEW later \in Seq(T)
    PROVE  later \in Seq(1..(n + 1)) /\ n + 1 \in 1..(n + 1)
  <1> PICK b \in Nat : b = n + 1
    OBVIOUS
  <1>1. T \subseteq 1..b /\ b \in 1..b
    OBVIOUS
  <1>2. later \in Seq(1..b)
    <2>1. \A q : q \in Seq(T) => \E l \in Nat : q \in [1..l -> T]
      BY SeqDef
    <2>2. PICK l \in Nat : later \in [1..l -> T]
      BY <2>1
    <2>3. later \in [1..l -> 1..b]
      BY <1>1, <2>2
    <2> QED BY <2>3, SequenceOf
  <1> QED BY <1>1, <1>2

(* What is recovered is a sequence of messages.                            *)
LEMMA RecoveredType ==
    ASSUME IInv
    PROVE  /\ LaterInOrder \in Seq(LaterFacts)
           /\ FactsAfter = FactsOf(journal, LaterInOrder)
           /\ FactsAfter \in Seq(Message) /\ Len(FactsAfter) = Len(LaterInOrder)
           /\ DOMAIN LaterInOrder = 1..Len(LaterInOrder) /\ Len(LaterInOrder) \in Nat
           /\ BaseMessages \in Seq(Message)
           /\ Recovered \in Seq(Message)
           /\ Covers \in Nat /\ Len(journal) \in Nat
           /\ LaterFacts \subseteq 1..Len(journal)
  <1>1. TypeOK /\ Len(journal) \in Nat /\ BaseMessages \in Seq(Message) /\ Covers \in Nat
    BY LenProperties DEF IInv, TypeOK, BaseMessages, Covers, Checkpoint
  <1>2. LaterFacts \subseteq 1..Len(journal)
    BY <1>1 DEF LaterFacts, JournalHead
  <1>3. LaterInOrder \in Seq(LaterFacts)
    <2>1. InOrder(LaterFacts)[JournalHead] \in Seq(LaterFacts \cap (1..JournalHead))
      BY <1>1, InOrderType DEF JournalHead
    <2>2. LaterFacts \cap (1..JournalHead) = LaterFacts
      BY <1>2 DEF JournalHead
    <2> QED BY <2>1, <2>2 DEF LaterInOrder
  <1>4. DOMAIN LaterInOrder = 1..Len(LaterInOrder) /\ Len(LaterInOrder) \in Nat
        /\ \A j \in DOMAIN LaterInOrder : LaterInOrder[j] \in LaterFacts
    BY <1>3, LenProperties, ElementOfSeq
  <1>5. \A s \in LaterFacts : journal[s].data \in Message
    BY <1>1, FactType DEF LaterFacts
  <1>6. FactsAfter \in [1..Len(LaterInOrder) -> Message]
    BY <1>4, <1>5 DEF FactsAfter
  <1>7. FactsAfter \in Seq(Message) /\ Len(FactsAfter) = Len(LaterInOrder)
    BY <1>4, <1>6, SequenceOf
  <1>8. Recovered \in Seq(Message)
    BY <1>1, <1>7, ConcatProperties DEF Recovered
  <1> QED BY <1>1, <1>2, <1>3, <1>4, <1>7, <1>8 DEF FactsAfter, FactsOf

(* A row added at the end of the journal.                                  *)
LEMMA RowAtEnd ==
    ASSUME IInv, NEW e \in Entry, journal' = Append(journal, e), checkpoint' = checkpoint
    PROVE  /\ Len(journal') = Len(journal) + 1
           /\ journal'[Len(journal) + 1] = e
           /\ \A s \in 1..Len(journal) : journal'[s] = journal[s]
           /\ BaseMessages' = BaseMessages /\ Covers' = Covers
           /\ \A s \in 1..Len(journal) : s \in LaterFacts' <=> s \in LaterFacts
           /\ Len(journal) + 1 \in LaterFacts' <=> e.kind = "message"
           /\ InOrder(LaterFacts')[Len(journal)] = LaterInOrder
           /\ LaterInOrder' = IF e.kind = "message" THEN Append(LaterInOrder, Len(journal) + 1)
                              ELSE LaterInOrder
  <1>1. journal \in Seq(Entry) /\ Len(journal) \in Nat
    BY LenProperties DEF IInv, TypeOK
  <1>2. /\ Len(journal') = Len(journal) + 1
        /\ journal'[Len(journal) + 1] = e
        /\ \A s \in 1..Len(journal) : journal'[s] = journal[s]
    BY <1>1, AppendProperties
  <1>3. BaseMessages' = BaseMessages /\ Covers' = Covers
    BY DEF BaseMessages, Covers
  <1>4. Covers \in Nat /\ Covers <= Len(journal)
    <2>1. Covers \in Nat
      BY DEF IInv, TypeOK, Covers, Checkpoint
    <2> QED BY <1>1, <2>1 DEF IInv, CheckpointSealsJournal, Covers, JournalHead
  <1>5. \A s \in 1..Len(journal) : s \in LaterFacts' <=> s \in LaterFacts
    BY <1>1, <1>2, <1>3, <1>4 DEF LaterFacts, IsFact, JournalHead
  <1>6. Len(journal) + 1 \in LaterFacts' <=> e.kind = "message"
    BY <1>1, <1>2, <1>3, <1>4 DEF LaterFacts, IsFact, JournalHead
  <1>7. InOrder(LaterFacts')[Len(journal)] = LaterInOrder
    BY <1>1, <1>5, InOrderAgree DEF LaterInOrder, JournalHead
  <1>8. LaterInOrder' = IF e.kind = "message" THEN Append(LaterInOrder, Len(journal) + 1)
                        ELSE LaterInOrder
    <2> PICK T, n : T = LaterFacts' /\ n = Len(journal)
      OBVIOUS
    <2>1. InOrder(T)[n + 1] = IF n + 1 \in T THEN Append(InOrder(T)[n], n + 1) ELSE InOrder(T)[n]
      BY <1>1, InOrderStep
    <2>2. LaterInOrder' = InOrder(T)[n + 1]
      BY <1>2 DEF LaterInOrder, JournalHead
    <2> QED BY <1>6, <1>7, <2>1, <2>2
  <1> QED BY <1>2, <1>3, <1>5, <1>6, <1>7, <1>8

(* A journaled message is what the next resume appends.                    *)
LEMMA MessageRecovered ==
    ASSUME IInv, NEW m \in Message, journal' = Append(journal, [kind |-> "message", data |-> m]),
           checkpoint' = checkpoint
    PROVE  Recovered' = Append(Recovered, m)
  <1> PICK n, later, longer : n = Len(journal) /\ later = LaterInOrder /\ longer = LaterInOrder'
    OBVIOUS
  <1> PICK rows : rows = journal'
    OBVIOUS
  <1>1. [kind |-> "message", data |-> m] \in Entry
    BY DEF Entry
  <1>2. /\ rows[n + 1] = [kind |-> "message", data |-> m]
        /\ \A s \in 1..n : rows[s] = journal[s]
        /\ BaseMessages' = BaseMessages
        /\ longer = Append(later, n + 1)
    BY <1>1, RowAtEnd
  <1>3. /\ n \in Nat /\ later \in Seq(LaterFacts) /\ LaterFacts \subseteq 1..n
        /\ FactsAfter = FactsOf(journal, later)
        /\ FactsAfter \in Seq(Message) /\ Len(FactsAfter) = Len(later)
        /\ DOMAIN later = 1..Len(later) /\ Len(later) \in Nat
        /\ BaseMessages \in Seq(Message)
    BY RecoveredType
  <1>4. later \in Seq(1..(n + 1)) /\ n + 1 \in 1..(n + 1)
    BY <1>3, PositionsBeyond
  <1>l. PICK l : l = Len(later)
    OBVIOUS
  <1>5. /\ DOMAIN longer = 1..(l + 1) /\ longer[l + 1] = n + 1
        /\ \A j \in 1..l : longer[j] = later[j]
    <2>1. /\ Len(Append(later, n + 1)) = Len(later) + 1
          /\ Append(later, n + 1)[Len(later) + 1] = n + 1
          /\ \A j \in 1..Len(later) : Append(later, n + 1)[j] = later[j]
          /\ Append(later, n + 1) \in Seq(1..(n + 1))
      BY <1>4, AppendProperties
    <2> QED BY <1>2, <1>l, <2>1, LenProperties
  <1>6. /\ DOMAIN Append(FactsAfter, m) = 1..(l + 1)
        /\ Append(FactsAfter, m)[l + 1] = m
        /\ \A j \in 1..l : Append(FactsAfter, m)[j] = FactsAfter[j]
    BY <1>3, <1>l, AppendProperties, LenProperties
  <1>7. FactsAfter' = FactsOf(rows, longer)
    BY DEF FactsAfter, FactsOf
  <1>8. ASSUME NEW j \in 1..(l + 1) PROVE FactsAfter'[j] = Append(FactsAfter, m)[j]
    <2>1. FactsAfter'[j] = rows[longer[j]].data
      BY <1>5, <1>7 DEF FactsOf
    <2>2. CASE j = l + 1
      BY <1>2, <1>5, <1>6, <2>1, <2>2
    <2>3. CASE j # l + 1
      <3>1. j \in 1..l /\ j \in DOMAIN later
        BY <1>3, <1>l, <2>3
      <3>2. later[j] \in 1..n
        BY <1>3, <3>1, ElementOfSeq
      <3>3. FactsAfter[j] = journal[later[j]].data
        BY <1>3, <3>1 DEF FactsOf
      <3> QED BY <1>2, <1>5, <1>6, <2>1, <3>1, <3>2, <3>3
    <2> QED BY <2>2, <2>3
  <1>9. FactsAfter' = Append(FactsAfter, m)
    <2> PICK new, old : new = FactsAfter' /\ old = Append(FactsAfter, m)
      OBVIOUS
    <2> PICK b \in Nat : b = l + 1
      BY <1>3, <1>l
    <2>1. old \in Seq(Message) /\ Len(old) = b
      BY <1>3, <1>l, AppendProperties
    <2>2. DOMAIN new = 1..b /\ new = [j \in 1..b |-> new[j]]
      BY <1>5, <1>7 DEF FactsOf
    <2>3. \A j \in 1..b : old[j] \in Message /\ new[j] = old[j]
      BY <1>8, <2>1, LenProperties
    <2>4. new \in [1..b -> Message]
      BY <2>2, <2>3
    <2>5. new \in Seq(Message) /\ Len(new) = b
      BY <2>4, SequenceOf
    <2> QED BY <2>1, <2>3, <2>5, SameSequence
  <1>10. BaseMessages \o Append(FactsAfter, m) = Append(BaseMessages \o FactsAfter, m)
    <2>1. BaseMessages \o Append(FactsAfter, m) = (BaseMessages \o FactsAfter) \o <<m>>
      <3>1. Append(FactsAfter, m) = FactsAfter \o <<m>>
        BY <1>3, AppendIsConcat
      <3>2. <<m>> \in Seq(Message)
        BY Singleton
      <3> QED BY <1>3, <3>1, <3>2, ConcatAssociative
    <2>2. BaseMessages \o FactsAfter \in Seq(Message)
      BY <1>3, ConcatProperties
    <2> QED BY <2>1, <2>2, AppendIsConcat
  <1> QED BY <1>2, <1>9, <1>10 DEF Recovered

(* An artifact is no part of the transcript.                               *)
LEMMA ArtifactRecovered ==
    ASSUME IInv, NEW a \in Artifact, PutRow(a), checkpoint' = checkpoint
    PROVE  Recovered' = Recovered
  <1> DEFINE e == [kind |-> "artifact", data |-> a]
  <1>1. CASE a \in artifacts
    BY <1>1 DEF PutRow, Recovered, BaseMessages, FactsAfter, LaterInOrder, LaterFacts,
                Covers, IsFact, JournalHead
  <1>2. CASE a \notin artifacts
    <2>1. e \in Entry /\ e.kind # "message" /\ journal' = Append(journal, e)
      BY <1>2 DEF Entry, PutRow
    <2> HIDE DEF e
    <2>2. /\ \A s \in 1..Len(journal) : journal'[s] = journal[s]
          /\ BaseMessages' = BaseMessages
          /\ LaterInOrder' = LaterInOrder
      BY <2>1, RowAtEnd
    <2>3. \A j \in DOMAIN LaterInOrder : LaterInOrder[j] \in 1..Len(journal)
      BY RecoveredType, ElementOfSeq
    <2>4. FactsAfter' = FactsAfter
      BY <2>2, <2>3 DEF FactsAfter
    <2> QED BY <2>2, <2>4 DEF Recovered
  <1> QED BY <1>1, <1>2

(* A committed compaction leaves its candidate to be rebuilt, and nothing  *)
(* after it.                                                               *)
LEMMA CommitRecovered ==
    ASSUME IInv, NEW h \in Handle, att[h].stage = "commit", HeadUnmoved(h), CommitRows(h)
    PROVE  Recovered' = Messages(att[h].items)
  <1> PICK n : n = Len(journal)
    OBVIOUS
  <1>1. /\ BaseMessages' = Messages(att[h].items) /\ Covers' = n /\ n \in Nat
        /\ Len(journal') = n + 2
        /\ journal'[n + 1].kind = "compaction" /\ journal'[n + 2].kind = "checkpoint"
    BY HandleFacts, CommittedBase
  <1>2. LaterFacts' = {}
    <2>1. \A s \in (n + 1)..(n + 2) : s = n + 1 \/ s = n + 2
      BY <1>1
    <2> QED BY <1>1, <2>1 DEF LaterFacts, IsFact, JournalHead
  <1>3. LaterInOrder' = <<>>
    <2>1. InOrder({})[n + 2] \in Seq({} \cap (1..(n + 2)))
      BY <1>1, InOrderType
    <2>2. \A q \in Seq({}) : q = <<>>
      OBVIOUS
    <2>3. InOrder({})[n + 2] = <<>>
      BY <2>1, <2>2
    <2> QED BY <1>1, <1>2, <2>3 DEF LaterInOrder, JournalHead
  <1>4. FactsAfter' = <<>>
    BY <1>3 DEF FactsAfter
  <1>5. Messages(att[h].items) \in Seq(Message)
    BY HandleFacts, MessagesOf
  <1>6. Messages(att[h].items) \o <<>> = Messages(att[h].items)
    BY <1>5, ConcatEmptySeq
  <1> QED BY <1>1, <1>4, <1>6 DEF Recovered

-----------------------------------------------------------------------------
(* A session alone on its rows: the store and the context in step.         *)

(* The frontier follows the journal, and a resume would rebuild the        *)
(* context.                                                                *)
Lone(h) ==
    /\ sess[h].phase = "deferred" => journal = <<>>
    /\ sess[h].phase = "durable" =>
          /\ Recovered = Messages(sess[h].items)
          /\ att[h].stage = "idle" => sess[h].frontier = JournalHead
          /\ att[h].stage # "idle" =>
                att[h].frontier = JournalHead /\ sess[h].frontier <= JournalHead
          /\ att[h].stage \in {"decide", "commit"} => sess[h].frontier = JournalHead

LoneInv == OrderedInv /\ \A h \in Handle : Lone(h)

(* What a step may do to what a resume would rebuild.                      *)
TranscriptStep ==
    \/ Recovered' = Recovered
    \/ \E m \in Message : Recovered' = Append(Recovered, m)
    \/ Condensed(Recovered, Recovered')

LoneStep(h) == Lone(h)' /\ TranscriptStep

(* Nothing is recovered from an empty journal.                             *)
LEMMA EmptyRecovered ==
    ASSUME IInv, journal = <<>>
    PROVE  Recovered = <<>> /\ checkpoint = NoCheckpoint /\ LaterFacts = {}
  <1>1. Len(journal) = 0
    OBVIOUS
  <1>2. checkpoint = NoCheckpoint
    BY <1>1 DEF IInv, TypeOK, CheckpointSealsJournal, JournalHead, Checkpoint
  <1>3. LaterFacts = {}
    BY <1>1 DEF LaterFacts, IsFact, JournalHead
  <1>4. InOrder(LaterFacts)[0] = <<>>
    BY InOrderStep
  <1>5. FactsAfter = <<>>
    BY <1>1, <1>4 DEF FactsAfter, LaterInOrder, JournalHead
  <1> QED BY <1>2, <1>3, <1>5 DEF Recovered, BaseMessages

(* Nothing changes what is recovered while the rows stay.                  *)
LEMMA SameRecovered ==
    ASSUME journal' = journal, checkpoint' = checkpoint
    PROVE  Recovered' = Recovered /\ JournalHead' = JournalHead
  BY DEF Recovered, BaseMessages, FactsAfter, LaterInOrder, LaterFacts, Covers, IsFact,
         JournalHead

(* The messages of an extended context.                                    *)
LEMMA MessagesAppend ==
    ASSUME NEW items \in Seq(Item), NEW it \in Item
    PROVE  Messages(Append(items, it)) = Append(Messages(items), it.msg)
  <1> PICK longer, old : longer = Append(items, it) /\ old = Messages(items)
    OBVIOUS
  <1>n. PICK n \in Nat : n = Len(items)
    BY LenProperties
  <1>b. PICK b \in Nat : b = n + 1
    OBVIOUS
  <1>1. /\ longer \in Seq(Item) /\ Len(longer) = b /\ longer[b] = it
        /\ \A i \in 1..n : longer[i] = items[i]
    BY <1>n, <1>b, AppendProperties
  <1>2. it.msg \in Message
    BY DEF Item
  <1>3. /\ old \in Seq(Message) /\ Len(old) = n
        /\ \A i \in 1..n : old[i] = items[i].msg
    BY <1>n, MessagesOf
  <1>4. /\ Append(old, it.msg) \in Seq(Message) /\ Len(Append(old, it.msg)) = b
        /\ Append(old, it.msg)[b] = it.msg
        /\ \A i \in 1..n : Append(old, it.msg)[i] = old[i]
    BY <1>b, <1>2, <1>3, AppendProperties
  <1>5. /\ Messages(longer) \in Seq(Message) /\ Len(Messages(longer)) = b
        /\ \A i \in 1..b : Messages(longer)[i] = longer[i].msg
    BY <1>1, MessagesOf
  <1>6. \A i \in 1..b : i = b \/ i \in 1..n
    BY <1>b
  <1>7. \A i \in 1..b : Messages(longer)[i] = Append(old, it.msg)[i]
    BY <1>1, <1>3, <1>4, <1>5, <1>6
  <1> QED BY <1>4, <1>5, <1>7, SameSequence

(* What a lone session's invariant says of the handle that moves.          *)
LEMMA LoneFacts ==
    ASSUME LoneInv, NEW h \in Handle
    PROVE  /\ OrderedInv /\ IInv /\ TypeOK /\ Lone(h)
           /\ sess[h] \in Session /\ att[h] \in Attempt
           /\ DOMAIN sess = Handle /\ DOMAIN att = Handle
           /\ sess[h].items \in Seq(Item) /\ JournalHead \in Nat
           /\ att[h].stage # "idle" => sess[h].phase = "durable"
           /\ sess[h].phase \in {"down", "deferred"} => sess[h].items = <<>>
  BY HandleFacts DEF LoneInv, OrderedInv, IInv, ShapeOf, JournalHead

(* Ending a process leaves nothing to keep in step.                        *)
LEMMA LoneDown ==
    ASSUME LoneInv, NEW h \in Handle, sess'[h].phase = "down", TranscriptStep
    PROVE  LoneStep(h)
  BY DEF LoneStep, Lone

(* Losing authority leaves nothing to keep in step.                        *)
LEMMA LonePoisoned ==
    ASSUME LoneInv, NEW h \in Handle, sess'[h].phase = "failed", TranscriptStep
    PROVE  LoneStep(h)
  BY DEF LoneStep, Lone

(* Steps that leave the rows and the context alone, and keep the frontier. *)
LEMMA LoneQuiet ==
    ASSUME LoneInv, NEW h \in Handle, journal' = journal, checkpoint' = checkpoint,
           sess[h].phase = "durable", sess'[h].phase = "durable",
           sess'[h].items = sess[h].items,
           att'[h].stage = "idle" => sess'[h].frontier = JournalHead,
           att'[h].stage # "idle" =>
              att'[h].frontier = JournalHead /\ sess'[h].frontier <= JournalHead,
           att'[h].stage \in {"decide", "commit"} => sess'[h].frontier = JournalHead
    PROVE  LoneStep(h)
  <1>1. Recovered' = Recovered /\ JournalHead' = JournalHead
    BY SameRecovered
  <1>2. Recovered = Messages(sess[h].items)
    BY DEF LoneInv, Lone
  <1>3. Messages(sess'[h].items) = Messages(sess[h].items)
    OBVIOUS
  <1> QED BY <1>1, <1>2, <1>3 DEF LoneStep, Lone, TranscriptStep

(* audit_journal passes: the session's own frontier and lineage hold.      *)
LEMMA LoneAudit ==
    ASSUME LoneInv, NEW h \in Handle, CompactionReady(h)
    PROVE  AuditHolds(h)
  <1>1. sess[h].frontier = JournalHead
    BY DEF LoneInv, Lone, CompactionReady, Idle
  <1>2. ASSUME NEW i \in DOMAIN sess[h].items, sess[h].items[i].verbatim
        PROVE  /\ IsFact(sess[h].items[i].from)
               /\ journal[sess[h].items[i].from].data = sess[h].items[i].msg
    <2>1. sess[h].items[i] \in Live(h)
      BY DEF Live, Range
    <2>2. ItemOK(sess[h].items[i])
      BY <2>1, LoneFacts, HandleFacts
    <2> QED BY <1>2, <2>2 DEF ItemOK, SoundItem
  <1> QED BY <1>1, <1>2 DEF AuditHolds

(* A fresh identity, and an ended process.                                 *)
LEMMA LoneOpen ==
    ASSUME LoneInv, NEW h \in Handle, Open(h) \/ Crash(h)
    PROVE  LoneStep(h)
  <1>1. Recovered' = Recovered
    BY SameRecovered DEF Open, Crash
  <1>2. CASE Open(h)
    <2>1. sess'[h].phase = "deferred" /\ journal' = <<>>
      BY <1>2, LoneFacts DEF Open
    <2> QED BY <1>1, <2>1 DEF LoneStep, Lone, TranscriptStep
  <1>3. CASE Crash(h)
    <2>1. sess'[h].phase = "down"
      BY <1>3, LoneFacts DEF Crash, NoSession
    <2> QED BY <1>1, <2>1, LoneDown DEF TranscriptStep
  <1> QED BY <1>2, <1>3

(* A message with a receipt joins the context and what is recovered; one   *)
(* without ends the session's authority.                                   *)
LEMMA LonePush ==
    ASSUME LoneInv, NEW h \in Handle, Push(h)
    PROVE  LoneStep(h)
  <1> SUFFICES ASSUME NEW m \in NewMessage, NEW human \in BOOLEAN,
                      \/ PushJournaled(h, m, human)
                      \/ \E kept \in BOOLEAN : PushFailed(h, m, human, kept)
                      \/ PushMemoryOnly(h, m, human)
               PROVE  LoneStep(h)
    BY DEF Push
  <1>1. m \in Message
    BY DEF NewMessage, Message
  <1>2. IInv /\ TypeOK
    BY LoneFacts
  <1>3. CASE PushJournaled(h, m, human)
    <2> DEFINE slim == m.kind = "full" /\ m.body \in Slimmable
    <2> PICK items, seq, it : /\ items = sess[h].items /\ seq = JournalHead + 1
                              /\ it = Appended(m, seq, human, slim)
      OBVIOUS
    <2>1. seq \in Nat /\ slim \in BOOLEAN
      BY LoneFacts
    <2>2. it \in Item /\ it.msg = m /\ items \in Seq(Item)
      BY <1>1, <2>1, AppendedType, LoneFacts DEF Appended
    <2> HIDE DEF slim
    <2>3. /\ sess'[h].phase = "durable"
          /\ sess'[h].items = Append(items, it)
          /\ sess'[h].frontier = seq
          /\ att'[h].stage = "idle"
          /\ journal' = Append(journal, [kind |-> "message", data |-> m])
          /\ checkpoint' = checkpoint
      BY <1>3, LoneFacts DEF PushJournaled, PushReady, Idle, Pushed, slim
    <2>4. Recovered' = Append(Recovered, m)
      BY <1>1, <1>2, <2>3, MessageRecovered
    <2>5. Recovered = Messages(items)
      <3>1. CASE sess[h].phase = "durable"
        BY <3>1 DEF LoneInv, Lone
      <3>2. CASE sess[h].phase = "deferred"
        <4>1. journal = <<>> /\ items = <<>>
          BY <3>2, LoneFacts DEF LoneInv, Lone
        <4> QED BY <1>2, <4>1, EmptyRecovered DEF Messages
      <3> QED BY <1>3, <3>1, <3>2 DEF PushJournaled
    <2>6. Messages(sess'[h].items) = Append(Messages(items), m)
      BY <2>2, <2>3, MessagesAppend
    <2>7. JournalHead' = seq
      <3>1. journal \in Seq(Entry) /\ [kind |-> "message", data |-> m] \in Entry
        BY <1>1, <1>2 DEF TypeOK, Entry
      <3> QED BY <2>3, <3>1, AppendProperties DEF JournalHead
    <2> QED BY <1>1, <2>3, <2>4, <2>5, <2>6, <2>7 DEF LoneStep, Lone, TranscriptStep
  <1>4. ASSUME NEW kept \in BOOLEAN, PushFailed(h, m, human, kept)
        PROVE  LoneStep(h)
    <2>1. sess'[h].phase = "failed" /\ checkpoint' = checkpoint
      BY <1>4, LoneFacts DEF PushFailed
    <2>2. TranscriptStep
      <3>1. CASE kept
        <4>1. Recovered' = Append(Recovered, m)
          BY <1>1, <1>2, <1>4, <2>1, <3>1, MessageRecovered DEF PushFailed
        <4> QED BY <1>1, <4>1 DEF TranscriptStep
      <3>2. CASE ~kept
        BY <1>4, <2>1, <3>2, SameRecovered DEF PushFailed, TranscriptStep
      <3> QED BY <3>1, <3>2
    <2> QED BY <2>1, <2>2, LonePoisoned
  <1>5. CASE PushMemoryOnly(h, m, human)
    <2>1. /\ sess[h].phase = "failed" /\ sess'[h].phase = "failed"
          /\ journal' = journal /\ checkpoint' = checkpoint
      BY <1>5, LoneFacts DEF PushMemoryOnly
    <2> QED BY <2>1, SameRecovered, LonePoisoned DEF TranscriptStep
  <1> QED BY <1>3, <1>4, <1>5

(* A spilled payload moves the attempt's frontier with the journal.        *)
LEMMA LonePut ==
    ASSUME LoneInv, NEW h \in Handle, NEW i \in 1..att[h].split, PutCommitted(h, i),
           PayloadArtifact(att[h].items[i].msg) \in Artifact
    PROVE  LoneStep(h)
  <1> PICK a : a = PayloadArtifact(att[h].items[i].msg)
    OBVIOUS
  <1>1. /\ att[h].stage = "spill" /\ att'[h].stage = "spill"
        /\ att'[h].frontier = IF a \in artifacts THEN att[h].frontier ELSE JournalHead + 1
        /\ sess' = sess /\ checkpoint' = checkpoint /\ PutRow(a)
        /\ sess[h].phase = "durable"
    BY LoneFacts DEF PutCommitted, SpillTarget, Attempt
  <1>2. Recovered' = Recovered
    BY <1>1, LoneFacts, ArtifactRecovered
  <1>3. JournalHead' = IF a \in artifacts THEN JournalHead ELSE JournalHead + 1
    <2>1. journal \in Seq(Entry) /\ [kind |-> "artifact", data |-> a] \in Entry
      BY LoneFacts DEF TypeOK, Entry
    <2> QED BY <1>1, <2>1, AppendProperties DEF PutRow, JournalHead
  <1>4. /\ Recovered = Messages(sess[h].items) /\ att[h].frontier = JournalHead
        /\ sess[h].frontier <= JournalHead /\ sess[h].frontier \in Nat /\ JournalHead \in Nat
    BY <1>1, LoneFacts DEF LoneInv, Lone, Session
  <1>5. att'[h].frontier = JournalHead' /\ sess'[h].frontier <= JournalHead'
    BY <1>1, <1>3, <1>4
  <1> QED BY <1>1, <1>2, <1>4, <1>5 DEF LoneStep, Lone, TranscriptStep

(* A committed candidate is the context and what is recovered.             *)
LEMMA LoneCommit ==
    ASSUME LoneInv, NEW h \in Handle, att[h].stage = "commit", HeadUnmoved(h), CommitRows(h)
    PROVE  /\ Recovered' = Messages(att[h].items)
           /\ JournalHead' = JournalHead + 2
           /\ Condensed(Recovered, Recovered')
  <1>1. IInv /\ OrderedInv /\ sess[h].phase = "durable"
    BY LoneFacts
  <1>2. Recovered' = Messages(att[h].items)
    BY <1>1, CommitRecovered
  <1>3. JournalHead' = JournalHead + 2
    BY <1>1, CommittedBase DEF JournalHead
  <1>4. Condensed(Messages(sess[h].items), Messages(att[h].items))
    BY <1>1, OrderFacts DEF Candidate
  <1>5. Recovered = Messages(sess[h].items)
    BY <1>1 DEF LoneInv, Lone
  <1> QED BY <1>2, <1>3, <1>4, <1>5

(* No step of the pipeline takes a lone session out of step.               *)
LEMMA LoneCompact ==
    ASSUME LoneInv, OrderedInv', NEW h \in Handle, Compact(h)
    PROVE  LoneStep(h)
  <1>1. /\ sess[h] \in Session /\ att[h] \in Attempt /\ JournalHead \in Nat
        /\ DOMAIN sess = Handle /\ DOMAIN att = Handle
        /\ att[h].stage # "idle" => sess[h].phase = "durable"
        /\ sess[h].phase = "durable" =>
              /\ att[h].stage = "idle" => sess[h].frontier = JournalHead
              /\ att[h].stage # "idle" =>
                    att[h].frontier = JournalHead /\ sess[h].frontier <= JournalHead
              /\ att[h].stage \in {"decide", "commit"} => sess[h].frontier = JournalHead
    BY LoneFacts DEF LoneInv, Lone
  <1>2. LoseAuthority(h) => sess'[h].phase = "failed"
    BY <1>1 DEF LoseAuthority, Session
  <1>3. journal' = journal /\ checkpoint' = checkpoint => TranscriptStep
    BY SameRecovered DEF TranscriptStep
  <1>4. \A i : SpillTarget(h, i) => PayloadArtifact(att[h].items[i].msg) \in Artifact
    <2> SUFFICES ASSUME NEW i, SpillTarget(h, i)
                 PROVE  PayloadArtifact(att[h].items[i].msg) \in Artifact
      OBVIOUS
    <2>1. att[h].split \in 0..Len(att[h].items) /\ att[h].items \in Seq(Item)
      BY LoneFacts, HandleFacts DEF ShapeOf, SpillTarget
    <2>2. att[h].items[i] \in Item
      BY <1>1, <2>1 DEF SpillTarget, Attempt
    <2> QED BY <2>2, PayloadArtifactType DEF SpillTarget, Spillable, Item
  <1>5. ASSUME NEW k \in 0..MaxActive, AuditPasses(h, k) PROVE LoneStep(h)
    <2>1. /\ sess' = sess /\ journal' = journal /\ checkpoint' = checkpoint
          /\ sess[h].phase = "durable" /\ att[h].stage = "idle"
          /\ att'[h].stage = "spill" /\ att'[h].frontier = sess[h].frontier
      BY <1>1, <1>5 DEF AuditPasses, CompactionReady, Idle
    <2> QED BY <1>1, <2>1, LoneQuiet DEF Session
  <1>6. ~AuditFails(h)
    BY LoneAudit DEF AuditFails
  <1>7. ASSUME NEW i \in 1..att[h].split,
               \/ PutCommitted(h, i) \/ PutSkipped(h, i) \/ PutConflict(h, i)
               \/ \E kept \in BOOLEAN : PutUnknown(h, i, kept)
        PROVE  LoneStep(h)
    <2>1. CASE PutCommitted(h, i)
      BY <1>4, <2>1, LonePut DEF PutCommitted
    <2>2. CASE PutSkipped(h, i)
      <3>1. /\ sess' = sess /\ journal' = journal /\ checkpoint' = checkpoint
            /\ att[h].stage = "spill"
            /\ att'[h].stage = "spill" /\ att'[h].frontier = att[h].frontier
        BY <1>1, <2>2 DEF PutSkipped, SpillTarget, Attempt
      <3> QED BY <1>1, <3>1, LoneQuiet
    <2>3. ~PutConflict(h, i)
      BY <1>1 DEF PutConflict, SpillTarget, HeadUnmoved
    <2>4. ASSUME NEW kept \in BOOLEAN, PutUnknown(h, i, kept) PROVE LoneStep(h)
      <3>1. sess'[h].phase = "failed" /\ checkpoint' = checkpoint
        BY <1>2, <2>4 DEF PutUnknown
      <3>2. TranscriptStep
        <4>1. CASE kept
          BY <1>4, <2>4, <3>1, <4>1, LoneFacts, ArtifactRecovered DEF PutUnknown, TranscriptStep
        <4>2. CASE ~kept
          BY <1>3, <2>4, <3>1, <4>2 DEF PutUnknown
        <4> QED BY <4>1, <4>2
      <3> QED BY <3>1, <3>2, LonePoisoned
    <2> QED BY <1>7, <2>1, <2>2, <2>3, <2>4
  <1>8. SpillDone(h) => LoneStep(h)
    <2> SUFFICES ASSUME SpillDone(h) PROVE LoneStep(h)
      OBVIOUS
    <2>1. /\ journal' = journal /\ checkpoint' = checkpoint
          /\ att[h].stage = "spill" /\ att'[h].stage = "decide"
          /\ att'[h].frontier = att[h].frontier
          /\ sess'[h].phase = sess[h].phase /\ sess'[h].items = sess[h].items
          /\ sess'[h].frontier = IF att[h].frontier > sess[h].frontier
                                 THEN att[h].frontier ELSE sess[h].frontier
      BY <1>1 DEF SpillDone, Session, Attempt
    <2>2. sess'[h].frontier = JournalHead
      BY <1>1, <2>1 DEF Session
    <2> QED BY <1>1, <2>1, <2>2, LoneQuiet
  <1>9. ASSUME NEW slim \in SUBSET SlimCandidates(h), Deterministic(h, slim)
        PROVE  LoneStep(h)
    <2>1. /\ sess' = sess /\ journal' = journal /\ checkpoint' = checkpoint
          /\ att[h].stage = "decide" /\ att'[h].stage = "commit"
          /\ att'[h].frontier = att[h].frontier
      BY <1>1, <1>9 DEF Deterministic, Attempt
    <2> QED BY <1>1, <2>1, LoneQuiet
  <1>10. ASSUME NEW lo \in 1..att[h].split, NEW hi \in 1..att[h].split,
                NEW refs \in SUBSET UNION {att[h].items[i].refs : i \in DOMAIN att[h].items},
                Semantic(h, lo, hi, refs)
         PROVE  LoneStep(h)
    <2>1. /\ sess' = sess /\ journal' = journal /\ checkpoint' = checkpoint
          /\ att[h].stage = "decide" /\ att'[h].stage = "commit"
          /\ att'[h].frontier = att[h].frontier
      BY <1>1, <1>10 DEF Semantic, Attempt
    <2> QED BY <1>1, <2>1, LoneQuiet
  <1>11. NothingToRewrite(h) \/ SourceRefused(h) => LoneStep(h)
    BY <1>2, <1>3, LonePoisoned DEF NothingToRewrite, SourceRefused
  <1>12. Bypass(h) => LoneStep(h)
    <2> SUFFICES ASSUME Bypass(h) PROVE LoneStep(h)
      OBVIOUS
    <2>1. /\ sess' = sess /\ journal' = journal /\ checkpoint' = checkpoint
          /\ att[h].stage \in {"decide", "commit"} /\ att'[h].stage = "idle"
      BY <1>1 DEF Bypass, NoAttempt
    <2> QED BY <1>1, <2>1, LoneQuiet
  <1>13. CommitInstalled(h) => LoneStep(h)
    <2> SUFFICES ASSUME CommitInstalled(h) PROVE LoneStep(h)
      OBVIOUS
    <2>1. /\ att[h].stage = "commit" /\ HeadUnmoved(h) /\ CommitRows(h)
          /\ sess'[h].phase = "durable" /\ sess'[h].items = att[h].items
          /\ sess'[h].frontier = JournalHead + 2 /\ att'[h].stage = "idle"
      BY <1>1 DEF CommitInstalled, NoAttempt, Session
    <2>2. /\ Recovered' = Messages(att[h].items) /\ JournalHead' = JournalHead + 2
          /\ Condensed(Recovered, Recovered')
      BY <2>1, LoneCommit
    <2>3. Messages(sess'[h].items) = Messages(att[h].items)
      BY <2>1
    <2> QED BY <2>1, <2>2, <2>3 DEF LoneStep, Lone, TranscriptStep
  <1>14. ~CommitConflict(h)
    BY <1>1 DEF CommitConflict, HeadUnmoved
  <1>15. ASSUME NEW kept \in BOOLEAN, CommitUnknown(h, kept) PROVE LoneStep(h)
    <2>1. sess'[h].phase = "failed"
      BY <1>2, <1>15 DEF CommitUnknown
    <2>2. TranscriptStep
      <3>1. CASE kept
        BY <1>15, <3>1, LoneCommit DEF CommitUnknown, TranscriptStep
      <3>2. CASE ~kept
        BY <1>3, <1>15, <3>2 DEF CommitUnknown
      <3> QED BY <3>1, <3>2
    <2> QED BY <2>1, <2>2, LonePoisoned
  <1> QED BY <1>5, <1>6, <1>7, <1>8, <1>9, <1>10, <1>11, <1>12, <1>13, <1>14, <1>15
          DEF Compact

(* A resume shows exactly what the rows recover.                           *)
LEMMA LoneResume ==
    ASSUME LoneInv, TypeOK', NEW h \in Handle, ResumeAny(h)
    PROVE  LoneStep(h)
  <1>1. PICK f \in CursorRuns : Resume(h, f, LaterInOrder)
    BY DEF ResumeAny
  <1> PICK items, later, n, m :
        /\ items = sess'[h].items /\ later = LaterInOrder
        /\ n = Len(BaseMessages) /\ m = Len(later)
    OBVIOUS
  <1>2. items \in Seq(Item)
    BY DEF TypeOK, Session
  <1>3. /\ Resumed(items, f, later)
        /\ sess'[h].phase = "durable" /\ sess'[h].frontier = JournalHead
        /\ att' = att /\ journal' = journal /\ checkpoint' = checkpoint
        /\ sess[h].phase = "down"
    BY <1>1, <1>2, LoneFacts, ResumeInstalls
  <1>4. /\ FactsAfter = FactsOf(journal, later) /\ FactsAfter \in Seq(Message)
        /\ Len(FactsAfter) = m /\ DOMAIN later = 1..m /\ m \in Nat
        /\ BaseMessages \in Seq(Message) /\ Recovered \in Seq(Message)
        /\ n \in Nat
    BY LoneFacts, RecoveredType, LenProperties
  <1>5. /\ Messages(items) \in Seq(Message) /\ Len(Messages(items)) = Len(items)
        /\ \A i \in 1..Len(items) : Messages(items)[i] = items[i].msg
    BY <1>2, MessagesOf
  <1>6. /\ Len(Recovered) = n + m
        /\ \A i \in 1..(n + m) :
              Recovered[i] = IF i <= n THEN BaseMessages[i] ELSE FactsAfter[i - n]
    <2> PICK base, facts, all : /\ base = BaseMessages /\ facts = FactsAfter
                                /\ all = base \o facts
      OBVIOUS
    <2>1. base \in Seq(Message) /\ facts \in Seq(Message)
      BY <1>4
    <2>2. /\ Len(all) = Len(base) + Len(facts)
          /\ \A i \in 1..(Len(base) + Len(facts)) :
                all[i] = IF i <= Len(base) THEN base[i] ELSE facts[i - Len(base)]
      BY <2>1, ConcatProperties
    <2>3. Recovered = all /\ Len(base) = n /\ Len(facts) = m
      BY <1>4 DEF Recovered
    <2> QED BY <2>2, <2>3
  <1>7. ASSUME NEW i \in 1..(n + m) PROVE Messages(items)[i] = Recovered[i]
    <2>1. Messages(items)[i] = items[i].msg
      BY <1>3, <1>5 DEF Resumed
    <2>2. CASE i <= n
      <3>1. items[i] = RestoredItem(f, i)
        BY <1>3, <1>4, <2>2 DEF Resumed
      <3>2. RestoredItem(f, i).msg = BaseMessages[i]
        BY DEF RestoredItem, Derived, Appended
      <3> QED BY <1>6, <2>1, <2>2, <3>1, <3>2
    <2>3. CASE i > n
      <3>n. PICK j \in 1..m : i = n + j
        <4>1. i - n \in 1..m /\ i = n + (i - n)
          BY <1>4, <2>3
        <4> QED BY <4>1
      <3>1. items[n + j] = Appended(journal[later[j]].data, later[j], FALSE, FALSE)
        BY <1>3 DEF Resumed
      <3>2. items[n + j].msg = journal[later[j]].data
        BY <3>1 DEF Appended
      <3>3. FactsAfter[j] = journal[later[j]].data
        BY <1>4 DEF FactsOf
      <3>4. Recovered[i] = FactsAfter[j]
        <4>1. i - n = j /\ ~(i <= n)
          BY <1>4, <3>n
        <4> QED BY <1>6, <4>1
      <3> QED BY <2>1, <3>n, <3>2, <3>3, <3>4
    <2> QED BY <1>4, <2>2, <2>3
  <1>8. Len(items) = n + m
    BY <1>3 DEF Resumed
  <1>9. Messages(items) = Recovered
    BY <1>4, <1>5, <1>6, <1>7, <1>8, SameSequence
  <1>10. att[h].stage = "idle"
    BY <1>3, LoneFacts
  <1>11. Recovered' = Recovered /\ JournalHead' = JournalHead
    BY <1>3, SameRecovered
  <1> QED BY <1>3, <1>9, <1>10, <1>11 DEF LoneStep, Lone, TranscriptStep

(* Alone on its rows, a session and its store stay in step.                *)
LEMMA NextLone ==
    ASSUME Sole, LoneInv, NEW h \in Handle,
           Open(h) \/ Push(h) \/ Crash(h) \/ Compact(h) \/ ResumeAny(h)
    PROVE  LoneInv' /\ TranscriptStep
  <1>1. OrderedInv'
    BY NextOrdered DEF LoneInv
  <1>2. LoneStep(h)
    BY <1>1, LoneOpen, LonePush, LoneCompact, LoneResume DEF OrderedInv, IInv
  <1>3. \A g \in Handle : g = h
    BY DEF Sole
  <1> QED BY <1>1, <1>2, <1>3 DEF LoneStep, LoneInv

\* It holds before anything was opened.
LEMMA InitLone == Init => LoneInv
  <1>1. Init => OrderedInv
    BY InitOrdered
  <1>2. Init => \A h \in Handle : sess[h].phase = "down"
    BY DEF Init, NoSession
  <1> QED BY <1>1, <1>2 DEF LoneInv, Lone

(* The invariant of a lone session, step by step.                          *)
LEMMA StepLone == Sole /\ LoneInv /\ [Next]_vars => LoneInv' /\ TranscriptStep
  <1> SUFFICES ASSUME Sole, LoneInv, [Next]_vars PROVE LoneInv' /\ TranscriptStep
    OBVIOUS
  <1>1. CASE Next
    BY <1>1, NextLone DEF Next
  <1>2. CASE UNCHANGED vars
    <2>1. OrderedInv'
      BY <1>2, StepOrdered DEF LoneInv
    <2>2. /\ journal' = journal /\ checkpoint' = checkpoint
          /\ sess' = sess /\ att' = att
      BY <1>2 DEF vars
    <2>3. Recovered' = Recovered /\ JournalHead' = JournalHead
      BY <2>2, SameRecovered
    <2>4. \A h \in Handle : Messages(sess'[h].items) = Messages(sess[h].items)
      BY <2>2
    <2> QED BY <2>1, <2>2, <2>3, <2>4 DEF LoneInv, Lone, TranscriptStep
  <1> QED BY <1>1, <1>2

(* With one handle the store and the live context never come apart.        *)
THEOREM LoneKept == Sole => (Spec => []LoneInv)
  <1> SUFFICES ASSUME Sole PROVE Spec => []LoneInv
    OBVIOUS
  <1>1. LoneInv /\ [Next]_vars => LoneInv'
    BY StepLone
  <1> QED BY <1>1, InitLone, PTL DEF Spec

(* A lone session has no conflict with itself: authority goes only with a  *)
(* failing store call or a refused request.                                *)
LEMMA LonePoisonCauses ==
    ASSUME LoneInv, NEW h \in Handle, Poisoned(h),
           Open(h) \/ Push(h) \/ Crash(h) \/ Compact(h) \/ ResumeAny(h)
    PROVE  StoreFails(h) \/ SourceRefused(h) \/ NothingToRewrite(h)
  <1>1. /\ sess[h] \in Session /\ DOMAIN sess = Handle
        /\ att[h].stage # "idle" => sess[h].phase = "durable" /\ att[h].frontier = JournalHead
        /\ sess[h].phase # "failed" /\ sess'[h].phase = "failed"
    BY LoneFacts DEF LoneInv, Lone, Poisoned
  <1>2. ~(Open(h) \/ Crash(h) \/ ResumeAny(h))
    <2>1. ~Open(h) /\ ~Crash(h)
      BY <1>1 DEF Open, Crash, NoSession, Session
    <2>2. ResumeAny(h) => sess'[h].phase = "durable"
      BY <1>1 DEF ResumeAny, Resume, Session
    <2> QED BY <1>1, <2>1, <2>2
  <1>3. CASE Push(h)
    <2> PICK m \in NewMessage, human \in BOOLEAN :
               \/ PushJournaled(h, m, human)
               \/ \E kept \in BOOLEAN : PushFailed(h, m, human, kept)
               \/ PushMemoryOnly(h, m, human)
      BY <1>3 DEF Push
    <2>1. ~PushJournaled(h, m, human) /\ ~PushMemoryOnly(h, m, human)
      BY <1>1 DEF PushJournaled, PushMemoryOnly
    <2> QED BY <2>1 DEF StoreFails
  <1>4. CASE Compact(h)
    <2>1. sess'[h].phase # sess[h].phase
      BY <1>1
    <2>2. \A k \in 0..MaxActive : ~AuditPasses(h, k)
      BY <2>1 DEF AuditPasses
    <2>3. ~AuditFails(h)
      BY LoneAudit DEF AuditFails
    <2>4. \A i \in 1..att[h].split :
             ~PutCommitted(h, i) /\ ~PutSkipped(h, i) /\ ~PutConflict(h, i)
      BY <1>1, <2>1 DEF PutCommitted, PutSkipped, PutConflict, SpillTarget, HeadUnmoved
    <2>5. ~SpillDone(h) /\ ~Bypass(h)
      BY <1>1, <2>1 DEF SpillDone, Bypass, Session
    <2>6. \A slim \in SUBSET SlimCandidates(h) : ~Deterministic(h, slim)
      BY <2>1 DEF Deterministic
    <2>7. \A lo, hi \in 1..att[h].split :
             \A refs \in SUBSET UNION {att[h].items[i].refs : i \in DOMAIN att[h].items} :
                ~Semantic(h, lo, hi, refs)
      BY <2>1 DEF Semantic
    <2>8. ~CommitInstalled(h)
      BY <1>1, <2>1 DEF CommitInstalled, Session
    <2>9. ~CommitConflict(h)
      BY <1>1 DEF CommitConflict, HeadUnmoved
    <2> QED BY <1>4, <2>2, <2>3, <2>4, <2>5, <2>6, <2>7, <2>8, <2>9 DEF Compact, StoreFails
  <1> QED BY <1>2, <1>3, <1>4

(* AuthorityKept: alone on its rows, a session passes its own audit, and   *)
(* it loses its authority only in the step in which a store call fails or  *)
(* in which the summary request it built is refused (audit_journal,        *)
(* bind_summary_source, invalidates_persistence_authority).                *)
THEOREM AuthorityStays == Spec => AuthorityKept
  <1> DEFINE Causes == Sole => \A h \in Handle :
                  Poisoned(h) => StoreFails(h) \/ SourceRefused(h) \/ NothingToRewrite(h)
  <1>1. CASE Sole
    <2>1. LoneInv => OwnAuditHolds
      BY LoneAudit DEF OwnAuditHolds
    <2>2. LoneInv /\ [Next]_vars => [Causes]_vars
      <3> SUFFICES ASSUME LoneInv, Next, NEW g \in Handle, Poisoned(g)
                   PROVE  StoreFails(g) \/ SourceRefused(g) \/ NothingToRewrite(g)
        OBVIOUS
      <3>1. PICK h \in Handle : Open(h) \/ Push(h) \/ Crash(h) \/ Compact(h) \/ ResumeAny(h)
        BY DEF Next
      <3>2. h = g
        BY <1>1 DEF Sole
      <3> QED BY <3>1, <3>2, LonePoisonCauses
    <2> QED BY <1>1, <2>1, <2>2, LoneKept, PTL DEF Spec, AuthorityKept
  <1>2. CASE ~Sole
    <2>1. OwnAuditHolds
      BY <1>2 DEF OwnAuditHolds
    <2>2. [Next]_vars => [Causes]_vars
      BY <1>2
    <2> QED BY <2>1, <2>2, PTL DEF Spec, AuthorityKept
  <1> QED BY <1>1, <1>2

(* ResumesAsLeft: whatever crash, conflict or failed call came before, a   *)
(* resume is not rejected and, with one handle, rebuilds exactly what the  *)
(* session was showing (match_journal_fact, messages_after).               *)
THEOREM AlwaysResumesAsLeft == Spec => []ResumesAsLeft
  <1>1. CASE Sole
    <2>1. LoneInv => ResumesAsLeft
      BY CursorExists DEF ResumesAsLeft, Recoverable, ResumeFaithful, LoneInv, Lone,
                          CompactionReady
    <2> QED BY <1>1, <2>1, LoneKept, PTL
  <1>2. CASE ~Sole
    <2>1. OrderedInv => ResumesAsLeft
      BY <1>2, CursorExists DEF ResumesAsLeft, Recoverable, ResumeFaithful
    <2> QED BY <2>1, OrderKept, PTL
  <1> QED BY <1>1, <1>2

(* What a step does to what is recovered is a step of DurableTranscript.   *)
LEMMA TranscriptStepAllowed ==
    ASSUME IInv, TranscriptStep
    PROVE  [Transcript!Next]_Recovered
  <1>1. Recovered \in Seq(Message)
    BY RecoveredType
  <1>2. ASSUME NEW m \in Message, Recovered' = Append(Recovered, m) PROVE Transcript!Say
    <2> PICK old, new : old = Recovered /\ new = Append(old, m)
      OBVIOUS
    <2>n. PICK n \in Nat : n = Len(old)
      BY <1>1, LenProperties
    <2>1. new \in Seq(Message) /\ Len(new) = n + 1 /\ \A i \in 1..n : new[i] = old[i]
      BY <1>1, <2>n, AppendProperties
    <2>2. SubSeq(new, 1, n) \in Seq(Message) /\ Len(SubSeq(new, 1, n)) = n
          /\ \A i \in 1..n : SubSeq(new, 1, n)[i] = new[i]
      BY <2>1, <2>n, SubSeqProperties
    <2>3. SubSeq(new, 1, n) = old
      BY <1>1, <2>n, <2>1, <2>2, SameSequence
    <2> QED BY <1>2, <2>n, <2>1, <2>3 DEF Transcript!Say
  <1>3. Condensed(Recovered, Recovered') => Transcript!Condense
    BY DEF Condensed, Transcript!Condense, Transcript!Condenses, Transcript!Kept, Kept
  <1> QED BY <1>2, <1>3 DEF TranscriptStep, Transcript!Next

(* ImplementsTranscript: with one handle the rows implement the abstract   *)
(* transcript - only a message and a committed compaction change what a    *)
(* resume would rebuild.                                                   *)
THEOREM RefinesTranscript == Sole => (Spec => ImplementsTranscript)
  <1> SUFFICES ASSUME Sole PROVE Spec => ImplementsTranscript
    OBVIOUS
  <1>1. Init => Transcript!Init
    BY InitLone, EmptyRecovered DEF LoneInv, OrderedInv, Init, Transcript!Init
  <1>2. LoneInv /\ [Next]_vars => [Transcript!Next]_Recovered
    BY StepLone, TranscriptStepAllowed DEF LoneInv, OrderedInv
  <1> QED BY <1>1, <1>2, LoneKept, PTL DEF Spec, ImplementsTranscript, Transcript!Spec

-----------------------------------------------------------------------------
(* Every journaled message is accounted for.                               *)

(* A call is answered by at most one journaled result.                     *)
IdsOnce == \A s, t \in 1..JournalHead :
    /\ IsFact(s) /\ IsFact(t)
    /\ IsResult(journal[s].data) /\ IsResult(journal[t].data)
    /\ journal[s].data.id = journal[t].data.id
    => s = t

(* A message of the checkpoint stands for the fact at position s.          *)
StandsFor(m, s) ==
    \/ m.kind = "summary" /\ m.body.from <= s /\ s <= m.body.to
    \/ m.kind # "summary" /\ Explains(s, m)

AccountedBase ==
    \A s \in 1..Covers : IsFact(s) => \E i \in DOMAIN BaseMessages : StandsFor(BaseMessages[i], s)

(* What the live context and the checkpoint account for.                   *)
AccountInv ==
    /\ LoneInv
    /\ IdsOnce
    /\ Distinct => /\ AccountedBase
                   /\ \A h \in Handle : sess[h].phase = "durable" => Accounted(h)

(* The facts after a step: those before it and the messages it journaled.  *)
JournalStep ==
    \/ \A s \in 1..JournalHead' : IsFact(s)' => IsFact(s)
    \/ \E m \in NewMessage :
          /\ journal' = Append(journal, [kind |-> "message", data |-> m])
          /\ checkpoint' = checkpoint

(* Facts stay, with their content; distinct contents were distinct before. *)
LEMMA FactsStay ==
    ASSUME IInv, Grown
    PROVE  /\ \A s \in 1..JournalHead : IsFact(s) => IsFact(s)'
           /\ \A s \in 1..JournalHead : IsFact(s)' => IsFact(s)
           /\ \A s \in 1..JournalHead : journal'[s] = journal[s]
           /\ JournalHead \in Nat /\ JournalHead <= JournalHead'
           /\ Distinct' => Distinct
  <1>1. /\ JournalHead \in Nat /\ JournalHead <= JournalHead' /\ JournalHead' = Len(journal')
        /\ \A s \in 1..JournalHead : journal'[s] = journal[s]
    BY LenProperties DEF IInv, TypeOK, Grown, JournalHead
  <1>2. \A s \in 1..JournalHead : (IsFact(s) => IsFact(s)') /\ (IsFact(s)' => IsFact(s))
    BY FactKept, <1>1 DEF IsFact
  <1>3. \A s \in 1..JournalHead : s \in 1..JournalHead'
    <2> PICK n, k : n = JournalHead /\ k = JournalHead'
      OBVIOUS
    <2>1. n \in Nat /\ n <= k /\ k \in Nat
      BY <1>1, FactKept, LenProperties DEF Grown, IInv, TypeOK, JournalHead
    <2> QED BY <2>1
  <1> QED BY <1>1, <1>2, <1>3 DEF Distinct

(* An artifact row adds no fact.                                           *)
LEMMA RowNoFact ==
    ASSUME IInv, Grown, NEW a, PutRow(a)
    PROVE  \A s \in 1..JournalHead' : IsFact(s)' => IsFact(s)
  <1>1. CASE a \in artifacts
    BY <1>1 DEF PutRow, IsFact, JournalHead
  <1>2. CASE a \notin artifacts
    <2>1. journal' = Append(journal, [kind |-> "artifact", data |-> a])
      BY <1>2 DEF PutRow
    <2> PICK e, n : e = [kind |-> "artifact", data |-> a] /\ n = JournalHead
      OBVIOUS
    <2>2. /\ journal \in Seq(Entry) /\ e.kind = "artifact" /\ journal' = Append(journal, e)
          /\ n \in Nat
      BY <2>1, FactsStay DEF IInv, TypeOK
    <2>3. Len(journal') = n + 1 /\ journal'[n + 1] = e
      BY <2>2 DEF JournalHead
    <2>4. JournalHead' = n + 1 /\ ~IsFact(n + 1)'
      BY <2>2, <2>3 DEF IsFact, JournalHead
    <2>5. \A s \in 1..JournalHead' : s \in 1..n \/ s = n + 1
      BY <2>2, <2>4
    <2>6. \A s \in 1..n : IsFact(s)' => IsFact(s)
      BY FactsStay
    <2> QED BY <2>4, <2>5, <2>6
  <1> QED BY <1>1, <1>2

(* Which facts a step adds.                                                *)
LEMMA StepFacts ==
    ASSUME IInv, Grown, NEW h \in Handle,
           Open(h) \/ Push(h) \/ Crash(h) \/ Compact(h) \/ ResumeAny(h)
    PROVE  JournalStep
  <1>1. journal' = journal => JournalStep
    BY DEF JournalStep, IsFact, JournalHead
  <1>2. ASSUME NEW a, PutRow(a) PROVE JournalStep
    BY <1>2, RowNoFact DEF JournalStep
  <1>3. ASSUME att[h].stage = "commit", HeadUnmoved(h), CommitRows(h) PROVE JournalStep
    <2> PICK n : n = JournalHead
      OBVIOUS
    <2>1. /\ Len(journal') = n + 2 /\ n \in Nat
          /\ journal'[n + 1].kind = "compaction"
          /\ journal'[n + 2].kind = "checkpoint"
      BY <1>3, CommittedBase, FactsStay DEF JournalHead
    <2>2. JournalHead' = n + 2
      BY <2>1 DEF JournalHead
    <2>3. ~IsFact(n + 1)' /\ ~IsFact(n + 2)'
      BY <2>1 DEF IsFact
    <2>4. \A s \in 1..JournalHead' : s \in 1..n \/ s = n + 1 \/ s = n + 2
      BY <2>1, <2>2
    <2>5. \A s \in 1..n : IsFact(s)' => IsFact(s)
      BY FactsStay
    <2> QED BY <2>3, <2>4, <2>5 DEF JournalStep
  <1>4. Open(h) \/ Crash(h) \/ ResumeAny(h) => JournalStep
    BY <1>1 DEF Open, Crash, ResumeAny, Resume
  <1>5. Push(h) => JournalStep
    <2> SUFFICES ASSUME NEW m \in NewMessage, NEW human \in BOOLEAN,
                        \/ PushJournaled(h, m, human)
                        \/ \E kept \in BOOLEAN : PushFailed(h, m, human, kept)
                        \/ PushMemoryOnly(h, m, human)
                 PROVE  JournalStep
      BY DEF Push
    <2> QED BY <1>1 DEF PushJournaled, PushFailed, PushMemoryOnly, JournalStep
  <1>6. Compact(h) => JournalStep
    BY <1>1, <1>2, <1>3 DEF Compact, AuditPasses, AuditFails, PutCommitted, PutSkipped,
         PutConflict, PutUnknown, SpillDone, Deterministic, Semantic, SourceRefused,
         NothingToRewrite, Bypass, CommitInstalled, CommitConflict, CommitUnknown
  <1> QED BY <1>4, <1>5, <1>6

(* A new message has a call id no journaled result has.                    *)
LEMMA StepIdsOnce ==
    ASSUME IInv, Grown, JournalStep, IdsOnce
    PROVE  IdsOnce'
  <1>1. ASSUME \A s \in 1..JournalHead' : IsFact(s)' => IsFact(s) PROVE IdsOnce'
    BY <1>1, FactsStay, FactKept DEF IdsOnce, IsFact
  <1>2. ASSUME NEW m \in NewMessage, journal' = Append(journal, [kind |-> "message", data |-> m])
        PROVE  IdsOnce'
    <2> PICK e, n : e = [kind |-> "message", data |-> m] /\ n = JournalHead
      OBVIOUS
    <2>1. /\ journal \in Seq(Entry) /\ e.data = m /\ journal' = Append(journal, e) /\ n \in Nat
      BY <1>2, FactsStay DEF IInv, TypeOK
    <2>2. Len(journal') = n + 1 /\ journal'[n + 1] = e
      BY <2>1 DEF JournalHead
    <2>3. \A s \in 1..JournalHead' : s \in 1..n \/ s = n + 1
      BY <2>1, <2>2 DEF JournalHead
    <2>4. IsResult(m) => \A s \in 1..n : IsFact(s) => journal[s].data.id # m.id
      <3> SUFFICES ASSUME IsResult(m), NEW s \in 1..n, IsFact(s)
                   PROVE  journal[s].data.id # m.id
        OBVIOUS
      <3>1. m.id \notin UsedIds
        BY DEF NewMessage, TextMessage, IsResult
      <3>2. journal[s].data.id \in UsedIds
        BY DEF UsedIds
      <3> QED BY <3>1, <3>2
    <2>5. \A s \in 1..n : journal'[s] = journal[s] /\ (IsFact(s)' => IsFact(s))
      BY FactsStay
    <2> SUFFICES ASSUME NEW s \in 1..JournalHead', NEW t \in 1..JournalHead',
                        IsFact(s)', IsFact(t)',
                        IsResult(journal'[s].data), IsResult(journal'[t].data),
                        journal'[s].data.id = journal'[t].data.id
                 PROVE  s = t
      BY DEF IdsOnce, IsResult
    <2>6. CASE s \in 1..n /\ t \in 1..n
      BY <2>5, <2>6 DEF IdsOnce
    <2>7. CASE s \in 1..n /\ t = n + 1
      BY <2>1, <2>2, <2>4, <2>5, <2>7
    <2>8. CASE s = n + 1 /\ t \in 1..n
      BY <2>1, <2>2, <2>4, <2>5, <2>8
    <2> QED BY <2>3, <2>6, <2>7, <2>8
  <1> QED BY <1>1, <1>2 DEF JournalStep

(* At most one fact explains a message, when contents are distinct.        *)
LEMMA ExplainsOnce ==
    ASSUME IdsOnce, Distinct, NEW m, NEW s, NEW t,
           IsFact(s), IsFact(t), Explains(s, m), Explains(t, m)
    PROVE  s = t
  <1>1. s \in 1..JournalHead /\ t \in 1..JournalHead
    BY DEF IsFact
  <1>2. CASE journal[s].data = m /\ journal[t].data = m
    BY <1>1, <1>2 DEF Distinct
  <1>3. CASE ~(journal[s].data = m /\ journal[t].data = m)
    <2>1. /\ IsResult(journal[s].data) /\ IsResult(journal[t].data)
          /\ journal[s].data.id = journal[t].data.id
      BY <1>3 DEF Explains
    <2> QED BY <1>1, <2>1 DEF IdsOnce
  <1> QED BY <1>2, <1>3

(* While the checkpoint stays, so does what it accounts for.               *)
LEMMA BaseAccounted ==
    ASSUME OrderedInv, Grown, checkpoint' = checkpoint, AccountedBase
    PROVE  AccountedBase'
  <1>1. Covers' = Covers /\ BaseMessages' = BaseMessages
    BY DEF Covers, BaseMessages
  <1>2. \A s \in 1..Covers : s \in 1..JournalHead
    BY BaseFacts DEF JournalHead
  <1>3. ASSUME NEW s \in 1..Covers, NEW m, StandsFor(m, s) PROVE StandsFor(m, s)'
    <2>1. journal'[s] = journal[s]
      BY <1>2, FactsStay DEF OrderedInv
    <2> QED BY <1>3, <2>1 DEF StandsFor, Explains, IsResult
  <1>4. ASSUME NEW s \in 1..Covers, IsFact(s)'
        PROVE  \E i \in DOMAIN BaseMessages : StandsFor(BaseMessages[i], s)'
    <2>1. IsFact(s)
      BY <1>2, <1>4, FactsStay DEF OrderedInv
    <2>2. PICK i \in DOMAIN BaseMessages : StandsFor(BaseMessages[i], s)
      BY <2>1 DEF AccountedBase
    <2>3. StandsFor(BaseMessages[i], s)'
      <3> PICK m : m = BaseMessages[i]
        OBVIOUS
      <3>1. StandsFor(m, s)'
        BY <1>3, <2>2
      <3> QED BY <1>1, <3>1
    <2> QED BY <2>3
  <1> QED BY <1>1, <1>4 DEF AccountedBase

(* A candidate accounts for what its context accounted for.                *)
LEMMA CandidateAccounts ==
    ASSUME OrderedInv, NEW h \in Handle, att[h].stage = "commit", Accounted(h),
           NEW s \in 1..JournalHead, IsFact(s)
    PROVE  CoveredBy(att[h].items, s)
  <1>1. s \in Nat
    BY HandleFacts DEF OrderedInv, JournalHead
  <1>2. CoveredBy(sess[h].items, s)
    BY DEF Accounted, CoveredBy
  <1> QED BY <1>1, <1>2, OrderFacts DEF Candidate

(* The committed checkpoint stands for every fact below it.                *)
LEMMA CommitAccounted ==
    ASSUME OrderedInv, Grown, NEW h \in Handle, att[h].stage = "commit",
           HeadUnmoved(h), CommitRows(h), Accounted(h)
    PROVE  AccountedBase'
  <1> PICK items, n : items = att[h].items /\ n = JournalHead
    OBVIOUS
  <1>1. IInv /\ n \in Nat /\ items \in Seq(Item) /\ sess[h].phase = "durable"
        /\ Ordered(items)
    BY HandleFacts, OrderFacts DEF OrderedInv, ShapeOf, JournalHead, Candidate
  <1>2. BaseMessages' = Messages(items) /\ Covers' = n
    BY <1>1, CommittedBase DEF JournalHead
  <1>3. ASSUME NEW s \in 1..n, IsFact(s)'
        PROVE  (\E i \in DOMAIN BaseMessages : StandsFor(BaseMessages[i], s))'
    <2>1. IsFact(s)
      BY <1>1, <1>3, FactsStay
    <2>2. PICK it \in Range(items) : it.from <= s /\ s <= it.to
      BY <2>1, CandidateAccounts DEF CoveredBy
    <2>3. PICK i \in DOMAIN items : it = items[i]
      BY DEF Range
    <2>4. it \in Live(h)
      BY DEF Live
    <2>5. it \in Item /\ ItemOK(it) /\ Covered(it)
      BY <1>1, <2>4, HandleFacts
    <2>6. i \in DOMAIN BaseMessages' /\ BaseMessages'[i] = it.msg
      BY <1>1, <1>2, <2>3, MessagesOf
    <2>7. StandsFor(it.msg, s)'
      <3>1. CASE it.msg.kind = "summary"
        BY <2>2, <2>5, <3>1 DEF ItemOK, StandsFor
      <3>2. CASE it.msg.kind # "summary"
        <4>1. /\ it.from = it.to /\ Explains(it.from, it.msg)
              /\ it.from \in 1..JournalHead
          BY <1>1, <2>3, <2>4, <2>5, <3>2, CoveredFact DEF JournalHead
        <4>2. it.from = s
          BY <1>1, <2>2, <2>5, <4>1 DEF Item
        <4>3. journal'[s] = journal[s]
          BY <1>1, FactsStay
        <4> QED BY <3>2, <4>1, <4>2, <4>3 DEF StandsFor, Explains, IsResult
      <3> QED BY <3>1, <3>2
    <2>8. StandsFor(BaseMessages[i], s)'
      <3> PICK m : m = it.msg
        OBVIOUS
      <3>1. StandsFor(m, s)' /\ BaseMessages'[i] = m
        BY <2>6, <2>7
      <3> QED BY <3>1 DEF StandsFor
    <2> QED BY <2>6, <2>8
  <1> QED BY <1>2, <1>3 DEF AccountedBase

(* A resumed context accounts for every fact: through the checkpoint's     *)
(* messages and their one explanation, or by showing it.                   *)
LEMMA ResumeAccounts ==
    ASSUME OrderedInv, IdsOnce, Distinct, AccountedBase,
           NEW f \in CursorRuns, NEW items, NEW later, Resumed(items, f, later),
           NEW s \in 1..JournalHead, IsFact(s)
    PROVE  CoveredBy(items, s)
  <1> PICK n, m : n = Len(BaseMessages) /\ m = Len(later)
    OBVIOUS
  <1>1. /\ n \in Nat /\ m \in Nat /\ Covers \in Nat /\ JournalHead \in Nat
        /\ items \in Seq(Item) /\ Len(items) = n + m
        /\ DOMAIN BaseMessages = 1..n
    BY BaseFacts DEF Resumed, JournalHead
  <1>2. DOMAIN items = 1..(n + m) /\ s \in Nat
    BY <1>1, LenProperties
  <1>3. CASE s > Covers
    <2>1. s \in LaterFacts
      BY <1>1, <1>3 DEF LaterFacts
    <2>2. PICK j \in 1..m : later[j] = s
      BY <2>1 DEF Resumed
    <2>3. items[n + j] = Appended(journal[s].data, s, FALSE, FALSE)
      BY <2>2 DEF Resumed
    <2>4. n + j \in DOMAIN items
      BY <1>1, <1>2
    <2>5. items[n + j].from <= s /\ s <= items[n + j].to
      BY <1>2, <2>3 DEF Appended
    <2> QED BY <2>4, <2>5 DEF CoveredBy, Range
  <1>4. CASE s <= Covers
    <2>1. s \in 1..Covers
      BY <1>1, <1>2, <1>4
    <2>2. PICK i \in 1..n : StandsFor(BaseMessages[i], s)
      BY <1>1, <2>1 DEF AccountedBase
    <2>3. items[i] = RestoredItem(f, i) /\ i \in DOMAIN items
      BY <1>1, <1>2 DEF Resumed
    <2>4. items[i].from <= s /\ s <= items[i].to
      <3>1. CASE BaseMessages[i].kind = "summary"
        BY <2>2, <2>3, <3>1 DEF StandsFor, RestoredItem, Derived
      <3>2. CASE BaseMessages[i].kind # "summary"
        <4>1. i \in Unproven /\ Explains(s, BaseMessages[i])
          BY <1>1, <2>2, <3>2 DEF Unproven, StandsFor
        <4>2. IsFact(f[i]) /\ Explains(f[i], BaseMessages[i])
          BY <4>1 DEF CursorRuns, IsCursorRun
        <4>3. f[i] = s
          BY <4>1, <4>2, ExplainsOnce
        <4>4. items[i].from = s /\ items[i].to = s
          BY <2>3, <3>2, <4>3 DEF RestoredItem, Appended, Derived
        <4> QED BY <1>2, <4>4
      <3> QED BY <3>1, <3>2
    <2> QED BY <2>3, <2>4 DEF CoveredBy, Range
  <1> QED BY <1>1, <1>2, <1>3, <1>4

(* With the context in place, a step that journals no message leaves every *)
(* fact accounted for.                                                     *)
LEMMA QuietAccounted ==
    ASSUME IInv, Grown, NEW h \in Handle, Accounted(h),
           sess'[h].items = sess[h].items,
           \A s \in 1..JournalHead' : IsFact(s)' => IsFact(s)
    PROVE  Accounted(h)'
  <1>1. \A s : IsFact(s) => s \in 1..JournalHead
    BY DEF IsFact
  <1> QED BY <1>1 DEF Accounted

(* The message of a receipt is covered at its own position.                *)
LEMMA PushAccounted ==
    ASSUME LoneInv, Grown, NEW h \in Handle, NEW m \in NewMessage, NEW human \in BOOLEAN,
           PushJournaled(h, m, human), sess[h].phase = "durable" => Accounted(h)
    PROVE  Accounted(h)'
  <1> DEFINE slim == m.kind = "full" /\ m.body \in Slimmable
  <1> PICK items, n, b, it, e : /\ items = sess[h].items /\ n = JournalHead /\ b = n + 1
                                /\ it = Appended(m, b, human, slim)
                                /\ e = [kind |-> "message", data |-> m]
    OBVIOUS
  <1>1. /\ IInv /\ n \in Nat /\ b \in Nat /\ slim \in BOOLEAN /\ m \in Message
        /\ items \in Seq(Item) /\ journal \in Seq(Entry)
    BY LoneFacts DEF NewMessage, Message, TypeOK
  <1>2. it \in Item /\ it.from = b /\ it.to = b
    BY <1>1, AppendedType DEF Appended
  <1> HIDE DEF slim
  <1>3. sess'[h].items = Append(items, it) /\ journal' = Append(journal, e)
    BY LoneFacts DEF PushJournaled, Pushed, slim
  <1>4. JournalHead' = b
    BY <1>1, <1>3 DEF JournalHead
  <1>5. Range(sess'[h].items) = Range(items) \cup {it}
    BY <1>1, <1>2, <1>3, RangeAppend
  <1>6. ASSUME NEW s \in 1..n, IsFact(s)' PROVE CoveredBy(items, s)
    <2>1. IsFact(s)
      BY <1>1, <1>6, FactsStay
    <2>2. CASE sess[h].phase = "durable"
      BY <2>1, <2>2 DEF Accounted, CoveredBy
    <2>3. CASE sess[h].phase = "deferred"
      <3>1. n = 0
        BY <2>3 DEF LoneInv, Lone, JournalHead
      <3> QED BY <3>1
    <2> QED BY <2>2, <2>3 DEF PushJournaled
  <1>7. ASSUME NEW s \in 1..b, IsFact(s)'
        PROVE  \E x \in Range(sess'[h].items) : x.from <= s /\ s <= x.to
    <2>1. CASE s = b
      BY <1>1, <1>2, <1>5, <2>1
    <2>2. CASE s # b
      <3>1. s \in 1..n
        BY <1>1, <2>2
      <3> QED BY <1>5, <1>6, <1>7, <3>1 DEF CoveredBy
    <2> QED BY <2>1, <2>2
  <1> QED BY <1>4, <1>7 DEF Accounted

(* Every step of a session that ends with authority accounts for every     *)
(* fact, when it did before.                                               *)
LEMMA StepAccounted ==
    ASSUME LoneInv, IdsOnce, Distinct, AccountedBase, Grown, TypeOK', NEW h \in Handle,
           sess[h].phase = "durable" => Accounted(h),
           Open(h) \/ Push(h) \/ Crash(h) \/ Compact(h) \/ ResumeAny(h),
           sess'[h].phase = "durable"
    PROVE  Accounted(h)'
  <1>1. /\ OrderedInv /\ IInv /\ JournalHead \in Nat
        /\ sess[h] \in Session /\ att[h] \in Attempt /\ DOMAIN sess = Handle
        /\ att[h].stage # "idle" => sess[h].phase = "durable"
    BY LoneFacts
  <1>2. journal' = journal => \A s \in 1..JournalHead' : IsFact(s)' => IsFact(s)
    BY DEF IsFact, JournalHead
  <1>3. ~(Open(h) \/ Crash(h))
    BY <1>1 DEF Open, Crash, NoSession, Session
  <1>4. ~LoseAuthority(h)
    BY <1>1 DEF LoseAuthority, Session
  <1>5. CASE Push(h)
    <2>1. PICK m \in NewMessage, human \in BOOLEAN :
             \/ PushJournaled(h, m, human)
             \/ \E kept \in BOOLEAN : PushFailed(h, m, human, kept)
             \/ PushMemoryOnly(h, m, human)
      BY <1>5 DEF Push
    <2>2. ~PushMemoryOnly(h, m, human) /\ \A kept \in BOOLEAN : ~PushFailed(h, m, human, kept)
      BY <1>1 DEF PushMemoryOnly, PushFailed, Session
    <2> QED BY <2>1, <2>2, PushAccounted
  <1>6. CASE ResumeAny(h)
    <2>1. PICK f \in CursorRuns : Resume(h, f, LaterInOrder)
      BY <1>6 DEF ResumeAny
    <2>2. sess'[h].items \in Seq(Item)
      BY DEF TypeOK, Session
    <2>3. Resumed(sess'[h].items, f, LaterInOrder) /\ journal' = journal
      BY <1>1, <2>1, <2>2, ResumeInstalls
    <2>4. ASSUME NEW s \in 1..JournalHead, IsFact(s) PROVE CoveredBy(sess'[h].items, s)
      BY <1>1, <2>3, <2>4, ResumeAccounts
    <2>5. JournalHead' = JournalHead /\ \A s : IsFact(s)' <=> IsFact(s)
      BY <2>3 DEF JournalHead, IsFact
    <2> QED BY <2>4, <2>5 DEF Accounted, CoveredBy
  <1>7. CASE Compact(h)
    <2>1. sess[h].phase = "durable"
      <3>1. CASE att[h].stage # "idle"
        BY <1>1, <3>1
      <3>2. CASE att[h].stage = "idle"
        BY <1>7, <3>2 DEF Compact, AuditPasses, AuditFails, CompactionReady, PutCommitted,
             PutSkipped, PutConflict, PutUnknown, SpillTarget, SpillDone, Deterministic,
             Semantic, SourceRefused, NothingToRewrite, Bypass, CommitInstalled,
             CommitConflict, CommitUnknown
      <3> QED BY <3>1, <3>2
    <2>2. Accounted(h)
      BY <2>1
    <2>3. CASE CommitInstalled(h)
      <3> PICK items, n : items = att[h].items /\ n = JournalHead
        OBVIOUS
      <3>1. /\ sess'[h].items = items /\ att[h].stage = "commit"
            /\ HeadUnmoved(h) /\ CommitRows(h)
        BY <1>1, <2>3 DEF CommitInstalled, Session
      <3>2. \A s \in 1..n : IsFact(s) => CoveredBy(items, s)
        BY <1>1, <2>2, <3>1, CandidateAccounts
      <3>3. ASSUME NEW s \in 1..JournalHead', IsFact(s)' PROVE s \in 1..n /\ IsFact(s)
        <4>1. /\ Len(journal') = n + 2 /\ n \in Nat
              /\ journal'[n + 1].kind = "compaction"
              /\ journal'[n + 2].kind = "checkpoint"
          BY <1>1, <3>1, CommittedBase DEF JournalHead
        <4>2. s \in 1..n \/ s = n + 1 \/ s = n + 2
          BY <4>1 DEF JournalHead
        <4>3. s \in 1..n
          BY <3>3, <4>1, <4>2 DEF IsFact
        <4> QED BY <1>1, <3>3, <4>3, FactsStay
      <3> QED BY <3>1, <3>2, <3>3 DEF Accounted, CoveredBy
    <2>4. CASE ~CommitInstalled(h)
      <3>1. \A kept \in BOOLEAN : ~CommitUnknown(h, kept)
        BY <1>4 DEF CommitUnknown
      <3>2. sess'[h].items = sess[h].items
        BY <1>1, <1>4, <1>7, <2>4, <3>1 DEF Compact, AuditPasses, AuditFails, PutCommitted,
             PutSkipped, PutConflict, PutUnknown, SpillDone, Deterministic, Semantic,
             SourceRefused, NothingToRewrite, Bypass, CommitConflict, Session
      <3>3. JournalStep
        BY <1>1, <1>7, StepFacts
      <3>4. \A s \in 1..JournalHead' : IsFact(s)' => IsFact(s)
        <4>1. journal' = journal \/ \E a \in Artifact \cup {PayloadArtifact(att[h].items[i].msg) :
                                                         i \in 1..att[h].split} : PutRow(a)
          BY <1>4, <1>7, <2>4, <3>1 DEF Compact, AuditPasses, AuditFails, PutCommitted,
               PutSkipped, PutConflict, PutUnknown, SpillDone, Deterministic, Semantic,
               SourceRefused, NothingToRewrite, Bypass, CommitConflict
        <4>2. ASSUME NEW a, PutRow(a) PROVE \A s \in 1..JournalHead' : IsFact(s)' => IsFact(s)
          BY <1>1, <1>2, <4>2, RowNoFact
        <4> QED BY <1>2, <4>1, <4>2
      <3> QED BY <1>1, <2>2, <3>2, <3>4, QuietAccounted
    <2> QED BY <2>3, <2>4
  <1> QED BY <1>3, <1>5, <1>6, <1>7

(* What is accounted for stays accounted for.                              *)
LEMMA NextAccounted ==
    ASSUME Sole, AccountInv, NEW h \in Handle,
           Open(h) \/ Push(h) \/ Crash(h) \/ Compact(h) \/ ResumeAny(h)
    PROVE  AccountInv'
  <1>1. /\ LoneInv /\ OrderedInv /\ IInv /\ IdsOnce
        /\ Grown /\ LoneInv' /\ TypeOK'
    BY NextOrdered, NextLone DEF AccountInv, LoneInv, OrderedInv, IInv
  <1>2. IdsOnce'
    BY <1>1, StepFacts, StepIdsOnce
  <1>3. ASSUME Distinct'
        PROVE  AccountedBase' /\ \A g \in Handle : sess'[g].phase = "durable" => Accounted(g)'
    <2>1. Distinct /\ AccountedBase /\ (sess[h].phase = "durable" => Accounted(h))
      BY <1>1, <1>3, FactsStay DEF AccountInv
    <2>2. AccountedBase'
      <3>1. CASE checkpoint' = checkpoint
        BY <1>1, <2>1, <3>1, BaseAccounted
      <3>2. CASE att[h].stage = "commit" /\ HeadUnmoved(h) /\ CommitRows(h)
        BY <1>1, <2>1, <3>2, CommitAccounted, LoneFacts
      <3> QED BY <3>1, <3>2, CheckpointStep DEF CheckpointMoves
    <2>3. sess'[h].phase = "durable" => Accounted(h)'
      BY <1>1, <2>1, StepAccounted
    <2> QED BY <2>2, <2>3 DEF Sole
  <1> QED BY <1>1, <1>2, <1>3 DEF AccountInv

\* It holds before anything was opened.
LEMMA InitAccounted == Init => AccountInv
  <1> SUFFICES ASSUME Init PROVE AccountInv
    OBVIOUS
  <1>1. LoneInv
    BY InitLone
  <1>2. JournalHead = 0 /\ Covers = 0 /\ \A h \in Handle : sess[h].phase = "down"
    BY DEF Init, JournalHead, Covers, NoSession
  <1> QED BY <1>1, <1>2 DEF AccountInv, IdsOnce, AccountedBase

(* The accounting of a lone session is inductive.                          *)
LEMMA StepsAccounted == Sole /\ AccountInv /\ [Next]_vars => AccountInv'
  <1> SUFFICES ASSUME Sole, AccountInv, [Next]_vars PROVE AccountInv'
    OBVIOUS
  <1>1. CASE Next
    BY <1>1, NextAccounted DEF Next
  <1>2. CASE UNCHANGED vars
    <2>1. LoneInv'
      BY <1>2, StepLone DEF AccountInv
    <2>2. journal' = journal /\ checkpoint' = checkpoint /\ sess' = sess
      BY <1>2 DEF vars
    <2> QED BY <2>1, <2>2 DEF AccountInv, IdsOnce, Distinct, AccountedBase, Accounted, IsFact,
            JournalHead, Covers, BaseMessages, StandsFor, Explains
  <1> QED BY <1>1, <1>2

(* NothingForgotten: with one handle and distinct contents every journaled *)
(* message is shown, rewritten in place, or in the range of a summary,     *)
(* through every compaction, crash and resume.                             *)
THEOREM NothingIsForgotten == Spec => []NothingForgotten
  <1>1. CASE Sole
    <2>1. AccountInv => NothingForgotten
      BY DEF AccountInv, NothingForgotten, CompactionReady
    <2>2. AccountInv /\ [Next]_vars => AccountInv'
      BY <1>1, StepsAccounted
    <2> QED BY <2>1, <2>2, InitAccounted, PTL DEF Spec
  <1>2. CASE ~Sole
    <2>1. NothingForgotten
      BY <1>2 DEF NothingForgotten
    <2> QED BY <2>1, PTL
  <1> QED BY <1>1, <1>2

===============================================================================
