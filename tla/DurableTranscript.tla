--------------------------- MODULE DurableTranscript ---------------------------
(***************************************************************************)
(* What a durable session promises to whoever resumes it: one transcript   *)
(* that only grows by a message at its end or is condensed by compaction.  *)
(* Crashes, failed or ambiguous store calls and resumes are stutters.      *)
(***************************************************************************)
EXTENDS Naturals, Sequences

CONSTANTS
    Renders(_, _),  \* Renders(new, old): new shows old, in full or rewritten
    IsSummary(_)    \* a message that stands for a prefix

VARIABLE transcript

Init == transcript = <<>>

Say ==
    /\ Len(transcript') = Len(transcript) + 1
    /\ SubSeq(transcript', 1, Len(transcript)) = transcript

Kept(messages) == {i \in DOMAIN messages : ~IsSummary(messages[i])}

(* The last message survives, a summary is only ever the first message,    *)
(* every other message renders an earlier one in the original order, and   *)
(* messages disappear only behind a summary.                               *)
Condenses(old, new) ==
    /\ Len(new) \in 1..Len(old)
    /\ new[Len(new)] = old[Len(old)]
    /\ \A i \in DOMAIN new : IsSummary(new[i]) => i = 1
    /\ \E e \in [Kept(new) -> DOMAIN old] :
          /\ \A i \in Kept(new) : Renders(new[i], old[e[i]])
          /\ \A i, j \in Kept(new) : i < j => e[i] < e[j]
    /\ Len(new) < Len(old) => IsSummary(new[1])

(* The transcript before and after the step.                               *)
Condense == \E old \in {transcript}, new \in {transcript'} : Condenses(old, new)

Next == Say \/ Condense

Spec == Init /\ [][Next]_transcript

=============================================================================
