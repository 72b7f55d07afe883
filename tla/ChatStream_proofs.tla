---------------------------- MODULE ChatStream_proofs ----------------------------
(***************************************************************************)
(* Proofs about ChatStream: whatever a provider says, however it is cut     *)
(* into fragments, frames and network chunks and in whatever order the      *)
(* fragments of parallel calls come, the terminal message is the one-shot   *)
(* message, an empty reasoning field apart, and the caller saw it once.     *)
(***************************************************************************)
EXTENDS ChatStream, Counting, SequenceTheorems

Symbol == {"a", " ", "r", "z", "{", "}"}
Answer == [text : Seq(Symbol), refusal : Seq({"r"}),
           reasoned : BOOLEAN, reasoning : Seq(Symbol),
           calls : [Indexes -> [known : BOOLEAN, args : Seq(Symbol)]], finished : BOOLEAN]
PartialCall == [index : Indexes, known : BOOLEAN, args : Seq(Symbol), announced : BOOLEAN]

\* An answer is a text or a refusal, reasoning comes in its field, and a call
\* begins with its head.
Speakable(answer) ==
    /\ answer.reasoning # <<>> => answer.reasoned
    /\ answer.text = <<>> \/ answer.refusal = <<>>
    /\ \A i \in Indexes : ~answer.calls[i].known => answer.calls[i].args = <<>>

\* What the provider has sent is what has arrived, and at most a line more.
LineFollows ==
    \/ line = NoFrame /\ sent = received
    \/ line \in NextFrames(received) /\ sent = AddFrame(received, line)

\* Each call of the answer has one place in the assembler, in the order it
\* was announced in, and the arguments that have arrived.
CallsAgree ==
    /\ asm.calls \in Seq(PartialCall)
    /\ \A p, q \in DOMAIN asm.calls : asm.calls[p].index = asm.calls[q].index => p = q
    /\ \A p \in DOMAIN asm.calls :
          /\ asm.calls[p].announced
          /\ received.calls[asm.calls[p].index].known
          /\ received.calls[asm.calls[p].index].args = asm.calls[p].args
    /\ \A i \in Indexes : received.calls[i].known => \E p \in DOMAIN asm.calls : asm.calls[p].index = i
    /\ Len(shown.starts) = Len(asm.calls)
    /\ \A p \in DOMAIN asm.calls : shown.starts[p] = asm.calls[p].index

StreamType ==
    /\ received \in Answer
    /\ asm = [text |-> asm.text, reasoning |-> asm.reasoning, calls |-> asm.calls]
    /\ shown = [text |-> shown.text, reasoning |-> shown.reasoning, starts |-> shown.starts]
    /\ shown.starts \in Seq(Indexes)

Agreement ==
    /\ StreamType /\ Speakable(received) /\ CallsAgree
    /\ asm.text = received.text \o received.refusal
    /\ asm.reasoning = received.reasoning
    /\ shown.text = asm.text
    /\ shown.reasoning = asm.reasoning

StillPending == channel # "closed" => outcome.kind = "pending"

StreamInv == Agreement /\ LineFollows /\ StillPending /\ TerminalIsOneShot

-----------------------------------------------------------------------------
(* Sorting the calls by their indexes.                                      *)

Indices(calls) == {calls[p].index : p \in DOMAIN calls}
Distinct(calls) == \A p, q \in DOMAIN calls : calls[p].index = calls[q].index => p = q

(* A call has as many before it as there are smaller indexes.               *)
LEMMA BeforeIsRank ==
    ASSUME NEW calls \in Seq(PartialCall), Distinct(calls)
    PROVE  /\ IsFiniteSet(Indices(calls)) /\ Cardinality(Indices(calls)) = Len(calls)
           /\ Indices(calls) \in SUBSET Nat
           /\ \A p \in DOMAIN calls : Cardinality(Before(calls, p)) = CountBelow(Indices(calls), calls[p].index)
  <1>1. DOMAIN calls = 1..Len(calls) /\ Len(calls) \in Nat /\ \A p \in DOMAIN calls : calls[p].index \in Nat
    <2>1. DOMAIN calls = 1..Len(calls) /\ Len(calls) \in Nat
      BY LenProperties
    <2>2. \A p \in 1..Len(calls) : calls[p] \in PartialCall
      BY ElementOfSeq
    <2> QED BY <2>1, <2>2, StreamConstants DEF PartialCall
  <1>2. IsFiniteSet(DOMAIN calls) /\ Cardinality(DOMAIN calls) = Len(calls)
    BY <1>1, FS_Interval
  <1>3. ASSUME NEW P \in SUBSET DOMAIN calls
        PROVE  /\ IsFiniteSet({calls[p].index : p \in P})
               /\ Cardinality({calls[p].index : p \in P}) = Cardinality(P)
    <2>1. PICK f, T : f = [p \in P |-> calls[p].index] /\ T = {calls[p].index : p \in P}
      OBVIOUS
    <2>2. f \in [P -> T] /\ IsInjective(f) /\ \A t \in T : \E p \in P : f[p] = t
      BY <2>1 DEF Distinct, IsInjective
    <2>3. f \in Bijection(P, T)
      BY <2>2 DEF Bijection, Injection, Surjection
    <2>4. IsFiniteSet(P)
      BY <1>2, FS_Subset
    <2>5. IsFiniteSet(T) /\ Cardinality(T) = Cardinality(P)
      BY <2>3, <2>4, FS_Bijection DEF ExistsBijection
    <2> QED BY <2>1, <2>5
  <1>4. IsFiniteSet(Indices(calls)) /\ Cardinality(Indices(calls)) = Len(calls)
    BY <1>2, <1>3 DEF Indices
  <1>5. ASSUME NEW p \in DOMAIN calls
        PROVE  Cardinality(Before(calls, p)) = CountBelow(Indices(calls), calls[p].index)
    <2>1. PICK P : P = Before(calls, p)
      OBVIOUS
    <2>2. P \in SUBSET DOMAIN calls /\ \A q \in DOMAIN calls : q \in P <=> calls[q].index < calls[p].index
      BY <1>1, <2>1 DEF Before, Distinct
    <2>3. {calls[q].index : q \in P} = {j \in Indices(calls) : j < calls[p].index}
      BY <2>2 DEF Indices
    <2> QED BY <1>3, <2>1, <2>2, <2>3 DEF CountBelow
  <1> QED BY <1>1, <1>4, <1>5 DEF Indices

(* Sorting the calls sorts their indexes.                                   *)
LEMMA SortedByIndex ==
    ASSUME NEW calls \in Seq(PartialCall), Distinct(calls), NEW n \in 1..Len(calls)
    PROVE  \E p \in DOMAIN calls :
             /\ ByIndex(calls)[n] = calls[p] /\ Ascending(Indices(calls))[n] = calls[p].index
             /\ \A q \in DOMAIN calls : Cardinality(Before(calls, q)) = n - 1 <=> q = p
  <1>1. PICK K : K = Indices(calls)
    OBVIOUS
  <1>2. IsFiniteSet(K) /\ Cardinality(K) = Len(calls) /\ K \in SUBSET Nat
    BY <1>1, BeforeIsRank
  <1>3. PICK i \in K : CountBelow(K, i) = n - 1 /\ \A j \in K : CountBelow(K, j) = n - 1 => j = i
    BY <1>2, RanksFill
  <1>4. Ascending(K)[n] = i
    BY <1>2, <1>3 DEF Ascending, CountBelow
  <1>5. PICK p \in DOMAIN calls : calls[p].index = i
    BY <1>1 DEF Indices
  <1>6. \A q \in DOMAIN calls : Cardinality(Before(calls, q)) = n - 1 <=> q = p
    <2>1. ASSUME NEW q \in DOMAIN calls PROVE calls[q].index \in K /\ Cardinality(Before(calls, q)) = CountBelow(K, calls[q].index)
      BY <1>1, BeforeIsRank DEF Indices
    <2>2. \A q \in DOMAIN calls : calls[q].index = i => q = p
      BY <1>5 DEF Distinct
    <2> QED BY <1>3, <1>5, <2>1, <2>2
  <1>7. n \in DOMAIN calls
    OBVIOUS
  <1>8. ByIndex(calls)[n] = calls[p]
    BY <1>6, <1>7 DEF ByIndex
  <1> QED BY <1>1, <1>4, <1>5, <1>6, <1>8

-----------------------------------------------------------------------------
(* What the assembler makes of its parts is what the answer is.             *)

(* A refusal is not blank.                                                  *)
LEMMA RefusalSpeaks ==
    ASSUME NEW r \in Seq({"r"})
    PROVE  Blank(r) <=> r = <<>>
  <1>1. r # <<>> => 1 \in DOMAIN r /\ r[1] = "r"
    OBVIOUS
  <1>2. r = <<>> => DOMAIN r = {}
    OBVIOUS
  <1> QED BY <1>1, <1>2 DEF Blank

(* The calls of the answer are those of the assembler, sorted.              *)
LEMMA CallsAreSorted ==
    ASSUME StreamType, CallsAgree
    PROVE  CallsOf(received) = [k \in DOMAIN ByIndex(asm.calls) |->
                                  CallBlock(ByIndex(asm.calls)[k].index, ByIndex(asm.calls)[k].args)]
  <1>1. PICK calls : calls = asm.calls
    OBVIOUS
  <1>2. calls \in Seq(PartialCall) /\ Distinct(calls)
    BY <1>1 DEF CallsAgree, Distinct
  <1>3. {i \in Indexes : received.calls[i].known} = Indices(calls)
    <2>1. \A p \in DOMAIN calls : calls[p].index \in Indexes
      <3>1. \A p \in DOMAIN calls : calls[p] \in PartialCall
        BY <1>2, ElementOfSeq, LenProperties
      <3> QED BY <3>1 DEF PartialCall
    <2>2. \A i \in Indexes : received.calls[i].known <=> \E p \in DOMAIN calls : calls[p].index = i
      BY <1>1 DEF CallsAgree
    <2> QED BY <2>1, <2>2 DEF Indices
  <1>4. DOMAIN ByIndex(calls) = 1..Len(calls)
    BY <1>2 DEF ByIndex
  <1>5. PICK order : order = Ascending(Indices(calls))
    OBVIOUS
  <1>6. DOMAIN order = 1..Len(calls)
    BY <1>2, <1>5, BeforeIsRank DEF Ascending
  <1>7. Len(order) = Len(calls)
    <2>1. Len(calls) \in Nat
      BY <1>2, LenProperties
    <2> QED BY <1>6, <2>1
  <1>8. CallsOf(received) = [k \in 1..Len(calls) |-> CallBlock(order[k], received.calls[order[k]].args)]
    BY <1>3, <1>5, <1>7 DEF CallsOf
  <1>9. ASSUME NEW k \in 1..Len(calls)
        PROVE  CallBlock(order[k], received.calls[order[k]].args)
                 = CallBlock(ByIndex(calls)[k].index, ByIndex(calls)[k].args)
    <2>1. PICK p \in DOMAIN calls : ByIndex(calls)[k] = calls[p] /\ order[k] = calls[p].index
      BY <1>2, <1>5, SortedByIndex
    <2>2. received.calls[calls[p].index].args = calls[p].args
      BY <1>1 DEF CallsAgree
    <2> QED BY <2>1, <2>2
  <1> QED BY <1>1, <1>4, <1>8, <1>9

(* Sorting loses no call.                                                   *)
LEMMA EveryCallIsSorted ==
    ASSUME NEW calls \in Seq(PartialCall), Distinct(calls), NEW p \in DOMAIN calls
    PROVE  \E n \in DOMAIN ByIndex(calls) : ByIndex(calls)[n] = calls[p]
  <1>1. PICK K, i : K = Indices(calls) /\ i = calls[p].index
    OBVIOUS
  <1>2. IsFiniteSet(K) /\ Cardinality(K) = Len(calls) /\ K \in SUBSET Nat /\ i \in K
    BY <1>1, BeforeIsRank DEF Indices
  <1>3. CountBelow(K, i) \in 0..(Len(calls) - 1) /\ Cardinality(Before(calls, p)) = CountBelow(K, i)
    BY <1>1, <1>2, BeforeIsRank, RanksGrow
  <1>4. Len(calls) \in Nat /\ DOMAIN ByIndex(calls) = 1..Len(calls)
    BY LenProperties DEF ByIndex
  <1>5. PICK n \in 1..Len(calls) : n - 1 = Cardinality(Before(calls, p))
    <2>1. CountBelow(K, i) + 1 \in 1..Len(calls) /\ CountBelow(K, i) + 1 - 1 = CountBelow(K, i)
      BY <1>3, <1>4
    <2> QED BY <1>3, <2>1
  <1>6. PICK q \in DOMAIN calls : /\ ByIndex(calls)[n] = calls[q]
                                  /\ \A r \in DOMAIN calls : Cardinality(Before(calls, r)) = n - 1 <=> r = q
    BY SortedByIndex
  <1> QED BY <1>4, <1>5, <1>6

(* The text block is that of the one-shot path.                             *)
LEMMA TextIsOneShot ==
    ASSUME Agreement
    PROVE  TextBlock((IF Blank(received.text) THEN <<>> ELSE received.text) \o received.refusal)
             = IF Blank(asm.text) THEN <<>> ELSE TextBlock(asm.text)
  <1>1. PICK t, r : t = received.text /\ r = received.refusal
    OBVIOUS
  <1>2. t \in Seq(Symbol) /\ r \in Seq({"r"}) /\ (t = <<>> \/ r = <<>>) /\ asm.text = t \o r
    BY <1>1 DEF Agreement, StreamType, Answer, Speakable
  <1>3. r \in Seq(Symbol)
    BY <1>2, SeqMonotonic, {"r"} \subseteq Symbol DEF Symbol
  <1>4. CASE r = <<>>
    <2>1. t \o r = t /\ <<>> \o r = <<>>
      BY <1>2, <1>3, <1>4, ConcatEmptySeq
    <2>2. TextBlock((IF Blank(t) THEN <<>> ELSE t) \o r) = IF Blank(t) THEN <<>> ELSE TextBlock(t)
      BY <2>1 DEF TextBlock
    <2> QED BY <1>1, <1>2, <2>1, <2>2
  <1>5. CASE t = <<>>
    <2>1. t \o r = r /\ <<>> \o r = r
      BY <1>3, <1>5, ConcatEmptySeq
    <2>2. (IF Blank(t) THEN <<>> ELSE t) \o r = r
      BY <1>5, <2>1
    <2>3. TextBlock(r) = IF Blank(r) THEN <<>> ELSE TextBlock(r)
      BY <1>2, RefusalSpeaks DEF TextBlock
    <2> QED BY <1>1, <1>2, <2>1, <2>2, <2>3
  <1> QED BY <1>2, <1>4, <1>5

(* Arguments that are not JSON fail both paths.                             *)
LEMMA ParsesAlike ==
    ASSUME Agreement
    PROVE  (\E i \in Indexes : ~Parses(received.calls[i].args))
             <=> \E k \in DOMAIN ByIndex(asm.calls) : ~Parses(ByIndex(asm.calls)[k].args)
  <1>1. PICK calls : calls = asm.calls
    OBVIOUS
  <1>2. /\ calls \in Seq(PartialCall) /\ Distinct(calls)
        /\ \A p \in DOMAIN calls : received.calls[calls[p].index].args = calls[p].args
        /\ \A i \in Indexes : received.calls[i].known => \E p \in DOMAIN calls : calls[p].index = i
    BY <1>1 DEF Agreement, CallsAgree, Distinct
  <1>3. \A p \in DOMAIN calls : calls[p].index \in Indexes
    <2>1. \A p \in DOMAIN calls : calls[p] \in PartialCall
      BY <1>2, ElementOfSeq, LenProperties
    <2> QED BY <2>1 DEF PartialCall
  <1>4. ASSUME NEW i \in Indexes, ~Parses(received.calls[i].args)
        PROVE  \E k \in DOMAIN ByIndex(calls) : ~Parses(ByIndex(calls)[k].args)
    <2>1. Parses(<<>>)
      BY DEF Parses, Blank
    <2>2. received.calls[i].known
      BY <1>4, <2>1 DEF Agreement, Speakable
    <2>3. PICK p \in DOMAIN calls : calls[p].index = i
      BY <1>2, <2>2
    <2>4. PICK k \in DOMAIN ByIndex(calls) : ByIndex(calls)[k] = calls[p]
      BY <1>2, EveryCallIsSorted
    <2> QED BY <1>2, <1>4, <2>3, <2>4
  <1>5. ASSUME NEW k \in DOMAIN ByIndex(calls), ~Parses(ByIndex(calls)[k].args)
        PROVE  \E i \in Indexes : ~Parses(received.calls[i].args)
    <2>1. k \in 1..Len(calls)
      BY <1>2, LenProperties DEF ByIndex
    <2>2. PICK p \in DOMAIN calls : ByIndex(calls)[k] = calls[p]
      BY <1>2, <2>1, SortedByIndex
    <2> QED BY <1>2, <1>3, <1>5, <2>2
  <1> QED BY <1>1, <1>4, <1>5

\* The answer as the stream has it: an empty reasoning field is none.
AsStreamed(answer) ==
    IF EmptyReasoning(answer) THEN [answer EXCEPT !.reasoned = FALSE] ELSE answer

(* StreamAssembler::finish returns what the one-shot path would have.       *)
LEMMA FinishIsOneShot ==
    ASSUME Agreement
    PROVE  Finish(asm) = OneShot(AsStreamed(received))
  <1>a. PICK a : a = AsStreamed(received)
    OBVIOUS
  <1>b. /\ a.text = received.text /\ a.refusal = received.refusal /\ a.calls = received.calls
        /\ a.reasoning = received.reasoning /\ (a.reasoned <=> received.reasoning # <<>>)
    BY <1>a DEF AsStreamed, EmptyReasoning, Agreement, StreamType, Answer, Speakable
  <1>1. PICK sorted : sorted = [asm EXCEPT !.calls = ByIndex(@)]
    OBVIOUS
  <1>2. /\ sorted.text = asm.text /\ sorted.reasoning = received.reasoning
        /\ sorted.calls = ByIndex(asm.calls)
    BY <1>1 DEF Agreement, StreamType
  <1>3. PICK text, calls, reasoning :
          /\ text = IF Blank(asm.text) THEN <<>> ELSE TextBlock(asm.text)
          /\ calls = CallsOf(received)
          /\ reasoning = IF received.reasoning = <<>> THEN <<>>
                         ELSE <<[kind |-> "reasoning", s |-> received.reasoning]>>
    OBVIOUS
  <1>4. calls = [k \in DOMAIN sorted.calls |-> CallBlock(sorted.calls[k].index, sorted.calls[k].args)]
    BY <1>2, <1>3, CallsAreSorted DEF Agreement
  <1>5. PICK bad : bad = \E i \in Indexes : ~Parses(received.calls[i].args)
    OBVIOUS
  <1>6. bad <=> \E k \in DOMAIN sorted.calls : ~Parses(sorted.calls[k].args)
    BY <1>2, <1>5, ParsesAlike
  <1>c. /\ CallsOf(a) = calls
        /\ reasoning = IF a.reasoned THEN <<[kind |-> "reasoning", s |-> a.reasoning]>> ELSE <<>>
    BY <1>b, <1>3 DEF CallsOf
  <1>7. OneShot(a) = IF text \o calls \o reasoning = <<>> \/ bad THEN Failed
                     ELSE Ok(text \o calls \o reasoning)
    BY <1>b, <1>c, <1>3, <1>5, TextIsOneShot DEF OneShot
  <1>8. FinishUnsorted(sorted) = IF text \o calls \o reasoning = <<>> \/ bad THEN Failed
                                 ELSE Ok(text \o calls \o reasoning)
    BY <1>2, <1>3, <1>4, <1>6 DEF FinishUnsorted
  <1> QED BY <1>a, <1>1, <1>7, <1>8 DEF Finish

-----------------------------------------------------------------------------
(* The frames that may follow an answer.                                    *)

Fragments == {<<>>, <<"{">>, <<" ">>, <<"}">>}
Follows(a, f) ==
    \/ f \in {DoneFrame, ErrorFrame, FinishFrame}
    \/ \E s \in {"a", " "} : f = TextFrame(<<s>>) /\ a.refusal = <<>>
    \/ f = RefusalFrame(<<"r">>) /\ a.text = <<>>
    \/ \E s \in {<<>>, <<"z">>} : f = ReasoningFrame(s)
    \/ \E i \in Indexes, s \in Fragments : f = CallFrame(i, TRUE, s) /\ ~a.calls[i].known
    \/ \E i \in Indexes, s \in Fragments : f = CallFrame(i, FALSE, s) /\ a.calls[i].known

LEMMA FramesFollow ==
    ASSUME NEW a, NEW f \in NextFrames(a)
    PROVE  Follows(a, f)
  <1>1. CASE a.finished
    BY <1>1 DEF NextFrames, Follows
  <1>2. CASE ~a.finished
    <2>1. \/ f \in {ErrorFrame, FinishFrame}
          \/ f \in {TextFrame(<<s>>) : s \in IF Len(a.text) < MaxText /\ a.refusal = <<>> THEN {"a", " "} ELSE {}}
          \/ f \in {RefusalFrame(s) : s \in IF provider = "openai" /\ a.text = <<>> /\ Len(a.refusal) < MaxText
                                            THEN {<<"r">>} ELSE {}}
          \/ f \in {ReasoningFrame(s) : s \in IF provider = "deepseek" /\ a.reasoning = <<>>
                                              THEN {<<>>, <<"z">>} ELSE {}}
          \/ \E i \in Indexes : /\ a.calls[i].known
                                /\ f \in {CallFrame(i, FALSE, s) : s \in Fragments}
          \/ \E i \in Indexes : /\ ~a.calls[i].known
                                /\ f \in {CallFrame(i, TRUE, s) : s \in Fragments}
      <3>1. \/ f \in {ErrorFrame, FinishFrame}
            \/ f \in {TextFrame(<<s>>) : s \in IF Len(a.text) < MaxText /\ a.refusal = <<>> THEN {"a", " "} ELSE {}}
            \/ f \in {RefusalFrame(s) : s \in IF provider = "openai" /\ a.text = <<>> /\ Len(a.refusal) < MaxText
                                              THEN {<<"r">>} ELSE {}}
            \/ f \in {ReasoningFrame(s) : s \in IF provider = "deepseek" /\ a.reasoning = <<>>
                                                THEN {<<>>, <<"z">>} ELSE {}}
            \/ \E i \in Indexes :
                  f \in IF a.calls[i].known
                        THEN {CallFrame(i, FALSE, s) : s \in IF a.calls[i].args = <<>> THEN {<<"{">>, <<" ">>}
                                                             ELSE IF a.calls[i].args = <<"{">> THEN {<<"}">>} ELSE {}}
                        ELSE {CallFrame(i, TRUE, <<>>), CallFrame(i, TRUE, <<"{">>)}
        BY <1>2, Zenon DEF NextFrames
      <3>2. ASSUME NEW i \in Indexes,
                   f \in IF a.calls[i].known
                         THEN {CallFrame(i, FALSE, s) : s \in IF a.calls[i].args = <<>> THEN {<<"{">>, <<" ">>}
                                                              ELSE IF a.calls[i].args = <<"{">> THEN {<<"}">>} ELSE {}}
                         ELSE {CallFrame(i, TRUE, <<>>), CallFrame(i, TRUE, <<"{">>)}
            PROVE  \/ a.calls[i].known /\ f \in {CallFrame(i, FALSE, s) : s \in Fragments}
                   \/ ~a.calls[i].known /\ f \in {CallFrame(i, TRUE, s) : s \in Fragments}
        BY <3>2 DEF Fragments
      <3> QED BY <3>1, <3>2
    <2> QED BY <2>1 DEF Follows
  <1> QED BY <1>1, <1>2

LEMMA FragmentsAreText ==
    /\ Fragments \subseteq Seq(Symbol) /\ {<<>>, <<"z">>} \subseteq Seq(Symbol) /\ <<"r">> \in Seq({"r"})
    /\ \A s \in {"a", " "} : <<s>> \in Seq(Symbol)
  BY DEF Fragments, Symbol

(* With every frame an answer stays an answer.                              *)
LEMMA AnswerGrows ==
    ASSUME NEW a \in Answer, Speakable(a), NEW f, Follows(a, f)
    PROVE  AddFrame(a, f) \in Answer /\ Speakable(AddFrame(a, f))
  <1>1. CASE f \in {DoneFrame, ErrorFrame}
    BY <1>1 DEF AddFrame, DoneFrame, ErrorFrame
  <1>2. CASE f = FinishFrame
    BY <1>2 DEF AddFrame, FinishFrame, Answer, Speakable
  <1>3. CASE \E s \in {"a", " "} : f = TextFrame(<<s>>) /\ a.refusal = <<>>
    <2>1. PICK s \in {"a", " "} : f = TextFrame(<<s>>) /\ a.refusal = <<>>
      BY <1>3
    <2>2. AddFrame(a, f) = [a EXCEPT !.text = @ \o <<s>>]
      BY <2>1 DEF AddFrame, TextFrame
    <2>3. a.text \o <<s>> \in Seq(Symbol)
      BY FragmentsAreText, ConcatProperties DEF Answer
    <2> QED BY <2>1, <2>2, <2>3 DEF Answer, Speakable
  <1>4. CASE f = RefusalFrame(<<"r">>) /\ a.text = <<>>
    <2>2. AddFrame(a, f) = [a EXCEPT !.refusal = @ \o <<"r">>]
      BY <1>4 DEF AddFrame, RefusalFrame
    <2>3. a.refusal \o <<"r">> \in Seq({"r"})
      BY FragmentsAreText, ConcatProperties DEF Answer
    <2> QED BY <1>4, <2>2, <2>3 DEF Answer, Speakable
  <1>5. CASE \E s \in {<<>>, <<"z">>} : f = ReasoningFrame(s)
    <2>1. PICK s \in {<<>>, <<"z">>} : f = ReasoningFrame(s)
      BY <1>5
    <2>2. AddFrame(a, f) = [a EXCEPT !.reasoned = TRUE, !.reasoning = @ \o s]
      BY <2>1 DEF AddFrame, ReasoningFrame
    <2>3. a.reasoning \o s \in Seq(Symbol)
      BY FragmentsAreText, ConcatProperties DEF Answer
    <2> QED BY <2>2, <2>3 DEF Answer, Speakable
  <1>6. CASE \E i \in Indexes, s \in Fragments, head \in BOOLEAN : f = CallFrame(i, head, s)
    <2>1. PICK i \in Indexes, s \in Fragments, head \in BOOLEAN : f = CallFrame(i, head, s)
      BY <1>6
    <2>2. AddFrame(a, f) = [a EXCEPT !.calls[i] = [known |-> TRUE, args |-> @.args \o s]]
      BY <2>1 DEF AddFrame, CallFrame
    <2>3. a.calls[i].args \o s \in Seq(Symbol)
      BY FragmentsAreText, ConcatProperties DEF Answer
    <2>4. PICK c : c = [known |-> TRUE, args |-> a.calls[i].args \o s]
      OBVIOUS
    <2>5. c \in [known : BOOLEAN, args : Seq(Symbol)] /\ c.known
      BY <2>3, <2>4
    <2>6. AddFrame(a, f) = [a EXCEPT !.calls = [@ EXCEPT ![i] = c]]
      BY <2>2, <2>4 DEF Answer
    <2>7. [a.calls EXCEPT ![i] = c] \in [Indexes -> [known : BOOLEAN, args : Seq(Symbol)]]
      BY <2>5 DEF Answer
    <2>8. \A j \in Indexes : ~[a.calls EXCEPT ![i] = c][j].known => [a.calls EXCEPT ![i] = c][j].args = <<>>
      BY <2>5 DEF Answer, Speakable
    <2> QED BY <2>6, <2>7, <2>8 DEF Answer, Speakable
  <1> QED BY <1>1, <1>2, <1>3, <1>4, <1>5, <1>6 DEF Follows

-----------------------------------------------------------------------------
(* ingest_tool_call.                                                        *)

(* The first fragment of a call makes a place for it, and announces it.     *)
LEMMA NewCallIngested ==
    ASSUME NEW calls \in Seq(PartialCall), NEW i \in Indexes, NEW s \in Seq(Symbol), NEW f,
           f = CallFrame(i, TRUE, s), \A p \in DOMAIN calls : calls[p].index # i
    PROVE  /\ IngestCall(calls, f) = Append(calls, [index |-> i, known |-> TRUE, args |-> s, announced |-> TRUE])
           /\ Announces(calls, f)
  <1>1. f.index = i /\ f.head /\ f.s = s
    BY DEF CallFrame
  <1>2. At(calls, i) = {}
    BY DEF At
  <1>3. PICK grown : grown = Append(calls, NewCall(i))
    OBVIOUS
  <1>4. NewCall(i) \in PartialCall
    BY EmptySeq DEF NewCall, PartialCall
  <1>5. /\ grown \in Seq(PartialCall) /\ Len(grown) = Len(calls) + 1 /\ Len(calls) \in Nat
        /\ grown[Len(calls) + 1] = NewCall(i) /\ \A p \in 1..Len(calls) : grown[p] = calls[p]
        /\ DOMAIN calls = 1..Len(calls) /\ DOMAIN grown = 1..(Len(calls) + 1)
    BY <1>3, <1>4, AppendProperties, LenProperties
  <1>6. At(grown, i) = {Len(calls) + 1}
    BY <1>5 DEF At, NewCall
  <1>7. (CHOOSE k \in At(grown, i) : \A l \in At(grown, i) : k <= l) = Len(calls) + 1
    BY <1>5, <1>6
  <1>8. <<>> \o s = s
    BY ConcatEmptySeq
  <1>9. IngestCall(calls, f) = [grown EXCEPT ![Len(calls) + 1] =
            [index |-> i, known |-> TRUE, args |-> s, announced |-> TRUE]]
    <2>1. IngestCall(calls, f) = [grown EXCEPT ![Len(calls) + 1] =
            [index |-> @.index, known |-> @.known \/ f.head, args |-> @.args \o f.s, announced |-> @.announced \/ f.head]]
      BY <1>1, <1>2, <1>3, <1>7 DEF IngestCall
    <2>2. PICK c : c = grown[Len(calls) + 1]
      OBVIOUS
    <2>3. c.index = i /\ c.args = <<>>
      BY <1>5, <2>2 DEF NewCall
    <2>4. [index |-> c.index, known |-> c.known \/ f.head, args |-> c.args \o f.s, announced |-> c.announced \/ f.head]
            = [index |-> i, known |-> TRUE, args |-> s, announced |-> TRUE]
      BY <1>1, <1>8, <2>3
    <2> QED BY <2>1, <2>2, <2>4
  <1>10. PICK c : c = [index |-> i, known |-> TRUE, args |-> s, announced |-> TRUE]
    OBVIOUS
  <1>11. c \in PartialCall
    BY <1>10 DEF PartialCall
  <1>12. [grown EXCEPT ![Len(calls) + 1] = c] = Append(calls, c)
    <2>1. [grown EXCEPT ![Len(calls) + 1] = c] \in Seq(PartialCall)
          /\ Len([grown EXCEPT ![Len(calls) + 1] = c]) = Len(calls) + 1
          /\ \A q \in 1..(Len(calls) + 1) :
                [grown EXCEPT ![Len(calls) + 1] = c][q] = IF q = Len(calls) + 1 THEN c ELSE grown[q]
      BY <1>5, <1>11, ExceptSeq
    <2>2. Append(calls, c) \in Seq(PartialCall) /\ Len(Append(calls, c)) = Len(calls) + 1
          /\ \A q \in 1..(Len(calls) + 1) : Append(calls, c)[q] = IF q = Len(calls) + 1 THEN c ELSE calls[q]
      BY <1>5, <1>11, AppendProperties
    <2>3. PICK left, right : left = [grown EXCEPT ![Len(calls) + 1] = c] /\ right = Append(calls, c)
      OBVIOUS
    <2>4. \A q \in 1..Len(left) : left[q] = right[q]
      BY <1>5, <2>1, <2>2, <2>3
    <2>5. left \in Seq(PartialCall) /\ right \in Seq(PartialCall) /\ Len(left) = Len(right)
      BY <2>1, <2>2, <2>3
    <2> QED BY <2>3, <2>4, <2>5, SeqEqual
  <1>13. Announces(calls, f)
    BY <1>1, <1>2 DEF Announces
  <1> QED BY <1>9, <1>10, <1>12, <1>13

(* A later fragment finds the place of its call, and announces nothing.     *)
LEMMA KnownCallIngested ==
    ASSUME NEW calls \in Seq(PartialCall), Distinct(calls), NEW p \in DOMAIN calls, NEW s \in Seq(Symbol), NEW f,
           f = CallFrame(calls[p].index, FALSE, s)
    PROVE  /\ IngestCall(calls, f) = [calls EXCEPT ![p] =
                [index |-> calls[p].index, known |-> calls[p].known, args |-> calls[p].args \o s,
                 announced |-> calls[p].announced]]
           /\ ~Announces(calls, f)
  <1>1. f.index = calls[p].index /\ ~f.head /\ f.s = s
    BY DEF CallFrame
  <1>2. At(calls, f.index) = {p}
    BY <1>1 DEF At, Distinct
  <1>3. p \in Nat
    BY LenProperties
  <1>4. (CHOOSE k \in At(calls, f.index) : \A l \in At(calls, f.index) : k <= l) = p
    <2>1. p <= p
      BY <1>3
    <2> QED BY <1>2, <2>1
  <1>5. calls[p] \in PartialCall
    BY ElementOfSeq, LenProperties
  <1>6. calls[p].known \in BOOLEAN /\ calls[p].announced \in BOOLEAN
    BY <1>5 DEF PartialCall
  <1>7. IngestCall(calls, f) = [calls EXCEPT ![p] =
          [index |-> calls[p].index, known |-> calls[p].known \/ f.head, args |-> calls[p].args \o f.s,
           announced |-> calls[p].announced \/ f.head]]
    BY <1>2, <1>4 DEF IngestCall
  <1>8. (calls[p].known \/ f.head) = calls[p].known /\ (calls[p].announced \/ f.head) = calls[p].announced
    BY <1>1, <1>6, Zenon
  <1> QED BY <1>1, <1>7, <1>8 DEF Announces

-----------------------------------------------------------------------------
(* A frame that arrives in full keeps assembler and answer in agreement.    *)

(* The first fragment of a call.                                            *)
LEMMA NewCallAgrees ==
    ASSUME Agreement, NEW i \in Indexes, NEW s \in Fragments, ~received.calls[i].known,
           received' = AddFrame(received, CallFrame(i, TRUE, s)), Ingest(CallFrame(i, TRUE, s))
    PROVE  CallsAgree' /\ StreamType'
  <1>1. PICK f, c : f = CallFrame(i, TRUE, s) /\ c = [index |-> i, known |-> TRUE, args |-> s, announced |-> TRUE]
    OBVIOUS
  <1>2. PICK calls, starts : calls = asm.calls /\ starts = shown.starts
    OBVIOUS
  <1> s \in Seq(Symbol)
    BY FragmentsAreText
  <1>3. c \in PartialCall /\ f.kind = "call" /\ f.index = i /\ f.s = s
    BY <1>1 DEF PartialCall, CallFrame
  <1>4. /\ calls \in Seq(PartialCall) /\ starts \in Seq(Indexes) /\ Len(starts) = Len(calls) /\ Len(calls) \in Nat
        /\ DOMAIN calls = 1..Len(calls) /\ \A p \in DOMAIN calls : calls[p] \in PartialCall
    BY <1>2, LenProperties, ElementOfSeq DEF Agreement, StreamType, CallsAgree
  <1>5. \A p \in DOMAIN calls : calls[p].index # i
    BY <1>2 DEF Agreement, CallsAgree
  <1>6. asm' = [asm EXCEPT !.calls = Append(calls, c)] /\ shown' = [shown EXCEPT !.starts = Append(starts, i)]
    <2>1. IngestCall(calls, f) = Append(calls, c) /\ Announces(calls, f)
      BY <1>1, <1>4, <1>5, NewCallIngested
    <2> QED BY <1>1, <1>2, <1>3, <2>1 DEF Ingest
  <1>7. asm'.calls = Append(calls, c) /\ shown'.starts = Append(starts, i)
    BY <1>6 DEF Agreement, StreamType
  <1>8. PICK more, said : more = Append(calls, c) /\ said = Append(starts, i)
    OBVIOUS
  <1>9. /\ more \in Seq(PartialCall) /\ Len(more) = Len(calls) + 1 /\ DOMAIN more = 1..(Len(calls) + 1)
        /\ more[Len(calls) + 1] = c /\ \A p \in 1..Len(calls) : more[p] = calls[p]
    BY <1>3, <1>4, <1>8, AppendProperties, LenProperties
  <1>10. /\ said \in Seq(Indexes) /\ Len(said) = Len(calls) + 1
         /\ said[Len(calls) + 1] = i /\ \A p \in 1..Len(calls) : said[p] = starts[p]
    BY <1>4, <1>8, AppendProperties
  <1>11. PICK old, new : old = received.calls /\ new = received'.calls
    OBVIOUS
  <1>12. old \in [Indexes -> [known : BOOLEAN, args : Seq(Symbol)]]
    BY <1>11 DEF Agreement, StreamType, Answer
  <1>13. new = [old EXCEPT ![i] = [known |-> TRUE, args |-> s]]
    <2>1. AddFrame(received, f) = [received EXCEPT !.calls[i] = [known |-> TRUE, args |-> @.args \o s]]
      BY <1>3 DEF AddFrame
    <2>2. old[i].args \o s = s
      BY <1>11, ConcatEmptySeq DEF Agreement, Speakable
    <2>3. received \in Answer
      BY DEF Agreement, StreamType
    <2> QED BY <1>1, <1>11, <2>1, <2>2, <2>3 DEF Answer
  <1>14. \A j \in Indexes : new[j] = IF j = i THEN [known |-> TRUE, args |-> s] ELSE old[j]
    BY <1>12, <1>13
  <1>15. \A p \in DOMAIN calls : /\ calls[p].announced /\ old[calls[p].index].known
                                 /\ old[calls[p].index].args = calls[p].args /\ starts[p] = calls[p].index
                                 /\ calls[p].index \in Indexes
    BY <1>2, <1>4, <1>11 DEF Agreement, CallsAgree, PartialCall
  <1>16. \A p \in DOMAIN more : /\ more[p].announced /\ new[more[p].index].known
                                /\ new[more[p].index].args = more[p].args /\ said[p] = more[p].index
    <2> SUFFICES ASSUME NEW p \in DOMAIN more
                 PROVE  /\ more[p].announced /\ new[more[p].index].known
                        /\ new[more[p].index].args = more[p].args /\ said[p] = more[p].index
      OBVIOUS
    <2>1. CASE p = Len(calls) + 1
      BY <1>1, <1>9, <1>10, <1>14, <2>1
    <2>2. CASE p \in 1..Len(calls)
      <3>1. more[p] = calls[p] /\ said[p] = starts[p] /\ calls[p].index # i
        BY <1>4, <1>5, <1>9, <1>10, <2>2
      <3> QED BY <1>4, <1>14, <1>15, <2>2, <3>1
    <2> QED BY <1>4, <1>9, <2>1, <2>2
  <1>17. \A p, q \in DOMAIN more : more[p].index = more[q].index => p = q
    <2>1. \A p, q \in DOMAIN calls : calls[p].index = calls[q].index => p = q
      BY <1>2 DEF Agreement, CallsAgree
    <2>2. \A p \in DOMAIN more : \/ p = Len(calls) + 1 /\ more[p].index = i
                                 \/ p \in DOMAIN calls /\ more[p].index = calls[p].index /\ calls[p].index # i
      BY <1>1, <1>4, <1>5, <1>9
    <2> QED BY <2>1, <2>2
  <1>18. \A j \in Indexes : new[j].known => \E p \in DOMAIN more : more[p].index = j
    <2> SUFFICES ASSUME NEW j \in Indexes, new[j].known
                 PROVE  \E p \in DOMAIN more : more[p].index = j
      OBVIOUS
    <2>1. CASE j = i
      <3>1. Len(calls) + 1 \in DOMAIN more /\ more[Len(calls) + 1].index = i
        BY <1>1, <1>4, <1>9
      <3> QED BY <2>1, <3>1
    <2>2. CASE j # i
      <3>1. PICK p \in DOMAIN calls : calls[p].index = j
        BY <1>2, <1>11, <1>14, <2>2 DEF Agreement, CallsAgree
      <3> QED BY <1>4, <1>9, <3>1
    <2> QED BY <2>1, <2>2
  <1>19. CallsAgree'
    <2>1. asm'.calls = more /\ shown'.starts = said /\ received'.calls = new
      BY <1>7, <1>8, <1>11
    <2>2. \A p \in DOMAIN more : said[p] = more[p].index
      BY <1>16
    <2>3. \A p \in DOMAIN more : /\ more[p].announced /\ new[more[p].index].known
                                 /\ new[more[p].index].args = more[p].args
      BY <1>16
    <2>4. more \in Seq(PartialCall) /\ Len(said) = Len(more)
      BY <1>9, <1>10
    <2> QED BY <1>17, <1>18, <2>1, <2>2, <2>3, <2>4, Zenon DEF CallsAgree
  <1>20. StreamType'
    <2>1. received' \in Answer
      <3>1. Follows(received, f)
        BY <1>1 DEF Follows
      <3> QED BY <1>1, <3>1, AnswerGrows DEF Agreement, StreamType
    <2>2. asm' = [text |-> asm'.text, reasoning |-> asm'.reasoning, calls |-> asm'.calls]
      BY <1>6 DEF Agreement, StreamType
    <2>3. shown' = [text |-> shown'.text, reasoning |-> shown'.reasoning, starts |-> shown'.starts]
      BY <1>6 DEF Agreement, StreamType
    <2> QED BY <1>7, <1>8, <1>10, <2>1, <2>2, <2>3 DEF StreamType
  <1> QED BY <1>19, <1>20

(* A later fragment of a call.                                              *)
LEMMA KnownCallAgrees ==
    ASSUME Agreement, NEW i \in Indexes, NEW s \in Fragments, received.calls[i].known,
           received' = AddFrame(received, CallFrame(i, FALSE, s)), Ingest(CallFrame(i, FALSE, s))
    PROVE  CallsAgree' /\ StreamType'
  <1>1. PICK f, calls, starts : f = CallFrame(i, FALSE, s) /\ calls = asm.calls /\ starts = shown.starts
    OBVIOUS
  <1> s \in Seq(Symbol)
    BY FragmentsAreText
  <1>3. f.kind = "call" /\ f.index = i /\ f.s = s
    BY <1>1 DEF CallFrame
  <1>4. /\ calls \in Seq(PartialCall) /\ starts \in Seq(Indexes) /\ Len(starts) = Len(calls)
        /\ DOMAIN calls = 1..Len(calls) /\ \A p \in DOMAIN calls : calls[p] \in PartialCall
        /\ Distinct(calls)
    BY <1>1, LenProperties, ElementOfSeq DEF Agreement, StreamType, CallsAgree, Distinct
  <1>5. PICK p \in DOMAIN calls : calls[p].index = i
    BY <1>1 DEF Agreement, CallsAgree
  <1>6. PICK c : c = [index |-> i, known |-> calls[p].known, args |-> calls[p].args \o s,
                      announced |-> calls[p].announced]
    OBVIOUS
  <1>7. IngestCall(calls, f) = [calls EXCEPT ![p] = c] /\ ~Announces(calls, f)
    <2>1. s \in Seq(Symbol) /\ f = CallFrame(calls[p].index, FALSE, s)
      BY <1>1, <1>5
    <2>2. IngestCall(calls, f) = [calls EXCEPT ![p] =
             [index |-> calls[p].index, known |-> calls[p].known, args |-> calls[p].args \o s,
              announced |-> calls[p].announced]] /\ ~Announces(calls, f)
      BY <1>4, <2>1, KnownCallIngested
    <2> QED BY <1>5, <1>6, <2>2
  <1>8. asm' = [asm EXCEPT !.calls = [calls EXCEPT ![p] = c]] /\ shown' = [shown EXCEPT !.starts = starts]
    BY <1>1, <1>3, <1>7 DEF Ingest
  <1>9. PICK grown : grown = [calls EXCEPT ![p] = c]
    OBVIOUS
  <1>10. asm'.calls = grown /\ shown'.starts = starts
    BY <1>8, <1>9 DEF Agreement, StreamType
  <1>11. PICK old, new : old = received.calls /\ new = received'.calls
    OBVIOUS
  <1>12. old \in [Indexes -> [known : BOOLEAN, args : Seq(Symbol)]]
    BY <1>11 DEF Agreement, StreamType, Answer
  <1>13. new = [old EXCEPT ![i] = [known |-> TRUE, args |-> old[i].args \o s]]
    <2>1. AddFrame(received, f) = [received EXCEPT !.calls[i] = [known |-> TRUE, args |-> @.args \o s]]
      BY <1>3 DEF AddFrame
    <2>2. received \in Answer
      BY DEF Agreement, StreamType
    <2> QED BY <1>1, <1>11, <2>1, <2>2 DEF Answer
  <1>14. \A j \in Indexes : new[j] = IF j = i THEN [known |-> TRUE, args |-> old[i].args \o s] ELSE old[j]
    BY <1>12, <1>13
  <1>15. \A q \in DOMAIN calls : /\ calls[q].announced /\ old[calls[q].index].known
                                 /\ old[calls[q].index].args = calls[q].args /\ starts[q] = calls[q].index
                                 /\ calls[q].index \in Indexes
    BY <1>1, <1>4, <1>11 DEF Agreement, CallsAgree, PartialCall
  <1>16. c \in PartialCall
    <2>1. calls[p].args \o s \in Seq(Symbol)
      BY <1>4, ConcatProperties DEF PartialCall
    <2> QED BY <1>4, <1>6, <2>1 DEF PartialCall
  <1>17. /\ grown \in Seq(PartialCall) /\ Len(grown) = Len(calls) /\ DOMAIN grown = DOMAIN calls
         /\ \A q \in DOMAIN calls : grown[q] = IF q = p THEN c ELSE calls[q]
    BY <1>4, <1>9, <1>16, ExceptSeq, LenProperties
  <1>18. \A q \in DOMAIN calls : grown[q].index = calls[q].index
    BY <1>5, <1>6, <1>17
  <1>19. \A q \in DOMAIN grown : /\ grown[q].announced /\ new[grown[q].index].known
                                 /\ new[grown[q].index].args = grown[q].args /\ starts[q] = grown[q].index
    <2> SUFFICES ASSUME NEW q \in DOMAIN calls
                 PROVE  /\ grown[q].announced /\ new[grown[q].index].known
                        /\ new[grown[q].index].args = grown[q].args /\ starts[q] = grown[q].index
      BY <1>17
    <2>1. CASE q = p
      <3>1. grown[q] = c /\ c.index = i /\ c.args = calls[p].args \o s /\ c.announced = calls[p].announced
        BY <1>6, <1>17, <2>1
      <3>2. new[i].known /\ new[i].args = old[i].args \o s
        BY <1>14
      <3>3. calls[p].announced /\ old[i].args = calls[p].args /\ starts[p] = i
        BY <1>5, <1>15
      <3> QED BY <2>1, <3>1, <3>2, <3>3
    <2>2. CASE q # p
      <3>1. calls[q].index # i
        BY <1>4, <1>5, <2>2 DEF Distinct
      <3> QED BY <1>14, <1>15, <1>17, <2>2, <3>1
    <2> QED BY <2>1, <2>2
  <1>20. \A j \in Indexes : new[j].known => \E q \in DOMAIN grown : grown[q].index = j
    <2> SUFFICES ASSUME NEW j \in Indexes, new[j].known
                 PROVE  \E q \in DOMAIN calls : calls[q].index = j
      BY <1>17, <1>18
    <2>1. old[j].known
      BY <1>11, <1>14
    <2> QED BY <1>1, <1>11, <2>1 DEF Agreement, CallsAgree
  <1>21. CallsAgree'
    <2>1. asm'.calls = grown /\ shown'.starts = starts /\ received'.calls = new
      BY <1>10, <1>11
    <2>2. \A q, r \in DOMAIN grown : grown[q].index = grown[r].index => q = r
      BY <1>4, <1>17, <1>18 DEF Distinct
    <2>3. Len(starts) = Len(grown)
      BY <1>4, <1>17
    <2>4. /\ asm'.calls \in Seq(PartialCall)
          /\ \A q, r \in DOMAIN asm'.calls : asm'.calls[q].index = asm'.calls[r].index => q = r
          /\ \A j \in Indexes : received'.calls[j].known => \E q \in DOMAIN asm'.calls : asm'.calls[q].index = j
          /\ Len(shown'.starts) = Len(asm'.calls)
      BY <1>17, <1>20, <2>1, <2>2, <2>3, Zenon
    <2>5. \A q \in DOMAIN asm'.calls :
             /\ asm'.calls[q].announced /\ received'.calls[asm'.calls[q].index].known
             /\ received'.calls[asm'.calls[q].index].args = asm'.calls[q].args
             /\ shown'.starts[q] = asm'.calls[q].index
      BY <1>19, <2>1, Zenon
    <2> QED BY <2>4, <2>5, Zenon DEF CallsAgree
  <1>22. StreamType'
    <2>1. received' \in Answer
      <3>1. Follows(received, f)
        BY <1>1 DEF Follows
      <3> QED BY <1>1, <3>1, AnswerGrows DEF Agreement, StreamType
    <2>2. asm' = [text |-> asm'.text, reasoning |-> asm'.reasoning, calls |-> asm'.calls]
      BY <1>8 DEF Agreement, StreamType
    <2>3. shown' = [text |-> shown'.text, reasoning |-> shown'.reasoning, starts |-> shown'.starts]
      BY <1>8 DEF Agreement, StreamType
    <2> QED BY <1>4, <1>10, <2>1, <2>2, <2>3 DEF StreamType
  <1> QED BY <1>21, <1>22

(* A step after which the assembler and the caller have what has arrived,    *)
(* the calls as they were.                                                  *)
LEMMA TextsMove ==
    ASSUME Agreement, received' \in Answer, Speakable(received'), received'.calls = received.calls, NEW x, NEW y,
           asm' = [text |-> x, reasoning |-> y, calls |-> asm.calls],
           shown' = [text |-> x, reasoning |-> y, starts |-> shown.starts],
           x = received'.text \o received'.refusal, y = received'.reasoning
    PROVE  Agreement'
  <1>1. /\ asm'.text = x /\ asm'.reasoning = y /\ asm'.calls = asm.calls
        /\ shown'.text = x /\ shown'.reasoning = y /\ shown'.starts = shown.starts
    OBVIOUS
  <1>2. StreamType'
    BY <1>1 DEF Agreement, StreamType
  <1>3. CallsAgree'
    BY <1>1 DEF Agreement, CallsAgree
  <1> QED BY <1>1, <1>2, <1>3 DEF Agreement

(* A frame of any kind.                                                     *)
LEMMA IngestKeepsAgreement ==
    ASSUME Agreement, NEW f, Follows(received, f), received' = AddFrame(received, f),
           f \in {DoneFrame, ErrorFrame} => UNCHANGED <<asm, shown>>,
           f \notin {DoneFrame, ErrorFrame} => Ingest(f)
    PROVE  Agreement'
  <1>1. received \in Answer /\ received' \in Answer /\ Speakable(received')
    BY AnswerGrows DEF Agreement, StreamType
  <1>2. PICK t, r, z : t = received.text /\ r = received.refusal /\ z = received.reasoning
    OBVIOUS
  <1>3. /\ t \in Seq(Symbol) /\ r \in Seq({"r"}) /\ r \in Seq(Symbol) /\ z \in Seq(Symbol)
        /\ asm.text = t \o r /\ asm.reasoning = z /\ shown.text = asm.text /\ shown.reasoning = z
    <2>1. t \in Seq(Symbol) /\ r \in Seq({"r"}) /\ z \in Seq(Symbol)
      BY <1>1, <1>2 DEF Answer
    <2>2. r \in Seq(Symbol)
      BY <2>1, SeqMonotonic, {"r"} \subseteq Symbol DEF Symbol
    <2> QED BY <1>2, <2>1, <2>2 DEF Agreement
  <1>4. CASE f \in {DoneFrame, ErrorFrame}
    <2>1. UNCHANGED <<received, asm, shown>>
      <3>1. f.kind \in {"done", "error"}
        BY <1>4 DEF DoneFrame, ErrorFrame
      <3>2. AddFrame(received, f) = received
        BY <3>1 DEF AddFrame
      <3> QED BY <1>4, <3>2
    <2> QED BY <2>1 DEF Agreement, StreamType, Speakable, CallsAgree
  <1>5. CASE f = FinishFrame
    <2>1. UNCHANGED <<asm, shown>> /\ received' = [received EXCEPT !.finished = TRUE]
      BY <1>5 DEF AddFrame, FinishFrame, DoneFrame, ErrorFrame, Ingest
    <2>2. /\ received'.text = received.text /\ received'.refusal = received.refusal
          /\ received'.reasoning = received.reasoning /\ received'.calls = received.calls
      BY <1>1, <2>1 DEF Answer
    <2>3. /\ asm' = [text |-> t \o r, reasoning |-> z, calls |-> asm.calls]
          /\ shown' = [text |-> t \o r, reasoning |-> z, starts |-> shown.starts]
      BY <1>3, <2>1 DEF Agreement, StreamType
    <2> QED BY <1>1, <1>2, <2>2, <2>3, TextsMove
  <1>6. CASE \E s \in {"a", " "} : f = TextFrame(<<s>>) /\ r = <<>>
    <2>1. PICK s \in {"a", " "} : f = TextFrame(<<s>>) /\ r = <<>>
      BY <1>6
    <2>2. received' = [received EXCEPT !.text = t \o <<s>>]
      BY <1>2, <2>1 DEF AddFrame, TextFrame
    <2>3. asm' = [asm EXCEPT !.text = @ \o <<s>>] /\ shown' = [shown EXCEPT !.text = @ \o <<s>>]
      BY <2>1 DEF Ingest, TextFrame, DoneFrame, ErrorFrame
    <2>4. asm.text = t /\ t \o <<s>> \in Seq(Symbol)
      BY <1>3, <2>1, ConcatEmptySeq, ConcatProperties, FragmentsAreText
    <2>5. (t \o <<s>>) \o r = t \o <<s>>
      BY <2>1, <2>4, ConcatEmptySeq
    <2>6. /\ received'.text = t \o <<s>> /\ received'.refusal = r /\ received'.reasoning = z
          /\ received'.calls = received.calls
      BY <1>1, <1>2, <2>2 DEF Answer
    <2>7. /\ asm' = [text |-> t \o <<s>>, reasoning |-> z, calls |-> asm.calls]
          /\ shown' = [text |-> t \o <<s>>, reasoning |-> z, starts |-> shown.starts]
      BY <1>3, <2>3, <2>4 DEF Agreement, StreamType
    <2> QED BY <1>1, <2>5, <2>6, <2>7, TextsMove
  <1>7. CASE f = RefusalFrame(<<"r">>) /\ t = <<>>
    <2>2. received' = [received EXCEPT !.refusal = r \o <<"r">>]
      BY <1>2, <1>7 DEF AddFrame, RefusalFrame
    <2>3. asm' = [asm EXCEPT !.text = @ \o <<"r">>] /\ shown' = [shown EXCEPT !.text = @ \o <<"r">>]
      BY <1>7 DEF Ingest, RefusalFrame, DoneFrame, ErrorFrame
    <2>4. asm.text = r /\ r \o <<"r">> \in Seq({"r"})
      BY <1>3, <1>7, ConcatEmptySeq, ConcatProperties, FragmentsAreText
    <2>5. t \o (r \o <<"r">>) = r \o <<"r">>
      BY <1>7, <2>4, ConcatEmptySeq
    <2>6. /\ received'.text = t /\ received'.refusal = r \o <<"r">> /\ received'.reasoning = z
          /\ received'.calls = received.calls
      BY <1>1, <1>2, <2>2 DEF Answer
    <2>7. /\ asm' = [text |-> r \o <<"r">>, reasoning |-> z, calls |-> asm.calls]
          /\ shown' = [text |-> r \o <<"r">>, reasoning |-> z, starts |-> shown.starts]
      BY <1>3, <2>3, <2>4 DEF Agreement, StreamType
    <2> QED BY <1>1, <2>5, <2>6, <2>7, TextsMove
  <1>8. CASE \E s \in {<<>>, <<"z">>} : f = ReasoningFrame(s)
    <2>1. PICK s \in {<<>>, <<"z">>} : f = ReasoningFrame(s)
      BY <1>8
    <2>2. received' = [received EXCEPT !.reasoned = TRUE, !.reasoning = z \o s]
      BY <1>2, <2>1 DEF AddFrame, ReasoningFrame
    <2>3. asm' = [asm EXCEPT !.reasoning = @ \o s] /\ shown' = [shown EXCEPT !.reasoning = @ \o s]
      BY <2>1 DEF Ingest, ReasoningFrame, DoneFrame, ErrorFrame
    <2>6. /\ received'.text = t /\ received'.refusal = r /\ received'.reasoning = z \o s
          /\ received'.calls = received.calls
      BY <1>1, <1>2, <2>2 DEF Answer
    <2>7. /\ asm' = [text |-> t \o r, reasoning |-> z \o s, calls |-> asm.calls]
          /\ shown' = [text |-> t \o r, reasoning |-> z \o s, starts |-> shown.starts]
      BY <1>3, <2>3 DEF Agreement, StreamType
    <2> QED BY <1>1, <2>6, <2>7, TextsMove
  <1>9. CASE \E i \in Indexes, s \in Fragments, head \in BOOLEAN :
                f = CallFrame(i, head, s) /\ (head <=> ~received.calls[i].known)
    <2>1. PICK i \in Indexes, s \in Fragments, head \in BOOLEAN :
             f = CallFrame(i, head, s) /\ (head <=> ~received.calls[i].known)
      BY <1>9
    <2>2. Ingest(f) /\ f.kind = "call"
      BY <2>1 DEF CallFrame, DoneFrame, ErrorFrame
    <2>3. CallsAgree' /\ StreamType'
      <3>1. CASE head
        <4>1. f = CallFrame(i, TRUE, s) /\ ~received.calls[i].known
          BY <2>1, <3>1
        <4> QED BY <2>2, <4>1, NewCallAgrees
      <3>2. CASE ~head
        <4>1. f = CallFrame(i, FALSE, s) /\ received.calls[i].known
          BY <2>1, <3>2
        <4> QED BY <2>2, <4>1, KnownCallAgrees
      <3> QED BY <3>1, <3>2
    <2>4. received'.text = t /\ received'.refusal = r /\ received'.reasoning = z
      BY <1>1, <1>2, <2>2 DEF AddFrame, Answer
    <2>5. asm'.text = asm.text /\ asm'.reasoning = asm.reasoning /\ shown'.text = shown.text
          /\ shown'.reasoning = shown.reasoning
      BY <2>2 DEF Ingest, Agreement, StreamType
    <2> QED BY <1>1, <1>3, <2>3, <2>4, <2>5 DEF Agreement
  <1> QED BY <1>2, <1>4, <1>5, <1>6, <1>7, <1>8, <1>9 DEF Follows

-----------------------------------------------------------------------------
(* The steps of the call.                                                   *)

(* A line that is incomplete is a frame, and the answer sent goes on from   *)
(* the one received.                                                        *)
LEMMA LineIsAFrame ==
    ASSUME LineFollows
    PROVE  (line = NoFrame => sent = received) /\ NoFrame \notin NextFrames(received)
  <1>1. NoFrame \notin NextFrames(received)
    <2>1. ~Follows(received, NoFrame)
      BY DEF Follows, NoFrame, DoneFrame, ErrorFrame, FinishFrame, TextFrame, RefusalFrame, ReasoningFrame, CallFrame
    <2> QED BY <2>1, FramesFollow
  <1> QED BY <1>1 DEF LineFollows

(* Only [DONE] and the error frame have their kinds.                        *)
LEMMA EndsByKind ==
    ASSUME NEW a, NEW f, Follows(a, f)
    PROVE  (f.kind = "error" <=> f = ErrorFrame) /\ (f.kind = "done" <=> f = DoneFrame)
  <1>1. CASE f \in {DoneFrame, ErrorFrame, FinishFrame}
    BY <1>1 DEF DoneFrame, ErrorFrame, FinishFrame
  <1>2. CASE f \notin {DoneFrame, ErrorFrame, FinishFrame}
    <2>1. f.kind \in {"text", "refusal", "reasoning", "call"}
      <3>1. \A s : /\ TextFrame(s).kind = "text" /\ RefusalFrame(s).kind = "refusal"
                   /\ ReasoningFrame(s).kind = "reasoning"
                   /\ \A i, head : CallFrame(i, head, s).kind = "call"
        BY DEF TextFrame, RefusalFrame, ReasoningFrame, CallFrame
      <3>2. \E s, i, head : f \in {TextFrame(s), RefusalFrame(s), ReasoningFrame(s), CallFrame(i, head, s)}
        BY <1>2, Zenon DEF Follows
      <3> QED BY <3>1, <3>2
    <2> QED BY <1>2, <2>1
  <1> QED BY <1>1, <1>2

(* A frame that arrives in full: StreamAssembler::ingest, the [DONE] that   *)
(* ends the body, the error frame that ends the call.                       *)
LEMMA DecodeKeepsInv ==
    ASSUME StreamInv, NEW f \in NextFrames(received), Decode(f), UNCHANGED provider,
           sent' = AddFrame(received, f), channel = "open"
    PROVE  StreamInv'
  <1>1. Follows(received, f)
    BY FramesFollow
  <1>2. received' = AddFrame(received, f) /\ line' = NoFrame
    BY DEF Decode
  <1>3. f.kind = "error" <=> f = ErrorFrame
    BY <1>1, EndsByKind
  <1>4. f.kind = "done" <=> f = DoneFrame
    BY <1>1, EndsByKind
  <1>5. /\ f.kind = "error" => FailedCall /\ UNCHANGED <<asm, shown>>
        /\ f.kind = "done" => EndCall([kind |-> "finished", result |-> Finish(asm)]) /\ UNCHANGED <<asm, shown>>
        /\ f.kind \notin {"error", "done"} => Ingest(f) /\ UNCHANGED <<channel, outcome>>
    BY DEF Decode
  <1>6. Agreement'
    BY <1>1, <1>2, <1>3, <1>4, <1>5, IngestKeepsAgreement DEF StreamInv
  <1>7. LineFollows'
    BY <1>2 DEF LineFollows, NoFrame
  <1>8. StillPending' /\ TerminalIsOneShot'
    <2>1. CASE f.kind = "error"
      BY <1>5, <2>1 DEF FailedCall, EndCall, StillPending, TerminalIsOneShot
    <2>2. CASE f.kind = "done"
      <3>1. received' = received
        BY <1>2, <2>2 DEF AddFrame
      <3>2. Finish(asm) = OneShot(AsStreamed(received))
        BY FinishIsOneShot DEF StreamInv
      <3> QED BY <1>5, <2>2, <3>1, <3>2 DEF EndCall, StillPending, TerminalIsOneShot, AsStreamed
    <2>3. CASE f.kind \notin {"error", "done"}
      <3>1. outcome.kind = "pending" /\ UNCHANGED <<channel, outcome>>
        BY <1>5, <2>3 DEF StreamInv, StillPending
      <3> QED BY <3>1 DEF StillPending, TerminalIsOneShot
    <2> QED BY <2>1, <2>2, <2>3
  <1> QED BY <1>6, <1>7, <1>8 DEF StreamInv

(* Nothing else touches the answer.                                         *)
LEMMA NothingArrives ==
    ASSUME Agreement, UNCHANGED <<received, asm, shown>>
    PROVE  Agreement'
  BY DEF Agreement, StreamType, Speakable, CallsAgree

LEMMA StreamInit_Inv ==
    ASSUME StreamInit
    PROVE  StreamInv
  <1>1. EmptyAnswer \in Answer
    BY EmptySeq DEF EmptyAnswer, NoCall, Answer
  <1>2. Agreement
    <2>1. <<>> \o <<>> = <<>>
      BY EmptySeq, ConcatEmptySeq
    <2>2. /\ received = EmptyAnswer /\ received.text = <<>> /\ received.refusal = <<>> /\ received.reasoning = <<>>
          /\ \A i \in Indexes : ~received.calls[i].known /\ received.calls[i].args = <<>>
      BY DEF StreamInit, EmptyAnswer, NoCall
    <2>3. asm = [text |-> <<>>, reasoning |-> <<>>, calls |-> <<>>]
          /\ shown = [text |-> <<>>, reasoning |-> <<>>, starts |-> <<>>]
      BY DEF StreamInit, EmptyAssembler, NothingShown
    <2>4. DOMAIN asm.calls = {} /\ asm.calls \in Seq(PartialCall) /\ shown.starts \in Seq(Indexes)
          /\ Len(shown.starts) = Len(asm.calls)
      BY <2>3
    <2>5. CallsAgree
      BY <2>2, <2>4 DEF CallsAgree
    <2> QED BY <1>1, <2>1, <2>2, <2>3, <2>4, <2>5 DEF Agreement, StreamType, Speakable
  <1> QED BY <1>2 DEF StreamInv, StreamInit, LineFollows, StillPending, TerminalIsOneShot

LEMMA StreamNext_Inv ==
    ASSUME StreamInv, [StreamNext]_streamVars
    PROVE  StreamInv'
  <1> USE DEF StreamInv
  <1>1. CASE Connect
    BY <1>1, NothingArrives DEF Connect, LineFollows, NextFrames, StillPending, TerminalIsOneShot
  <1>2. ASSUME NEW transient \in BOOLEAN, ConnectFails(transient)
        PROVE  StreamInv'
    <2>1. Agreement'
      BY <1>2, NothingArrives DEF ConnectFails
    <2>2. LineFollows'
      BY <1>2 DEF ConnectFails, LineFollows, NextFrames
    <2>3. StillPending' /\ TerminalIsOneShot'
      BY <1>2 DEF ConnectFails, FailedCall, EndCall, StillPending, TerminalIsOneShot
    <2> QED BY <2>1, <2>2, <2>3
  <1>3. CASE WholeLine
    <2>1. sent = received
      BY <1>3, LineIsAFrame DEF WholeLine
    <2>2. PICK f \in NextFrames(received) : sent' = AddFrame(received, f) /\ Decode(f)
      BY <1>3, <2>1 DEF WholeLine
    <2> QED BY <1>3, <2>2, DecodeKeepsInv DEF WholeLine
  <1>4. CASE HalfLine
    <2>1. sent = received
      BY <1>4, LineIsAFrame DEF HalfLine
    <2>2. Agreement'
      BY <1>4, NothingArrives DEF HalfLine
    <2>3. LineFollows'
      <3>1. PICK f \in NextFrames(received) : sent' = AddFrame(received, f) /\ line' = f
        BY <1>4, <2>1 DEF HalfLine
      <3>2. UNCHANGED <<received, provider>>
        BY <1>4 DEF HalfLine
      <3>3. NextFrames(received)' = NextFrames(received)
        BY <3>2 DEF NextFrames
      <3> QED BY <3>1, <3>2, <3>3 DEF LineFollows
    <2> QED BY <1>4, <2>2, <2>3 DEF HalfLine, StillPending, TerminalIsOneShot
  <1>5. CASE RestOfLine
    <2>1. line \in NextFrames(received) /\ sent = AddFrame(received, line)
      BY <1>5 DEF RestOfLine, LineFollows
    <2> QED BY <1>5, <2>1, DecodeKeepsInv DEF RestOfLine
  <1>6. CASE BodyFails
    BY <1>6, NothingArrives
       DEF BodyFails, FailedCall, EndCall, LineFollows, NextFrames, StillPending, TerminalIsOneShot
  <1>7. CASE BodyEnds
    <2>1. Finish(asm) = OneShot(AsStreamed(received))
      BY FinishIsOneShot
    <2>2. Agreement'
      BY <1>7, NothingArrives DEF BodyEnds
    <2> QED BY <1>7, <2>1, <2>2
        DEF BodyEnds, EndCall, LineFollows, NextFrames, StillPending, TerminalIsOneShot, AsStreamed
  <1>8. CASE UNCHANGED streamVars
    BY <1>8, NothingArrives DEF streamVars, LineFollows, NextFrames, StillPending, TerminalIsOneShot
  <1> QED BY <1>1, <1>2, <1>3, <1>4, <1>5, <1>6, <1>7, <1>8 DEF StreamNext

(* What the caller saw is what arrived, each call announced once.           *)
LEMMA AgreementIsShown ==
    ASSUME Agreement
    PROVE  ShownOnce
  <1>1. PICK calls, starts : calls = asm.calls /\ starts = shown.starts
    OBVIOUS
  <1>2. /\ calls \in Seq(PartialCall) /\ starts \in Seq(Indexes) /\ Len(starts) = Len(calls)
        /\ \A p \in DOMAIN calls : starts[p] = calls[p].index /\ received.calls[calls[p].index].known
        /\ \A p, q \in DOMAIN calls : calls[p].index = calls[q].index => p = q
        /\ \A i \in Indexes : received.calls[i].known => \E p \in DOMAIN calls : calls[p].index = i
    BY <1>1 DEF Agreement, StreamType, CallsAgree
  <1>3. DOMAIN starts = DOMAIN calls /\ \A p \in DOMAIN starts : starts[p] \in Indexes
    BY <1>2, LenProperties, ElementOfSeq
  <1>4. IsInjective(starts)
    BY <1>2, <1>3 DEF IsInjective
  <1>5. Range(starts) = {i \in Indexes : received.calls[i].known}
    BY <1>2, <1>3 DEF Range
  <1> QED BY <1>1, <1>4, <1>5 DEF Agreement, ShownOnce

-----------------------------------------------------------------------------
\* Assembler, answer and screen agree, and an incomplete line is one frame of
\* the answer (StreamAssembler, SseDecoder).
THEOREM StreamAgrees == StreamSpec => []StreamInv
  <1>1. StreamInit => StreamInv
    BY StreamInit_Inv
  <1>2. StreamInv /\ [StreamNext]_streamVars => StreamInv'
    BY StreamNext_Inv
  <1> QED BY <1>1, <1>2, PTL DEF StreamSpec

\* Whatever the provider says and however the connection cuts it up, the
\* terminal message is the one the non-streaming path builds, an empty reasoning
\* field apart, which that path keeps and the stream drops, and the caller saw
\* the answer once (StreamAssembler::finish, RetryModel::stream).
THEOREM StreamIsOneShot == StreamSpec => []StreamedIsOneShot
  <1>1. StreamInv => StreamedIsOneShot
    BY AgreementIsShown DEF StreamInv, StreamedIsOneShot
  <1> QED BY <1>1, StreamAgrees, PTL

=============================================================================
