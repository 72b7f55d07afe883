-------------------------------- MODULE BashTool --------------------------------
(***************************************************************************)
(* The bash tool: how a command line is cut into the commands the rules are *)
(* asked about, and how a command is run, timed out, cancelled and read.    *)
(* A command line is a sequence of tokens; the bytes of the output are      *)
(* numbered in the order they are written.                                  *)
(***************************************************************************)
EXTENDS Naturals, Sequences, SequencesExt, FiniteSets

CONSTANTS
    Helpers,        \* processes the shell may leave running
    HeadBytes, TailBytes,   \* halves of the output that are kept
    ChunkBytes,     \* bytes one read takes at most
    MaxLine,        \* bound on the tokens of a command line
    MaxOutput       \* bound on the bytes written

ASSUME CaptureSizes == HeadBytes \in Nat /\ TailBytes \in Nat /\ ChunkBytes \in Nat

VARIABLES
    line,       \* the command line being given
    phase,      \* "preparing", "waiting", "draining", "done" or "dropped"
    procs,      \* the processes of the command
    pipe,       \* bytes written, bytes read, the reader's capture
    shellResult \* what the tool returned

bashVars == <<line, phase, procs, pipe, shellResult>>

-----------------------------------------------------------------------------
(* Cutting a command line.                                                 *)

Operators == {";", "&", "|"}
Quotes == {"'", "dq"}
\* Expansions act inside double quotes as well, the other metacharacters not.
Expansions == {"$"}
Uncertain == Expansions \cup {"<"}
Programs == {"eval", "sh"}
Tokens == {"w", "-c", " "} \cup Operators \cup Quotes \cup Uncertain \cup Programs

Opaque == [bad |-> TRUE]

\* Blanks outside quotes become one, and none at the ends.
Settled(w) == [out |-> w.out, quote |-> w.quote, gap |-> FALSE]
Feed(w, t) ==
    IF w.quote # "" THEN [w EXCEPT !.out = Append(@, t), !.quote = IF t = @ THEN "" ELSE @]
    ELSE IF t = " " THEN [w EXCEPT !.gap = TRUE]
    ELSE [out |-> (IF w.gap /\ w.out # <<>> THEN Append(w.out, " ") ELSE w.out) \o <<t>>,
          quote |-> IF t \in Quotes THEN t ELSE "", gap |-> FALSE]
Normalize(c) == FoldLeft(Feed, [out |-> <<>>, quote |-> "", gap |-> FALSE], c).out

\* Words cut at every blank, quoted or not (split_whitespace).
WordAt(c, i) ==
    LET ends == {j \in i..Len(c) : c[j] = " "}
    IN SubSeq(c, i, IF ends = {} THEN Len(c) ELSE (CHOOSE j \in ends : \A k \in ends : j <= k) - 1)
WordStarts(c) == {i \in 1..Len(c) : c[i] # " " /\ (i = 1 \/ c[i - 1] = " ")}
FirstWord(c) == WordAt(c, CHOOSE i \in WordStarts(c) : \A j \in WordStarts(c) : i <= j)
IsDynamic(c) ==
    \/ FirstWord(c) = <<"eval">>
    \/ FirstWord(c) = <<"sh">> /\ \E i \in WordStarts(c) : WordAt(c, i) = <<"-c">>

PushUncleared(s) ==
    [bad |-> FALSE, commands |-> Append(s.commands, Normalize(s.current)), current |-> s.current,
     quote |-> "", skip |-> FALSE]
PushCommand(s) ==
    LET c == Normalize(s.current)
    IN IF c = <<>> \/ IsDynamic(c) THEN Opaque
       ELSE [bad |-> FALSE, commands |-> Append(s.commands, c), current |-> <<>>, quote |-> "", skip |-> FALSE]

Keep(s, t) == [s EXCEPT !.current = Append(@, t)]
\* & must be doubled, | may be; the second one belongs to the operator.
QuotedKept(s, t) == IF t = s.quote THEN [Keep(s, t) EXCEPT !.quote = ""] ELSE Keep(s, t)
InDouble(s, t) == IF t \in Expansions THEN Opaque ELSE QuotedKept(s, t)
Unquoted(s, t, next) ==
    CASE t \in Quotes -> [Keep(s, t) EXCEPT !.quote = t]
      [] t \in Uncertain -> Opaque
      [] t = "&" -> IF next # "&" THEN Opaque
                    ELSE IF PushCommand(s).bad THEN Opaque ELSE [PushCommand(s) EXCEPT !.skip = TRUE]
      [] t = "|" -> IF PushCommand(s).bad THEN Opaque ELSE [PushCommand(s) EXCEPT !.skip = next = "|"]
      [] t = ";" -> PushCommand(s)
      [] OTHER -> Keep(s, t)

CutStep(c, s, i) ==
    CASE s.bad -> Opaque
      [] ~s.bad /\ s.skip -> [s EXCEPT !.skip = FALSE]
      [] ~s.bad /\ ~s.skip /\ s.quote = "'" -> QuotedKept(s, c[i])
      [] ~s.bad /\ ~s.skip /\ s.quote = "dq" -> InDouble(s, c[i])
      [] OTHER -> Unquoted(s, c[i], IF i < Len(c) THEN c[i + 1] ELSE "end")

\* The commands of a line, or none when it is one opaque command.
SimpleCommandChain(c) ==
    LET s == FoldLeft(LAMBDA st, i : CutStep(c, st, i),
                      [bad |-> FALSE, commands |-> <<>>, current |-> <<>>, quote |-> "", skip |-> FALSE],
                      [i \in 1..Len(c) |-> i])
    IN IF s.bad THEN <<>> ELSE IF s.quote # "" THEN <<>>
       ELSE IF PushCommand(s).bad THEN <<>> ELSE PushCommand(s).commands

-----------------------------------------------------------------------------
(* Running.  The shell leads a process group of its own.                   *)

Leader == "leader"
All == Helpers \cup {Leader}
NoProcess == [st |-> "none", inGroup |-> FALSE, holds |-> FALSE]
Alive(p) == procs[p].st = "alive"
Kill(ps, who) == [p \in All |-> IF p \in who THEN [ps[p] EXCEPT !.st = "dead", !.holds = FALSE] ELSE ps[p]]

EmptyCapture == [head |-> <<>>, tail |-> <<>>, total |-> 0, closed |-> FALSE]
NoResult == [kind |-> "none"]

BashInit ==
    /\ line = <<>> /\ phase = "preparing"
    /\ procs = [p \in All |-> NoProcess]
    /\ pipe = [written |-> 0, read |-> 0, capture |-> EmptyCapture, attached |-> FALSE]
    /\ shellResult = NoResult

GiveToken ==
    /\ phase = "preparing" /\ Len(line) < MaxLine
    /\ \E t \in Tokens : line' = Append(line, t)
    /\ UNCHANGED <<phase, procs, pipe, shellResult>>

\* An empty line is refused; a shell that cannot be started is a failure.
Spawn ==
    /\ phase = "preparing" /\ ~(Range(line) \subseteq {" "}) /\ line' = <<>>
    /\ \/ /\ phase' = "done" /\ shellResult' = [kind |-> "execution"] /\ UNCHANGED <<procs, pipe>>
       \/ /\ phase' = "waiting"
          /\ procs' = [procs EXCEPT ![Leader] = [st |-> "alive", inGroup |-> TRUE, holds |-> TRUE]]
          /\ pipe' = [pipe EXCEPT !.attached = TRUE] /\ UNCHANGED shellResult

Fork ==
    /\ \E p \in All, q \in Helpers : Alive(p) /\ procs[q].st = "none" /\ procs' = [procs EXCEPT ![q] = procs[p]]
    /\ UNCHANGED <<line, phase, pipe, shellResult>>
\* A daemon leaves the group; a process may close its output.
Detach ==
    /\ \E p \in Helpers : Alive(p) /\ procs[p].inGroup /\ procs' = [procs EXCEPT ![p].inGroup = FALSE]
    /\ UNCHANGED <<line, phase, pipe, shellResult>>
CloseOutput ==
    /\ \E p \in All : Alive(p) /\ procs[p].holds /\ procs' = [procs EXCEPT ![p].holds = FALSE]
    /\ UNCHANGED <<line, phase, pipe, shellResult>>
Exit ==
    /\ \E p \in All : Alive(p) /\ procs' = Kill(procs, {p})
    /\ UNCHANGED <<line, phase, pipe, shellResult>>
Write ==
    /\ \E p \in All : Alive(p) /\ procs[p].holds
    /\ pipe.written < MaxOutput /\ pipe' = [pipe EXCEPT !.written = @ + 1]
    /\ UNCHANGED <<line, phase, procs, shellResult>>

\* StreamCapture::push.
Push(c, bytes) ==
    LET n == Len(bytes)
        h == IF n < HeadBytes - Len(c.head) THEN n ELSE HeadBytes - Len(c.head)
        tail == c.tail \o SubSeq(bytes, h + 1, n)
        over == IF Len(tail) > TailBytes THEN Len(tail) - TailBytes ELSE 0
    IN [c EXCEPT !.total = @ + n, !.head = @ \o SubSeq(bytes, 1, h), !.tail = SubSeq(tail, over + 1, Len(tail))]

\* The pump: it reads until no process holds the other end.
Pump ==
    /\ pipe.attached
    /\ \/ \E n \in 1..ChunkBytes :
             /\ pipe.read + n <= pipe.written
             /\ pipe' = [pipe EXCEPT !.read = @ + n, !.capture = Push(@, [i \in 1..n |-> pipe.read + i])]
       \/ /\ pipe.read = pipe.written /\ \A p \in All : ~(Alive(p) /\ procs[p].holds)
          /\ pipe' = [pipe EXCEPT !.capture.closed = TRUE, !.attached = FALSE]
    /\ UNCHANGED <<line, phase, procs, shellResult>>

LeaderOnly == {Leader}
SignalTermination == {p \in All : Alive(p) /\ procs[p].inGroup} \cup {Leader}

\* The shell ended by itself: what it left in the background lives on.
WaitEnds ==
    /\ phase = "waiting" /\ ~Alive(Leader) /\ phase' = "draining"
    /\ \E kind \in {"ok", "non_zero_exit"} : shellResult' = [kind |-> kind]
    /\ UNCHANGED <<line, procs, pipe>>
Timeout ==
    /\ phase = "waiting" /\ phase' = "draining" /\ shellResult' = [kind |-> "timeout"]
    /\ procs' = Kill(procs, SignalTermination)
    /\ UNCHANGED <<line, pipe>>
\* The turn is cancelled: the future is dropped, with the guard armed until the
\* shell is reaped.  The pump task is not aborted.
Drop ==
    /\ phase \in {"waiting", "draining"} /\ phase' = "dropped"
    /\ procs' = IF phase = "waiting" THEN Kill(procs, SignalTermination) ELSE procs
    /\ shellResult' = IF phase = "waiting" THEN [kind |-> "cancelled"] ELSE shellResult
    /\ UNCHANGED <<line, pipe>>

Omitted(c) == c.total - (Len(c.head) + Len(c.tail))
TruncatedIfOmitted(c) == Omitted(c) > 0
Truncated(c) == Omitted(c) > 0 \/ ~c.closed
Text(c) == [head |-> c.head, tail |-> c.tail, from |-> c.total - Len(c.tail)]
Return ==
    /\ phase' = "done" /\ pipe' = [pipe EXCEPT !.attached = FALSE, !.capture = EmptyCapture]
    /\ shellResult' = [kind |-> shellResult.kind, text |-> Text(pipe.capture),
                  truncated |-> Truncated(pipe.capture) \/ shellResult.kind = "timeout"]
    /\ UNCHANGED <<line, procs>>
DrainEnds == phase = "draining" /\ ~pipe.attached /\ Return
WaitsForEof == DrainEnds
GraceElapses == phase = "draining" /\ pipe.attached /\ Return

BashNext == GiveToken \/ Spawn \/ Fork \/ Detach \/ CloseOutput \/ Exit \/ Write \/ Pump
            \/ WaitEnds \/ Timeout \/ Drop \/ DrainEnds \/ GraceElapses

\* The two timers fire, and the reader runs.
BashSpec == BashInit /\ [][BashNext]_bashVars
            /\ WF_bashVars(Timeout \/ WaitEnds) /\ WF_bashVars(GraceElapses \/ DrainEnds)

-----------------------------------------------------------------------------
\* A command that was stopped, by its timeout or by the end of its turn, leaves
\* no process of its group behind, whatever it forked (ManagedChild).
NoStragglers == shellResult.kind \in {"timeout", "cancelled"} => \A p \in All : ~(Alive(p) /\ procs[p].inGroup)

\* The text begins with the first bytes written and ends with the last bytes
\* read, in order; a result that does not say it is truncated has every byte,
\* and nobody is left who could write another (StreamCapture, output_text).
OutputIsHonest ==
    phase = "done" /\ "text" \in DOMAIN shellResult =>
        LET t == shellResult.text
        IN /\ t.head = [i \in 1..Len(t.head) |-> i]
           /\ t.tail = [i \in 1..Len(t.tail) |-> t.from + i]
           /\ ~shellResult.truncated =>
                 /\ t.head \o t.tail = [i \in 1..pipe.written |-> i]
                 /\ \A p \in All : ~(Alive(p) /\ procs[p].holds)

\* A stopped command leaves no process of its group behind, and the output of a
\* command is its first and last bytes, in order, and complete unless the result
\* says otherwise (ManagedChild, StreamCapture).
CommandsEndTruly == NoStragglers /\ OutputIsHonest

\* A call ends however its processes behave: one that never exits meets the
\* timeout, one that never closes its output meets the grace (run_prepared).
CallEnds == phase = "waiting" ~> phase \in {"done", "dropped"}

\* The commands a line is cut into are in the form the rules are written in:
\* each is cut into itself, and they hold every token of the line that is not
\* an operator or a blank, in order (simple_command_chain).
Solid(c) == SelectSeq(c, LAMBDA t : t \notin Operators \cup {" "})
ChainIsStable ==
    LET chain == SimpleCommandChain(line)
    IN chain # <<>> =>
          /\ \A i \in 1..Len(chain) : SimpleCommandChain(chain[i]) = <<chain[i]>>
          /\ FlattenSeq([i \in 1..Len(chain) |-> Solid(chain[i])]) = Solid(line)

=============================================================================
