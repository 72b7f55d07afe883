-------------------------------- MODULE Composer --------------------------------
(***************************************************************************)
(* The prompt box: a UTF-8 buffer edited at a byte cursor, wrapped to the   *)
(* width of the terminal, with the command menu that opens over it.  A      *)
(* glyph is a character with the bytes and the display cells it takes.      *)
(***************************************************************************)
EXTENDS Integers, Sequences, SequencesExt, FiniteSets, FiniteSetsExt

CONSTANTS
    Glyphs,         \* records with fields ch, bytes, cells
    Newline, Return, Slash, Space,   \* four of them
    Commands,       \* the registered names in table order
    FrameWidths,    \* terminal widths tried
    InputMaxRows,   \* rows the box may grow to
    MaxText         \* bound on the length of the buffer

VARIABLES
    text,       \* the buffer, a sequence of glyphs
    cursor,     \* byte offset into it
    selection,  \* row of the command menu, counted from 0
    submitted   \* what the last key handed on

composerVars == <<text, cursor, selection, submitted>>

-----------------------------------------------------------------------------
(* Offsets.  Index is the number of characters before a byte offset.        *)

ByteLen(t) == FoldLeft(LAMBDA n, g : n + g.bytes, 0, t)
Offset(n) == ByteLen(SubSeq(text, 1, n))
Index(c) == CHOOSE n \in 0..Len(text) : Offset(n) = c

LineStart(c) == Offset(Max({0} \cup {n \in 1..Index(c) : text[n] = Newline}))
LineEnd(c) == Offset(Min({Len(text)} \cup {n \in Index(c)..(Len(text) - 1) : text[n + 1] = Newline}))

ByteAtByteColumn(start, end, col) == IF start + col < end THEN start + col ELSE end
ByteAtColumn(start, end, col) ==
    IF Index(start) + col < Index(end) THEN Offset(Index(start) + col) ELSE end
ByteColumn == cursor - LineStart(cursor)
Column == Index(cursor) - Index(LineStart(cursor))

-----------------------------------------------------------------------------
(* Commands.                                                               *)

Trim(t, blank) ==
    LET solid == {n \in 1..Len(t) : t[n] \notin blank}
    IN IF solid = {} THEN <<>> ELSE SubSeq(t, Min(solid), Max(solid))
Blank == {Space, Newline}
TrimStart(t) ==
    LET solid == {n \in 1..Len(t) : t[n] \notin Blank}
    IN IF solid = {} THEN <<>> ELSE SubSeq(t, Min(solid), Len(t))

\* "none" unless a command name is being typed.
Completions(t) ==
    LET led == TrimStart(t)
    IN IF led = <<>> \/ led[1] # Slash \/ Range(led) \cap Blank # {} THEN <<>>
       ELSE SelectSeq(Commands, LAMBDA name : IsPrefix(Tail(led), name))

FirstRow(menu) == 0
Highlighted(menu) == IF selection < Len(menu) THEN selection ELSE Len(menu) - 1

\* dispatch: what a submitted line is.
Words(line) == IF Range(line) \cap Blank = {} THEN line
               ELSE SubSeq(line, 1, Min({n \in 1..Len(line) : line[n] \in Blank}) - 1)
Dispatch(t) ==
    LET line == Trim(t, Blank)
    IN IF line[1] # Slash THEN [kind |-> "prompt", name |-> t]
       ELSE IF Words(Tail(line)) \in Range(Commands)
            THEN [kind |-> "command", name |-> Words(Tail(line))]
            ELSE [kind |-> "unknown", name |-> Words(Tail(line))]

-----------------------------------------------------------------------------
(* Drawing.  Rows hold the positions of the characters drawn on them.       *)

Cells(t, row) == FoldLeft(LAMBDA n, i : n + t[i].cells, 0, row)
WrapOne(t, w, rows, i) ==
    LET row == Last(rows)
    IN CASE t[i] = Newline -> Append(rows, <<>>)
         [] t[i] # Newline /\ row # <<>> /\ Cells(t, row) + t[i].cells > w -> Append(rows, <<i>>)
         [] OTHER -> Append(Front(rows), Append(row, i))
WrapLines(t, w) == FoldLeft(LAMBDA rows, i : WrapOne(t, w, rows, i), << <<>> >>, [i \in 1..Len(t) |-> i])

CaretStep(w, at, g) ==
    CASE g = Newline -> [row |-> at.row + 1, col |-> 0]
      [] g # Newline /\ at.col > 0 /\ at.col + g.cells > w -> [row |-> at.row + 1, col |-> g.cells]
      [] OTHER -> [at EXCEPT !.col = @ + g.cells]
OverTheEdge(at, w) == at.col > w
PastTheRow(at, w) == at.col >= w
CaretPosition(t, w) ==
    LET at == FoldLeft(LAMBDA p, g : CaretStep(w, p, g), [row |-> 0, col |-> 0], t)
    IN IF PastTheRow(at, w) THEN [row |-> at.row + 1, col |-> 0] ELSE at

ContentWidth(frame) == IF frame > 4 THEN frame - 4 ELSE 1
BeforeCursor == SubSeq(text, 1, Index(cursor))

\* Rows of text inside the border (input_height), and the first one drawn.
InputHeight(frame) ==
    LET w == ContentWidth(frame)
        rows == Max({Len(WrapLines(text, w)), CaretPosition(BeforeCursor, w).row + 1})
    IN IF rows > InputMaxRows THEN InputMaxRows ELSE rows
Scroll(frame) ==
    LET row == CaretPosition(BeforeCursor, ContentWidth(frame)).row
        last == InputHeight(frame) - 1
    IN IF row > last THEN row - last ELSE 0

-----------------------------------------------------------------------------
(* Keys.                                                                   *)

Nothing == [kind |-> "nothing", name |-> <<>>]
ComposerInit == text = <<>> /\ cursor = 0 /\ selection = 0 /\ submitted = Nothing

Put(t, n, s) == SubSeq(t, 1, n) \o s \o SubSeq(t, n + 1, Len(t))
Insert(s) ==
    /\ Len(text) + Len(s) <= MaxText
    /\ text' = Put(text, Index(cursor), s) /\ cursor' = cursor + ByteLen(s)
    /\ submitted' = Nothing /\ UNCHANGED selection

InsertChar == \E g \in Glyphs \ {Return} : Insert(<<g>>)

\* A paste comes with the line ends of another platform.
Normalized(s) ==
    LET kept == SelectSeq([i \in 1..Len(s) |-> i], LAMBDA i : ~(s[i] = Newline /\ i > 1 /\ s[i - 1] = Return))
    IN [i \in 1..Len(kept) |-> IF s[kept[i]] = Return THEN Newline ELSE s[kept[i]]]
InsertPaste == \E s \in BoundedSeq(Glyphs, 2) : s # <<>> /\ Insert(Normalized(s))

EditTo(t, c) == text' = t /\ cursor' = c /\ submitted' = Nothing /\ UNCHANGED selection
Backspace ==
    /\ cursor > 0
    /\ EditTo(RemoveAt(text, Index(cursor)), Offset(Index(cursor) - 1))
Delete ==
    /\ cursor < ByteLen(text)
    /\ EditTo(RemoveAt(text, Index(cursor) + 1), cursor)

MoveTo(c) == EditTo(text, c)
MoveLeft == cursor > 0 /\ MoveTo(Offset(Index(cursor) - 1))
MoveRight == cursor < ByteLen(text) /\ MoveTo(Offset(Index(cursor) + 1))
MoveHome == MoveTo(LineStart(cursor))
MoveEnd == MoveTo(LineEnd(cursor))

Menu == Completions(text)

\* With a menu open the bare arrows, Tab and Enter are the menu's; with a
\* modifier they reach the buffer.
MoveUp ==
    /\ LineStart(cursor) > 0
    /\ LET end == LineStart(cursor) - Newline.bytes IN MoveTo(ByteAtColumn(LineStart(end), end, Column))
MoveDown ==
    /\ LineEnd(cursor) < ByteLen(text)
    /\ LET start == LineEnd(cursor) + Newline.bytes IN MoveTo(ByteAtColumn(start, LineEnd(start), Column))

Select(row) == selection' = row /\ submitted' = Nothing /\ UNCHANGED <<text, cursor>>
MenuUp == Menu # <<>> /\ Select(IF Highlighted(Menu) > 0 THEN Highlighted(Menu) - 1 ELSE 0)
MenuDown == Menu # <<>> /\ Select(Min({Highlighted(Menu) + 1, Len(Menu) - 1}))
MenuTab ==
    /\ Menu # <<>>
    /\ LET done == <<Slash>> \o Menu[Highlighted(Menu) + 1] \o <<Space>>
       IN text' = done /\ cursor' = ByteLen(done)
    /\ selection' = 0 /\ submitted' = Nothing

Take(what) == text' = <<>> /\ cursor' = 0 /\ submitted' = what
MenuEnter ==
    /\ Menu # <<>>
    /\ Take(Dispatch(<<Slash>> \o Menu[Highlighted(Menu) + 1])) /\ selection' = 0
Enter ==
    /\ Menu = <<>> /\ Trim(text, Blank) # <<>>
    /\ Take(Dispatch(text)) /\ UNCHANGED selection

ComposerNext ==
    \/ InsertChar \/ InsertPaste \/ Backspace \/ Delete \/ MoveLeft \/ MoveRight \/ MoveHome \/ MoveEnd
    \/ MoveUp \/ MoveDown \/ MenuUp \/ MenuDown \/ MenuTab \/ MenuEnter \/ Enter

ComposerSpec == ComposerInit /\ [][ComposerNext]_composerVars

-----------------------------------------------------------------------------
\* Every slice the editor takes is legal: the cursor is never inside a
\* character, whatever was typed, pasted, deleted or walked over (input.rs).
CursorOnBoundary == \E n \in 0..Len(text) : Offset(n) = cursor

\* The caret is drawn where the next typed character will appear, for every
\* width, and the box hides no row of a text that fits its maximal height
\* (caret_position, input_height, against wrap_lines).
Probe == CHOOSE g \in Glyphs : g.cells = 1
CaretWhereTypingLands ==
    CursorOnBoundary => \A frame \in FrameWidths :
        LET w == ContentWidth(frame)
            n == Index(cursor) + 1
            typed == Put(text, n - 1, <<Probe>>)
            rows == WrapLines(typed, w)
            row == CHOOSE r \in 1..Len(rows) : n \in Range(rows[r])
            caret == CaretPosition(BeforeCursor, w)
            scroll == Scroll(frame)
        IN /\ caret.row = row - 1
           /\ caret.col = Cells(typed, SelectSeq(rows[row], LAMBDA i : i < n))
           /\ caret.row - scroll \in 0..(InputHeight(frame) - 1)
           /\ Max({Len(WrapLines(text, w)), caret.row + 1}) <= InputMaxRows => scroll = 0

\* Up and Down keep the column, or take the end of a shorter line, counting
\* characters and not bytes.
Place(n) ==
    LET ends == {i \in 1..n : text[i] = Newline}
    IN [line |-> Cardinality(ends), col |-> n - Max({0} \cup ends)]
Places == {Place(n) : n \in 0..Len(text)}
Moved(by) ==
    LET from == Place(Index(cursor))
        cols == {p.col : p \in {q \in Places : q.line = from.line + by}}
    IN Place(CHOOSE n \in 0..Len(text) : Offset(n) = cursor') =
          [line |-> from.line + by, col |-> Min({from.col, Max(cols)})]
ColumnKept == (MoveUp => Moved(-1)) /\ (MoveDown => Moved(1))
MotionKeepsColumn == [][ColumnKept]_composerVars

\* Enter runs the row the menu shows as chosen, and never anything that the
\* typed letters do not begin (handle_menu_key against draw_command_menu).
RowTaken ==
    MenuEnter => /\ submitted'.kind = "command"
                 /\ IsPrefix(Tail(TrimStart(text)), submitted'.name)
                 /\ submitted'.name = Menu[Min({selection, Len(Menu) - 1}) + 1]
MenuKeepsItsWord == [][RowTaken]_composerVars

=============================================================================
