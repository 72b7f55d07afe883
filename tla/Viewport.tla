-------------------------------- MODULE Viewport --------------------------------
(***************************************************************************)
(* How a frame of the terminal is shared out: header, conversation, plan,   *)
(* composer or approval panel, mode hint, footer; and where the            *)
(* conversation is scrolled to.                                             *)
(***************************************************************************)
EXTENDS Naturals, Sequences, SequencesExt, FiniteSets, FiniteSetsExt

CONSTANTS
    HeaderHeight, FooterHeight, ModeHintHeight, MinConversationRows, PlanMaxRows,
    FrameHeights,   \* terminal heights, rows
    PanelHeights,   \* heights the composer or the approval panel asks for
    ScrollStep,
    MaxContent,     \* bound on the rows of the conversation, far below u16
    MaxPlan         \* bound on the steps of a plan

ASSUME RowsAreCounted ==
    /\ {HeaderHeight, FooterHeight, ModeHintHeight, MinConversationRows, PlanMaxRows, ScrollStep, MaxContent, MaxPlan}
         \cup FrameHeights \cup PanelHeights \subseteq Nat
    /\ MinConversationRows > 0

VARIABLES
    frame,      \* height, panel wanted at the bottom, whether it is an approval
    plan,       \* statuses of the steps
    pane        \* rows of content, scroll offset, follow, drawn since the last change

viewVars == <<frame, plan, pane>>

Minus(a, b) == IF a > b THEN a - b ELSE 0
Least(a, b) == IF a < b THEN a ELSE b

-----------------------------------------------------------------------------
(* The plan panel.                                                         *)

FirstWith(status) == {i \in 1..Len(plan) : plan[i] = status}
Focus == IF FirstWith("in_progress") # {} THEN Min(FirstWith("in_progress"))
         ELSE IF FirstWith("pending") # {} THEN Min(FirstWith("pending")) ELSE 1

\* First and last step shown: none without rows or when all are completed.
WindowFromFocus(rows) == Focus - 1
WindowStart(rows) == Least(Minus(Focus - 1, rows \div 2), Len(plan) - rows)
VisiblePlan(rows) ==
    IF rows = 0 \/ Range(plan) \subseteq {"completed"} THEN {}
    ELSE IF Len(plan) <= rows THEN 1..Len(plan)
    ELSE (WindowStart(rows) + 1)..(WindowStart(rows) + rows)

-----------------------------------------------------------------------------
(* The panes.                                                              *)

Usable(hint) == Minus(frame.height, HeaderHeight + FooterHeight + hint)
PaneHeights(hint) ==
    LET bottom == Least(frame.panel, Usable(hint))
        rows == Cardinality(VisiblePlan(PlanMaxRows))
        wanted == IF rows = 0 THEN 0 ELSE rows + 1
    IN [bottom |-> bottom,
        plan |-> IF frame.approval THEN 0
                 ELSE Least(wanted, Minus(Minus(Usable(hint), bottom), MinConversationRows))]

Body(hint) == Minus(Minus(Usable(hint), PaneHeights(hint).bottom), PaneHeights(hint).plan)
HintAlways == IF frame.approval THEN 0 ELSE ModeHintHeight
HintHeight ==
    IF ~frame.approval /\ PaneHeights(ModeHintHeight) = PaneHeights(0) /\ Body(ModeHintHeight) >= MinConversationRows
    THEN ModeHintHeight ELSE 0
Panes == PaneHeights(HintHeight)
PlanShown == VisiblePlan(Least(Minus(Panes.plan, 1), PlanMaxRows))

\* The conversation keeps a blank row above and below when it can.
Viewport == LET rows == Body(HintHeight) IN IF rows >= 5 THEN rows - 2 ELSE rows
MaxScroll == Minus(pane.rows, Viewport)

-----------------------------------------------------------------------------
ViewInit ==
    /\ \E h \in FrameHeights, p \in PanelHeights : frame = [height |-> h, panel |-> p, approval |-> FALSE]
    /\ plan = <<>>
    /\ pane = [rows |-> 0, scroll |-> 0, follow |-> TRUE, drawn |-> FALSE]

Changed == pane' = [pane EXCEPT !.drawn = FALSE]

Resize ==
    /\ \E h \in FrameHeights : frame' = [frame EXCEPT !.height = h]
    /\ Changed /\ UNCHANGED plan
PanelChanges ==
    /\ \E p \in PanelHeights, a \in BOOLEAN : frame' = [frame EXCEPT !.panel = p, !.approval = a]
    /\ Changed /\ UNCHANGED plan
TodoUpdate ==
    /\ \E n \in 0..MaxPlan : plan' \in {p \in [1..n -> {"pending", "in_progress", "completed"}] :
                                          Cardinality({i \in 1..n : p[i] = "in_progress"}) <= 1}
    /\ Changed /\ UNCHANGED frame

\* Items are added; a preview that is dropped takes its rows with it.
ContentChanges ==
    /\ \E n \in 0..MaxContent : pane' = [pane EXCEPT !.rows = n, !.drawn = FALSE]
    /\ UNCHANGED <<frame, plan>>
ScrollUp ==
    /\ pane' = [pane EXCEPT !.follow = FALSE, !.scroll = Minus(@, ScrollStep), !.drawn = FALSE]
    /\ UNCHANGED <<frame, plan>>
ScrollDown ==
    /\ pane.scroll <= MaxContent
    /\ pane' = [pane EXCEPT !.scroll = @ + ScrollStep, !.drawn = FALSE]
    /\ UNCHANGED <<frame, plan>>
FollowTail ==
    /\ pane' = [pane EXCEPT !.follow = TRUE, !.drawn = FALSE]
    /\ UNCHANGED <<frame, plan>>

\* draw_conversation.
Unclamped == pane.scroll
Clamped == Least(pane.scroll, MaxScroll)
Draw ==
    /\ LET scroll == IF pane.follow THEN MaxScroll ELSE Clamped
       IN pane' = [pane EXCEPT !.scroll = scroll, !.follow = scroll = MaxScroll, !.drawn = TRUE]
    /\ UNCHANGED <<frame, plan>>

ViewNext == \/ Resize \/ PanelChanges \/ TodoUpdate \/ ContentChanges \/ ScrollUp \/ ScrollDown \/ FollowTail \/ Draw
ViewSpec == ViewInit /\ [][ViewNext]_viewVars

-----------------------------------------------------------------------------
\* The frame always adds up, whatever is open at whatever height: no pane
\* reaches over another, and the mode hint is shown only where it takes nothing
\* from the composer or the plan (pane_heights, mode_hint_height).
PanesFit ==
    frame.height >= HeaderHeight + FooterHeight =>
        /\ HeaderHeight + FooterHeight + HintHeight + Panes.bottom + Panes.plan + Body(HintHeight) = frame.height
        /\ Panes = PaneHeights(0)
        /\ HintHeight > 0 \/ Panes.plan > 0 => Body(HintHeight) >= MinConversationRows

\* A plan panel of any height shows the step being worked on, fills its rows,
\* and never shows a finished plan (visible_plan, draw_plan).
PlanShowsTheWork ==
    Panes.plan > 1 =>
        /\ Focus \in PlanShown /\ PlanShown \subseteq 1..Len(plan)
        /\ Cardinality(PlanShown) = Panes.plan - 1

\* What is drawn while following ends with the newest row, and a reader who
\* scrolled away sees no blank rows below the end and follows again only at the
\* bottom (draw_conversation).
DrawnInRange ==
    pane.drawn => pane.scroll <= MaxScroll /\ (pane.follow <=> pane.scroll = MaxScroll)

\* What is drawn is what is there: the panes fit the frame, the plan panel shows
\* the step being worked on, and the scroll position exists (pane_heights,
\* visible_plan, draw_conversation).
ScreenIsTrue == PanesFit /\ PlanShowsTheWork /\ DrawnInRange

=============================================================================
