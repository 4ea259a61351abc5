---------------------------- MODULE ListControls ----------------------------
(***************************************************************************)
(* The controls of the list of downloads (app-ui/download-manager/         *)
(* events.js, actions.js, floating.js): the row that has the focus, the    *)
(* rows selected for a command on all of them, the menu of a row, and the  *)
(* drag of a file. The list is drawn again as a whole or patched row by    *)
(* row; the menu stands in a layer outside of it, so that its clicks are   *)
(* heard by a listener of the document that every drawing replaces.        *)
(***************************************************************************)
EXTENDS Integers, FiniteSets

CONSTANTS
    Rows,        \* the ids of the rows, numbers from 1
    MaxClicks,   \* what the user does
    MaxNews      \* how often the rows of the list change

VARIABLES
    list,                    \* runtimeState.liveJobs, as the section shows them
    selectionMode, selectedJobIds,
    selectedJobId,           \* the row that has the focus; 0 is none
    marks, counted,          \* what the rows show, and the number on "Eliminar"
    own,                     \* the rows whose buttons have listeners of their own
    rowMenuJobId, floating,  \* the open menu, and the one that stands in the layer
    echo,                    \* the menu is younger than 450 ms, the pointer near it
    closing,                 \* the timer that closes a menu that was clicked
    delegates,               \* listeners of the document for the layer
    drag, dragging,          \* the gesture, and calls of start_file_drag
    sent,                    \* how often the last gesture was acted on
    clicks, news

rows == <<list, marks, counted, own>>
selection == <<selectionMode, selectedJobIds, selectedJobId>>
menu == <<rowMenuJobId, floating, echo, closing, delegates>>
controlVars == <<rows, selection, menu, drag, dragging, sent, clicks, news>>

ControlConstants ==
    Rows \subseteq Nat \ {0} /\ IsFiniteSet(Rows) /\ {MaxClicks, MaxNews} \subseteq Nat

\* What the user does, with the pointer up.
Gesture == drag = "none" /\ clicks < MaxClicks /\ clicks' = clicks + 1 /\ UNCHANGED news

\* isVisuallySelected, patchVisualSelection.
Mark(r, mode, ids, focused) ==
    IF mode THEN (IF r \in ids THEN "picked" ELSE "plain")
    ELSE IF r = focused THEN "focus" ELSE "plain"
Marks(drawn, mode, ids, focused) ==
    [r \in Rows |-> IF r \in drawn THEN Mark(r, mode, ids, focused) ELSE "absent"]
\* patchSelectionControls; the number stands there in selection mode only.
Counted(mode, ids) == IF mode THEN Cardinality(ids) ELSE 0

\* The listener of the drawing before is released, and one is added. (Hoarded: the
\* one before stays.)
Hoarded(n)  == n + 1
Rebound(n)  == n - (IF n > 0 THEN 1 ELSE 0) + 1

ControlInit ==
    /\ list \in SUBSET Rows
    /\ selectionMode = FALSE /\ selectedJobIds = {} /\ selectedJobId = 0
    /\ marks = Marks(list, FALSE, {}, 0) /\ counted = 0
    /\ own = list /\ rowMenuJobId = 0 /\ floating = 0 /\ echo = FALSE
    /\ closing = FALSE /\ delegates = 1
    /\ drag = "none" /\ dragging = 0 /\ sent = 0 /\ clicks = 0 /\ news = 0

\* All is drawn again: buttons get their listeners, and the open menu is moved to
\* the layer in the place of the one before.
Draw(drawn) ==
    /\ list' = drawn
    /\ marks' = Marks(drawn, selectionMode', selectedJobIds', selectedJobId')
    /\ counted' = Counted(selectionMode', selectedJobIds')
    /\ own' = drawn
    /\ floating' = IF rowMenuJobId' \in drawn THEN rowMenuJobId' ELSE 0
    /\ delegates' = Rebound(delegates)
\* The rows in place.
Patch ==
    /\ marks' = Marks(list, selectionMode', selectedJobIds', selectedJobId')
    /\ counted' = Counted(selectionMode', selectedJobIds')
    /\ UNCHANGED <<list, own, floating, delegates>>

\* A press of the pointer elsewhere closes the menu and draws, so that the click it
\* begins finds nothing; it is left alone while it may be the echo of the press
\* that opened the menu.
Reaches == rowMenuJobId = 0 \/ echo
Close == rowMenuJobId' = 0 /\ echo' = FALSE

----------------------------------------------------------------------------
(* Selecting                                                               *)

\* A click on a row, or Enter. In selection mode it is added or taken out, once for
\* every listener that hears it; the focus may open the details, which draws.
Flip(r, ids) == IF delegates % 2 = 0 THEN ids ELSE IF r \in ids THEN ids \ {r} ELSE ids \cup {r}
ClickRow(r) ==
    /\ Gesture /\ Reaches /\ r \in list
    /\ UNCHANGED <<selectionMode, rowMenuJobId, echo, closing, drag, dragging, sent>>
    /\ IF selectionMode
       THEN selectedJobIds' = Flip(r, selectedJobIds) /\ UNCHANGED selectedJobId /\ Patch
       ELSE selectedJobId' = r /\ UNCHANGED selectedJobIds /\ (Patch \/ Draw(list))

\* The box of a row.
Check(r) ==
    /\ Gesture /\ Reaches /\ selectionMode /\ r \in list
    /\ selectedJobIds' = IF r \in selectedJobIds THEN selectedJobIds \ {r} ELSE selectedJobIds \cup {r}
    /\ UNCHANGED <<selectionMode, selectedJobId>>
    /\ Patch
    /\ UNCHANGED <<rowMenuJobId, echo, closing, drag, dragging, sent>>

\* All that the section shows, or none of it.
SelectAll ==
    /\ Gesture /\ Reaches /\ selectionMode
    /\ selectedJobIds' = IF list # {} /\ list \subseteq selectedJobIds THEN selectedJobIds \ list
                         ELSE selectedJobIds \cup list
    /\ UNCHANGED <<selectionMode, selectedJobId, rowMenuJobId, echo>>
    /\ Draw(list)
    /\ UNCHANGED <<closing, drag, dragging, sent>>

\* (ToggleKeeping: what was selected stays so.)
Toggles(ids) ==
    /\ Gesture /\ Reaches
    /\ selectionMode' = ~selectionMode /\ selectedJobIds' = ids
    /\ UNCHANGED selectedJobId
    /\ Close /\ Draw(list)
    /\ UNCHANGED <<closing, drag, dragging, sent>>
ToggleKeeping == Toggles(selectedJobIds)
ToggleMode == Toggles(IF selectionMode THEN {} ELSE selectedJobIds)

\* A click on nothing takes the focus and the selection away.
ClickBlank ==
    /\ Gesture /\ Reaches /\ (selectedJobId # 0 \/ selectedJobIds # {})
    /\ selectedJobId' = 0 /\ selectedJobIds' = {} /\ selectionMode' = FALSE
    /\ rowMenuJobId' = 0 /\ UNCHANGED echo
    /\ Draw(list)
    /\ UNCHANGED <<closing, drag, dragging, sent>>

----------------------------------------------------------------------------
(* The menu of a row                                                       *)

Opened(r) ==
    /\ selectedJobId' = r /\ UNCHANGED <<selectionMode, selectedJobIds>>
    /\ Draw(list)
    /\ UNCHANGED <<closing, drag, dragging, sent>>
\* The other button of the pointer, or the key for it.
ContextMenu(r) ==
    /\ Gesture /\ r \in list
    /\ rowMenuJobId' = r /\ echo' = TRUE /\ Opened(r)
\* The button of the row opens and closes it; a row that was patched in has no
\* listener of its own, and the list's only opens.
MenuButton(r) ==
    /\ Gesture /\ r \in list
    /\ IF r \in own /\ rowMenuJobId = r THEN rowMenuJobId' = 0 /\ UNCHANGED echo
       ELSE rowMenuJobId' = r /\ echo' = (r \in own \/ echo)
    /\ Opened(r)

\* Some buttons of the menu have a listener of their own which ends the event there
\* ("acts"), or draws and lets it go on to the document's ("opens" a dialog, twice,
\* which only looks twice at what would be deleted); others are heard by the
\* document's alone ("asks": a new name, a limit of speed).
ClickMenu(kind) ==
    /\ Gesture /\ floating # 0
    /\ sent' = CASE kind = "acts" -> 1 [] kind = "opens" -> 0 [] kind = "asks" -> delegates
    /\ closing' = TRUE
    /\ UNCHANGED <<selection, drag, dragging>>
    /\ CASE kind = "acts" -> Close /\ Draw(list)
         [] kind = "opens" -> UNCHANGED <<rowMenuJobId, echo>> /\ Draw(list)
         [] kind = "asks" -> \/ UNCHANGED <<rows, rowMenuJobId, floating, echo, delegates>>
                             \/ rowMenuJobId' = 0 /\ UNCHANGED echo /\ Draw(list)

\* The timer of the click closes whatever menu is open by then.
ClosesMenu ==
    /\ closing /\ closing' = FALSE
    /\ UNCHANGED <<selection, drag, dragging, sent, clicks, news>>
    /\ IF rowMenuJobId = 0 THEN UNCHANGED <<rows, rowMenuJobId, floating, echo, delegates>>
       ELSE Close /\ Draw(list)
\* A press elsewhere, the wheel over the list, Escape.
Dismiss ==
    /\ Gesture /\ rowMenuJobId # 0
    /\ UNCHANGED selection
    /\ Close /\ Draw(list)
    /\ UNCHANGED <<closing, drag, dragging, sent>>
EchoEnds ==
    /\ echo /\ echo' = FALSE
    /\ UNCHANGED <<rows, selection, rowMenuJobId, floating, closing, delegates, drag,
                   dragging, sent, clicks, news>>

\* A button of the row itself: its own listener draws first; the list's leaves the
\* menu that stands in the layer until the list is drawn.
ClickButton(r) ==
    /\ Gesture /\ Reaches /\ r \in list
    /\ UNCHANGED <<selection, closing, drag, dragging>>
    /\ IF r \in own THEN sent' = 1 /\ Close /\ Draw(list)
       ELSE /\ sent' = delegates /\ rowMenuJobId' = 0 /\ UNCHANGED echo
            /\ UNCHANGED <<rows, floating, delegates>>

----------------------------------------------------------------------------
(* The drag of a file out of the window                                    *)

\* The calls that are not answered are counted up to two.
Press(r) ==
    /\ Gesture /\ Reaches /\ r \in list
    /\ drag' = "candidate" /\ sent' = 0
    /\ UNCHANGED <<rows, selection, menu, dragging>>
\* Eight pixels away: it is asked for once.
Drag ==
    /\ drag = "candidate" /\ dragging < 2
    /\ drag' = "asked" /\ dragging' = dragging + 1 /\ sent' = sent + 1
    /\ UNCHANGED <<rows, selection, menu, clicks, news>>
Release ==
    /\ drag # "none" /\ drag' = "none"
    /\ UNCHANGED <<rows, selection, menu, dragging, sent, clicks, news>>
\* The answer ends the gesture, also when it is another by then.
Dragged ==
    /\ dragging > 0 /\ dragging' = dragging - 1 /\ drag' = "none"
    /\ UNCHANGED <<rows, selection, menu, sent, clicks, news>>

----------------------------------------------------------------------------
\* Rows come and go: all is drawn again, or the rows in place. A row patched in has
\* no listeners of its own.
News(drawn) ==
    /\ news < MaxNews /\ news' = news + 1 /\ drawn # list
    /\ UNCHANGED <<selection, rowMenuJobId, echo, closing, drag, dragging, sent, clicks>>
    /\ \/ Draw(drawn)
       \/ /\ list' = drawn /\ own' = own \cap drawn
          /\ marks' = Marks(drawn, selectionMode, selectedJobIds, selectedJobId)
          /\ UNCHANGED <<counted, floating, delegates>>

ControlNext ==
    \/ \E r \in Rows : ClickRow(r) \/ Check(r) \/ ContextMenu(r) \/ MenuButton(r)
                       \/ ClickButton(r) \/ Press(r)
    \/ SelectAll \/ ToggleMode \/ ClickBlank
    \/ \E kind \in {"acts", "opens", "asks"} : ClickMenu(kind)
    \/ ClosesMenu \/ Dismiss \/ EchoEnds
    \/ Drag \/ Release \/ Dragged
    \/ \E drawn \in SUBSET Rows : News(drawn)

ControlSpec == ControlInit /\ [][ControlNext]_controlVars

----------------------------------------------------------------------------
(* Properties                                                              *)

\* Every variable has its type.
ControlTypes ==
    /\ list \subseteq Rows /\ own \subseteq list
    /\ selectionMode \in BOOLEAN /\ selectedJobIds \subseteq Rows
    /\ {selectedJobId, rowMenuJobId, floating} \subseteq Rows \cup {0}
    /\ marks \in [Rows -> {"absent", "plain", "focus", "picked"}] /\ counted \in Nat
    /\ {echo, closing} \subseteq BOOLEAN /\ {delegates, dragging, sent, clicks, news} \subseteq Nat
    /\ drag \in {"none", "candidate", "asked"}

\* What a command on the selection will act on is what the list shows as selected,
\* and as many as it counts, although clicks patch the rows and only some draw them;
\* and a click or a drag is acted on once, however often the list was drawn and
\* wherever its menu stands (events.js: "otherwise every refresh would invoke the
\* IPC command multiple times").
ControlsHold ==
    /\ marks = Marks(list, selectionMode, selectedJobIds, selectedJobId)
    /\ selectedJobIds # {} => selectionMode
    /\ counted = Counted(selectionMode, selectedJobIds)
    /\ sent <= 1
=============================================================================
