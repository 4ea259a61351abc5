----------------------------- MODULE VirtualList -----------------------------
(***************************************************************************)
(* The long lists (history, completed) draw a window of their rows between *)
(* two spacers.  The window follows from the scroll position and from the  *)
(* heights known by now: rows are estimated until they have been drawn and *)
(* measured.  Drawing and measuring happen in animation frames of their    *)
(* own, a drawing of the whole page moves the list to its top until it is  *)
(* put back, and a row menu holds everything.                              *)
(***************************************************************************)
EXTENDS Integers, Sequences, FiniteSets

CONSTANTS
    Ids,           \* the rows
    Tall,          \* the height of some rows; the others are 1 high
    Estimated,     \* estimatedRowHeight
    Viewport,      \* clientHeight
    Overscan,      \* VIRTUAL_OVERSCAN_ROWS
    MaxMoves       \* scrolls, snapshots, menus and drawings of the page

VirtualConstants ==
    /\ IsFiniteSet(Ids) /\ Ids # {} /\ {Tall, Estimated, Viewport} \subseteq Nat \ {0}
    /\ Overscan \in Nat /\ MaxMoves \in Nat

VARIABLES
    tall,       \* the rows that are Tall on the page
    list,       \* the rows of the section, in order
    heights,    \* the measured rows
    top,        \* scrollTop of the page's list
    seen,       \* state.scrollTop
    window,     \* what is drawn: [start, end, above, below]
    frames,     \* what animation frames have still to do, in order
    kept,       \* the position to be put back after the page was drawn again
    held,       \* rowMenuJobId
    moves

virtualVars == <<tall, list, heights, top, seen, window, frames, kept, held, moves>>

Larger(a, b) == IF a > b THEN a ELSE b
Smaller(a, b) == IF a < b THEN a ELSE b

\* What rows take on the page, and what virtualListMetrics knows of it.
Sum(ids) == Cardinality(ids \cap tall) * Tall + Cardinality(ids \ tall)
Estimate(ids, measured) ==
    Sum(ids \cap measured) + Cardinality(ids \ measured) * Estimated

\* Where row i + 1 begins.
Offset(rows, i, measured) == Estimate({rows[k] : k \in (1..i) \cap DOMAIN rows}, measured)

\* What a binary search of virtualListRange finds: the first index that passes.
First(from, to, passes(_)) ==
    CHOOSE i \in from..to : passes(i) /\ \A k \in from..(i - 1) : ~passes(k)

\* The last row drawn, when row i is the last one in view.
EndUnbounded(n, i) == i + Overscan
End(n, i) == Smaller(n, i + Overscan)

\* virtualListRange
Range(rows, at, measured) ==
    LET n          == Len(rows)
        Past(i)    == i = n \/ Offset(rows, i + 1, measured) > at
        Beyond(i)  == i = n \/ Offset(rows, i, measured) >= at + Viewport
        first      == First(0, n, Past)
        start      == IF first > Overscan THEN first - Overscan ELSE 0
        end        == End(n, First(first, n, Beyond))
        below      == Offset(rows, n, measured) - Offset(rows, end, measured)
    IN [start |-> start, end |-> end, above |-> Offset(rows, start, measured),
        below |-> below]

Drawn(w, rows) == {rows[i] : i \in ((w.start + 1)..w.end) \cap DOMAIN rows}
Size(w, rows) == w.above + Sum(Drawn(w, rows)) + w.below

\* The browser keeps the position within the list.
Within(at, w, rows) ==
    LET size == Size(w, rows)
    IN IF size <= Viewport THEN 0 ELSE Smaller(at, size - Viewport)

\* requestAnimationFrame, unless what is asked for is under way.
Ask(queue, what) ==
    LET under == IF what = "measure" THEN {"measure", "nothing"} ELSE {what}
    IN IF \E i \in DOMAIN queue : queue[i] \in under THEN queue ELSE Append(queue, what)

VirtualInit ==
    /\ tall \in SUBSET Ids
    /\ list = CHOOSE s \in [1..Cardinality(Ids) -> Ids] : \A i, j \in DOMAIN s : i # j => s[i] # s[j]
    /\ heights = {} /\ top = 0 /\ seen = 0 /\ kept = 0
    /\ window = Range(list, 0, {})
    /\ frames = <<"restore">> /\ held = FALSE /\ moves = 0

\* patchVirtualListWindow; the browser says so when the position had to give way.
PatchStale(rows, at, measured, queue) ==
    \E w \in {Range(rows, at, measured)} :
      /\ window' = w /\ list' = rows /\ heights' = measured
      /\ top' = Within(top, w, rows) /\ seen' = at /\ frames' = queue
Patch(rows, at, measured, queue) ==
    \E w \in {Range(rows, at, measured)} : \E now \in {Within(top, w, rows)} :
      /\ window' = w /\ list' = rows /\ heights' = measured /\ top' = now
      /\ seen' = IF now # at /\ ~held THEN now ELSE at
      /\ frames' = LET next == Ask(queue, "measure")
                   IN IF now # at /\ ~held THEN Ask(next, "update") ELSE next

\* scheduleVirtualListUpdate, on a scroll event.
Scroll ==
    /\ moves < MaxMoves /\ moves' = moves + 1 /\ kept = -1
    /\ \E at \in 0..Size(window, list) :
         /\ at # top /\ at = Within(at, window, list) /\ top' = at
         /\ IF held THEN UNCHANGED <<seen, frames>>
            ELSE seen' = at /\ frames' = Ask(frames, "update")
    /\ UNCHANGED <<tall, list, heights, window, kept, held>>

\* The frames' callbacks run in the order they were asked for.
Runs(what) == frames # <<>> /\ Head(frames) = what

Frame ==
    /\ Runs("update") /\ Patch(list, seen, heights, Tail(frames))
    /\ UNCHANGED <<tall, kept, held, moves>>

\* scheduleVirtualListMeasure: the rows of a list that is no longer in the page
\* measure nothing.
Measure ==
    /\ \/ Runs("measure") /\ Drawn(window, list) \subseteq heights
       \/ Runs("nothing")
    /\ frames' = Tail(frames)
    /\ UNCHANGED <<tall, list, heights, top, seen, window, kept, held, moves>>
Measured ==
    /\ Runs("measure") /\ ~(Drawn(window, list) \subseteq heights)
    /\ Patch(list, seen, heights \cup Drawn(window, list), Tail(frames))
    /\ UNCHANGED <<tall, kept, held, moves>>

\* A live patch: a row has come to the top or gone; a row menu puts it off.
Snapshot ==
    /\ moves < MaxMoves /\ ~held /\ moves' = moves + 1
    /\ \E rows \in {Tail(list)} \cup {<<id>> \o list : id \in Ids \ {list[i] : i \in DOMAIN list}} :
         rows # <<>> /\ Patch(rows, top, heights, frames)
    /\ UNCHANGED <<tall, kept, held>>

\* rerender: the page is drawn again, as the row menu is opened and closed, and
\* the position put back in a frame; a measurement under way loses its list.
Redraw ==
    /\ moves < MaxMoves /\ moves' = moves + 1 /\ held' \in BOOLEAN
    /\ kept' = (IF kept = -1 THEN top ELSE kept) /\ seen' = kept'
    /\ window' = Range(list, seen', heights) /\ top' = 0
    /\ frames' = Ask([i \in DOMAIN frames |-> IF frames[i] = "measure" THEN "nothing" ELSE frames[i]], "restore")
    /\ UNCHANGED <<tall, list, heights>>
Restore ==
    /\ Runs("restore") /\ kept' = -1
    /\ top' = Within(kept, window, list)
    /\ IF held THEN seen' = kept /\ frames' = Tail(frames)
       ELSE seen' = top' /\ frames' = Ask(Tail(frames), "update")
    /\ UNCHANGED <<tall, list, heights, window, held, moves>>

VirtualNext == Scroll \/ Frame \/ Measure \/ Measured \/ Snapshot \/ Redraw \/ Restore
VirtualSpec == VirtualInit /\ [][VirtualNext]_virtualVars
               /\ WF_virtualVars(Frame \/ Measure \/ Measured \/ Restore)

TypeOK ==
    /\ {tall, heights} \subseteq SUBSET Ids /\ {top, seen} \subseteq Nat
    /\ kept \in Nat \cup {-1} /\ held \in BOOLEAN
    /\ \A i \in DOMAIN frames : frames[i] \in {"restore", "update", "measure", "nothing"}
    /\ 0 <= window.start /\ window.start <= window.end /\ window.end <= Len(list)

\* Once nothing moves any more the frames come to an end - measuring, drawing and
\* the browser's own correction of the position do not chase each other - and the
\* rows drawn fill the viewport, or as much of it as the list has: no spacer is in
\* sight, whatever was measured when (virtualListRange, scheduleVirtualListMeasure).
Filled ==
    /\ window.start = 0 \/ window.above <= top
    /\ window.end = Len(list) \/ window.above + Sum(Drawn(window, list)) >= top + Viewport
ListSettles == <>[](frames = <<>> /\ (held \/ Filled))
=============================================================================
