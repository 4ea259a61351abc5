--------------------------------- MODULE MCWindows ---------------------------------
(***************************************************************************)
(* The windows for TLC: how the main window is drawn, its long lists, the  *)
(* preparation of a download and the player. One of them moves in a        *)
(* behaviour and the others rest, so that their state spaces add up and do *)
(* not multiply.                                                           *)
(***************************************************************************)
EXTENDS Player, Sequences

CONSTANTS
    Focuses,
    Sections, Themes, Untouched, NoTheme, MaxRefreshes, MaxGestures, \* the drawing
    LongRows, Tall, Estimated, Viewport, Overscan, MaxScrolls,     \* the long lists
    Batch, Preparations, MaxAsked                                  \* the preparation

VARIABLES
    undrawn, interacting, deferred, flush, active, lastSection, callbacks, chosen,
    theme, transition, running, goal, pending, renderHeld, refreshes, gestures,
    tall, list, heights, top, scrolled, strip, frames, restored, held, scrolls,
    analyses, choices, analysisRequest, analysed, window, busy, error, submitted,
    analysis, items, sizeQueue, sizeActive, known, pumps, asked,
    focus

Draw   == INSTANCE Rendering
            WITH unshown <- undrawn
Long   == INSTANCE VirtualList
            WITH Ids <- LongRows, MaxMoves <- MaxScrolls, seen <- scrolled,
                 window <- strip, kept <- restored, moves <- scrolls
Prep   == INSTANCE Preparation
            WITH Items <- Batch, request <- analysisRequest,
                 generation <- analysed, calls <- asked

ASSUME PartAssumption ==
    /\ Draw!RenderConstants
    /\ Long!VirtualConstants
    /\ Prep!PrepConstants
    /\ PlayerConstants

drawVars ==
    <<undrawn, interacting, deferred, flush, active, lastSection, callbacks, chosen,
      theme, transition, running, goal, pending, renderHeld, refreshes, gestures>>
longVars ==
    <<tall, list, heights, top, scrolled, strip, frames, restored, held, scrolls>>
prepVars ==
    <<analyses, choices, analysisRequest, analysed, window, busy, error, submitted,
      analysis, items, sizeQueue, sizeActive, known, pumps, asked>>
partVars ==
    <<drawVars, longVars, prepVars, playerVars, focus>>

\* What rests has one initial state.
MCInit ==
    /\ focus \in Focuses
    /\ Draw!RenderInit
    /\ Long!VirtualInit /\ (focus # "long" => tall = {})
    /\ Prep!PrepInit
    /\ PlayerInit

Still(part) ==
    CASE part = "draw"    -> UNCHANGED drawVars
      [] part = "long"    -> UNCHANGED longVars
      [] part = "prep"    -> UNCHANGED prepVars
      [] part = "play"    -> UNCHANGED playerVars
Parts ==
    {"draw", "long", "prep", "play"}

In(part, action) == focus = part /\ action
Alone(part, action) ==
    /\ In(part, action) /\ UNCHANGED focus
    /\ \A other \in Parts \ {part} : Still(other)

MCNext ==
    \/ Alone("draw", Draw!RenderNext)
    \/ Alone("long", Long!VirtualNext)
    \/ Alone("prep", Prep!PrepNext)
    \/ Alone("play", PlayerNext)

\* The fairness of each part, for the part that moves: what its timers, its answers
\* and the browser owe it.
MCSpec ==
    /\ MCInit /\ [][MCNext]_partVars
    /\ WF_drawVars(In("draw",
         Draw!Flush \/ Draw!Callback \/ Draw!Captured
            \/ Draw!Finished \/ Draw!Resume))
    /\ WF_longVars(In("long",
         Long!Frame \/ Long!Measure \/ Long!Measured
            \/ Long!Restore))
    /\ WF_prepVars(In("prep",
         Prep!Answered(Prep!Analyses) \/ Prep!Answered({"size"}) \/ Prep!Answered(Prep!Decisions)
            \/ Prep!PumpsDue))
    /\ WF_playerVars(In("play", Answers \/ Listed \/ StageDue))

\* Every variable of the part that moves has its type; the others keep their initial state.
PartTypes ==
    /\ focus = "draw" => Draw!TypeOK
    /\ focus = "long" => Long!TypeOK
    /\ focus = "prep" => Prep!TypeOK
    /\ focus = "play" => TypeOK

\* The properties of the parts, as the run names them.
RendersCatchUp == focus = "draw" => Draw!RendersCatchUp
ListSettles == focus = "long" => Long!ListSettles
BusyEnds == focus = "prep" => Prep!BusyEnds
=============================================================================
