---------------------------- MODULE SnapshotView ----------------------------
(***************************************************************************)
(* The list of downloads as the window keeps it (app-ui/modules/runtime):  *)
(* a polling loop takes full and partial snapshots of the application's    *)
(* rows, a user's command takes one of its own, two events ask for a full  *)
(* one, and under the "v2" engine live rows come as deltas.  `view` is     *)
(* appState.snapshot, `drawn` the rows of the document.                    *)
(***************************************************************************)
EXTENDS Integers, Sequences, FiniteSets

CONSTANTS
    Jobs,
    Modes,        \* engines to look at: "stable", "v2"
    MaxChanges,   \* changes of the application's rows
    MaxUses,      \* commands of the user, and times the window is hidden
    MaxFailures   \* invocations that fail

VARIABLES
    rows,      \* the application's rows
    event,     \* a download-queued or download-state-changed is under way
    deltas,    \* progress-v2-delta events under way
    mode, hidden, manager, menu,  \* engine; document.hidden; list shown; row menu open
    view, buffer, seen,   \* snapshot, pendingProgressByIdentity, lastSnapshotSignature
    drawn,
    timer, force, due,    \* the loop's timer; full snapshot asked for; its period over
    before,               \* previousSnapshot of the tick
    load,                 \* the loads of the loop and of the user's command
    target,               \* the row of the user's command
    changes, uses, failures

SnapshotConstants ==
    /\ Modes \subseteq {"stable", "v2"}
    /\ {MaxChanges, MaxUses, MaxFailures} \subseteq Nat

outside  == <<rows, event, deltas, changes>>
window   == <<mode, hidden, manager, menu>>
picture  == <<view, buffer, seen, drawn>>
loop     == <<timer, force, due, before>>
user     == <<target, uses>>
snapshotVars == <<outside, window, picture, loop, load, user, failures>>

----------------------------------------------------------------------------
(* Rows, and how a snapshot becomes the view                               *)

\* The state of a row, as far as the list tells rows apart.
Row    == {"none", "running", "done"}
Absent == "none"
RowMap == [Jobs -> Row]
NoRows == [j \in Jobs |-> Absent]

Idle == [phase |-> "idle", full |-> FALSE, got |-> NoRows]
Loads == [phase : {"idle", "asked", "read", "asked_v2", "read_v2"},
          full : BOOLEAN, got : RowMap]

\* mergeActivitySnapshot: rows are replaced and added, never removed.
Merged(partial) == [j \in Jobs |-> IF partial[j] = Absent THEN view[j] ELSE partial[j]]

\* applyProgressV2ToSnapshot: live states over rows that have an identity; the
\* others wait in the buffer, which is applied last.
Projected(base, live) ==
    [j \in Jobs |->
        IF base[j] = Absent THEN Absent
        ELSE IF buffer[j] # Absent THEN buffer[j]
        ELSE IF live[j] # Absent THEN live[j] ELSE base[j]]
Buffered(base, live) ==
    [j \in Jobs |->
        IF base[j] # Absent THEN Absent ELSE IF live[j] # Absent THEN live[j] ELSE buffer[j]]

\* snapshotChangedJobIds: what differs since the load was asked for.
ChangedRows(old, new) == {j \in Jobs : old[j] # new[j]}

\* patchDownloadManagerLive: rows come and go, but one that is there is drawn
\* again only if it is among the changed ones; nothing while a row menu is open.
Patched(new, changed) ==
    IF ~manager \/ menu THEN drawn
    ELSE [j \in Jobs |->
            IF new[j] = Absent \/ drawn[j] = Absent \/ j \in changed THEN new[j] ELSE drawn[j]]

----------------------------------------------------------------------------
(* The application                                                         *)

\* A job is created, moves on, ends, or is deleted.
Change(j) ==
    /\ changes < MaxChanges
    /\ changes' = changes + 1
    /\ \E row \in Row \ {rows[j]} :
         /\ rows' = [rows EXCEPT ![j] = row]
         /\ deltas' = IF mode = "v2" THEN Append(deltas, [job |-> j, row |-> row]) ELSE deltas
    /\ event' \in {event, TRUE}
    /\ UNCHANGED <<window, picture, loop, load, user, failures>>

\* What desktop_snapshot and download_activity_snapshot return: all rows; the
\* live ones and those changed in the last ten minutes.
SnapshotOf(full) ==
    IF full THEN {rows}
    ELSE {[j \in Jobs |-> IF rows[j] = "running" \/ j \in recent THEN rows[j] ELSE Absent] :
            recent \in SUBSET Jobs}

Reads(s) ==
    /\ load[s].phase \in {"asked", "asked_v2"}
    /\ IF load[s].phase = "asked"
       THEN \E got \in SnapshotOf(load[s].full) :
              load' = [load EXCEPT ![s].phase = "read", ![s].got = got]
       ELSE load' = [load EXCEPT ![s].phase = "read_v2", ![s].got = rows]
    /\ UNCHANGED <<outside, window, picture, loop, user, failures>>

----------------------------------------------------------------------------
(* loadSnapshot                                                            *)

\* The caller goes on: refreshSnapshotTick compares, patches and plans the next
\* tick; the user's command has its own row patched.
Finish(s, new) ==
    /\ load' = [load EXCEPT ![s] = Idle]
    /\ view' = new
    /\ IF s = "tick"
       THEN LET full == load[s].full IN
            /\ force' = (force /\ ~full)
            /\ seen' = new
            /\ drawn' = IF new = seen THEN drawn
                        ELSE Patched(new, ChangedRows(before, new))
            /\ timer' = TRUE
            /\ before' = NoRows
            /\ UNCHANGED target
       ELSE /\ drawn' = Patched(new, target)
            /\ target' = {}
            /\ UNCHANGED <<force, seen, timer, before>>
    /\ UNCHANGED <<outside, window, uses>>

\* The first answer. Under "v2" a full load asks for the live fields as well.
Applies(s) ==
    LET new == IF load[s].full THEN load[s].got ELSE Merged(load[s].got) IN
    /\ load[s].phase = "read"
    /\ IF mode = "v2"
       THEN /\ load' = [load EXCEPT ![s].phase = "asked_v2"]
            /\ view' = new
            /\ UNCHANGED <<outside, window, buffer, seen, drawn, loop, user, failures>>
       ELSE /\ Finish(s, new)
            /\ due' = (due /\ ~load[s].full)
            /\ UNCHANGED <<buffer, failures>>

AppliesV2(s) ==
    /\ load[s].phase = "read_v2"
    /\ Finish(s, Projected(view, load[s].got))
    /\ buffer' = Buffered(view, load[s].got)
    /\ due' = FALSE
    /\ UNCHANGED failures

\* An invocation fails: the light snapshot falls back to the full one; a full
\* one is given up, counted and forgotten; the live fields are done without.
Fails(s) ==
    /\ failures < MaxFailures
    /\ failures' = failures + 1
    /\ load[s].phase \in {"asked", "asked_v2"}
    /\ IF load[s].phase = "asked" /\ ~load[s].full
       THEN /\ load' = [load EXCEPT ![s].full = TRUE]
            /\ UNCHANGED <<outside, window, picture, loop, user>>
       ELSE /\ Finish(s, view)
            /\ due' = (due /\ load[s].phase = "asked")
            /\ UNCHANGED buffer

----------------------------------------------------------------------------
(* The loop                                                                *)

\* refreshSnapshotTick. A hidden document only plans the next tick. With the
\* list on screen a full snapshot is taken when asked for or when its period is
\* over; under "v2" the others take nothing, and still count as a full one.
TickHidden ==
    /\ timer /\ hidden
    /\ timer' = TRUE
    /\ UNCHANGED <<outside, window, picture, force, due, before, load, user, failures>>

\* (NeedsFullOnDemand: whatever the period.)
NeedsFullOnDemand == force
NeedsFull == force \/ due

Tick ==
    LET full == ~manager \/ NeedsFull IN
    /\ timer /\ ~hidden /\ load["tick"].phase = "idle"
    /\ IF mode = "v2" /\ ~full
       THEN /\ due' = FALSE
            /\ timer' = TRUE
            /\ seen' = view
            /\ drawn' = IF view = seen THEN drawn ELSE Patched(view, {})
            /\ UNCHANGED <<before, load>>
       ELSE /\ load' = [load EXCEPT !["tick"] = [Idle EXCEPT !.phase = "asked", !.full = full]]
            /\ before' = view
            /\ timer' = FALSE
            /\ UNCHANGED <<due, seen, drawn>>
    /\ UNCHANGED <<outside, window, view, buffer, force, user, failures>>

\* Five seconds (fifteen, 0.9) since the last full snapshot, between two ticks.
PeriodEnds ==
    /\ ~due
    /\ due' = TRUE
    /\ UNCHANGED <<outside, window, picture, timer, force, before, load, user, failures>>

\* requestFullSnapshotRefresh.
HearEvent ==
    /\ event
    /\ event' = FALSE
    /\ force' = TRUE
    /\ timer' = TRUE
    /\ UNCHANGED <<rows, deltas, changes, window, picture, due, before, load, user, failures>>

\* applyProgressV2Delta, and the patch of the rows it names.
HearDelta ==
    LET delta == Head(deltas)
        live == [NoRows EXCEPT ![delta.job] = delta.row]
        new == IF delta.row = Absent THEN [view EXCEPT ![delta.job] = Absent]
               ELSE Projected(view, live) IN
    /\ deltas # <<>>
    /\ deltas' = Tail(deltas)
    /\ view' = new
    /\ buffer' = IF delta.row = Absent THEN buffer ELSE Buffered(view, live)
    /\ drawn' = IF delta.row # Absent /\ new[delta.job] = Absent THEN drawn
                ELSE Patched(new, {delta.job})
    /\ UNCHANGED <<rows, event, changes, window, seen, loop, load, user, failures>>

----------------------------------------------------------------------------
(* The user and the window                                                 *)

Spend == uses < MaxUses /\ uses' = uses + 1

\* refreshDownloadManager after a command on row j.
Command(j) ==
    /\ Spend
    /\ manager /\ load["user"].phase = "idle"
    /\ load' = [load EXCEPT !["user"] = [Idle EXCEPT !.phase = "asked", !.full = TRUE]]
    /\ target' = {j}
    /\ UNCHANGED <<outside, window, picture, loop, failures>>

\* visibilitychange.
HideOrShow ==
    /\ Spend
    /\ hidden' = ~hidden
    /\ timer' = (timer \/ hidden)
    /\ UNCHANGED <<outside, mode, manager, menu, picture, force, due, before, load, target, failures>>

\* The list is left and entered again, a row's menu opens and closes: each draws
\* the whole of it.
Rerender ==
    /\ Spend
    /\ \/ manager' = ~manager /\ menu' = FALSE
       \/ manager /\ menu' = ~menu /\ UNCHANGED manager
    /\ drawn' = view
    /\ UNCHANGED <<outside, mode, hidden, view, buffer, seen, loop, load, target, failures>>

SnapshotInit ==
    /\ rows \in RowMap /\ view = rows /\ drawn = rows /\ seen = rows /\ before = NoRows
    /\ event = FALSE /\ deltas = <<>> /\ buffer = NoRows
    /\ mode \in Modes
    /\ hidden = FALSE /\ manager = TRUE /\ menu = FALSE
    /\ timer = TRUE /\ force = FALSE /\ due = FALSE
    /\ load = [s \in {"tick", "user"} |-> Idle]
    /\ target = {}
    /\ changes = 0 /\ uses = 0 /\ failures = 0

Interface == Tick \/ HearEvent \/ HearDelta
Loading(s) == Reads(s) \/ Applies(s) \/ AppliesV2(s)

SnapshotNext ==
    \/ \E j \in Jobs : Change(j) \/ Command(j)
    \/ \E s \in {"tick", "user"} : Loading(s) \/ Fails(s)
    \/ TickHidden \/ PeriodEnds \/ Interface
    \/ HideOrShow \/ Rerender

\* Timers fire, events arrive and invocations return; nothing is asked of the
\* user or the application.
SnapshotSpec ==
    /\ SnapshotInit /\ [][SnapshotNext]_snapshotVars
    /\ WF_snapshotVars(Tick) /\ WF_snapshotVars(PeriodEnds)
    /\ WF_snapshotVars(HearEvent) /\ WF_snapshotVars(HearDelta)
    /\ \A s \in {"tick", "user"} : WF_snapshotVars(Loading(s))

TypeOK ==
    /\ {rows, view, drawn, seen, before, buffer} \subseteq RowMap
    /\ \A s \in {"tick", "user"} : load[s] \in Loads

\* In a window that is not hidden the view comes to hold the application's rows
\* once these rest, whatever was lost, late or out of order (refreshSnapshotTick,
\* loadSnapshot). Under "v2" this needs the list to be off the screen.
ViewConverges == <>[](~hidden /\ (mode = "v2" => ~manager)) => <>[](view = rows)

\* What is on screen comes to be what the view holds, without a further
\* interaction (the comment on VISIBLE_FULL_SNAPSHOT_REFRESH_MS).
ListConverges == <>[](~hidden /\ manager /\ ~menu) => <>[](drawn = rows)
=============================================================================
