--------------------------------- MODULE MCManager ---------------------------------
(***************************************************************************)
(* The download manager for TLC: the list and its snapshot, its dialogs,   *)
(* its search, its images, its controls and the settings of rows. They     *)
(* share no state but through the application, which each takes for what   *)
(* it may answer: one of them moves in a behaviour and the others rest, so *)
(* that their state spaces add up and do not multiply.                     *)
(***************************************************************************)
EXTENDS UnifiedSearch, Thumbnails, ListControls, VideoSearch, Sequences

CONSTANTS
    Focuses,
    Jobs, Modes, MaxChanges, MaxUses, MaxFailures,                 \* the snapshot
    Removable, MaxActs, MaxMoves,                                  \* the dialogs
    Listings, External, MaxSettings, MaxTurns                      \* the settings of rows

VARIABLES
    listRows, event, deltas, mode, hidden, manager, listMenu, view, buffer, seen,
    drawn, polling, force, due, before, load, target, changes, uses, failures,
    jobs, copy, optimisticJobStatuses, dialogSelectedJobIds, dialogModal,
    modalJobId, deletePreview, deletePreviewBusy, deleteBusy, bulkDeleteBusy,
    invoked, unshown, acts, moves,
    priority, limit, running, rate, seenPriority, seenRunning,
    optimisticJobPriorities, requests, settings, shifts,
    focus

List   == INSTANCE SnapshotView
            WITH timer <- polling, rows <- listRows, menu <- listMenu
Dialog == INSTANCE RowDialogs
            WITH Rows <- Removable, MaxInputs <- MaxActs, inputs <- acts,
                 view <- copy, calls <- invoked,
                 selectedJobIds <- dialogSelectedJobIds, modal <- dialogModal
Settings == INSTANCE RowSettings
            WITH Rows <- Listings, MaxInputs <- MaxSettings,
                 MaxMoves <- MaxTurns, seen <- seenPriority,
                 calls <- requests, inputs <- settings, moves <- shifts

ASSUME PartAssumption ==
    /\ List!SnapshotConstants
    /\ Dialog!DialogConstants
    /\ SearchConstants
    /\ ThumbConstants
    /\ ControlConstants
    /\ VideoConstants
    /\ Settings!SettingConstants

listVars ==
    <<listRows, event, deltas, mode, hidden, manager, listMenu, view, buffer, seen,
      drawn, polling, force, due, before, load, target, changes, uses, failures>>
dialogVars ==
    <<jobs, copy, optimisticJobStatuses, dialogSelectedJobIds, dialogModal,
      modalJobId, deletePreview, deletePreviewBusy, deleteBusy, bulkDeleteBusy,
      invoked, unshown, acts, moves>>
setVars ==
    <<priority, limit, running, rate, seenPriority, seenRunning,
      optimisticJobPriorities, requests, settings, shifts>>
partVars ==
    <<listVars, dialogVars, searchVars, thumbVars, controlVars, videoVars, setVars,
      focus>>

\* What rests has one initial state.
MCInit ==
    /\ focus \in Focuses
    /\ List!SnapshotInit /\ (focus # "list" => listRows = List!NoRows /\ mode = "stable")
    /\ Dialog!DialogInit /\ (focus # "dialog" => jobs = [r \in Removable |-> "running"])
    /\ SearchInit
    /\ ThumbInit
    /\ ControlInit /\ (focus # "ctrl" => list = {})
    /\ VideoInit
    /\ Settings!SettingInit /\ (focus # "set" => running = [r \in Listings |-> TRUE])

Still(part) ==
    CASE part = "list"    -> UNCHANGED listVars
      [] part = "dialog"  -> UNCHANGED dialogVars
      [] part = "search"  -> UNCHANGED searchVars
      [] part = "thumb"   -> UNCHANGED thumbVars
      [] part = "ctrl"    -> UNCHANGED controlVars
      [] part = "video"   -> UNCHANGED videoVars
      [] part = "set"     -> UNCHANGED setVars
Parts ==
    {"list", "dialog", "search", "thumb", "ctrl", "video", "set"}

In(part, action) == focus = part /\ action
Alone(part, action) ==
    /\ In(part, action) /\ UNCHANGED focus
    /\ \A other \in Parts \ {part} : Still(other)

MCNext ==
    \/ Alone("list", List!SnapshotNext)
    \/ Alone("dialog", Dialog!DialogNext)
    \/ Alone("search", SearchNext)
    \/ Alone("thumb", ThumbNext)
    \/ Alone("ctrl", ControlNext)
    \/ Alone("video", VideoNext)
    \/ Alone("set", Settings!SettingNext)

\* The fairness of each part, for the part that moves: what its timers, its answers
\* and the browser owe it.
MCSpec ==
    /\ MCInit /\ [][MCNext]_partVars
    /\ WF_listVars(In("list", List!Tick))
    /\ WF_listVars(In("list", List!PeriodEnds))
    /\ WF_listVars(In("list", List!HearEvent \/ List!HearDelta))
    /\ WF_listVars(In("list", \E k \in {"tick", "user"} : List!Loading(k)))
    /\ WF_dialogVars(In("dialog", Dialog!Answers \/ Dialog!Expires))
    /\ WF_dialogVars(In("dialog", Dialog!Tick))
    /\ WF_searchVars(In("search", Pause \/ Late))
    /\ WF_thumbVars(In("thumb", \E k \in Pictures : Finish(k)))
    /\ WF_setVars(In("set", Settings!Answers \/ \E r \in Listings : Settings!Expires(r)))
    /\ WF_setVars(In("set", Settings!Tick))

\* Every variable of the part that moves has its type; the others keep their initial state.
PartTypes ==
    /\ focus = "list" => List!TypeOK
    /\ focus = "dialog" => Dialog!TypeOK
    /\ focus = "search" => TypeOK
    /\ focus = "thumb" => ThumbTypes
    /\ focus = "ctrl" => ControlTypes
    /\ focus = "video" => VideoTypes
    /\ focus = "set" => Settings!TypeOK

\* The properties of the parts, as the run names them.
PartsHold ==
    /\ (focus = "thumb" => SlotsAreCounted)
    /\ (focus = "video" => VideoResultsFit)
ViewConverges == focus = "list" => List!ViewConverges
StatusSettles ==
    /\ (focus = "dialog" => Dialog!StatusSettles)
    /\ (focus = "set" => Settings!PrioritySettles)
=============================================================================
