---------------------------- MODULE RowSettings -----------------------------
(***************************************************************************)
(* The priority and the speed limit of the rows (app-ui/download-manager/  *)
(* actions.js, events.js, state.js): a priority is shown before the        *)
(* application has taken it; a limit is followed by a stop and a start of  *)
(* a worker that reads its rate only when it starts.                       *)
(***************************************************************************)
EXTENDS Naturals, FiniteSets

CONSTANTS
    Rows,         \* the rows
    External,     \* those whose engine takes its rate when it starts
    MaxInputs,    \* what the user does
    MaxMoves      \* what happens to the downloads by itself

VARIABLES
    priority, limit, running,    \* the application's rows
    rate,                        \* the limit a running engine keeps to
    seen, seenRunning,           \* the priorities and the states of the last snapshot
    optimisticJobPriorities,     \* asked for; "none" is nothing
    calls, inputs, moves

settingVars == <<priority, limit, running, rate, seen, seenRunning,
                 optimisticJobPriorities, calls, inputs, moves>>
SettingConstants == External \subseteq Rows /\ {MaxInputs, MaxMoves} \subseteq Nat

Priorities == {"normal", "high"}
Limits     == {"unlimited", "limited"}
Call == [kind : {"priority", "limit", "stop", "start", "refresh"}, rows : SUBSET Rows,
         priority : Priorities, limit : Limits]

SettingInit ==
    /\ priority = [r \in Rows |-> "normal"] /\ limit = [r \in Rows |-> "unlimited"]
    /\ running \in [Rows -> BOOLEAN] /\ rate = limit
    /\ seen = priority /\ seenRunning = running
    /\ optimisticJobPriorities = [r \in Rows |-> "none"]
    /\ calls = {} /\ inputs = 0 /\ moves = 0

Input == inputs < MaxInputs /\ inputs' = inputs + 1 /\ UNCHANGED moves
Becomes(c, kind) == calls' = (calls \ {c}) \cup {[c EXCEPT !.kind = kind]}
downloads == <<limit, running, rate>>

\* applyOptimisticJobStatuses draws what was asked until it is so.
Shown(r) == IF optimisticJobPriorities[r] = "none" THEN seen[r] ELSE optimisticJobPriorities[r]

----------------------------------------------------------------------------
(* Priorities                                                              *)

\* changeDownloadPriority, for a row or for the selection.
SetPriority(rows, wanted) ==
    /\ Input /\ rows # {}
    /\ optimisticJobPriorities' = [r \in Rows |-> IF r \notin rows THEN optimisticJobPriorities[r]
                                                  ELSE IF seen[r] = wanted THEN "none" ELSE wanted]
    /\ calls' = calls \cup {[kind |-> "priority", rows |-> rows, priority |-> wanted,
                             limit |-> "unlimited"]}
    /\ UNCHANGED <<priority, downloads, seen, seenRunning>>

\* The application takes it, and the list is read again; or it refuses, and nothing
\* that was asked of these rows is shown any more.
Taken(c) ==
    /\ priority' = [r \in Rows |-> IF r \in c.rows THEN c.priority ELSE priority[r]]
    /\ Becomes(c, "refresh")
    /\ UNCHANGED <<optimisticJobPriorities>>
Refused(c) ==
    /\ calls' = calls \ {c} /\ UNCHANGED priority
    /\ optimisticJobPriorities' = [r \in Rows |-> IF r \in c.rows THEN "none"
                                                  ELSE optimisticJobPriorities[r]]
PriorityAnswered(c) ==
    /\ c \in calls /\ c.kind = "priority"
    /\ Taken(c) \/ Refused(c)
    /\ UNCHANGED <<downloads, seen, seenRunning, inputs, moves>>

Reads ==
    /\ seen' = priority /\ seenRunning' = running
    /\ optimisticJobPriorities' = [r \in Rows |-> IF optimisticJobPriorities[r] = priority[r] THEN "none"
                                                  ELSE optimisticJobPriorities[r]]
    /\ UNCHANGED <<priority, downloads, inputs, moves>>
Refreshed(c) == c \in calls /\ c.kind = "refresh" /\ calls' = calls \ {c} /\ Reads
\* The list is read now and then in any case.
Tick ==
    /\ seen # priority \/ seenRunning # running \/ \E r \in Rows : optimisticJobPriorities[r] = priority[r]
    /\ UNCHANGED calls /\ Reads
\* A row drawn eight seconds after it was asked.
Expires(r) ==
    /\ optimisticJobPriorities[r] # "none"
    /\ optimisticJobPriorities' = [optimisticJobPriorities EXCEPT ![r] = "none"]
    /\ UNCHANGED <<priority, downloads, seen, seenRunning, calls, inputs, moves>>

----------------------------------------------------------------------------
(* Speed limits                                                            *)

SetLimit(r, wanted) ==
    /\ Input
    /\ calls' = calls \cup {[kind |-> "limit", rows |-> {r}, priority |-> "normal", limit |-> wanted]}
    /\ UNCHANGED <<priority, downloads, seen, seenRunning, optimisticJobPriorities>>

\* The engine of the application takes the limit as it goes. An external one that the
\* list has seen running is stopped and started, one call after the other; any of
\* the calls may fail, and the next are not made.
Limited(c) ==
    /\ limit' = [r \in Rows |-> IF r \in c.rows THEN c.limit ELSE limit[r]]
    /\ rate' = [r \in Rows |-> IF r \in c.rows \ External THEN c.limit ELSE rate[r]]
    /\ UNCHANGED running
    /\ Becomes(c, IF \E r \in c.rows \cap External : seenRunning[r] THEN "stop" ELSE "refresh")
Stopped(c) ==
    /\ running' = [r \in Rows |-> running[r] /\ r \notin c.rows]
    /\ UNCHANGED <<limit, rate>> /\ Becomes(c, "start")
Started(c) ==
    /\ running' = [r \in Rows |-> running[r] \/ r \in c.rows]
    /\ rate' = [r \in Rows |-> IF r \in c.rows THEN limit[r] ELSE rate[r]]
    /\ UNCHANGED limit /\ Becomes(c, "refresh")
LimitAnswered(c) ==
    /\ c \in calls /\ c.kind \in {"limit", "stop", "start"}
    /\ \/ c.kind = "limit" /\ Limited(c)
       \/ c.kind = "stop" /\ Stopped(c)
       \/ c.kind = "start" /\ Started(c)
       \/ calls' = calls \ {c} /\ UNCHANGED downloads
    /\ UNCHANGED <<priority, seen, seenRunning, optimisticJobPriorities, inputs, moves>>

\* A download starts, with the limit it has by then, or stops.
Moves(r) ==
    /\ moves < MaxMoves /\ moves' = moves + 1
    /\ running' = [running EXCEPT ![r] = ~@]
    /\ rate' = IF running[r] THEN rate ELSE [rate EXCEPT ![r] = limit[r]]
    /\ UNCHANGED <<priority, limit, seen, seenRunning, optimisticJobPriorities, calls, inputs>>

Answers == \E c \in calls : PriorityAnswered(c) \/ Refreshed(c) \/ LimitAnswered(c)
SettingNext ==
    \/ \E rows \in SUBSET Rows, wanted \in Priorities : SetPriority(rows, wanted)
    \/ \E r \in Rows, wanted \in Limits : SetLimit(r, wanted)
    \/ Answers \/ Tick
    \/ \E r \in Rows : Expires(r) \/ Moves(r)

SettingSpec ==
    /\ SettingInit /\ [][SettingNext]_settingVars
    /\ WF_settingVars(Answers \/ \E r \in Rows : Expires(r)) /\ WF_settingVars(Tick)

----------------------------------------------------------------------------
(* Properties                                                              *)

\* Every variable has its type.
TypeOK ==
    /\ {priority, seen} \subseteq [Rows -> Priorities]
    /\ {limit, rate} \subseteq [Rows -> Limits] /\ {running, seenRunning} \subseteq [Rows -> BOOLEAN]
    /\ optimisticJobPriorities \in [Rows -> Priorities \cup {"none"}]
    /\ calls \subseteq Call /\ {inputs, moves} \subseteq Nat

\* However requests for one row overlap, fail and expire, the list ends up showing
\* the priority by which the dispatcher orders the rows.
PrioritySettles == []<>(\A r \in Rows : Shown(r) = priority[r])
=============================================================================
