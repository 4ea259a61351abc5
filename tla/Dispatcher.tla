----------------------------- MODULE Dispatcher -----------------------------
(***************************************************************************)
(* dispatcher.rs: one task that hands queued rows to worker threads, under *)
(* a limit of its own for HTTP and for media downloads, both of which the  *)
(* user may change while workers run.                                      *)
(*                                                                         *)
(* A worker thread is here only what the dispatcher sees of it: it is in   *)
(* the active set, changes its row when it ends, removes itself from the   *)
(* set, and only then gives its slot back.                                 *)
(***************************************************************************)
EXTENDS Integers, FiniteSets

CONSTANTS
    Jobs,      \* the ids of the rows
    Kind,      \* Kind[j]: "http" or "media"
    Batch,     \* Batch[j]: the playlist j is an item of, or NoBatch
    NoBatch,
    Position,  \* Position[j]: the place of j in its playlist
    Ranks,     \* the priorities in use: 0 is high, 1 normal, 2 low
    MaxLimit   \* MaxLimit[k]: the largest limit the settings accept

Kinds == {"http", "media"}

ASSUME JobsAssumption ==
    /\ Jobs \subseteq Nat
    /\ IsFiniteSet(Jobs)
    /\ Kind \in [Jobs -> Kinds]
    /\ Position \in [Jobs -> Nat]

ASSUME RowsAssumption ==
    /\ Ranks \subseteq 0 .. 2
    /\ 1 \in Ranks
    /\ \A j \in Jobs : Kind[j] = "http" => Batch[j] = NoBatch

ASSUME LimitAssumption == MaxLimit \in [Kinds -> 1 .. 8]

VARIABLES
    status,    \* status[j]: jobs.status, "absent" before the row exists
    rank,      \* rank[j]: jobs.priority
    active,    \* active_downloads and active_media_pids
    quitting,  \* the workers that will do nothing more to their row
    leaving,   \* leaving[k]: threads out of the active set, slot not given back
    limit,     \* limit[k], used[k]: the DynamicSlotGate of k
    used,
    runtime,   \* is the media runtime installed?
    wake,      \* a Wake event is in the channel
    step,      \* where the dispatcher stands in drain and try_start
    kind,      \* the kind try_start is called for
    job,       \* the job it has claimed, at step "launch"
    started,   \* drain's `started`
    resuming   \* media jobs with a thread of resume_media_worker_when_idle

\* What DownloadConcurrencySettings accepts.
Settings == {f \in [Kinds -> 1 .. 8] : \A k \in Kinds : f[k] <= MaxLimit[k]}

rows     == <<status, rank>>
threads  == <<active, quitting, leaving, resuming>>
gates    == <<limit, used>>
control  == <<step, kind, job, started>>
vars     == <<rows, threads, gates, runtime, wake, control>>

Open     == {"queued", "running"}
Stopped  == {"paused", "cancelled"}
Statuses == Open \cup Stopped \cup {"absent", "completed", "failed"}

TypeOK ==
    /\ status \in [Jobs -> Statuses]
    /\ rank \in [Jobs -> Ranks]
    /\ active \subseteq Jobs
    /\ quitting \subseteq active
    /\ leaving \in [Kinds -> Nat]
    /\ limit \in Settings
    /\ used \in [Kinds -> Nat]
    /\ runtime \in BOOLEAN
    /\ wake \in BOOLEAN
    /\ step \in {"wait", "acquire", "claim", "launch"}
    /\ kind \in Kinds
    /\ job \in Jobs \cup {-1}
    /\ started \in BOOLEAN
    /\ resuming \subseteq {j \in Jobs : Kind[j] = "media"}

Init ==
    /\ status = [j \in Jobs |-> "absent"]
    /\ rank = [j \in Jobs |-> 1]
    /\ active = {} /\ quitting = {} /\ resuming = {}
    /\ leaving = [k \in Kinds |-> 0]
    /\ limit \in Settings
    /\ used = [k \in Kinds |-> 0]
    /\ runtime \in BOOLEAN
    /\ wake = FALSE
    /\ step = "wait" /\ kind = "http" /\ job = -1 /\ started = FALSE

-----------------------------------------------------------------------------
(* The order of the candidates                                             *)

\* high before normal before low, then by age.
Before(i, j) == rank[i] < rank[j] \/ (rank[i] = rank[j] /\ i < j)

\* Of a playlist only the first item that is queued or running is a candidate.
FirstOfBatch(j) ==
    Batch[j] # NoBatch =>
        \A i \in Jobs :
            (Batch[i] = Batch[j] /\ status[i] \in Open) => Position[j] <= Position[i]

\* candidate_ids, without its LIMIT: 64 is more than all the limits together.
Candidates(k) == {j \in Jobs : Kind[j] = k /\ status[j] \in Open /\ FirstOfBatch(j)}

\* The candidate claim_next_job takes: the first that has no worker.
ClaimableAnyway(k) == Candidates(k) \* mutant: is_active is not asked
Claimable(k) == Candidates(k) \ active
IsNext(j, k) == j \in Claimable(k) /\ \A i \in Claimable(k) \ {j} : Before(j, i)

-----------------------------------------------------------------------------
(* The dispatcher: run, drain, try_start                                   *)

Goto(s, k, flag) == step' = s /\ kind' = k /\ started' = flag

\* An event, or the reconciliation every 250 ms.
Receive ==
    /\ step = "wait" /\ wake
    /\ wake' = FALSE
    /\ Goto("acquire", "http", FALSE)
    /\ UNCHANGED <<rows, threads, gates, runtime, job>>

Reconcile ==
    /\ step = "wait"
    /\ Goto("acquire", "http", FALSE)
    /\ UNCHANGED <<rows, threads, gates, runtime, wake, job>>

\* try_start has returned flag: http is followed by media, and media by another
\* round when either started a worker.
ReturnedToWait(flag) == \* mutant: media is tried only after an HTTP start
    IF kind = "http" /\ flag  THEN Goto("acquire", "media", flag)
    ELSE IF flag              THEN Goto("acquire", "http", FALSE)
    ELSE                           Goto("wait", "http", FALSE)
Returned(flag) ==
    IF kind = "http"           THEN Goto("acquire", "media", flag)
    ELSE IF started \/ flag    THEN Goto("acquire", "http", FALSE)
    ELSE                            Goto("wait", "http", FALSE)

\* try_acquire; without a media runtime the permit is dropped at once.
HasSlotUnlessFull(k) == used[k] # limit[k] \* mutant: = instead of >=
HasSlot(k) == used[k] < limit[k]

Acquire ==
    /\ step = "acquire"
    /\ HasSlot(kind)
    /\ kind = "media" => runtime
    /\ used' = [used EXCEPT ![kind] = @ + 1]
    /\ step' = "claim"
    /\ UNCHANGED <<rows, threads, limit, runtime, wake, kind, job, started>>

Refused ==
    /\ step = "acquire"
    /\ ~HasSlot(kind) \/ (kind = "media" /\ ~runtime)
    /\ Returned(FALSE)
    /\ UNCHANGED <<rows, threads, gates, runtime, wake, job>>

\* The transaction of claim_next_job. Nothing commits between its reads and its
\* write, or the write fails.
Claim ==
    /\ step = "claim"
    /\ \E j \in Jobs :
          /\ IsNext(j, kind)
          /\ job' = j
          /\ status' = [status EXCEPT ![j] = "running"]
    /\ step' = "launch"
    /\ UNCHANGED <<rank, threads, gates, runtime, wake, kind, started>>

\* Nothing to claim, or the database is busy.
ClaimFailsKeeping == \* mutant: the permit is not dropped
    /\ step = "claim"
    /\ Returned(FALSE)
    /\ UNCHANGED <<rows, threads, gates, runtime, wake, job>>
ClaimFails ==
    /\ step = "claim"
    /\ used' = [used EXCEPT ![kind] = @ - 1]
    /\ Returned(FALSE)
    /\ UNCHANGED <<rows, threads, limit, runtime, wake, job>>

\* launch_http, launch_media and what the workers do to the row before anything
\* else. A permit that finds no runtime, or finds the job active, is dropped.
Launch ==
    /\ step = "launch"
    /\ job' = -1
    /\ Returned(TRUE)
    /\ IF (kind = "media" => runtime) /\ job \notin active
       THEN /\ active' = active \cup {job}
            /\ status' = [status EXCEPT ![job] = IF @ \in Open THEN "running" ELSE @]
            /\ UNCHANGED <<used, wake>>
       ELSE /\ used' = [used EXCEPT ![kind] = @ - 1]
            /\ wake' = (wake \/ job \in active)
            /\ UNCHANGED <<active, status>>
    /\ UNCHANGED <<rank, quitting, leaving, resuming, limit, runtime>>

-----------------------------------------------------------------------------
(* The worker threads                                                      *)

\* It notices that its row was paused or cancelled.
WorkerStops(j) ==
    /\ j \in active \ quitting
    /\ status[j] \in Stopped
    /\ quitting' = quitting \cup {j}
    /\ UNCHANGED <<rows, active, leaving, resuming, gates, runtime, wake, control>>

\* It ends: an HTTP row is completed or failed unless it was stopped; a media row
\* is completed only from "running" and failed from wherever it is by then
\* (fail_media_job). Whatever it wants to write, the database may refuse. The
\* last item of a playlist wakes the dispatcher for the next.
Results(j) ==
    IF Kind[j] = "http"
    THEN IF status[j] \in Open THEN {"completed", "failed"} ELSE {}
    ELSE {"failed"} \cup (IF status[j] = "running" THEN {"completed"} ELSE {})

WorkerEnds(j) ==
    /\ j \in active \ quitting
    /\ \E s \in Results(j) \cup {status[j]} :
          /\ status' = [status EXCEPT ![j] = s]
          /\ wake' = (wake \/ (Batch[j] # NoBatch /\ s \in {"completed", "failed", "cancelled"}))
    /\ quitting' = quitting \cup {j}
    /\ UNCHANGED <<rank, active, leaving, resuming, gates, runtime, control>>

\* The guards are dropped in reverse order: first the one of the active set ...
WorkerLeavesEarly(j) == \* mutant: the permit is dropped first
    /\ j \in active \ quitting
    /\ quitting' = quitting \cup {j}
    /\ used' = [used EXCEPT ![Kind[j]] = @ - 1]
    /\ UNCHANGED <<rows, active, leaving, resuming, limit, runtime, wake, control>>
WorkerLeavesQuitting(j) == \* mutant: a trace of the worker stays behind
    /\ j \in quitting
    /\ active' = active \ {j}
    /\ leaving' = [leaving EXCEPT ![Kind[j]] = @ + 1]
    /\ UNCHANGED <<rows, quitting, resuming, gates, runtime, wake, control>>
WorkerLeaves(j) ==
    /\ j \in quitting
    /\ active' = active \ {j}
    /\ quitting' = quitting \ {j}
    /\ leaving' = [leaving EXCEPT ![Kind[j]] = @ + 1]
    /\ UNCHANGED <<rows, resuming, gates, runtime, wake, control>>

\* ... then the completion, which drops the permit and wakes the dispatcher.
ReturnsPermit(k) ==
    /\ leaving[k] > 0
    /\ leaving' = [leaving EXCEPT ![k] = @ - 1]
    /\ used' = [used EXCEPT ![k] = @ - 1]
    /\ wake' = TRUE
    /\ UNCHANGED <<rows, active, quitting, resuming, limit, runtime, control>>

-----------------------------------------------------------------------------
(* The user's commands                                                     *)

Add(j) ==
    /\ status[j] = "absent"
    /\ status' = [status EXCEPT ![j] = "queued"]
    /\ wake' = TRUE
    /\ UNCHANGED <<rank, threads, gates, runtime, control>>

Pause(j) ==
    /\ status[j] \in Open
    /\ status' = [status EXCEPT ![j] = "paused"]
    /\ UNCHANGED <<rank, threads, gates, runtime, wake, control>>

Cancel(j) ==
    /\ status[j] \notin {"absent", "completed"}
    /\ status' = [status EXCEPT ![j] = "cancelled"]
    /\ UNCHANGED <<rank, threads, gates, runtime, wake, control>>

\* Resume, also the retry of a failed row. An HTTP row is left to the dispatcher;
\* a media row gets a thread that waits for the old worker to go, or none when
\* the command finds no runtime and returns an error: the row is queued by then.
Resume(j) ==
    /\ status[j] \notin {"absent", "completed", "cancelled"}
    /\ status' = [status EXCEPT ![j] = "queued"]
    /\ wake' = (wake \/ Kind[j] = "http")
    /\ resuming' = IF Kind[j] = "media" /\ runtime THEN resuming \cup {j} ELSE resuming
    /\ UNCHANGED <<rank, active, quitting, leaving, gates, runtime, control>>

\* The thread of resume_media_worker_when_idle finds the job idle ...
ResumeRuns(j) ==
    /\ j \in resuming \ active
    /\ resuming' = resuming \ {j}
    /\ status' = [status EXCEPT ![j] =
                    IF @ \in {"completed", "cancelled"} THEN @ ELSE "running"]
    /\ wake' = TRUE
    /\ UNCHANGED <<rank, active, quitting, leaving, gates, runtime, control>>

\* ... or gives up after seven seconds of looking.
ResumeGivesUp(j) ==
    /\ j \in resuming \cap active
    /\ resuming' = resuming \ {j}
    /\ status' = [status EXCEPT ![j] = "failed"]
    /\ UNCHANGED <<rank, active, quitting, leaving, gates, runtime, wake, control>>

SetPriority(j) ==
    /\ status[j] # "absent"
    /\ \E r \in Ranks : rank' = [rank EXCEPT ![j] = r]
    /\ wake' = TRUE
    /\ UNCHANGED <<status, threads, gates, runtime, control>>

\* update_concurrency; workers above a reduced limit go on.
SetLimits ==
    /\ limit' \in Settings
    /\ wake' = TRUE
    /\ UNCHANGED <<rows, threads, used, runtime, control>>

\* refresh_component_runtime_slots, after an installation or a removal.
RuntimeChanges ==
    /\ runtime' = ~runtime
    /\ wake' = TRUE
    /\ UNCHANGED <<rows, threads, gates, control>>

\* The process ends and starts again: no thread and no permit survives; what was
\* running is queued, or paused if the settings say so.
Restart ==
    /\ \E recovered \in {"queued", "paused"} :
          status' = [j \in Jobs |-> IF status[j] = "running" THEN recovered ELSE status[j]]
    /\ active' = {} /\ quitting' = {} /\ resuming' = {}
    /\ leaving' = [k \in Kinds |-> 0]
    /\ used' = [k \in Kinds |-> 0]
    /\ Goto("wait", "http", FALSE) /\ job' = -1
    /\ wake' = TRUE
    /\ UNCHANGED <<rank, limit, runtime>>

Drain == Receive \/ Reconcile \/ Acquire \/ Refused \/ Claim \/ ClaimFails \/ Launch

Worker(j) == WorkerStops(j) \/ WorkerEnds(j) \/ WorkerLeaves(j)

Thread == \/ \E j \in Jobs : Worker(j) \/ ResumeRuns(j) \/ ResumeGivesUp(j)
          \/ \E k \in Kinds : ReturnsPermit(k)

User ==
    \/ \E j \in Jobs : Add(j) \/ Pause(j) \/ Cancel(j) \/ Resume(j) \/ SetPriority(j)
    \/ SetLimits \/ RuntimeChanges \/ Restart

Next == Drain \/ Thread \/ User

Spec == Init /\ [][Next]_vars

\* Threads run, transfers end, the database is not busy for ever, and the process
\* is not restarted for ever.
Fairness ==
    /\ <>[][~Restart]_vars
    /\ WF_vars(Receive \/ Reconcile)
    /\ WF_vars(Acquire \/ Refused)
    /\ WF_vars(Claim \/ ClaimFails)
    /\ WF_vars(Launch)
    /\ \A k \in Kinds : SF_vars(Claim /\ kind = k) /\ WF_vars(ReturnsPermit(k))
    /\ \A j \in Jobs : WF_vars(Worker(j))

FairSpec == Spec /\ Fairness

-----------------------------------------------------------------------------
(* What the dispatcher promises                                            *)

ActiveOf(k) == {j \in active : Kind[j] = k}
Held(k) == IF kind = k /\ step \in {"claim", "launch"} THEN 1 ELSE 0

\* Every permit is in exactly one place: with a worker, with a thread on its way
\* out, or with try_start. None is lost on a failed claim, a vanished runtime or
\* a paused row, and none is given back twice (dispatcher.rs:55, 89, 202-285).
PermitsAccounted ==
    \A k \in Kinds : used[k] = Cardinality(ActiveOf(k)) + leaving[k] + Held(k)

\* However the limits are moved, there are never more workers of a kind than the
\* largest limit the settings accept (concurrency.rs:5-8).
WithinLargestLimit ==
    \A k \in Kinds : Cardinality(ActiveOf(k)) <= MaxLimit[k]

\* Between the claim and the launch nobody else starts a worker for the row, and
\* the kind of the row is the kind of the slot (worker.rs:77).
LaunchFindsJobIdle ==
    step = "launch" => job \in Jobs \ active /\ Kind[job] = kind

\* The row that is first in the order of its kind does not stay first for ever
\* without a worker: it is started, overtaken or stopped. Neither a failed claim,
\* a full gate nor the other kind holds it up (dispatcher.rs:166, 189).
FirstIsServed ==
    \A j \in Jobs :
        LET Ready == IsNext(j, Kind[j]) /\ (Kind[j] = "media" => runtime)
        IN  Ready ~> ~Ready

\* A limit reduced under busy workers is respected in the end: the slots above
\* it are not given out again (dispatcher.rs:67).
LimitReductionSettles ==
    \A k \in Kinds : used[k] > limit[k] ~> used[k] <= limit[k]

\* media/mod.rs:292: playlist selection is sequential.
OneItemPerPlaylist ==
    \A i, j \in active : (Batch[i] # NoBatch /\ Batch[i] = Batch[j]) => i = j
=============================================================================
