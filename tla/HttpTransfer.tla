---------------------------- MODULE HttpTransfer ----------------------------
(***************************************************************************)
(* The life of one HTTP download: the worker thread of downloads/worker.rs *)
(* with the SQL it runs from downloads/http.rs, the `.part` file it writes *)
(* and renames, the server it talks to, and what the user and the startup  *)
(* code may do to the row meanwhile.                                       *)
(*                                                                         *)
(* Each action is one SQLite transaction, one file operation or one        *)
(* request of the source, so that a command, a crash or a change on the    *)
(* server may fall between any two of them.                                *)
(***************************************************************************)
EXTENDS Integers, Sequences

CONSTANTS
    Versions,     \* the representations the URL may serve over time
    Size,         \* Size[v]: the length of v, in chunks
    Tagged,       \* those served with a validator (strong ETag or Last-Modified)
    NoTag,        \* the absence of a validator
    Announced,    \* those whose 200 response carries a Content-Length
    LaxServer,    \* TRUE: the server evaluates Range without looking at If-Range
    Limits,       \* BOOLEAN values: may a read find a bandwidth limit in force?
    PausableFrom, \* the states of a row on which Pause may be pressed: the view
                  \* may still show a row that has ended meanwhile as running
    MaxClaims,    \* bound on lease generations
    MaxRetries,   \* transport retries of one worker (4 in the source)
    MaxAttempts   \* attempts at the final transaction (5 in the source)

ASSUME VersionsAssumption ==
    /\ Versions # {}
    /\ Size \in [Versions -> Nat \ {0}]
    /\ Tagged \subseteq Versions
    /\ Announced \subseteq Versions
    /\ NoTag \notin Versions

ASSUME EnvironmentAssumption ==
    /\ LaxServer \in BOOLEAN
    /\ Limits \subseteq BOOLEAN
    /\ PausableFrom \subseteq {"queued", "running", "failed", "completed", "cancelled"}

ASSUME BoundsAssumption ==
    /\ MaxClaims \in Nat
    /\ MaxRetries \in Nat
    /\ MaxAttempts \in Nat \ {0}

VARIABLES
    \* the rows of jobs and download_jobs
    status,      \* jobs.status
    gen,         \* ownership_generation
    token,       \* ownership_token: the generation it was drawn for, 0 is ''
    total,       \* total_bytes, 0 when unknown
    tag,         \* strong_etag / last_modified, or NoTag
    saved,       \* downloaded_bytes, written at most every few hundred ms
    \* the disk
    hasPart,     \* does the .part file exist?
    part,        \* its content: a sequence of <<version, offset>>
    dest,        \* the content of the destination, <<>> while it does not exist
    \* the server
    cur,         \* the representation it serves now
    \* the worker thread
    pc,          \* "idle" when the job is not in the active set
    lease,       \* the generation this worker claimed
    known,       \* total_bytes as loaded once, when the worker started
    ranges,      \* `resumable`
    ver, pos,    \* the open response: its version and how much of it was read
    tries,       \* transport retries, then attempts at the final transaction
    \* the user's threads
    stopping,    \* a stop command has read the row and not yet written it
    cleanup      \* the cancel clean-up thread: "none", "waiting" or "armed"

row    == <<status, gen, token, total, tag, saved>>
lock   == <<gen, token>>
facts  == <<total, tag, saved>>
disk   == <<hasPart, part, dest>>
stream == <<ver, pos>>
local  == <<lease, known, ranges, stream, tries>>
users  == <<stopping, cleanup>>
vars   == <<row, disk, cur, pc, local, users>>

Statuses == {"queued", "running", "paused", "cancelled", "deleting",
             "completed", "failed"}
Stopped  == {"paused", "cancelled", "deleting"}

\* Where a worker stands between two steps of run_download_worker_inner.
Steps == {"claim", "load", "connect", "refetch", "persist", "open", "check",
          "read", "throttle", "write", "finish", "publish", "record",
          "release", "recover", "fail"}

\* A worker that has claimed its lease and has neither failed nor finished.
Owning == Steps \ {"claim", "recover", "fail"}

\* What a file is made of: chunk i of version v; and all of v in order.
Byte == Versions \X Nat
Chunk(v, i) == <<v, i>>
Whole(v)    == [i \in 1 .. Size[v] |-> Chunk(v, i)]

TypeOK ==
    /\ status \in Statuses
    /\ gen \in Nat
    /\ token \in Nat
    /\ total \in Nat
    /\ tag \in Tagged \cup {NoTag}
    /\ saved \in Nat
    /\ hasPart \in BOOLEAN
    /\ part \in Seq(Byte)
    /\ dest \in Seq(Byte)
    /\ cur \in Versions
    /\ pc \in Steps \cup {"idle"}
    /\ lease \in Nat
    /\ known \in Nat
    /\ ranges \in BOOLEAN
    /\ ver \in Versions
    /\ pos \in Nat
    /\ tries \in Nat
    /\ stopping \in {"none", "keep", "delete"}
    /\ cleanup \in {"none", "waiting", "armed"}

\* create_http_download_job has reserved an empty .part, inserted the row and
\* woken the dispatcher.
Init ==
    /\ status = "queued"
    /\ gen = 0 /\ token = 0
    /\ total = 0 /\ tag = NoTag /\ saved = 0
    /\ hasPart = TRUE /\ part = <<>> /\ dest = <<>>
    /\ cur \in Versions
    /\ pc = "idle"
    /\ lease = 0 /\ known = 0 /\ ranges = FALSE
    /\ ver = cur /\ pos = 0 /\ tries = 0
    /\ stopping = "none" /\ cleanup = "none"

-----------------------------------------------------------------------------
(* Small operators of the source                                           *)

Goto(step) == pc' = step

\* strong_etag / last_modified of a response.
TagOf(v) == IF v \in Tagged THEN v ELSE NoTag

\* http_lease_is_current
LeaseIsCurrent == gen = lease /\ token = lease

\* response_representation_changed, the row's validator against a response's
RepresentationAppeared(v) == tag = NoTag /\ TagOf(v) # tag \* mutant: inverted test
RepresentationChanged(v) == tag # NoTag /\ TagOf(v) # tag

\* The server evaluates a Range whose If-Range is the row's validator. RFC 9110
\* lets it do so only when the validator still matches.
RangeApplies == LaxServer \/ tag = NoTag \/ tag = TagOf(cur)

\* isolate_stale_partial renames the file away.
NotIsolated == hasPart' = hasPart /\ part' = part \* mutant: the rename is skipped
Isolated == hasPart' = FALSE /\ part' = <<>>

\* The row is in a state that makes a running worker stop.
InterruptedByCancel == status = "cancelled" \* mutant: a pause is not noticed
Interrupted == status \in {"paused", "cancelled"}

\* The response now being read starts at offset p of the current version.
StreamBehind(p) == ver' = cur /\ pos' = p - 1 \* mutant: off by one
Stream(p) == ver' = cur /\ pos' = p

-----------------------------------------------------------------------------
(* The dispatcher hands the job to a worker; claim_http_lease              *)

Dispatch ==
    /\ pc = "idle"
    /\ status \in {"queued", "running"}
    /\ gen < MaxClaims
    /\ status' = "running"
    /\ Goto("claim")
    /\ UNCHANGED <<lock, facts, disk, cur, local, users>>

ClaimLease ==
    /\ pc = "claim"
    /\ IF status \in {"queued", "running"}
       THEN /\ status' = "running"
            /\ gen' = gen + 1
            /\ token' = gen + 1
            /\ lease' = gen + 1
            /\ Goto("load")
       ELSE /\ Goto("idle")
            /\ UNCHANGED <<status, lock, lease>>
    /\ UNCHANGED <<facts, disk, cur, known, ranges, stream, tries, users>>

\* load_http_resume_state and the length of the .part. A partial longer than
\* the known total is set aside; one as long as the total is finalised without
\* any request.
Load ==
    /\ pc = "load"
    /\ known' = total
    /\ tries' = 0
    /\ IF total > 0 /\ Len(part) > total
       THEN Isolated /\ Goto("release")
       ELSE /\ Goto(IF total > 0 /\ Len(part) = total THEN "finish" ELSE "connect")
            /\ UNCHANGED <<hasPart, part>>
    /\ UNCHANGED <<row, dest, cur, lease, ranges, stream, users>>

-----------------------------------------------------------------------------
(* The first request of a worker                                           *)

\* 200: whatever was on disk belongs to another download attempt.
ConnectFull ==
    /\ pc = "connect"
    /\ IF part # <<>> THEN Isolated ELSE UNCHANGED <<hasPart, part>>
    /\ Stream(0)
    /\ ranges' \in BOOLEAN
    /\ Goto("persist")
    /\ UNCHANGED <<row, dest, cur, lease, known, tries, users>>

\* 206 from the end of the .part: appended to when neither the total nor the
\* validator contradicts what was loaded, set aside and refetched otherwise.
ConnectPartial ==
    /\ pc = "connect"
    /\ part # <<>>
    /\ Len(part) < Size[cur]
    /\ RangeApplies
    /\ IF (known > 0 /\ known # Size[cur]) \/ RepresentationChanged(cur)
       THEN /\ Isolated
            /\ Goto("refetch")
            /\ UNCHANGED <<ranges, stream>>
       ELSE /\ Stream(Len(part))
            /\ ranges' = TRUE
            /\ Goto("persist")
            /\ UNCHANGED <<hasPart, part>>
    /\ UNCHANGED <<row, dest, cur, lease, known, tries, users>>

\* 416 with the remote total: equal to the .part, it is taken for complete;
\* smaller, the .part is set aside and the worker fails.
ConnectUnsatisfiable ==
    /\ pc = "connect"
    /\ part # <<>>
    /\ Len(part) >= Size[cur]
    /\ RangeApplies
    /\ IF Len(part) = Size[cur]
       THEN Goto("publish") /\ UNCHANGED <<hasPart, part>>
       ELSE Goto("release") /\ Isolated
    /\ UNCHANGED <<row, dest, cur, local, users>>

\* The second request, without Range, after a 206 of another representation.
Refetch ==
    /\ pc = "refetch"
    /\ Stream(0)
    /\ ranges' \in BOOLEAN
    /\ Goto("persist")
    /\ UNCHANGED <<row, disk, cur, lease, known, tries, users>>

\* The row describes a response of version v. A 206 announces its total in
\* Content-Range, a 200 only in Content-Length.
TotalOf(v) == IF part # <<>> \/ v \in Announced THEN Size[v] ELSE 0

Describes(v) ==
    total' = TotalOf(v) /\ tag' = TagOf(v) /\ saved' = Len(part)

\* persist_http_representation, before a byte of the response reaches the .part.
PersistRepresentation ==
    /\ pc = "persist"
    /\ IF LeaseIsCurrent
       THEN Describes(ver) /\ Goto("open")
       ELSE /\ Goto("idle")
            /\ UNCHANGED facts
    /\ UNCHANGED <<status, lock, disk, cur, local, users>>

\* Append to a resumed .part, create or truncate otherwise.
OpenPart ==
    /\ pc = "open"
    /\ hasPart' = TRUE
    /\ Goto("check")
    /\ UNCHANGED <<row, part, dest, cur, local, users>>

-----------------------------------------------------------------------------
(* The transfer loop                                                       *)

\* The top of the loop: lease, then status. Only "paused" and "cancelled" stop
\* the worker; they leave the token in the row.
CheckStatus ==
    /\ pc = "check"
    /\ IF ~LeaseIsCurrent \/ Interrupted
       THEN Goto("idle")
       ELSE Goto("read")
    /\ UNCHANGED <<row, disk, cur, local, users>>

\* The next chunk of the open response. Under a bandwidth limit the thread
\* sleeps in throttle_bytes before it writes.
ReadChunk ==
    /\ pc = "read"
    /\ pos < Size[ver]
    /\ pos' = pos + 1
    /\ \E limited \in Limits : Goto(IF limited THEN "throttle" ELSE "write")
    /\ UNCHANGED <<row, disk, cur, lease, known, ranges, ver, tries, users>>

\* throttle_bytes polls the row while it waits and reports an interruption; the
\* loop then starts over, without the chunk it had read.
Throttle ==
    /\ pc = "throttle"
    /\ IF Interrupted THEN Goto("check") ELSE Goto("write")
    /\ UNCHANGED <<row, disk, cur, local, users>>

\* The chunk is appended, and the byte count may reach the row.
WriteChunk ==
    /\ pc = "write"
    /\ IF LeaseIsCurrent
       THEN /\ part' = Append(part, Chunk(ver, pos))
            /\ tries' = 0
            /\ saved' \in {saved, Len(part) + 1}
            /\ Goto("check")
       ELSE /\ Goto("idle")
            /\ UNCHANGED <<part, tries, saved>>
    /\ UNCHANGED <<status, lock, total, tag, hasPart, dest, cur, lease, known,
                   ranges, stream, users>>

\* The response ends: at its real end, or early when its framing lets a cut
\* look like an end (only then with an announced total to notice it by).
EndOfBody == pos = Size[ver] \/ total > 0

Incomplete == total > 0 /\ Len(part) < total

\* read() returned 0 and the worker leaves the loop.
ReadEnds ==
    /\ pc = "read"
    /\ EndOfBody
    /\ ~(Incomplete /\ ranges)
    /\ Goto("finish")
    /\ UNCHANGED <<row, disk, cur, local, users>>

\* read() returned 0 too early and the server answers the new Range with 200.
ReconnectFull ==
    /\ pc = "read"
    /\ EndOfBody /\ Incomplete /\ ranges
    /\ tries < MaxRetries
    /\ tries' = tries + 1
    /\ Isolated
    /\ Stream(0)
    /\ Goto("persist")
    /\ UNCHANGED <<row, dest, cur, lease, known, ranges, users>>

\* The server answers the new Range with 206.
Resumed ==
    /\ pc = "read"
    /\ ranges
    /\ tries < MaxRetries
    /\ Len(part) < Size[cur]
    /\ RangeApplies
    /\ ~RepresentationChanged(cur)
    /\ tries' = tries + 1
    /\ Stream(Len(part))
    /\ Goto("check")
    /\ UNCHANGED <<row, disk, cur, lease, known, ranges, users>>

\* After an early end the total is compared with the one the worker loaded when
\* it started, whatever it has stored since.
ReconnectPartial ==
    /\ EndOfBody /\ Incomplete
    /\ known > 0 => known = Size[cur]
    /\ Resumed

\* After a read error nothing but 206 will do, and the total is not compared.
ReconnectAfterError == Resumed

-----------------------------------------------------------------------------
(* finalize_rust_http_staging, finalize_http_job_owned                     *)

\* The size checks before anything is finalised.
SizeWrongIfLonger == part = <<>> \/ (total > 0 /\ Len(part) > total) \* mutant: > for #
SizeWrong == part = <<>> \/ (total > 0 /\ Len(part) # total)

\* Size checks and mark_http_finalizing.
CheckSize ==
    /\ pc = "finish"
    /\ Goto(IF SizeWrong THEN "release"
            ELSE IF LeaseIsCurrent THEN "publish" ELSE "idle")
    /\ UNCHANGED <<row, disk, cur, local, users>>

NameUnchecked == TRUE \* mutant: the final name is not looked at
NameIsFree == dest = <<>>

\* Sync, lease, no file under the final name, then the rename.
Publish ==
    /\ pc = "publish"
    /\ IF LeaseIsCurrent /\ hasPart /\ NameIsFree
       THEN /\ dest' = part
            /\ Isolated
            /\ tries' = 0
            /\ Goto("record")
       ELSE /\ Goto(IF LeaseIsCurrent THEN "release" ELSE "idle")
            /\ UNCHANGED <<disk, tries>>
    /\ UNCHANGED <<row, cur, lease, known, ranges, stream, users>>

\* Finalizable: the WHERE clause of finalize_http_job, refused in a stopped row.
FinalizableUnlessCancelled == status # "cancelled" \* mutant: a state is forgotten
Finalizable == status \notin Stopped

\* The transaction of finalize_http_job.
Complete ==
    /\ Finalizable
    /\ status' = "completed"
    /\ total' = Len(dest)
    /\ saved' = Len(dest)
    /\ token' = 0
    /\ UNCHANGED <<gen, tag>>

RecordCompletion ==
    /\ pc = "record"
    /\ Complete
    /\ Goto("idle")
    /\ UNCHANGED <<disk, cur, local, users>>

\* An attempt fails, on a stopped row or a busy database; after the last one
\* the worker gives up.
RecordFails ==
    /\ pc = "record"
    /\ tries' = tries + 1
    /\ Goto(IF tries + 1 < MaxAttempts THEN "record" ELSE "release")
    /\ UNCHANGED <<row, disk, cur, lease, known, ranges, stream, users>>

-----------------------------------------------------------------------------
(* The error path of run_download_worker_with_completion                   *)

\* A step that returns Err: a request (a network error, a status the worker
\* rejects, an HTML body, a 206 without its Content-Range or from another
\* offset, a 416 without a total, one retry too many), a full disk, a busy
\* database. Before the claim there is no lease to release.
StepFails ==
    /\ pc \in Steps \ {"record", "release", "recover", "fail"}
    /\ Goto(IF pc = "claim" THEN "recover" ELSE "release")
    /\ UNCHANGED <<row, disk, cur, local, users>>

\* An UPDATE whose failure is ignored.
ReleaseLease ==
    /\ pc = "release"
    /\ token' \in IF LeaseIsCurrent THEN {0, token} ELSE {token}
    /\ Goto("recover")
    /\ UNCHANGED <<status, gen, facts, disk, cur, local, users>>

\* complete_verified_http_job: the file under the final name has the size the
\* row expects and no .part is left.
VerifiedByAbsence == status \notin Stopped /\ ~hasPart \* mutant: no file is looked at
Verified ==
    /\ status \notin Stopped
    /\ ~hasPart
    /\ dest # <<>>
    /\ total > 0 => Len(dest) = total
    /\ total = 0 /\ saved > 0 => Len(dest) = saved

\* A verified file completes the row, unless the database refuses.
Recover ==
    /\ pc = "recover"
    /\ \/ /\ Verified
          /\ IF status = "completed" THEN UNCHANGED row ELSE Complete
          /\ Goto("idle")
       \/ /\ UNCHANGED row
          /\ Goto("fail")
    /\ UNCHANGED <<disk, cur, local, users>>

\* The stopped rows are left alone; fail_job looks for a verified file once
\* more before it writes, and a refused write leaves the row as it is.
Fail ==
    /\ pc = "fail"
    /\ Goto("idle")
    /\ \/ /\ Verified
          /\ status # "completed"
          /\ Complete
       \/ /\ status' \in IF status \in Stopped \cup {"completed"}
                         THEN {status} ELSE {status, "failed"}
          /\ UNCHANGED <<lock, facts>>
    /\ UNCHANGED <<disk, cur, local, users>>

Worker ==
    \/ ClaimLease \/ Load
    \/ ConnectFull \/ ConnectPartial \/ ConnectUnsatisfiable
    \/ Refetch \/ PersistRepresentation \/ OpenPart
    \/ CheckStatus \/ ReadChunk \/ Throttle \/ WriteChunk
    \/ ReadEnds \/ ReconnectFull \/ ReconnectPartial \/ ReconnectAfterError
    \/ CheckSize \/ Publish \/ RecordCompletion \/ RecordFails
    \/ StepFails \/ ReleaseLease \/ Recover \/ Fail

-----------------------------------------------------------------------------
(* The user, the clean-up thread, the server, the end of the process       *)

\* set_job_status(id, "paused") writes whatever the row holds. It shares a lock
\* with the stop command below; the scheduler, which runs the same statements on
\* rows in progress, does not.
Pause ==
    /\ status \in PausableFrom
    /\ status' = "paused"
    /\ UNCHANGED <<lock, facts, disk, cur, pc, local, users>>

\* set_job_status(id, "running"), also used to retry a failed download.
ResumeRevoking == \* mutant: the lease is taken from the worker that still runs
    /\ status \notin {"completed", "cancelled"}
    /\ status' = "queued"
    /\ token' = 0
    /\ UNCHANGED <<gen, facts, disk, cur, pc, local, users>>
Resume ==
    /\ status \notin {"completed", "cancelled"}
    /\ status' = "queued"
    /\ UNCHANGED <<lock, facts, disk, cur, pc, local, users>>

\* stop_job_internal refuses a completed row, and writes in a second statement.
StopReads ==
    /\ stopping = "none"
    /\ status # "completed"
    /\ stopping' \in {"keep", "delete"}
    /\ UNCHANGED <<row, disk, cur, pc, local, cleanup>>

StopWrites ==
    /\ stopping # "none"
    /\ status' = "cancelled"
    /\ stopping' = "none"
    /\ cleanup' = IF stopping = "delete" /\ cleanup = "none" THEN "waiting" ELSE cleanup
    /\ UNCHANGED <<lock, facts, disk, cur, pc, local>>

\* cleanup_managed_paths_when_idle: it sees the job idle, then removes the
\* .part; after ten seconds of waiting it leaves it where it is.
CleanupSeesAnything == \* mutant: it does not look whether a worker runs
    /\ cleanup = "waiting"
    /\ cleanup' = "armed"
    /\ UNCHANGED <<row, disk, cur, pc, local, stopping>>
CleanupSeesIdle ==
    /\ cleanup = "waiting"
    /\ pc = "idle"
    /\ cleanup' = "armed"
    /\ UNCHANGED <<row, disk, cur, pc, local, stopping>>

CleanupGivesUp ==
    /\ cleanup = "waiting"
    /\ pc # "idle"
    /\ cleanup' = "none"
    /\ UNCHANGED <<row, disk, cur, pc, local, stopping>>

CleanupRemoves ==
    /\ cleanup = "armed"
    /\ cleanup' = "none"
    /\ hasPart' = FALSE /\ part' = <<>>
    /\ UNCHANGED <<row, dest, cur, pc, local, stopping>>

\* The resource behind the URL is replaced.
ServerChanges ==
    /\ \E v \in Versions \ {cur} : cur' = v
    /\ UNCHANGED <<row, disk, pc, local, users>>

\* The process ends and starts again: the threads are gone, what was running is
\* queued or paused, as the user's settings say.
Restart ==
    /\ pc' = "idle"
    /\ stopping' = "none" /\ cleanup' = "none"
    /\ IF status = "running"
       THEN status' \in {"queued", "paused"}
       ELSE UNCHANGED status
    /\ UNCHANGED <<lock, facts, disk, cur, local>>

Environment ==
    \/ Pause \/ Resume \/ StopReads \/ StopWrites
    \/ CleanupSeesIdle \/ CleanupGivesUp \/ CleanupRemoves
    \/ ServerChanges \/ Restart

Next == Dispatch \/ Worker \/ Environment

Spec == Init /\ [][Next]_vars

\* Threads run: a worker that can step does, and the dispatcher's periodic
\* reconciliation finds the row.
FairSpec == Spec /\ WF_vars(Worker) /\ WF_vars(Dispatch)

-----------------------------------------------------------------------------
(* What the download promises                                              *)

\* A worker between its claim and its last step holds the row's lease: no
\* other claim can have happened, so HTTP_STALE_LEASE never arises in one
\* process (worker.rs:507, 714; http.rs:119).
WorkerHoldsLease == pc \in Owning => LeaseIsCurrent

\* While the row names a validator, every chunk of the .part is the chunk of
\* that representation at its own offset: nothing of another version was ever
\* appended, nothing skipped or written twice (worker.rs:382-496, 583-641).
PartIsPrefixOfTagged ==
    tag # NoTag => \A i \in 1 .. Len(part) : part[i] = Chunk(tag, i)

\* A file under the final name is a whole representation (worker.rs:225).
PublishedIsWhole ==
    dest # <<>> => \E v \in Versions : dest = Whole(v)

\* A completed row has its file, of the size it reports (http.rs:519).
CompletedHasFile == status = "completed" => dest # <<>> /\ total = Len(dest)

\* The cancel clean-up never removes a .part under a worker (lib.rs:702).
CleanupOnlyWhenIdle == cleanup = "armed" => pc = "idle"

\* A row the user stopped is neither completed nor failed by a worker that was
\* still busy with it (http.rs:453, 554).
StopIsRespected ==
    [][(status \in Stopped) => status' \notin {"completed", "failed", "running"}]_vars

\* Without any validator a file under the final name may mix representations,
\* but it still has the length of one of them (worker.rs:234, 625).
PublishedHasSomeSize ==
    dest # <<>> => \E v \in Versions : Len(dest) = Size[v]

\* What the user is told, in the terms of DownloadPromise.
Outcome ==
    CASE status \in {"queued", "running"}      -> "open"
      [] status = "paused"                     -> "paused"
      [] status \in {"cancelled", "deleting"}  -> "cancelled"
      [] status = "completed"                  -> "done"
      [] status = "failed"                     -> "failed"

Promise == INSTANCE DownloadPromise WITH
    Contents <- {Whole(v) : v \in Versions},
    NoFile   <- <<>>,
    file     <- dest,
    outcome  <- Outcome

\* The download keeps the promise of DownloadPromise: published at once and
\* whole, never replaced, success told only of a file that is there and only to
\* a user who has not stopped it, cancelled for good (worker.rs:225, http.rs:519).

KeepsPromise == Promise!Spec

\* A worker of a paused or cancelled row lets go of it, unless the user
\* resumes it first (worker.rs:515, 525).
StopTakesEffect ==
    (status \in {"paused", "cancelled"} /\ pc # "idle")
        ~> (pc = "idle" \/ status \notin {"paused", "cancelled"})

-----------------------------------------------------------------------------
(* The invariants above are not inductive; these are, and imply them.      *)

\* Who may be where: a row that has ended has no worker, a clean-up thread has
\* a cancelled row, and waits for the worker to be gone before it is armed.
ControlInv ==
    /\ WorkerHoldsLease
    /\ status # "deleting"
    /\ status \in {"completed", "failed"} => pc = "idle"
    /\ cleanup # "none" => status = "cancelled"
    /\ CleanupOnlyWhenIdle
    /\ ~hasPart => part = <<>>
    /\ pc \in {"check", "read", "throttle", "write"} => hasPart
    /\ pc = "publish" => part # <<>>
    /\ pc = "record" => ~hasPart /\ dest # <<>>
    /\ CompletedHasFile

\* The steps at which a response is open and described by the row.
Receiving == {"open", "check", "read", "write"}

\* With validators for every version and no bandwidth limit, the .part, the
\* row and the open response always speak of one version: the row's validator
\* names what the .part holds, the response goes on where the .part ends, and
\* what is about to be published has the length of that version
\* (worker.rs:382-498, 583-641, 713-721).
ContentInv ==
    /\ part # <<>> => tag \in Versions /\ total \in {0, Size[tag]}
    /\ PartIsPrefixOfTagged
    /\ PublishedIsWhole
    /\ pc # "throttle"
    /\ pc = "refetch" => part = <<>>
    /\ pc = "persist" => pos = Len(part) /\ (part # <<>> => ver = tag)
    /\ pc \in Receiving =>
          /\ ver = tag
          /\ total \in {0, Size[tag]}
          /\ pos = IF pc = "write" THEN Len(part) + 1 ELSE Len(part)
    /\ pc = "finish" /\ part # <<>> /\ total = 0 => Len(part) = Size[tag]
    /\ pc = "publish" => Len(part) = Size[tag]

=============================================================================
