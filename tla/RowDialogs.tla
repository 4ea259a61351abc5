----------------------------- MODULE RowDialogs -----------------------------
(***************************************************************************)
(* What the user does to the rows of the list (app-ui/download-manager/    *)
(* events.js, actions.js, state.js): a row shows what was asked of it      *)
(* before the application has done it; dialogs ask before a row is         *)
(* cancelled, renamed or deleted, and one of them shows what would be      *)
(* deleted. Every answer comes late, and may find another dialog open.     *)
(***************************************************************************)
EXTENDS Naturals, FiniteSets

CONSTANTS
    Rows,         \* the ids of the rows, numbers from 1
    MaxInputs,    \* what the user does
    MaxMoves      \* what happens to the downloads by itself

VARIABLES
    jobs, view,             \* the application's jobs, and the snapshot of them
    optimisticJobStatuses,
    selectedJobIds,
    modal, modalJobId,
    deletePreview,          \* the row whose files are shown; 0 is none
    deletePreviewBusy, deleteBusy, bulkDeleteBusy,
    calls,                  \* invocations that are not answered
    unshown,                \* rows deleted with their files while others were shown
    inputs, moves

dialogVars == <<jobs, view, optimisticJobStatuses, selectedJobIds, modal, modalJobId,
                deletePreview, deletePreviewBusy, deleteBusy, bulkDeleteBusy, calls,
                unshown, inputs, moves>>

DialogConstants == Rows \subseteq Nat \ {0} /\ {MaxInputs, MaxMoves} \subseteq Nat

Asked    == {"running", "paused"}
Statuses == Asked \cup {"completed", "gone"}
Modals   == {"none", "delete", "bulk-delete", "cancel", "rename"}
Call     == [kind : {"set", "preview", "cancel", "rename", "delete", "bulk", "refresh"},
             rows : SUBSET Rows, status : Statuses]

DialogInit ==
    /\ jobs \in [Rows -> {"running", "completed"}] /\ view = jobs
    /\ optimisticJobStatuses = [r \in Rows |-> "none"]
    /\ selectedJobIds = {}
    /\ modal = "none" /\ modalJobId = 0
    /\ deletePreview = 0 /\ deletePreviewBusy = FALSE
    /\ deleteBusy = FALSE /\ bulkDeleteBusy = FALSE
    /\ calls = {} /\ unshown = {} /\ inputs = 0 /\ moves = 0

Input   == inputs < MaxInputs /\ inputs' = inputs + 1 /\ UNCHANGED moves
Visible == {r \in Rows : view[r] # "gone"}
Invoke(kind, rows, status) == calls' = calls \cup {[kind |-> kind, rows |-> rows, status |-> status]}
Becomes(c, kind) == calls' = (calls \ {c}) \cup {[c EXCEPT !.kind = kind]}

dialog == <<modal, modalJobId, deletePreview, deletePreviewBusy, deleteBusy, bulkDeleteBusy>>
shown  == <<view, optimisticJobStatuses>>

----------------------------------------------------------------------------
(* The status a row shows                                                  *)

\* applyOptimisticJobStatuses: what was asked is shown until it is so.
Shown(r) == IF optimisticJobStatuses[r] = "none" THEN view[r] ELSE optimisticJobStatuses[r]

\* The buttons of a row and of its menu, and what changes the whole selection.
Set(rows, status) ==
    /\ Input /\ rows # {} /\ rows \subseteq Visible
    /\ optimisticJobStatuses' = [r \in Rows |-> IF r \in rows /\ view[r] # status THEN status
                                                ELSE optimisticJobStatuses[r]]
    /\ Invoke("set", rows, status)
    /\ UNCHANGED <<jobs, view, selectedJobIds, dialog, unshown>>

\* The application does it, and the rows are read again; or it refuses, and what
\* was asked is shown no more.
SetAnswered(c) ==
    /\ c \in calls /\ c.kind = "set"
    /\ \/ /\ jobs' = [r \in Rows |-> IF r \in c.rows /\ jobs[r] \in Asked THEN c.status ELSE jobs[r]]
          /\ Becomes(c, "refresh")
          /\ UNCHANGED optimisticJobStatuses
       \/ /\ calls' = calls \ {c}
          /\ optimisticJobStatuses' = [r \in Rows |-> IF r \in c.rows THEN "none"
                                                      ELSE optimisticJobStatuses[r]]
          /\ UNCHANGED jobs
    /\ UNCHANGED <<view, selectedJobIds, dialog, unshown, inputs, moves>>

\* A snapshot is read; it is drawn with what was asked and is not so yet.
Reads ==
    /\ view' = jobs
    /\ optimisticJobStatuses' = [r \in Rows |-> IF optimisticJobStatuses[r] \in {jobs[r]} THEN "none"
                                                ELSE optimisticJobStatuses[r]]
Refreshed(c) ==
    /\ c \in calls /\ c.kind = "refresh" /\ calls' = calls \ {c}
    /\ Reads
    /\ UNCHANGED <<jobs, selectedJobIds, dialog, unshown, inputs, moves>>

\* The list is refreshed now and then in any case.
Tick ==
    /\ view # jobs \/ \E r \in Rows : optimisticJobStatuses[r] = jobs[r]
    /\ Reads
    /\ UNCHANGED <<jobs, selectedJobIds, dialog, calls, unshown, inputs, moves>>

\* A row drawn once the time is up for what was asked. (ExpireSettled: only if the
\* answer has been seen.)
ExpireSettled(r) ==
    /\ optimisticJobStatuses[r] # "none" /\ optimisticJobStatuses[r] = view[r]
    /\ optimisticJobStatuses' = [optimisticJobStatuses EXCEPT ![r] = "none"]
    /\ UNCHANGED <<jobs, view, selectedJobIds, dialog, calls, unshown, inputs, moves>>
Expire(r) ==
    /\ optimisticJobStatuses[r] # "none"
    /\ optimisticJobStatuses' = [optimisticJobStatuses EXCEPT ![r] = "none"]
    /\ UNCHANGED <<jobs, view, selectedJobIds, dialog, calls, unshown, inputs, moves>>

\* A download ends by itself.
Moves ==
    /\ moves < MaxMoves /\ moves' = moves + 1
    /\ \E r \in Rows : jobs[r] = "running" /\ jobs' = [jobs EXCEPT ![r] = "completed"]
    /\ UNCHANGED <<shown, selectedJobIds, dialog, calls, unshown, inputs>>

----------------------------------------------------------------------------
(* The dialogs                                                             *)

\* The boxes of the rows, and the one that selects all that is visible.
Select(rows) ==
    /\ Input /\ modal = "none" /\ rows \subseteq Visible /\ rows # selectedJobIds
    /\ selectedJobIds' = rows
    /\ UNCHANGED <<jobs, shown, dialog, calls, unshown>>

\* The delete dialog asks what would be deleted.
OpenDelete(r) ==
    /\ Input /\ modal = "none" /\ r \in Visible
    /\ modal' = "delete" /\ modalJobId' = r
    /\ deletePreview' = 0 /\ deletePreviewBusy' = TRUE
    /\ Invoke("preview", {r}, "running")
    /\ UNCHANGED <<jobs, shown, selectedJobIds, deleteBusy, bulkDeleteBusy, unshown>>

\* Another dialog of a row, or of the selection.
OpenOther(kind, r) ==
    /\ Input /\ modal = "none" /\ r \in Visible
    /\ \/ kind = "rename" /\ view[r] = "completed"
       \/ kind = "cancel" /\ view[r] \in Asked
       \/ kind = "bulk-delete" /\ selectedJobIds # {}
    /\ modal' = kind
    /\ modalJobId' = IF kind = "bulk-delete" THEN modalJobId ELSE r
    /\ UNCHANGED <<jobs, shown, selectedJobIds, deletePreview, deletePreviewBusy, deleteBusy,
                   bulkDeleteBusy, calls, unshown>>

\* Whatever dialog is open, it shows the answer.
PreviewAnswered(c) ==
    /\ c \in calls /\ c.kind = "preview" /\ calls' = calls \ {c}
    /\ \E r \in c.rows : deletePreview' = r \/ deletePreview' = 0
    /\ deletePreviewBusy' = FALSE
    /\ UNCHANGED <<jobs, shown, selectedJobIds, modal, modalJobId, deleteBusy, bulkDeleteBusy,
                   unshown, inputs, moves>>

\* Escape, and the buttons that close a dialog.
CloseModal ==
    /\ Input /\ modal # "none"
    /\ modal' = "none" /\ modalJobId' = 0
    /\ deletePreview' = 0 /\ deletePreviewBusy' = FALSE /\ deleteBusy' = FALSE
    /\ UNCHANGED <<jobs, shown, selectedJobIds, bulkDeleteBusy, calls, unshown>>

\* The buttons of the delete dialog. The files go only when the box that the
\* preview enables was ticked.
ConfirmDelete(storage) ==
    /\ Input /\ modal = "delete" /\ ~deletePreviewBusy /\ ~deleteBusy
    /\ storage => deletePreview # 0
    /\ deleteBusy' = TRUE
    /\ unshown' = IF storage /\ deletePreview # modalJobId THEN unshown \cup {modalJobId}
                  ELSE unshown
    /\ Invoke("delete", {modalJobId}, "gone")
    /\ UNCHANGED <<jobs, shown, selectedJobIds, modal, modalJobId, deletePreview,
                   deletePreviewBusy, bulkDeleteBusy>>

\* The row is deleted and whatever dialog is open closes; or it is not.
DeleteAnswered(c) ==
    /\ c \in calls /\ c.kind = "delete"
    /\ deleteBusy' = FALSE
    /\ \/ /\ jobs' = [r \in Rows |-> IF r \in c.rows THEN "gone" ELSE jobs[r]]
          /\ modal' = "none" /\ modalJobId' = 0 /\ deletePreview' = 0
          /\ Becomes(c, "refresh")
       \/ calls' = calls \ {c} /\ UNCHANGED <<jobs, modal, modalJobId, deletePreview>>
    /\ UNCHANGED <<shown, selectedJobIds, deletePreviewBusy, bulkDeleteBusy, unshown, inputs, moves>>

\* Cancelling stops the job; a new name changes no status.
Confirm(kind) ==
    /\ Input /\ modal = kind /\ modalJobId # 0
    /\ Invoke(kind, {modalJobId}, "gone")
    /\ UNCHANGED <<jobs, shown, selectedJobIds, dialog, unshown>>
ConfirmAnswered(c) ==
    /\ c \in calls /\ c.kind \in {"cancel", "rename"}
    /\ \/ /\ jobs' = [r \in Rows |-> IF r \in c.rows /\ c.kind = "cancel" /\ jobs[r] \in Asked
                                     THEN "completed" ELSE jobs[r]]
          /\ modal' = "none" /\ modalJobId' = 0
          /\ Becomes(c, "refresh")
       \/ calls' = calls \ {c} /\ UNCHANGED <<jobs, modal, modalJobId>>
    /\ UNCHANGED <<shown, selectedJobIds, deletePreview, deletePreviewBusy, deleteBusy,
                   bulkDeleteBusy, unshown, inputs, moves>>

\* The selection is deleted, one invocation for each row.
ConfirmBulk ==
    /\ Input /\ modal = "bulk-delete" /\ ~bulkDeleteBusy /\ selectedJobIds # {}
    /\ bulkDeleteBusy' = TRUE
    /\ Invoke("bulk", selectedJobIds, "gone")
    /\ UNCHANGED <<jobs, shown, selectedJobIds, modal, modalJobId, deletePreview,
                   deletePreviewBusy, deleteBusy, unshown>>

\* When the last one is answered, the rows that failed stay selected.
BulkAnswered(c) ==
    /\ c \in calls /\ c.kind = "bulk"
    /\ \E done \in SUBSET c.rows :
          /\ jobs' = [r \in Rows |-> IF r \in done THEN "gone" ELSE jobs[r]]
          /\ selectedJobIds' = selectedJobIds \ done
    /\ bulkDeleteBusy' = FALSE /\ modal' = "none"
    /\ Becomes(c, "refresh")
    /\ UNCHANGED <<shown, modalJobId, deletePreview, deletePreviewBusy, deleteBusy, unshown,
                   inputs, moves>>

----------------------------------------------------------------------------
Answers == \E c \in calls :
    \/ SetAnswered(c) \/ Refreshed(c) \/ PreviewAnswered(c) \/ DeleteAnswered(c)
    \/ ConfirmAnswered(c) \/ BulkAnswered(c)
Expires == \E r \in Rows : Expire(r)
Users ==
    \/ CloseModal \/ ConfirmBulk
    \/ \E storage \in BOOLEAN : ConfirmDelete(storage)
    \/ \E kind \in {"cancel", "rename"} : Confirm(kind)
    \/ \E r \in Rows : OpenDelete(r) \/ \E kind \in Modals : OpenOther(kind, r)
    \/ \E rows \in SUBSET Rows : Select(rows)
    \/ \E status \in Asked : (\E r \in Rows : Set({r}, status)) \/ Set(selectedJobIds, status)

DialogNext == Answers \/ Tick \/ Expires \/ Moves \/ Users

\* The list is refreshed and drawn for ever; answers come.
DialogSpec ==
    /\ DialogInit /\ [][DialogNext]_dialogVars
    /\ WF_dialogVars(Answers) /\ WF_dialogVars(Tick) /\ WF_dialogVars(Expires)

TypeOK ==
    /\ {jobs, view} \subseteq [Rows -> Statuses]
    /\ optimisticJobStatuses \in [Rows -> Asked \cup {"none"}]
    /\ selectedJobIds \subseteq Rows /\ unshown \subseteq Rows
    /\ modal \in Modals /\ {modalJobId, deletePreview} \subseteq {0} \cup Rows
    /\ {deletePreviewBusy, deleteBusy, bulkDeleteBusy} \subseteq BOOLEAN
    /\ calls \subseteq Call

\* A row comes to show what the application says of it, whatever was asked of it,
\* refused, or overtaken by the download itself.
StatusSettles == \A r \in Rows : []<>(Shown(r) = jobs[r])

\* "La segunda opción elimina únicamente las rutas mostradas" (view/dialogs.js):
\* with the files of a row its own paths were shown.
DeletesShown == unshown = {}
=============================================================================
