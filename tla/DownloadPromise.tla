--------------------------- MODULE DownloadPromise ---------------------------
(***************************************************************************)
(* What the application promises about one download, whatever happens to   *)
(* the connection, the process or the user's mind: the file appears under  *)
(* its final name at once and complete, it is not replaced, success is     *)
(* reported only for a file that is there and only to a user who has not   *)
(* stopped the download, and a cancelled download stays cancelled.         *)
(***************************************************************************)
CONSTANTS
    Contents, \* the complete files the download may produce
    NoFile    \* the absence of a file

VARIABLES
    outcome,  \* what the user is told
    file      \* what is found under the final name

vars == <<outcome, file>>

Outcomes == {"open", "paused", "cancelled", "done", "failed"}

Init == outcome = "open" /\ file = NoFile

Publish ==
    /\ file = NoFile
    /\ file' \in Contents
    /\ UNCHANGED outcome

Succeed ==
    /\ outcome = "open"
    /\ file # NoFile
    /\ outcome' = "done"
    /\ UNCHANGED file

GiveUp == outcome = "open" /\ outcome' = "failed" /\ UNCHANGED file

\* Pause and cancel may reach a download that has ended meanwhile.
Suspend == outcome # "cancelled" /\ outcome' = "paused" /\ UNCHANGED file
Cancel  == outcome' = "cancelled" /\ UNCHANGED file

Reopen == outcome \in {"paused", "failed"} /\ outcome' = "open" /\ UNCHANGED file

Next == Publish \/ Succeed \/ GiveUp \/ Suspend \/ Cancel \/ Reopen

Spec == Init /\ [][Next]_vars
=============================================================================
