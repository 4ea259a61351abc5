---------------------------- MODULE BridgeRequests ----------------------------
(***************************************************************************)
(* The requests of the browser extension in the main window                *)
(* (modules/extension/index.js): the native host leaves each in a file of  *)
(* the inbox (extension_bridge.rs), the window takes one at a time, asks   *)
(* for the component it needs (components/optional-install.js), reloads    *)
(* the snapshot and publishes the state the panel reads.                   *)
(***************************************************************************)
EXTENDS Integers, FiniteSets

CONSTANTS Requests, MaxFaults  \* the requests in the order of their files; failures and ends

VARIABLES
    kind, shown,         \* of each request: what it asks, and whether it wants the window
    inbox, waiting,      \* the files; the captures whose host waits
    answer, told,        \* the answer in a file; what the host said to the extension
    taken, at, retry,    \* the request in hand (0: none), the step of its processing, and for
                         \* which call a component is asked
    over, failed,        \* the requests that were processed, and those that ended in an error
    withdrawn, lost,     \* unread when their host gave up; in hand when the application ended
    jobs, reviewed,      \* the requests that made a job, or opened a window that may
    view, published,     \* the jobs of the snapshot, and of the state the panel reads
    publishing, behind,  \* extensionStatePublishTimer; the state was not published since
    tools, asked,        \* the component is there; the requests that sent the user to install it
    claimed, faults      \* the requests the user was told of as added

bridgeVars == <<kind, shown, inbox, waiting, answer, told, taken, at, retry, over, failed, withdrawn,
                lost, jobs, reviewed, view, published, publishing, behind, tools, asked, claimed, faults>>

BridgeConstants ==
    IsFiniteSet(Requests) /\ Requests = 1 .. Cardinality(Requests) /\ MaxFaults \in Nat

Kinds == {"open", "options", "act", "capture", "source", "playlist"}
Sent  == {r \in Requests : kind[r] # "none"}

BridgeInit ==
    /\ kind = [r \in Requests |-> "none"] /\ shown = [r \in Requests |-> FALSE]
    /\ inbox = {} /\ waiting = {} /\ answer = [r \in Requests |-> "none"] /\ told = answer
    /\ taken = 0 /\ at = "idle" /\ retry = "none" /\ over = {} /\ failed = {} /\ withdrawn = {} /\ lost = {}
    /\ jobs = {} /\ reviewed = {} /\ view = {} /\ published = {} /\ publishing = FALSE /\ behind = FALSE
    /\ tools \in BOOLEAN /\ asked = {} /\ claimed = {} /\ faults = 0

files   == <<kind, shown, inbox, waiting, answer, told, withdrawn>>
process == <<taken, at, retry, over, failed>>
results == <<jobs, reviewed, asked, claimed>>
state   == <<view, published, publishing, behind>>

Faulty == faults < MaxFaults /\ faults' = faults + 1
Errs  == at' = "failed" /\ UNCHANGED <<taken, retry, over, failed>>
Goes(step) == at' = step /\ UNCHANGED <<taken, retry, over, failed>>

----------------------------------------------------------------------------
(* The native host                                                         *)

Send(k, wanted) ==
    /\ Sent # Requests /\ (k = "open" => wanted) /\ (k \in {"act", "options"} => ~wanted)
    /\ LET r == Cardinality(Sent) + 1 IN
       /\ kind' = [kind EXCEPT ![r] = k] /\ shown' = [shown EXCEPT ![r] = wanted]
       /\ inbox' = inbox \cup {r} /\ waiting' = IF k = "capture" THEN waiting \cup {r} ELSE waiting
    /\ UNCHANGED <<answer, told, withdrawn, process, lost, results, state, tools, faults>>

\* The host of a capture reads its answer, or gives up and removes what was not read.
HostReads(r) ==
    /\ r \in waiting /\ answer[r] # "none"
    /\ told' = [told EXCEPT ![r] = answer[r]] /\ waiting' = waiting \ {r}
    /\ UNCHANGED <<kind, shown, inbox, answer, withdrawn, process, lost, results, state, tools, faults>>
HostGivesUp(r) ==
    /\ r \in waiting /\ answer[r] = "none"
    /\ told' = [told EXCEPT ![r] = "failure"] /\ waiting' = waiting \ {r}
    /\ inbox' = inbox \ {r} /\ withdrawn' = withdrawn \cup (inbox \cap {r})
    /\ UNCHANGED <<kind, shown, answer, process, lost, results, state, tools, faults>>

----------------------------------------------------------------------------
(* The processing of one request                                           *)

\* The timer of half a second does nothing while a request is in hand.
Poll ==
    /\ at = "idle" /\ Goes("drain")
    /\ UNCHANGED <<files, lost, results, state, tools, faults>>

\* What a drain takes: the first file, which it removes. (TakenAll: it removes all of them.)
TakenAll == inbox
Taken == {r \in inbox : \A s \in inbox : r <= s}
\* What comes first of a request; the options of a job are refused.
First(k) == CASE k = "open" -> "done" [] k = "options" -> "failed" [] k = "playlist" -> "queue" [] OTHER -> k

Drain ==
    /\ at = "drain" /\ inbox' = inbox \ Taken
    /\ \/ inbox = {} /\ at' = "idle" /\ UNCHANGED taken
       \/ /\ inbox # {}
          /\ \E r \in Taken : taken' = r /\ at' = IF shown[r] THEN "wake" ELSE First(kind[r])
    /\ UNCHANGED <<kind, shown, waiting, answer, told, withdrawn, retry, over, failed, lost, results, state,
                   tools, faults>>

\* The window is brought up twice, ninety milliseconds apart.
Wake ==
    /\ at = "wake" /\ Goes(First(kind[taken]))
    /\ UNCHANGED <<files, lost, results, state, tools, faults>>

\* An action on a job needs the job in the snapshot; the command itself may fail.
Act ==
    /\ at = "act" /\ \E job \in Requests :
          IF job \in view THEN Goes("load") \/ Errs ELSE Errs
    /\ UNCHANGED <<files, lost, results, state, tools, faults>>

Answers(what) == answer' = [answer EXCEPT ![taken] = what]

\* A capture in the background makes a job, in the foreground opens the window of HTTP, or is refused
\* (a duplicate, a private window, a folder not chosen); a refusal in the foreground ends in an error.
Capture ==
    /\ at = "capture"
    /\ \/ ~shown[taken] /\ Answers("accepted") /\ jobs' = jobs \cup {taken} /\ Goes("load") /\ UNCHANGED reviewed
       \/ shown[taken] /\ Answers("review") /\ reviewed' = reviewed \cup {taken} /\ Goes("done") /\ UNCHANGED jobs
       \/ /\ Answers("refused") /\ UNCHANGED <<jobs, reviewed>>
          /\ IF shown[taken] THEN Goes("done") \/ Errs ELSE Goes("done")
       \/ Errs /\ UNCHANGED <<answer, jobs, reviewed>>
    /\ UNCHANGED <<kind, shown, inbox, waiting, told, withdrawn, lost, asked, claimed, state, tools, faults>>

\* A source in the foreground goes to its preparation window; in the background it is
\* looked at: a file is queued, a page refused, media are analysed.
Source ==
    /\ at = "source"
    /\ \/ shown[taken] /\ reviewed' = reviewed \cup {taken} /\ Goes("done") /\ UNCHANGED jobs
       \/ ~shown[taken] /\ jobs' = jobs \cup {taken} /\ Goes("load") /\ UNCHANGED reviewed
       \/ Errs /\ UNCHANGED <<jobs, reviewed>>
       \/ ~shown[taken] /\ Goes("analyze") /\ UNCHANGED <<jobs, reviewed>>
    /\ UNCHANGED <<files, lost, asked, claimed, state, tools, faults>>

\* A call that needs a component: without it the user is asked, with it it is made.
Asks(call) == at' = "prompt" /\ retry' = call /\ UNCHANGED <<taken, over, failed>>
Analyze ==
    /\ at = "analyze"
    /\ \/ ~tools /\ Asks("analyze")
       \/ tools /\ (Goes("queue") \/ Errs)
    /\ UNCHANGED <<files, lost, results, state, tools, faults>>
Queue ==
    /\ at = "queue"
    /\ \/ ~tools /\ Asks("queue") /\ UNCHANGED jobs
       \/ tools /\ jobs' = jobs \cup {taken} /\ Goes("load")
       \/ tools /\ Errs /\ UNCHANGED jobs
    /\ UNCHANGED <<files, lost, reviewed, asked, claimed, state, tools, faults>>

\* The prompt: a component that came meanwhile or a refusal end the request; consent opens
\* the components and lets the request go on as if the call had answered nothing.
Resumes == IF retry = "analyze" THEN "queue" ELSE "load"
Prompt ==
    /\ at = "prompt" /\ retry' = "none" /\ UNCHANGED <<taken, over, failed>>
    /\ \/ at' = "failed" /\ UNCHANGED asked
       \/ at' = Resumes /\ asked' = asked \cup {taken}
    /\ UNCHANGED <<files, lost, jobs, reviewed, claimed, state, tools, faults>>

Ended == over' = over \cup {taken} /\ taken' = 0 /\ at' = "idle" /\ UNCHANGED retry

\* The snapshot that is loaded is published a moment later.
Refreshes == view' \in {view, jobs} /\ publishing' = TRUE /\ UNCHANGED <<published, behind>>
Load ==
    /\ at = "load" /\ Refreshes /\ Ended /\ UNCHANGED failed
    /\ claimed' = IF shown[taken] /\ kind[taken] = "playlist" THEN claimed \cup {taken} ELSE claimed
    /\ UNCHANGED <<files, lost, jobs, reviewed, asked, tools, faults>>
Done ==
    /\ at = "done" /\ Ended /\ UNCHANGED failed
    /\ UNCHANGED <<files, lost, results, state, tools, faults>>
Failed ==
    /\ at = "failed" /\ Ended /\ failed' = failed \cup {taken}
    /\ publishing' = TRUE /\ UNCHANGED <<view, published, behind>>
    /\ UNCHANGED <<files, lost, results, tools, faults>>

----------------------------------------------------------------------------
(* Around it                                                               *)

Refresh ==
    /\ view # jobs /\ Refreshes
    /\ UNCHANGED <<files, process, lost, results, tools, faults>>

Publish ==
    /\ publishing /\ publishing' = FALSE
    /\ \/ published' = view /\ behind' = FALSE /\ UNCHANGED faults
       \/ Faulty /\ behind' = TRUE /\ UNCHANGED published
    /\ UNCHANGED <<view, files, process, lost, results, tools>>

Installed ==
    /\ ~tools /\ tools' = TRUE
    /\ UNCHANGED <<files, process, lost, results, state, faults>>

\* The application ends and starts: the request in hand is gone, the files are not.
Restart ==
    /\ Faulty
    /\ lost' = lost \cup ({taken} \ {0}) /\ taken' = 0 /\ at' = "idle" /\ retry' = "none"
    /\ view' = {} /\ publishing' = FALSE /\ behind' = TRUE
    /\ UNCHANGED <<files, over, failed, results, published, tools>>

----------------------------------------------------------------------------

BridgeNext ==
    \/ (\E k \in Kinds, wanted \in BOOLEAN : Send(k, wanted))
    \/ (\E r \in Requests : HostReads(r) \/ HostGivesUp(r))
    \/ Poll \/ Drain \/ Wake \/ Act \/ Capture \/ Source \/ Analyze \/ Queue \/ Prompt \/ Load \/ Done \/ Failed
    \/ Refresh \/ Publish \/ Installed \/ Restart

BridgeSpec == BridgeInit /\ [][BridgeNext]_bridgeVars

\* Every variable has its type.
BridgeTypes ==
    /\ kind \in [Requests -> Kinds \cup {"none"}] /\ shown \in [Requests -> BOOLEAN]
    /\ {inbox, waiting, over, failed, withdrawn, lost, jobs, reviewed, view, published, asked, claimed}
            \subseteq SUBSET Requests
    /\ answer \in [Requests -> {"none", "accepted", "review", "refused"}]
    /\ told \in [Requests -> {"none", "accepted", "review", "refused", "failure"}]
    /\ taken \in Requests \cup {0} /\ retry \in {"none", "analyze", "queue"} /\ faults \in 0 .. MaxFaults
    /\ at \in {"idle", "drain", "wake", "act", "capture", "source", "analyze", "queue", "prompt", "load",
               "done", "failed"}
    /\ {publishing, behind, tools} \subseteq BOOLEAN

\* Of the requests that were left in the inbox none disappears: it is there, in hand, processed,
\* withdrawn by its host or lost with the application, and they are processed in their order.
\* One that adds downloads and ends without an error has made its job, opened its window, was
\* refused in so many words, or has sent the user to install a component; the host says
\* "accepted" of a capture with a job only; and the panel's state is the snapshot's unless a
\* publication is due or the last one failed.
RequestsKept ==
    /\ Sent = inbox \cup ({taken} \ {0}) \cup over \cup withdrawn \cup lost
    /\ \A r \in over \cup ({taken} \ {0}), s \in inbox : r < s
    /\ \A r \in over \ failed : kind[r] \in {"capture", "source", "playlist"} =>
           r \in jobs \cup reviewed \cup asked \/ answer[r] = "refused"
    /\ \A r \in Requests : told[r] = "accepted" => r \in jobs
    /\ claimed \subseteq jobs \cup asked
    /\ publishing \/ behind \/ published = view
=============================================================================
