--------------------------- MODULE BrowserCapture ---------------------------
(***************************************************************************)
(* extension/service-worker.js: a download the browser starts is handed to *)
(* the application through the journal, while the browser's own copy is    *)
(* held.  (The selections of SelectionSend share the journal only.)        *)
(*                                                                         *)
(* Every await is a step of its own, and between two of them the browser,  *)
(* the user, the application or the end of the worker may act.             *)
(***************************************************************************)
EXTENDS OperationJournal, Sequences

CONSTANTS
    Downloads,  \* the browser's download ids
    Urls,       \* the addresses a download is known under, in order
    Order       \* Order[d]: the events of d in the order the browser raises them

Nobody == "nobody"

\* The id of a capture is its fingerprint.
CaptureId(d, url) == <<d, url>>

\* What the module expects of its constants.
CaptureConstants ==
    /\ Downloads \subseteq Calls
    /\ Downloads \X Urls \subseteq Prints
    /\ Downloads \X Urls \subseteq Ids
    /\ \E u \in Urls : \A v \in Urls : u <= v
    /\ Nobody \notin Downloads

VARIABLES
    browser,  \* browser[d]: the browser's copy
    url,      \* url[d]: the final address as far as the browser knows it
    events,   \* events[d]: the events of d still to be raised
    mode,     \* browserCaptureMode in storage
    run,      \* run[d]: performCaptureDownload
    outcome,  \* captureOutcomesByDownload
    naming,   \* naming[d]: the browser waits for suggest()
    review,   \* pendingCaptureReview in storage
    resumed   \* downloads the extension let the browser continue

captureVars == <<browser, url, events, mode, run, outcome, naming, review, resumed>>
vars == <<journalVars, captureVars>>

Steps == {"idle", "settings", "handshake", "pause", "refresh", "flag", "journal",
          "response", "cancel", "resume"}
Outcomes == {"none", "passthrough", "uncertain", "captured", "cancel_failed"}

NotRunning == [at |-> "idle"]

\* What a run knows: the event that began it, whether it has paused the browser's
\* copy, and the address it offers.
Running == [at : Steps \ {"idle"}, determining : BOOLEAN, paused : BOOLEAN, url : Urls]

CaptureInit ==
    /\ browser = [d \in Downloads |-> "running"]
    /\ url = [d \in Downloads |-> CHOOSE u \in Urls : \A v \in Urls : u <= v]
    /\ events = Order
    /\ mode = "automatic"
    /\ run = [d \in Downloads |-> NotRunning]
    /\ outcome = [d \in Downloads |-> "none"]
    /\ naming = [d \in Downloads |-> FALSE]
    /\ review = Nobody
    /\ resumed = {}

Init == JournalInit /\ CaptureInit

----------------------------------------------------------------------------
(* captureDownload: one task per download, and its outcome remembered.     *)

\* The task ends; the filename event that shares it lets the browser go on.
Ends(d, what) ==
    /\ outcome' = [outcome EXCEPT ![d] = what]
    /\ run' = [run EXCEPT ![d] = NotRunning]
    /\ naming' = [naming EXCEPT ![d] = FALSE]

Goes(d, step) == run' = [run EXCEPT ![d].at = step]

\* onCreated and onDeterminingFilename.  shouldIgnoreDownload lets a copy that
\* is paused or over pass.
Event(d) ==
    LET determining == Head(events[d]) = "naming" IN
    /\ events[d] # << >>
    /\ events' = [events EXCEPT ![d] = Tail(@)]
    /\ \/ /\ run[d] # NotRunning
          /\ naming' = [naming EXCEPT ![d] = @ \/ determining]
          /\ UNCHANGED <<run, outcome>>
       \/ /\ run[d] = NotRunning
          /\ outcome[d] # "none"
          /\ UNCHANGED <<run, outcome, naming>>
       \/ /\ run[d] = NotRunning
          /\ outcome[d] = "none"
          /\ browser[d] # "running"
          /\ Ends(d, "passthrough")
       \/ /\ run[d] = NotRunning
          /\ outcome[d] = "none"
          /\ browser[d] = "running"
          /\ run' = [run EXCEPT ![d] = [at |-> "settings", determining |-> determining,
                                        paused |-> FALSE, url |-> url[d]]]
          /\ naming' = [naming EXCEPT ![d] = determining]
          /\ UNCHANGED outcome
    /\ UNCHANGED <<browser, url, mode, review, resumed, journalVars>>

\* performCaptureDownload up to the pause: nothing is touched when the mode or
\* the bridge does not allow a capture.
ReadSettings(d) ==
    /\ run[d].at = "settings"
    /\ \/ /\ mode # "automatic"
          /\ Ends(d, "passthrough")
       \/ /\ mode = "automatic"
          /\ Goes(d, "handshake")
          /\ UNCHANGED <<outcome, naming>>
    /\ UNCHANGED <<browser, url, events, mode, review, resumed, journalVars>>

Handshake(d) ==
    /\ run[d].at = "handshake"
    /\ \/ Ends(d, "passthrough")
       \/ /\ Goes(d, IF run[d].determining THEN "flag" ELSE "pause")
          /\ UNCHANGED <<outcome, naming>>
    /\ UNCHANGED <<browser, url, events, mode, review, resumed, journalVars>>

\* The pause is refused when the copy is over.
Pause(d) ==
    /\ run[d].at = "pause"
    /\ \/ /\ browser[d] \in {"running", "paused"}
          /\ browser' = [browser EXCEPT ![d] = "paused"]
          /\ run' = [run EXCEPT ![d].at = "refresh", ![d].paused = TRUE]
          /\ UNCHANGED <<outcome, naming>>
       \/ /\ browser[d] \notin {"running", "paused"}
          /\ Ends(d, "passthrough")
          /\ UNCHANGED browser
    /\ UNCHANGED <<url, events, mode, review, resumed, journalVars>>

\* refreshDownloadMetadata: the address known by now replaces the event's.
Refresh(d) ==
    /\ run[d].at = "refresh"
    /\ run' = [run EXCEPT ![d].at = "flag", ![d].url = url[d]]
    /\ UNCHANGED <<browser, url, events, mode, outcome, naming, review, resumed, journalVars>>

Flag(d) ==
    /\ run[d].at = "flag"
    /\ review' = d
    /\ Goes(d, "journal")
    /\ UNCHANGED <<browser, url, events, mode, outcome, naming, resumed, journalVars>>

Submit(d) ==
    LET id == CaptureId(d, run[d].url) IN
    /\ run[d].at = "journal"
    /\ Enter(d, id, id, FALSE)
    /\ Goes(d, "response")
    /\ UNCHANGED <<browser, url, events, mode, outcome, naming, review, resumed>>

\* Mutants: a temporary failure treated like an acceptance, or like a refusal.
ResponseTrusting(d) ==
    LET result == calls[d].result IN
    /\ run[d].at = "response"
    /\ calls[d].phase = "done"
    /\ result = "busy"
    /\ Goes(d, "cancel")
    /\ UNCHANGED <<outcome, naming, review, browser, url, events, mode, resumed, journalVars>>

ResponseGivingBack(d) ==
    LET result == calls[d].result IN
    /\ run[d].at = "response"
    /\ calls[d].phase = "done"
    /\ result \in {"uncertain", "rejected"}
    /\ run[d].paused
    /\ Goes(d, "resume")
    /\ UNCHANGED <<outcome, naming, review, browser, url, events, mode, resumed, journalVars>>

\* What the journal returned or threw decides between the two copies.
Response(d) ==
    LET result == calls[d].result IN
    /\ run[d].at = "response"
    /\ calls[d].phase = "done"
    /\ \/ /\ result \in {"uncertain", "busy"}
          /\ Ends(d, "uncertain")
          /\ UNCHANGED review
       \/ /\ result = "accepted"
          /\ Goes(d, "cancel")
          /\ UNCHANGED <<outcome, naming, review>>
       \/ /\ result = "rejected" /\ run[d].paused
          /\ Goes(d, "resume")
          /\ UNCHANGED <<outcome, naming, review>>
       \/ /\ result = "rejected" /\ ~run[d].paused
          /\ Ends(d, "passthrough")
          /\ review' = Nobody
       \/ /\ result = "error"
          /\ Ends(d, IF run[d].paused THEN "uncertain" ELSE "passthrough")
          /\ UNCHANGED review
    /\ UNCHANGED <<browser, url, events, mode, resumed, journalVars>>

Cancel(d) ==
    /\ run[d].at = "cancel"
    /\ \/ /\ browser' = [browser EXCEPT ![d] = IF @ = "ended" THEN @ ELSE "cancelled"]
          /\ Ends(d, "captured")
          /\ review' = Nobody
       \/ /\ Ends(d, "cancel_failed")
          /\ UNCHANGED <<browser, review>>
    /\ UNCHANGED <<url, events, mode, resumed, journalVars>>

\* A refused resume is caught like an unanswered capture.
Resume(d) ==
    /\ run[d].at = "resume"
    /\ \/ /\ browser[d] \in {"running", "paused"}
          /\ browser' = [browser EXCEPT ![d] = "running"]
          /\ resumed' = resumed \cup {d}
          /\ review' = Nobody
          /\ Ends(d, "passthrough")
       \/ /\ browser[d] = "ended"
          /\ Ends(d, "uncertain")
          /\ UNCHANGED <<browser, resumed, review>>
    /\ UNCHANGED <<url, events, mode, journalVars>>

----------------------------------------------------------------------------
(* The browser, the user and the worker's life.                            *)

\* The browser learns the final address, or finishes its copy.
LearnsUrl(d, u) ==
    /\ browser[d] \in {"running", "paused"}
    /\ url[d] # u
    /\ u = CHOOSE v \in Urls : \A w \in Urls : v >= w
    /\ url' = [url EXCEPT ![d] = u]
    /\ UNCHANGED <<browser, events, mode, run, outcome, naming, review, resumed, journalVars>>

BrowserEnds(d) ==
    /\ browser[d] = "running"
    /\ browser' = [browser EXCEPT ![d] = "ended"]
    /\ UNCHANGED <<url, events, mode, run, outcome, naming, review, resumed, journalVars>>

\* The user resumes a copy the extension has left paused.
UserResumes(d) ==
    /\ browser[d] = "paused"
    /\ run[d] = NotRunning
    /\ browser' = [browser EXCEPT ![d] = "running"]
    /\ UNCHANGED <<url, events, mode, run, outcome, naming, review, resumed, journalVars>>

SetMode(m) ==
    /\ mode # m
    /\ mode' = m
    /\ UNCHANGED <<browser, url, events, run, outcome, naming, review, resumed, journalVars>>

\* Storage outlives the worker, the Maps do not; the browser no longer waits
\* for the answer of a listener that is gone.
Dies ==
    /\ WorkerDies
    /\ run' = [d \in Downloads |-> NotRunning]
    /\ outcome' = [d \in Downloads |-> "none"]
    /\ naming' = [d \in Downloads |-> FALSE]
    /\ UNCHANGED <<browser, url, events, mode, review, resumed>>

Worker(d) ==
    \/ ReadSettings(d) \/ Handshake(d) \/ Pause(d) \/ Refresh(d) \/ Flag(d)
    \/ Submit(d) \/ Response(d) \/ Cancel(d) \/ Resume(d)

Journal(d) == Working(d) /\ UNCHANGED captureVars
JournalSettles(d) == Settling(d) /\ UNCHANGED captureVars

Next ==
    \/ \E d \in Downloads : Event(d) \/ Worker(d)
    \/ \E d \in Downloads : Journal(d)
    \/ \E d \in Downloads, u \in Urls : LearnsUrl(d, u)
    \/ \E d \in Downloads : BrowserEnds(d) \/ UserResumes(d)
    \/ \E m \in {"automatic", "ask"} : SetMode(m)
    \/ Dies
    \/ World /\ UNCHANGED captureVars

Spec == Init /\ [][Next]_vars

\* The worker's promises settle, and setTimeout fires; the native host, the
\* application and the user promise nothing.
Fairness ==
    /\ \A d \in Downloads : WF_vars(Worker(d))
    /\ \A d \in Downloads : WF_vars(JournalSettles(d))

FairSpec == Spec /\ Fairness

----------------------------------------------------------------------------
(* Properties.                                                             *)

\* Every variable has its type.
TypeOK ==
    /\ JournalTypeOK
    /\ browser \in [Downloads -> {"running", "paused", "cancelled", "ended"}]
    /\ url \in [Downloads -> Urls]
    /\ outcome \in [Downloads -> Outcomes]
    /\ naming \in [Downloads -> BOOLEAN]
    /\ review \in Downloads \cup {Nobody}
    /\ resumed \subseteq Downloads
    /\ run \in [Downloads -> {NotRunning} \cup Running]

\* The browser's copy is cancelled only when the application has taken the
\* download: whatever the journal answers from, nothing is lost.
CancelledMeansTaken ==
    \A d \in Downloads : browser[d] = "cancelled" =>
        \E u \in Urls : messages[CaptureId(d, u)] = "taken"

\* When the extension lets the browser continue after a pause, the application
\* neither has the download nor will find it in its inbox, under whatever
\* address an earlier run offered it.
ResumedMeansRefused ==
    [][\A d \in resumed' \ resumed, u \in Urls :
         messages[CaptureId(d, u)] \in {"none", "refused"}]_vars

\* The filename event holds up the browser's own save dialog until the capture
\* is decided; it does not do so for ever, although host and application may
\* never answer.
FilenameResolves == \A d \in Downloads : naming[d] ~> ~naming[d]

\* "An uncertain/temporary host response deliberately leaves the browser copy
\* paused; resuming could create two transfers before the user reviews CDM"
\* (scripts/validation/browser-capture-smoke.mjs).
UncertainIsHeld ==
    [][\A d \in Downloads :
         outcome[d] # "uncertain" /\ outcome'[d] = "uncertain" => browser[d] # "running"]_vars
=============================================================================
