--------------------------- MODULE ExtensionProofs ---------------------------
(***************************************************************************)
(* Proofs about the extension, on top of what OperationJournalProofs shows *)
(* of its journal: the captures of downloads (BrowserCapture), for any     *)
(* downloads and addresses; the sends of the user's selections             *)
(* (SelectionSend), for any selections and any number of sends, with a     *)
(* capacity and answers of their own; the tabs and the panel               *)
(* (TabDetection), for any tabs; and the three side by side, as            *)
(* MCExtension composes them.                                              *)
(***************************************************************************)
EXTENDS MCExtension, OperationJournalProofs, FiniteSetTheorems, FunctionTheorems,
        SequenceTheorems, WellFoundedInduction

-----------------------------------------------------------------------------
(* CAPTURES                                                                *)

(* The inductive invariant                                                 *)

\* Only captures call the journal, each under an address of its own download,
\* which is the identifier and the fingerprint.
CallsAreOwn ==
    \A c \in Calls : calls[c].phase # "none" =>
        /\ c \in Downloads
        /\ calls[c].id \in {CaptureId(c, u) : u \in Urls}
        /\ calls[c].print = calls[c].id

\* What the journal says of an operation is what became of its last message.
RecordsAreTrue ==
    \A i \in Ids : records[i] # NoRecord =>
        /\ records[i].print = i
        /\ records[i].status = "pending" => records[i].result = "none"
        /\ records[i].result = "accepted" => messages[i] = "taken"
        /\ records[i].result = "rejected" => messages[i] = "refused"

\* So is what a call was answered.
AnswersAreTrue ==
    \A c \in Calls : calls[c].phase \in {"answered", "done"} =>
        /\ calls[c].result = "accepted" => messages[calls[c].id] = "taken"
        /\ calls[c].result = "rejected" => messages[calls[c].id] = "refused"

\* A run waits for its own call, and only while it waits is there one; it goes
\* on to cancel or to resume on the answer that allows it.
RunsAgree ==
    \A d \in Downloads :
        /\ run[d].at # "response" => calls[d].phase \notin Live
        /\ run[d].at \in {"response", "cancel", "resume"} =>
              calls[d].phase # "none" /\ calls[d].id = CaptureId(d, run[d].url)
        /\ run[d].at = "cancel" => calls[d].phase = "done" /\ calls[d].result = "accepted"
        /\ run[d].at = "resume" => /\ calls[d].phase = "done" /\ calls[d].result = "rejected"
                                   /\ run[d].paused

\* A copy that is cancelled stays so: nothing runs for it any more.
CancelledRests ==
    \A d \in Downloads : browser[d] = "cancelled" =>
        /\ run[d] = NotRunning
        /\ \E u \in Urls : messages[CaptureId(d, u)] = "taken"

CaptureInv ==
    /\ TypeOK
    /\ JournalInv
    /\ CallsAreOwn
    /\ RecordsAreTrue
    /\ AnswersAreTrue
    /\ RunsAgree
    /\ CancelledRests

\* The browser raises onCreated before onDeterminingFilename, which not every
\* browser has.
CreatedFirst == Order \in [Downloads -> {<<"created">>, <<"created", "naming">>}]

\* Nothing of d has been offered before its first event; and a run that the first
\* event began has offered nothing but its own address.
FirstRun(d) ==
    /\ \/ /\ events[d] = Order[d]
          /\ run[d] = NotRunning
          /\ \A u \in Urls : messages[CaptureId(d, u)] = "none"
       \/ events[d] \in {<<"naming">>, << >>}
    /\ run[d] # NotRunning =>
          /\ run[d].paused => ~run[d].determining
          /\ run[d].at = "pause" => ~run[d].determining
          /\ ~run[d].determining => \A u \in Urls :
                \/ messages[CaptureId(d, u)] = "none"
                \/ run[d].at \in {"response", "cancel", "resume"} /\ u = run[d].url

EventsLeft == {<<"created">>, <<"created", "naming">>, <<"naming">>, << >>}

FirstRunInv ==
    /\ events \in [Downloads -> EventsLeft]
    /\ \A d \in Downloads : FirstRun(d)

-----------------------------------------------------------------------------
(* Facts about runs                                                        *)

\* A run is idle, or knows its event, its pause and its address.
LEMMA RunParts ==
    ASSUME TypeOK, NEW d \in Downloads
    PROVE  /\ run[d].at \in Steps
           /\ run[d] = NotRunning <=> run[d].at = "idle"
           /\ run[d] # NotRunning => run[d] \in Running
  BY DEF TypeOK, NotRunning, Running, Steps

\* A run that goes on to a step keeps what it knows.
LEMMA Going ==
    ASSUME TypeOK, NEW d \in Downloads, run[d] # NotRunning,
           NEW step \in Steps \ {"idle"}, Goes(d, step)
    PROVE  /\ run' \in [Downloads -> {NotRunning} \cup Running]
           /\ run'[d] \in Running /\ run'[d].at = step /\ run'[d] # NotRunning
           /\ run'[d].url = run[d].url
           /\ run'[d].paused = run[d].paused
           /\ run'[d].determining = run[d].determining
           /\ \A c \in Downloads \ {d} : run'[c] = run[c]
<1>1. run[d] \in Running
  BY RunParts
<1>2. run'[d] = [run[d] EXCEPT !.at = step]
  BY DEF Goes, TypeOK
<1>3. /\ run'[d] \in Running /\ run'[d].at = step
      /\ run'[d].url = run[d].url
      /\ run'[d].paused = run[d].paused
      /\ run'[d].determining = run[d].determining
  BY <1>1, <1>2 DEF Running
<1>4. /\ run' \in [Downloads -> {NotRunning} \cup Running]
      /\ \A c \in Downloads \ {d} : run'[c] = run[c]
  BY <1>2, <1>3 DEF Goes, TypeOK
<1>5. NotRunning.at = "idle"
  BY DEF NotRunning
<1> QED
  BY <1>3, <1>4, <1>5

\* A run that ends leaves an outcome.
LEMMA Ending ==
    ASSUME TypeOK, NEW d \in Downloads, NEW what \in Outcomes, Ends(d, what)
    PROVE  /\ run' \in [Downloads -> {NotRunning} \cup Running]
           /\ outcome' \in [Downloads -> Outcomes]
           /\ naming' \in [Downloads -> BOOLEAN]
           /\ run'[d] = NotRunning /\ run'[d].at = "idle"
           /\ \A c \in Downloads \ {d} : run'[c] = run[c]
  BY DEF Ends, TypeOK, NotRunning

\* What a step of one run may do: its own run agrees with its call, its own copy
\* is not cancelled without cause, and no other download is touched.
LEMMA RunStep ==
    ASSUME CaptureConstants, CaptureInv, UNCHANGED journalVars, TypeOK',
           NEW d \in Downloads,
           \A c \in Downloads \ {d} : run'[c] = run[c] /\ browser'[c] = browser[c],
           \/ run'[d] = run[d]
           \/ run[d].at # "response" /\ run'[d].at \notin {"response", "cancel", "resume"}
           \/ run[d].at = "response" /\ calls[d].phase = "done" /\ run'[d] = NotRunning
           \/ /\ run[d].at = "response" /\ calls[d].phase = "done"
              /\ run'[d].url = run[d].url /\ run'[d].paused = run[d].paused
              /\ \/ run'[d].at = "cancel" /\ calls[d].result = "accepted"
                 \/ run'[d].at = "resume" /\ calls[d].result = "rejected" /\ run[d].paused,
           browser'[d] = "cancelled" =>
              /\ run'[d] = NotRunning
              /\ browser[d] = "cancelled" \/ run[d].at = "cancel"
    PROVE  CaptureInv'
<1> USE DEF CaptureInv
<1>1. JournalInv'
  BY JournalSteps
<1>2. CallsAreOwn' /\ RecordsAreTrue' /\ AnswersAreTrue'
  BY DEF journalVars, CallsAreOwn, RecordsAreTrue, AnswersAreTrue
<1>3. RunsAgree'
  <2> SUFFICES ASSUME NEW c \in Downloads
               PROVE  (/\ run[c].at # "response" => calls[c].phase \notin Live
                       /\ run[c].at \in {"response", "cancel", "resume"} =>
                             calls[c].phase # "none" /\ calls[c].id = CaptureId(c, run[c].url)
                       /\ run[c].at = "cancel" =>
                             calls[c].phase = "done" /\ calls[c].result = "accepted"
                       /\ run[c].at = "resume" =>
                             /\ calls[c].phase = "done" /\ calls[c].result = "rejected"
                             /\ run[c].paused)'
    BY DEF RunsAgree
  <2>1. calls' = calls
    BY DEF journalVars
  <2>2. CASE c # d
    BY <2>1, <2>2 DEF RunsAgree
  <2>3. CASE c = d
    BY <2>1, <2>3 DEF RunsAgree, NotRunning, Live, CaptureId
  <2> QED
    BY <2>2, <2>3
<1>4. CancelledRests'
  <2> SUFFICES ASSUME NEW c \in Downloads, browser'[c] = "cancelled"
               PROVE  run'[c] = NotRunning /\ \E u \in Urls : messages'[CaptureId(c, u)] = "taken"
    BY DEF CancelledRests
  <2>1. messages' = messages
    BY DEF journalVars
  <2>2. CASE c # d \/ browser[c] = "cancelled"
    BY <2>1, <2>2 DEF CancelledRests
  <2>3. CASE c = d /\ run[c].at = "cancel"
    <3>1. /\ calls[c].phase = "done" /\ calls[c].result = "accepted"
          /\ calls[c].id = CaptureId(c, run[c].url)
      BY <2>3 DEF RunsAgree
    <3>2. messages[CaptureId(c, run[c].url)] = "taken"
      BY <3>1 DEF AnswersAreTrue, CaptureConstants
    <3>3. run[c].url \in Urls
      BY <2>3, RunParts DEF Running
    <3>4. run'[c] = NotRunning
      BY <2>3
    <3> QED
      BY <2>1, <3>2, <3>3, <3>4
  <2> QED
    BY <2>2, <2>3
<1> QED
  BY <1>1, <1>2, <1>3, <1>4

-----------------------------------------------------------------------------
(* The invariant is inductive                                              *)

LEMMA CaptureStarts ==
    ASSUME CaptureConstants
    PROVE  Init => CaptureInv
<1> SUFFICES ASSUME Init
             PROVE  CaptureInv
  OBVIOUS
<1> USE DEF Init, CaptureInit
<1>1. JournalInv
  BY JournalStarts
<1>2. calls = [c \in Calls |-> Idle] /\ records = [i \in Ids |-> NoRecord]
      /\ messages = [i \in Ids |-> "none"]
  BY DEF JournalInit
<1>3. CallsAreOwn /\ RecordsAreTrue /\ AnswersAreTrue
  BY <1>2 DEF CallsAreOwn, RecordsAreTrue, AnswersAreTrue, Idle
<1>4. RunsAgree /\ CancelledRests
  BY <1>2 DEF RunsAgree, CancelledRests, Idle, Live, NotRunning, CaptureConstants
<1>5. TypeOK
  <2>1. url \in [Downloads -> Urls]
    BY DEF CaptureConstants
  <2>2. JournalTypeOK
    BY <1>1 DEF JournalInv
  <2> QED
    BY <2>1, <2>2 DEF TypeOK, Outcomes
<1> QED
  BY <1>1, <1>3, <1>4, <1>5 DEF CaptureInv

\* An event begins a run only for a copy that is running.
LEMMA EventKeeps ==
    ASSUME CaptureConstants, CaptureInv, NEW d \in Downloads, Event(d)
    PROVE  CaptureInv'
<1> DEFINE determining == Head(events[d]) = "naming"
<1>a. determining \in BOOLEAN
  OBVIOUS
<1> HIDE DEF determining
<1>1. UNCHANGED journalVars /\ UNCHANGED <<browser, url, mode, review, resumed>>
  BY DEF Event
<1>2. JournalTypeOK'
  BY <1>1 DEF CaptureInv, TypeOK, JournalTypeOK, journalVars
<1>3. CASE run[d] # NotRunning
  <2>1. UNCHANGED <<run, outcome>>
    BY <1>3 DEF Event
  <2>2. naming' = [naming EXCEPT ![d] = @ \/ determining]
    BY <1>3 DEF Event, determining
  <2>3. naming' \in [Downloads -> BOOLEAN]
    BY <2>2, <1>a, Zenon DEF CaptureInv, TypeOK
  <2>4. TypeOK'
    BY <1>1, <1>2, <2>1, <2>3 DEF CaptureInv, TypeOK
  <2> QED
    BY <1>1, <2>1, <2>4, RunStep DEF CaptureInv, CancelledRests
<1>4. CASE run[d] = NotRunning /\ outcome[d] # "none"
  <2>1. UNCHANGED <<run, outcome, naming>>
    BY <1>4 DEF Event
  <2>2. TypeOK'
    BY <1>1, <1>2, <2>1 DEF CaptureInv, TypeOK
  <2> QED
    BY <1>1, <2>1, <2>2, RunStep DEF CaptureInv, CancelledRests
<1>5. CASE run[d] = NotRunning /\ outcome[d] = "none" /\ browser[d] # "running"
  <2>1. Ends(d, "passthrough")
    BY <1>5 DEF Event
  <2>2. /\ run' \in [Downloads -> {NotRunning} \cup Running]
        /\ outcome' \in [Downloads -> Outcomes] /\ naming' \in [Downloads -> BOOLEAN]
        /\ run'[d] = NotRunning /\ \A c \in Downloads \ {d} : run'[c] = run[c]
    BY <2>1, Ending DEF CaptureInv, Outcomes
  <2>3. TypeOK'
    BY <1>1, <1>2, <2>2 DEF CaptureInv, TypeOK
  <2> QED
    BY <1>1, <1>5, <2>2, <2>3, RunStep DEF CaptureInv, CancelledRests
<1>6. CASE run[d] = NotRunning /\ outcome[d] = "none" /\ browser[d] = "running"
  <2> DEFINE begun == [at |-> "settings", determining |-> determining,
                       paused |-> FALSE, url |-> url[d]]
  <2>1. run' = [run EXCEPT ![d] = begun] /\ naming' = [naming EXCEPT ![d] = determining]
        /\ UNCHANGED outcome
    BY <1>6 DEF Event, determining
  <2>2. begun \in Running /\ begun.at = "settings"
    BY <1>a DEF CaptureInv, TypeOK, Running, Steps
  <2> HIDE DEF begun
  <2>3. run' \in [Downloads -> {NotRunning} \cup Running] /\ naming' \in [Downloads -> BOOLEAN]
    BY <2>1, <2>2, <1>a DEF CaptureInv, TypeOK
  <2>4. run'[d].at = "settings" /\ \A c \in Downloads \ {d} : run'[c] = run[c]
    BY <2>1, <2>2 DEF CaptureInv, TypeOK
  <2>5. TypeOK'
    BY <1>1, <1>2, <2>1, <2>3 DEF CaptureInv, TypeOK
  <2> QED
    BY <1>1, <1>6, <2>4, <2>5, RunStep DEF NotRunning
<1> QED
  BY <1>3, <1>4, <1>5, <1>6

\* The steps of a run beside the journal.
LEMMA WorkerKeeps ==
    ASSUME CaptureConstants, CaptureInv, NEW d \in Downloads,
           \/ ReadSettings(d) \/ Handshake(d) \/ Pause(d) \/ Refresh(d) \/ Flag(d)
           \/ Response(d) \/ Cancel(d) \/ Resume(d)
    PROVE  CaptureInv'
<1>1. UNCHANGED journalVars /\ UNCHANGED <<url, events, mode>>
  BY DEF ReadSettings, Handshake, Pause, Refresh, Flag, Response, Cancel, Resume
<1>2. JournalTypeOK'
  BY <1>1 DEF CaptureInv, TypeOK, JournalTypeOK, journalVars
<1>3. run[d] # NotRunning /\ run[d].at # "idle" /\ run[d] \in Running
      /\ browser[d] # "cancelled"
  BY RunParts DEF ReadSettings, Handshake, Pause, Refresh, Flag, Response, Cancel, Resume,
                  CaptureInv, CancelledRests, NotRunning
\* A run that ends; its outcome, the copy and what is stored are of their types.
<1>4. ASSUME NEW what \in Outcomes, Ends(d, what),
             browser' \in [Downloads -> {"running", "paused", "cancelled", "ended"}],
             \A c \in Downloads \ {d} : browser'[c] = browser[c],
             browser'[d] = "cancelled" => run[d].at = "cancel",
             run[d].at = "response" => calls[d].phase = "done",
             review' \in Downloads \cup {Nobody}, resumed' \subseteq Downloads
      PROVE  CaptureInv'
  <2>1. /\ run' \in [Downloads -> {NotRunning} \cup Running]
        /\ outcome' \in [Downloads -> Outcomes] /\ naming' \in [Downloads -> BOOLEAN]
        /\ run'[d] = NotRunning /\ run'[d].at = "idle"
        /\ \A c \in Downloads \ {d} : run'[c] = run[c]
    BY <1>4, Ending DEF CaptureInv
  <2>2. TypeOK'
    BY <1>1, <1>2, <1>4, <2>1 DEF CaptureInv, TypeOK
  <2> QED
    BY <1>1, <1>4, <2>1, <2>2, RunStep
\* A run that goes on without its call.
<1>5. ASSUME NEW step \in {"handshake", "flag", "pause", "journal"}, Goes(d, step),
             run[d].at # "response", UNCHANGED <<browser, outcome, naming, resumed>>,
             review' \in Downloads \cup {Nobody}
      PROVE  CaptureInv'
  <2>1. /\ run' \in [Downloads -> {NotRunning} \cup Running]
        /\ run'[d].at = step
        /\ \A c \in Downloads \ {d} : run'[c] = run[c]
    BY <1>3, <1>5, Going DEF CaptureInv, Steps
  <2>2. TypeOK'
    BY <1>1, <1>2, <1>5, <2>1 DEF CaptureInv, TypeOK
  <2> QED
    BY <1>1, <1>3, <1>5, <2>1, <2>2, RunStep
<1> USE DEF Outcomes
<1>6. CASE ReadSettings(d)
  <2>1. run[d].at = "settings" /\ UNCHANGED <<browser, review, resumed>>
    BY <1>6 DEF ReadSettings
  <2>2. CASE Ends(d, "passthrough")
    BY <1>3, <1>4, <2>1, <2>2 DEF CaptureInv, TypeOK
  <2>3. CASE Goes(d, "handshake") /\ UNCHANGED <<outcome, naming>>
    BY <1>5, <2>1, <2>3 DEF CaptureInv, TypeOK
  <2> QED
    BY <1>6, <2>2, <2>3 DEF ReadSettings
<1>7. CASE Handshake(d)
  <2>1. run[d].at = "handshake" /\ UNCHANGED <<browser, review, resumed>>
    BY <1>7 DEF Handshake
  <2>2. CASE Ends(d, "passthrough")
    BY <1>3, <1>4, <2>1, <2>2 DEF CaptureInv, TypeOK
  <2>3. CASE (Goes(d, "flag") \/ Goes(d, "pause")) /\ UNCHANGED <<outcome, naming>>
    BY <1>5, <2>1, <2>3 DEF CaptureInv, TypeOK
  <2> QED
    BY <1>7, <2>2, <2>3 DEF Handshake
<1>8. CASE Pause(d)
  <2>1. CASE browser[d] \notin {"running", "paused"}
    BY <1>3, <1>4, <1>8, <2>1 DEF Pause, CaptureInv, TypeOK
  <2>2. CASE browser[d] \in {"running", "paused"}
    <3>1. /\ run' = [run EXCEPT ![d] = [run[d] EXCEPT !.at = "refresh", !.paused = TRUE]]
          /\ browser' = [browser EXCEPT ![d] = "paused"]
          /\ UNCHANGED <<outcome, naming, review, resumed>>
          /\ run[d].at = "pause"
      BY <1>8, <2>2 DEF Pause, CaptureInv, TypeOK
    <3>2. /\ [run[d] EXCEPT !.at = "refresh", !.paused = TRUE] \in Running
          /\ [run[d] EXCEPT !.at = "refresh", !.paused = TRUE].at = "refresh"
      BY <1>3 DEF Running, Steps
    <3>3. TypeOK'
      BY <1>1, <1>2, <3>1, <3>2 DEF CaptureInv, TypeOK
    <3>4. /\ run'[d].at = "refresh" /\ browser'[d] = "paused"
          /\ \A c \in Downloads \ {d} : run'[c] = run[c] /\ browser'[c] = browser[c]
      BY <3>1, <3>2 DEF CaptureInv, TypeOK
    <3> QED
      BY <1>1, <3>1, <3>3, <3>4, RunStep
  <2> QED
    BY <2>1, <2>2
<1>9. CASE Refresh(d)
  <2>1. /\ run' = [run EXCEPT ![d] = [run[d] EXCEPT !.at = "flag", !.url = url[d]]]
        /\ UNCHANGED <<browser, outcome, naming, review, resumed>>
        /\ run[d].at = "refresh"
    BY <1>9 DEF Refresh, CaptureInv, TypeOK
  <2>2. /\ [run[d] EXCEPT !.at = "flag", !.url = url[d]] \in Running
        /\ [run[d] EXCEPT !.at = "flag", !.url = url[d]].at = "flag"
    BY <1>3 DEF Running, Steps, CaptureInv, TypeOK
  <2>3. TypeOK'
    BY <1>1, <1>2, <2>1, <2>2 DEF CaptureInv, TypeOK
  <2>4. run'[d].at = "flag" /\ \A c \in Downloads \ {d} : run'[c] = run[c]
    BY <2>1, <2>2 DEF CaptureInv, TypeOK
  <2> QED
    BY <1>1, <1>3, <2>1, <2>3, <2>4, RunStep
<1>10. CASE Flag(d)
  BY <1>5, <1>10 DEF Flag
<1>11. CASE Response(d)
  <2>1. /\ run[d].at = "response" /\ calls[d].phase = "done"
        /\ UNCHANGED <<browser, resumed>>
    BY <1>11 DEF Response
  <2>2. CASE Goes(d, "cancel") /\ calls[d].result = "accepted"
             /\ UNCHANGED <<outcome, naming, review>>
    <3>1. /\ run' \in [Downloads -> {NotRunning} \cup Running]
          /\ run'[d].at = "cancel" /\ run'[d].url = run[d].url
          /\ run'[d].paused = run[d].paused
          /\ \A c \in Downloads \ {d} : run'[c] = run[c]
      BY <1>3, <2>2, Going DEF CaptureInv, Steps
    <3>2. TypeOK'
      BY <1>1, <1>2, <2>1, <2>2, <3>1 DEF CaptureInv, TypeOK
    <3> QED
      BY <1>1, <1>3, <2>1, <2>2, <3>1, <3>2, RunStep
  <2>3. CASE Goes(d, "resume") /\ calls[d].result = "rejected" /\ run[d].paused
             /\ UNCHANGED <<outcome, naming, review>>
    <3>1. /\ run' \in [Downloads -> {NotRunning} \cup Running]
          /\ run'[d].at = "resume" /\ run'[d].url = run[d].url
          /\ run'[d].paused = run[d].paused
          /\ \A c \in Downloads \ {d} : run'[c] = run[c]
      BY <1>3, <2>3, Going DEF CaptureInv, Steps
    <3>2. TypeOK'
      BY <1>1, <1>2, <2>1, <2>3, <3>1 DEF CaptureInv, TypeOK
    <3> QED
      BY <1>1, <1>3, <2>1, <2>3, <3>1, <3>2, RunStep
  <2>4. CASE \E what \in Outcomes : Ends(d, what) /\ (UNCHANGED review \/ review' = Nobody)
    BY <1>3, <1>4, <2>1, <2>4 DEF CaptureInv, TypeOK
  <2> QED
    BY <1>11, <2>2, <2>3, <2>4 DEF Response
<1>12. CASE Cancel(d)
  <2>1. run[d].at = "cancel" /\ UNCHANGED resumed
    BY <1>12 DEF Cancel
  <2>2. CASE /\ browser' = [browser EXCEPT ![d] = IF @ = "ended" THEN @ ELSE "cancelled"]
             /\ Ends(d, "captured") /\ review' = Nobody
    <3>1. /\ browser' \in [Downloads -> {"running", "paused", "cancelled", "ended"}]
          /\ \A c \in Downloads \ {d} : browser'[c] = browser[c]
      BY <2>2 DEF CaptureInv, TypeOK
    <3> QED
      BY <1>4, <2>1, <2>2, <3>1 DEF CaptureInv, TypeOK
  <2>3. CASE Ends(d, "cancel_failed") /\ UNCHANGED <<browser, review>>
    BY <1>3, <1>4, <2>1, <2>3 DEF CaptureInv, TypeOK
  <2> QED
    BY <1>12, <2>2, <2>3 DEF Cancel
<1>13. CASE Resume(d)
  <2>1. run[d].at = "resume"
    BY <1>13 DEF Resume
  <2>2. CASE /\ browser' = [browser EXCEPT ![d] = "running"] /\ resumed' = resumed \cup {d}
             /\ review' = Nobody /\ Ends(d, "passthrough")
    <3>1. /\ browser' \in [Downloads -> {"running", "paused", "cancelled", "ended"}]
          /\ browser'[d] = "running" /\ resumed' \subseteq Downloads
          /\ \A c \in Downloads \ {d} : browser'[c] = browser[c]
      BY <2>2 DEF CaptureInv, TypeOK
    <3> QED
      BY <1>4, <2>1, <2>2, <3>1
  <2>3. CASE Ends(d, "uncertain") /\ UNCHANGED <<browser, resumed, review>>
    BY <1>3, <1>4, <2>1, <2>3 DEF CaptureInv, TypeOK
  <2> QED
    BY <1>13, <2>2, <2>3 DEF Resume
<1> QED
  BY <1>6, <1>7, <1>8, <1>9, <1>10, <1>11, <1>12, <1>13

\* What the browser, the user and the settings do beside the runs.
LEMMA BrowserKeeps ==
    ASSUME CaptureConstants, CaptureInv,
           \/ \E d \in Downloads, u \in Urls : LearnsUrl(d, u)
           \/ \E d \in Downloads : BrowserEnds(d) \/ UserResumes(d)
           \/ \E m \in {"automatic", "ask"} : SetMode(m)
    PROVE  CaptureInv'
<1>1. UNCHANGED journalVars /\ UNCHANGED <<run, outcome, naming, review, resumed>>
  BY DEF LearnsUrl, BrowserEnds, UserResumes, SetMode
<1>2. JournalTypeOK'
  BY <1>1 DEF CaptureInv, TypeOK, JournalTypeOK, journalVars
<1>3. /\ url' \in [Downloads -> Urls]
      /\ browser' \in [Downloads -> {"running", "paused", "cancelled", "ended"}]
      /\ \A d \in Downloads : browser'[d] = "cancelled" => browser[d] = "cancelled"
  BY DEF LearnsUrl, BrowserEnds, UserResumes, SetMode, CaptureInv, TypeOK
<1>4. TypeOK'
  BY <1>1, <1>2, <1>3 DEF CaptureInv, TypeOK
<1>5. JournalInv' /\ CallsAreOwn' /\ RecordsAreTrue' /\ AnswersAreTrue'
  BY <1>1, JournalSteps DEF CaptureInv, journalVars, CallsAreOwn, RecordsAreTrue, AnswersAreTrue
<1>6. RunsAgree' /\ CancelledRests'
  BY <1>1, <1>3 DEF CaptureInv, journalVars, RunsAgree, CancelledRests
<1> QED
  BY <1>4, <1>5, <1>6 DEF CaptureInv

-----------------------------------------------------------------------------
(* The journal, used by captures only                                      *)

\* The end of a run() is heard by its owner alone or by nobody it would deceive:
\* those who share a promise share the identifier.
LEMMA ResolvedTruly ==
    ASSUME CaptureConstants, CaptureInv, NEW c \in Calls, calls[c].phase \in Owning,
           NEW result \in Results, Resolve(c, result),
           UNCHANGED messages,
           result = "accepted" => messages[calls[c].id] = "taken",
           result = "rejected" => messages[calls[c].id] = "refused"
    PROVE  /\ CallsAreOwn' /\ AnswersAreTrue'
           /\ \A d \in Calls : calls'[d] # calls[d] =>
                calls[d].phase \in Live /\ calls'[d].id = calls[d].id /\ calls'[d].phase # "none"
<1> USE DEF CaptureInv
<1>1. calls[c] \in Taken /\ calls[c].id = calls[c].print
  BY TakenCalls DEF JournalInv, CallsAreOwn, Owning, Live
<1>2. ASSUME NEW d \in Calls
      PROVE  \/ calls'[d] = calls[d]
             \/ /\ calls[d].phase \in Live /\ calls[d].print = calls[c].print
                /\ calls'[d] = [calls[d] EXCEPT !.phase = "done", !.result = result]
                /\ calls'[d].phase = "done" /\ calls'[d].result = result
                /\ calls'[d].id = calls[d].id /\ calls'[d].print = calls[d].print
  <2>1. CASE calls'[d] = calls[d]
    BY <2>1
  <2>2. CASE calls'[d] # calls[d]
    <3>1. /\ calls'[d] = [calls[d] EXCEPT !.phase = "done", !.result = result]
          /\ d = c \/ (calls[d].phase = "waiting" /\ calls[d].print = calls[c].print)
      BY <2>2 DEF Resolve
    <3>2. calls[d] \in Taken
      BY <1>1, <3>1, TakenCalls DEF JournalInv
    <3>3. calls[d].phase \in Live
      BY <3>1 DEF Owning, Live
    <3> QED
      BY <3>1, <3>2, <3>3 DEF Taken
  <2> QED
    BY <2>1, <2>2
<1>3. CallsAreOwn'
  <2> SUFFICES ASSUME NEW d \in Calls, calls'[d].phase # "none"
               PROVE  /\ d \in Downloads
                      /\ calls'[d].id \in {CaptureId(d, u) : u \in Urls}
                      /\ calls'[d].print = calls'[d].id
    BY DEF CallsAreOwn
  <2>1. CASE calls'[d] = calls[d]
    BY <2>1 DEF CallsAreOwn
  <2>2. CASE calls'[d] # calls[d]
    <3>1. calls[d].phase # "none" /\ calls'[d].id = calls[d].id /\ calls'[d].print = calls[d].print
      BY <1>2, <2>2 DEF Live
    <3> QED
      BY <3>1 DEF CallsAreOwn
  <2> QED
    BY <2>1, <2>2
<1>4. AnswersAreTrue'
  <2> SUFFICES ASSUME NEW d \in Calls, calls'[d].phase \in {"answered", "done"}
               PROVE  /\ calls'[d].result = "accepted" => messages[calls'[d].id] = "taken"
                      /\ calls'[d].result = "rejected" => messages[calls'[d].id] = "refused"
    BY DEF AnswersAreTrue
  <2>1. CASE calls'[d] = calls[d]
    BY <2>1 DEF AnswersAreTrue
  <2>2. CASE calls'[d] # calls[d]
    <3>1. calls[d].id = calls[c].id
      BY <1>1, <1>2, <2>2 DEF CallsAreOwn, Live
    <3> QED
      BY <1>2, <2>2, <3>1
  <2> QED
    BY <2>1, <2>2
<1> QED
  BY <1>2, <1>3, <1>4

\* A run submits its address, and waits.
LEMMA SubmitKeeps ==
    ASSUME CaptureConstants, CaptureInv, NEW d \in Downloads, Submit(d)
    PROVE  CaptureInv'
<1> DEFINE id == CaptureId(d, run[d].url)
<1>1. /\ run[d].at = "journal" /\ run[d] # NotRunning /\ run[d].url \in Urls
      /\ Enter(d, id, id, FALSE) /\ Goes(d, "response")
      /\ UNCHANGED <<browser, url, events, mode, outcome, naming, review, resumed>>
  BY RunParts DEF Submit, CaptureInv, Running, NotRunning
<1>2. id \in Ids /\ id \in Prints /\ id \in {CaptureId(d, u) : u \in Urls} /\ d \in Calls
  BY <1>1 DEF CaptureConstants, CaptureId
<1>3. JournalInv'
  BY <1>1, <1>2, EnterKeeps DEF CaptureInv
<1>4. /\ run' \in [Downloads -> {NotRunning} \cup Running]
      /\ run'[d].at = "response" /\ run'[d] # NotRunning /\ run'[d].url = run[d].url
      /\ \A c \in Downloads \ {d} : run'[c] = run[c]
  BY <1>1, Going DEF CaptureInv, Steps
<1>5. TypeOK'
  BY <1>1, <1>3, <1>4 DEF CaptureInv, JournalInv, TypeOK
<1>6. /\ calls'[d].phase \in {"checking", "waiting"}
      /\ calls'[d].id = id /\ calls'[d].print = id
      /\ \A c \in Calls \ {d} : calls'[c] = calls[c]
      /\ UNCHANGED <<records, messages>>
  BY <1>1, <1>2 DEF Enter, CaptureInv, JournalInv, JournalTypeOK
<1> HIDE DEF id
<1>7. CallsAreOwn' /\ RecordsAreTrue' /\ AnswersAreTrue'
  BY <1>2, <1>6 DEF CaptureInv, CallsAreOwn, RecordsAreTrue, AnswersAreTrue
<1>8. RunsAgree'
  <2>1. id = CaptureId(d, run'[d].url)
    BY <1>4 DEF id
  <2>2. Downloads \subseteq Calls
    BY DEF CaptureConstants
  <2> QED
    BY <1>4, <1>6, <2>1, <2>2 DEF CaptureInv, RunsAgree
<1>9. CancelledRests'
  <2>1. browser[d] # "cancelled"
    BY <1>1 DEF CaptureInv, CancelledRests
  <2> QED
    BY <1>1, <1>4, <1>6, <2>1 DEF CaptureInv, CancelledRests
<1> QED
  BY <1>3, <1>5, <1>7, <1>8, <1>9 DEF CaptureInv

\* What changes in the journal while the runs rest leaves them in agreement, as
\* long as no call that has ended changes.
LEMMA RunsRest ==
    ASSUME CaptureConstants, CaptureInv, JournalInv', UNCHANGED captureVars,
           \A c \in Calls : calls'[c] # calls[c] =>
              calls[c].phase \in Live /\ calls'[c].id = calls[c].id /\ calls'[c].phase # "none",
           \A i \in Ids : messages[i] = "taken" =>
              messages'[i] = "taken" \/ \E c \in Calls : calls[c].phase \in Live /\ calls[c].id = i
    PROVE  TypeOK' /\ RunsAgree' /\ CancelledRests'
<1> USE DEF CaptureInv
<1>1. TypeOK'
  BY DEF captureVars, TypeOK, JournalInv
<1>2. Downloads \subseteq Calls
  BY DEF CaptureConstants
<1>3. RunsAgree'
  BY <1>2 DEF RunsAgree, captureVars, Live
<1>4. CancelledRests'
  <2> SUFFICES ASSUME NEW d \in Downloads, browser[d] = "cancelled"
               PROVE  run[d] = NotRunning /\ \E u \in Urls : messages'[CaptureId(d, u)] = "taken"
    BY DEF CancelledRests, captureVars
  <2>1. run[d] = NotRunning /\ calls[d].phase \notin Live
    BY DEF CancelledRests, RunsAgree, NotRunning
  <2>2. PICK u \in Urls : messages[CaptureId(d, u)] = "taken"
    BY DEF CancelledRests
  <2>3. CaptureId(d, u) \in Ids
    BY DEF CaptureConstants, CaptureId
  <2>4. ASSUME NEW c \in Calls, calls[c].phase \in Live, calls[c].id = CaptureId(d, u)
        PROVE  FALSE
    <3>1. calls[c].id \in {CaptureId(c, v) : v \in Urls}
      BY <2>4 DEF CallsAreOwn, Live
    <3>2. c = d
      BY <2>4, <3>1 DEF CaptureId
    <3> QED
      BY <2>1, <2>4, <3>2
  <2> QED
    BY <2>1, <2>2, <2>3, <2>4
<1> QED
  BY <1>1, <1>3, <1>4

\* The checks of the journal: what is answered from a record was the answer to
\* the message of that record, which has the identifier of the call.
LEMMA CheckKeeps ==
    ASSUME CaptureConstants, CaptureInv, JournalInv', UNCHANGED captureVars, NEW c \in Calls,
           CheckKnown(c) \/ CheckAnswered(c) \/ CheckFull(c)
    PROVE  CaptureInv'
<1> USE DEF CaptureInv
<1>1. /\ calls[c].phase = "checking" /\ calls[c].phase \in Owning /\ calls[c] \in Taken
      /\ calls[c].id \in Ids /\ calls[c].print = calls[c].id
      /\ UNCHANGED <<records, messages, settled, waived, restarts>>
  BY TakenCalls DEF CheckKnown, CheckAnswered, CheckFull, Passes, Owning, Live, Taken,
                    JournalInv, CallsAreOwn
<1>2. PICK result \in Results :
        /\ Resolve(c, result)
        /\ result = "accepted" => messages[calls[c].id] = "taken"
        /\ result = "rejected" => messages[calls[c].id] = "refused"
  <2>1. CASE CheckKnown(c)
    <3> DEFINE r == records[calls[c].id]
    <3>1. r # NoRecord /\ r.print = calls[c].print /\ r \in Entry
      BY <1>1, <2>1, RecordCases DEF CheckKnown, RecordsAreTrue, JournalInv
    <3>2. /\ r.result \in Results
          /\ r.result = "accepted" => messages[calls[c].id] = "taken"
          /\ r.result = "rejected" => messages[calls[c].id] = "refused"
      BY <1>1, <3>1 DEF Entry, RecordsAreTrue
    <3>3. CASE r.result = "none"
      <4>1. Resolve(c, "uncertain")
        BY <2>1, <3>1, <3>3 DEF CheckKnown, Resolve
      <4> QED
        BY <4>1 DEF Results, Answers
    <3>4. CASE r.result # "none"
      <4>1. Resolve(c, r.result)
        BY <2>1, <3>1, <3>4 DEF CheckKnown, Resolve
      <4> QED
        BY <4>1, <3>2
    <3> QED
      BY <3>3, <3>4
  <2>2. CASE CheckAnswered(c)
    <3>1. JustAccepted(calls[c].print) = {}
      BY <1>1, <2>2 DEF CheckAnswered, JustAccepted, Of, Recorded, RecordsAreTrue
    <3> QED
      BY <2>2, <3>1 DEF CheckAnswered, Results, Answers
  <2>3. CASE CheckFull(c)
    BY <2>3 DEF CheckFull, Results
  <2> QED
    BY <2>1, <2>2, <2>3
<1>3. /\ CallsAreOwn' /\ AnswersAreTrue'
      /\ \A d \in Calls : calls'[d] # calls[d] =>
           calls[d].phase \in Live /\ calls'[d].id = calls[d].id /\ calls'[d].phase # "none"
  BY <1>1, <1>2, ResolvedTruly
<1>4. RecordsAreTrue'
  BY <1>1 DEF RecordsAreTrue
<1> QED
  BY <1>1, <1>3, <1>4, RunsRest

\* Its record replaces what the journal said of the operation before.
LEMMA EntersTruly ==
    ASSUME CaptureConstants, CaptureInv, JournalInv', UNCHANGED captureVars, NEW c \in Calls,
           CheckEnters(c)
    PROVE  CaptureInv'
<1> USE DEF CaptureInv
<1> DEFINE p == calls[c].print
<1>1. /\ calls[c].phase = "checking" /\ calls[c] \in Taken
      /\ calls[c].id \in Ids /\ p = calls[c].id
  BY TakenCalls DEF CheckEnters, Passes, Live, Taken, JournalInv, CallsAreOwn
<1>2. /\ calls' = [calls EXCEPT ![c] = [calls[c] EXCEPT !.phase = "calling"]]
      /\ records' = [[i \in Ids |-> IF i \in Prunable THEN NoRecord ELSE Superseded(p)[i]]
                       EXCEPT ![calls[c].id] = Record(p, "pending", "none")]
      /\ UNCHANGED messages
  BY DEF CheckEnters
<1>3. /\ [calls[c] EXCEPT !.phase = "calling"].phase = "calling"
      /\ [calls[c] EXCEPT !.phase = "calling"].id = calls[c].id
      /\ [calls[c] EXCEPT !.phase = "calling"].print = p
  BY <1>1 DEF Taken
<1>4. CallsAreOwn' /\ AnswersAreTrue'
  BY <1>1, <1>2, <1>3 DEF CallsAreOwn, AnswersAreTrue, JournalInv, JournalTypeOK
<1>5. RecordsAreTrue'
  <2> SUFFICES ASSUME NEW i \in Ids, records'[i] # NoRecord
               PROVE  /\ records'[i].print = i
                      /\ records'[i].status = "pending" => records'[i].result = "none"
                      /\ records'[i].result = "accepted" => messages[i] = "taken"
                      /\ records'[i].result = "rejected" => messages[i] = "refused"
    BY <1>2 DEF RecordsAreTrue
  <2>1. CASE i = calls[c].id
    <3>1. records'[i] = Record(p, "pending", "none")
      BY <1>2, <2>1
    <3> QED
      BY <1>1, <2>1, <3>1 DEF Record
  <2>2. CASE i # calls[c].id /\ i \in InDoubt(p) /\ i \notin Prunable
    <3>1. records'[i] = [records[i] EXCEPT !.status = "superseded", !.result = "uncertain"]
      BY <1>2, <2>2 DEF Superseded
    <3>2. records[i] \in Entry /\ records[i].print = i
      BY <2>2, RecordCases DEF InDoubt, Of, Recorded, RecordsAreTrue, JournalInv
    <3> QED
      BY <3>1, <3>2 DEF Entry
  <2>3. CASE i # calls[c].id /\ (i \notin InDoubt(p) \/ i \in Prunable)
    <3>1. records'[i] = records[i]
      BY <1>2, <2>3 DEF Superseded
    <3> QED
      BY <3>1 DEF RecordsAreTrue
  <2> QED
    BY <2>1, <2>2, <2>3
<1>6. \A d \in Calls : calls'[d] # calls[d] =>
        calls[d].phase \in Live /\ calls'[d].id = calls[d].id /\ calls'[d].phase # "none"
  BY <1>1, <1>2, <1>3 DEF JournalInv, JournalTypeOK, Live
<1> QED
  BY <1>2, <1>4, <1>5, <1>6, RunsRest

\* A message is sent under a pending record, which says nothing of its answer.
LEMMA SentTruly ==
    ASSUME CaptureConstants, CaptureInv, JournalInv', UNCHANGED captureVars, NEW c \in Calls,
           Send(c)
    PROVE  CaptureInv'
<1> USE DEF CaptureInv
<1>1. /\ calls[c].phase = "calling" /\ calls[c] \in Taken /\ calls[c].id \in Ids
      /\ calls[c].id \in {CaptureId(c, u) : u \in Urls} /\ c \in Downloads
  BY TakenCalls DEF Send, Live, Taken, JournalInv, CallsAreOwn
<1>2. /\ calls' = [calls EXCEPT ![c] = [calls[c] EXCEPT !.phase = "sent"]]
      /\ messages' = [messages EXCEPT ![calls[c].id] = "open"]
      /\ UNCHANGED records
  BY <1>1 DEF Send, JournalInv, JournalTypeOK
<1>3. /\ [calls[c] EXCEPT !.phase = "sent"].phase = "sent"
      /\ [calls[c] EXCEPT !.phase = "sent"].id = calls[c].id
      /\ [calls[c] EXCEPT !.phase = "sent"].print = calls[c].print
  BY <1>1 DEF Taken
<1>4. CallsAreOwn'
  BY <1>1, <1>2, <1>3 DEF CallsAreOwn, JournalInv, JournalTypeOK
<1>5. \A d \in Calls \ {c} : calls[d].phase # "none" => calls[d].id # calls[c].id
  <2> SUFFICES ASSUME NEW d \in Calls \ {c}, calls[d].phase # "none"
               PROVE  calls[d].id # calls[c].id
    OBVIOUS
  <2>1. calls[d].id \in {CaptureId(d, u) : u \in Urls}
    BY DEF CallsAreOwn
  <2> QED
    BY <1>1, <2>1 DEF CaptureId
<1>6. \A i \in Ids \ {calls[c].id} : messages'[i] = messages[i]
  BY <1>2 DEF JournalInv, JournalTypeOK
<1>7. AnswersAreTrue'
  <2> SUFFICES ASSUME NEW d \in Calls, calls'[d].phase \in {"answered", "done"}
               PROVE  /\ calls'[d].result = "accepted" => messages'[calls'[d].id] = "taken"
                      /\ calls'[d].result = "rejected" => messages'[calls'[d].id] = "refused"
    BY DEF AnswersAreTrue
  <2>1. d # c /\ calls'[d] = calls[d]
    BY <1>2, <1>3 DEF JournalInv, JournalTypeOK
  <2>2. calls[d].id \in Ids /\ calls[d].id # calls[c].id
    BY <1>5, <2>1, TakenCalls DEF Taken, JournalInv
  <2> QED
    BY <1>6, <2>1, <2>2 DEF AnswersAreTrue
<1>8. records[calls[c].id].status = "pending" /\ records[calls[c].id] # NoRecord
  BY <1>1, RecordCases DEF JournalInv, RecordIsPending, Delivering, Unresolved
<1>9. RecordsAreTrue'
  BY <1>1, <1>2, <1>6, <1>8 DEF RecordsAreTrue
<1>10. \A d \in Calls : calls'[d] # calls[d] =>
         calls[d].phase \in Live /\ calls'[d].id = calls[d].id /\ calls'[d].phase # "none"
  BY <1>1, <1>2, <1>3 DEF JournalInv, JournalTypeOK, Live
<1>11. \A i \in Ids : messages[i] = "taken" =>
         messages'[i] = "taken" \/ \E d \in Calls : calls[d].phase \in Live /\ calls[d].id = i
  BY <1>1, <1>6 DEF Live
<1> QED
  BY <1>4, <1>7, <1>9, <1>10, <1>11, RunsRest

\* The host passes on what the application did; a call that fails or times out
\* says neither.
LEMMA AnsweredTruly ==
    ASSUME CaptureConstants, CaptureInv, JournalInv', UNCHANGED captureVars, NEW c \in Calls,
           CallFails(c) \/ TimesOut(c) \/ \E answer \in HostReplies : HostAnswers(c, answer)
    PROVE  CaptureInv'
<1> USE DEF CaptureInv
<1>1. PICK result \in Answers :
        /\ calls' = [calls EXCEPT ![c].phase = "answered", ![c].result = result]
        /\ calls[c].phase \in Delivering
        /\ result = "accepted" => messages[calls[c].id] = "taken"
        /\ result = "rejected" => messages[calls[c].id] = "refused"
        /\ UNCHANGED <<records, active, messages, settled, waived, restarts>>
  BY JournalAssumption
     DEF CallFails, TimesOut, HostAnswers, Answers, Delivering, JournalAssumption
<1> DEFINE call == [calls[c] EXCEPT !.phase = "answered", !.result = result]
<1>2. calls[c] \in Taken
  BY <1>1, TakenCalls DEF Delivering, JournalInv
<1>3. /\ call.phase = "answered" /\ call.result = result
      /\ call.id = calls[c].id /\ call.print = calls[c].print
  BY <1>2 DEF Taken
<1>4. calls' = [calls EXCEPT ![c] = call]
  BY <1>1, <1>2 DEF JournalInv, JournalTypeOK
<1> HIDE DEF call
<1>5. calls'[c] = call /\ \A d \in Calls \ {c} : calls'[d] = calls[d]
  BY <1>4 DEF JournalInv, JournalTypeOK
<1>6. CallsAreOwn'
  BY <1>1, <1>3, <1>5 DEF CallsAreOwn, Delivering
<1>7. AnswersAreTrue' /\ RecordsAreTrue'
  <2>1. AnswersAreTrue'
    BY <1>1, <1>3, <1>5 DEF AnswersAreTrue
  <2>2. RecordsAreTrue'
    BY <1>1 DEF RecordsAreTrue
  <2> QED
    BY <2>1, <2>2
<1>8. \A d \in Calls : calls'[d] # calls[d] =>
        calls[d].phase \in Live /\ calls'[d].id = calls[d].id /\ calls'[d].phase # "none"
  BY <1>1, <1>3, <1>5 DEF Delivering, Live
<1> QED
  BY <1>1, <1>6, <1>7, <1>8, RunsRest

\* What is filed is what was heard.
LEMMA SavedTruly ==
    ASSUME CaptureConstants, CaptureInv, JournalInv', UNCHANGED captureVars, NEW c \in Calls,
           Save(c)
    PROVE  CaptureInv'
<1> USE DEF CaptureInv
<1> DEFINE r == calls[c].result
           entry == Record(calls[c].print, Filed(r), r)
<1>1. /\ calls[c].phase = "answered" /\ calls[c] \in Taken
      /\ calls[c].id \in Ids /\ calls[c].print = calls[c].id
      /\ r \in Answers /\ r \in Results
      /\ r = "accepted" => messages[calls[c].id] = "taken"
      /\ r = "rejected" => messages[calls[c].id] = "refused"
  BY TakenCalls DEF Save, Taken, JournalInv, CallsAreOwn, AnswersAreTrue, AnswerIsFiled, Results
<1>2. /\ records' = [records EXCEPT ![calls[c].id] = entry]
      /\ Resolve(c, r) /\ UNCHANGED messages
  BY DEF Save
<1>3. /\ CallsAreOwn' /\ AnswersAreTrue'
      /\ \A d \in Calls : calls'[d] # calls[d] =>
           calls[d].phase \in Live /\ calls'[d].id = calls[d].id /\ calls'[d].phase # "none"
  BY <1>1, <1>2, ResolvedTruly DEF Owning, Live
<1>4. /\ entry.print = calls[c].id /\ entry.result = r
      /\ entry.status # "pending"
  BY <1>1 DEF Record, Filed
<1> HIDE DEF entry
<1>5. RecordsAreTrue'
  BY <1>1, <1>2, <1>4 DEF RecordsAreTrue, JournalInv, JournalTypeOK
<1> QED
  BY <1>2, <1>3, <1>5, RunsRest

\* The application takes or refuses what is open only.
LEMMA WorldTruly ==
    ASSUME CaptureConstants, CaptureInv, JournalInv', UNCHANGED captureVars, World
    PROVE  CaptureInv'
<1> USE DEF CaptureInv
<1>1. PICK i \in Ids : AppReads(i) \/ Ages(i)
  BY DEF World
<1>2. UNCHANGED calls /\ \A j \in Ids : messages[j] \in {"taken", "refused"} => messages'[j] = messages[j]
  BY <1>1 DEF AppReads, Ages, JournalInv, JournalTypeOK
<1>3. \A c \in Calls : calls[c].phase # "none" => calls[c].id \in Ids
  BY TakenCalls DEF Taken, JournalInv
<1>4. CallsAreOwn' /\ AnswersAreTrue'
  BY <1>2, <1>3 DEF CallsAreOwn, AnswersAreTrue
<1>5. RecordsAreTrue'
  <2>1. CASE AppReads(i)
    BY <1>2, <2>1 DEF AppReads, RecordsAreTrue
  <2>2. CASE Ages(i)
    <3>1. records[i] \in Entry /\ records[i] # NoRecord
          /\ records' = [records EXCEPT ![i] = [records[i] EXCEPT !.age = records[i].age + 1]]
          /\ UNCHANGED messages
      BY <2>2, RecordCases DEF Ages, JournalInv, JournalTypeOK
    <3>2. /\ [records[i] EXCEPT !.age = records[i].age + 1].print = records[i].print
          /\ [records[i] EXCEPT !.age = records[i].age + 1].status = records[i].status
          /\ [records[i] EXCEPT !.age = records[i].age + 1].result = records[i].result
      BY <3>1 DEF Entry
    <3> QED
      BY <3>1, <3>2 DEF RecordsAreTrue, JournalInv, JournalTypeOK
  <2> QED
    BY <1>1, <2>1, <2>2
<1> QED
  BY <1>2, <1>4, <1>5, RunsRest

\* The worker dies with its calls and its runs.
LEMMA DiesTruly ==
    ASSUME CaptureConstants, CaptureInv, JournalInv', Dies
    PROVE  CaptureInv'
<1> USE DEF CaptureInv
<1>1. /\ UNCHANGED <<records, messages>> /\ UNCHANGED <<browser, url, events, mode, review, resumed>>
      /\ run' = [d \in Downloads |-> NotRunning]
      /\ outcome' = [d \in Downloads |-> "none"]
      /\ naming' = [d \in Downloads |-> FALSE]
  BY DEF Dies, WorkerDies
<1>2. \A c \in Calls : IF calls[c].phase \in Live
                       THEN calls'[c] = [calls[c] EXCEPT !.phase = "lost"]
                       ELSE calls'[c] = calls[c]
  BY DEF Dies, WorkerDies
<1>3. ASSUME NEW c \in Calls, calls[c].phase \in Live
      PROVE  /\ calls'[c].phase = "lost" /\ calls'[c].id = calls[c].id
             /\ calls'[c].print = calls[c].print
  <2>1. calls[c] \in Taken
    BY <1>3, TakenCalls DEF Live, JournalInv
  <2> QED
    BY <1>2, <1>3, <2>1 DEF Taken
<1>4. TypeOK'
  BY <1>1 DEF TypeOK, JournalInv, Outcomes
<1>5. CallsAreOwn'
  BY <1>2, <1>3 DEF CallsAreOwn, Live
<1>6. AnswersAreTrue' /\ RecordsAreTrue'
  <2>1. AnswersAreTrue'
    BY <1>1, <1>2, <1>3 DEF AnswersAreTrue
  <2>2. RecordsAreTrue'
    BY <1>1 DEF RecordsAreTrue
  <2> QED
    BY <2>1, <2>2
<1>7. \A c \in Calls : calls'[c].phase \notin Live
  BY <1>2, <1>3 DEF Live
<1>8. RunsAgree'
  BY <1>1, <1>7 DEF RunsAgree, NotRunning, CaptureConstants
<1>9. CancelledRests'
  BY <1>1 DEF CancelledRests
<1> QED
  BY <1>4, <1>5, <1>6, <1>8, <1>9

-----------------------------------------------------------------------------
(* Theorems                                                                *)

\* Captures are callers of the journal, and nothing else.
LEMMA StepsOfJournal ==
    ASSUME CaptureConstants, TypeOK, [Next]_vars
    PROVE  [JournalNext]_journalVars
<1>1. ASSUME NEW d \in Downloads, Submit(d)
      PROVE  JournalNext
  <2>1. run[d].at = "journal" /\ Enter(d, CaptureId(d, run[d].url), CaptureId(d, run[d].url), FALSE)
    BY <1>1 DEF Submit
  <2>2. run[d].url \in Urls
    BY <2>1, RunParts DEF Running
  <2>3. d \in Calls /\ CaptureId(d, run[d].url) \in Ids /\ CaptureId(d, run[d].url) \in Prints
    BY <2>2 DEF CaptureId, CaptureConstants
  <2> QED
    BY <2>1, <2>3 DEF JournalNext
<1>2. ASSUME NEW d \in Downloads, Journal(d)
      PROVE  JournalNext
  BY <1>2 DEF Journal, JournalNext, CaptureConstants
<1>3. ASSUME NEW d \in Downloads, Event(d) \/ (Worker(d) /\ ~Submit(d))
      PROVE  UNCHANGED journalVars
  BY <1>3 DEF Event, Worker, ReadSettings, Handshake, Pause, Refresh, Flag, Response, Cancel, Resume
<1>4. CASE \/ \E d \in Downloads, u \in Urls : LearnsUrl(d, u)
           \/ \E d \in Downloads : BrowserEnds(d) \/ UserResumes(d)
           \/ \E m \in {"automatic", "ask"} : SetMode(m)
  BY <1>4 DEF LearnsUrl, BrowserEnds, UserResumes, SetMode
<1>5. CASE Dies \/ (World /\ UNCHANGED captureVars)
  BY <1>5 DEF Dies, JournalNext
<1>6. CASE UNCHANGED vars
  BY <1>6 DEF vars
<1> QED
  BY <1>1, <1>2, <1>3, <1>4, <1>5, <1>6 DEF Next

\* Every step keeps the invariant.
LEMMA CaptureSteps ==
    ASSUME CaptureConstants, CaptureInv, [Next]_vars
    PROVE  CaptureInv'
<1>1. JournalInv'
  BY StepsOfJournal, JournalSteps DEF CaptureInv
<1>2. ASSUME NEW d \in Downloads, Journal(d)
      PROVE  CaptureInv'
  <2>1. d \in Calls /\ UNCHANGED captureVars /\ Working(d)
    BY <1>2 DEF Journal, CaptureConstants
  <2> QED
    BY <1>1, <2>1, CheckKeeps, EntersTruly, SentTruly, AnsweredTruly, SavedTruly
       DEF Working, Settling
<1>3. ASSUME NEW d \in Downloads, Event(d) \/ Worker(d)
      PROVE  CaptureInv'
  BY <1>3, EventKeeps, WorkerKeeps, SubmitKeeps DEF Worker
<1>4. CASE \/ \E d \in Downloads, u \in Urls : LearnsUrl(d, u)
           \/ \E d \in Downloads : BrowserEnds(d) \/ UserResumes(d)
           \/ \E m \in {"automatic", "ask"} : SetMode(m)
  BY <1>4, BrowserKeeps
<1>5. CASE Dies \/ (World /\ UNCHANGED captureVars)
  BY <1>1, <1>5, DiesTruly, WorldTruly
<1>6. CASE UNCHANGED vars
  BY <1>1, <1>6 DEF vars, captureVars, journalVars, CaptureInv, TypeOK, JournalInv,
     CallsAreOwn, RecordsAreTrue, AnswersAreTrue, RunsAgree, CancelledRests
<1> QED
  BY <1>2, <1>3, <1>4, <1>5, <1>6 DEF Next

\* The captures implement the journal's specification: what is proved of the
\* journal under any callers holds of them.
THEOREM CapturesUseJournal ==
    ASSUME CaptureConstants
    PROVE  Spec => JournalSpec
<1>1. Init => TypeOK /\ JournalInit
  BY CaptureStarts DEF Init, CaptureInv
<1>2. CaptureInv /\ [Next]_vars => CaptureInv' /\ [JournalNext]_journalVars
  BY CaptureSteps, StepsOfJournal DEF CaptureInv
<1> QED
  BY <1>1, <1>2, CaptureStarts, PTL DEF Spec, JournalSpec

\* Between journal, calls, runs and the browser's copies the invariant holds; in
\* particular every variable has its type.
THEOREM CaptureTypes ==
    ASSUME CaptureConstants
    PROVE  Spec => []TypeOK
<1>1. CaptureInv /\ [Next]_vars => CaptureInv'
  BY CaptureSteps
<1>2. CaptureInv => TypeOK
  BY DEF CaptureInv
<1> QED
  BY <1>1, <1>2, CaptureStarts, PTL DEF Spec

\* The browser's copy is cancelled only when the application has taken the
\* download, whatever is lost, repeated or restarted (service-worker.js).
THEOREM NothingIsLost ==
    ASSUME CaptureConstants
    PROVE  Spec => []CancelledMeansTaken
<1>1. CaptureInv /\ [Next]_vars => CaptureInv'
  BY CaptureSteps
<1>2. CaptureInv => CancelledMeansTaken
  BY DEF CaptureInv, CancelledRests, CancelledMeansTaken
<1> QED
  BY <1>1, <1>2, CaptureStarts, PTL DEF Spec

\* What is proved of the journal holds of the captures.
THEOREM NoBlindRecapture ==
    ASSUME CaptureConstants
    PROVE  Spec => []NoBlindResend
  BY CapturesUseJournal, NeverResentBlindly, PTL

-----------------------------------------------------------------------------
(* A copy the browser may continue                                         *)

\* A message is sent only by the run that waits for it.
LEMMA OwnMessages ==
    ASSUME CaptureConstants, CaptureInv, [Next]_vars, NEW d \in Downloads, NEW u \in Urls,
           messages[CaptureId(d, u)] = "none"
    PROVE  \/ messages'[CaptureId(d, u)] = "none"
           \/ run[d].at = "response" /\ u = run[d].url
<1> USE DEF CaptureInv
<1>1. CaptureId(d, u) \in Ids /\ Downloads \subseteq Calls
  BY DEF CaptureConstants, CaptureId
<1>2. ASSUME NEW c \in Downloads, Send(c)
      PROVE  \/ messages'[CaptureId(d, u)] = "none"
             \/ run[d].at = "response" /\ u = run[d].url
  <2>1. /\ calls[c].phase \in Live /\ calls[c].id \in {CaptureId(c, v) : v \in Urls}
        /\ messages' = [messages EXCEPT ![calls[c].id] = "open"]
    BY <1>1, <1>2 DEF Send, Live, CallsAreOwn
  <2>2. run[c].at = "response" /\ calls[c].id = CaptureId(c, run[c].url)
    BY <2>1 DEF RunsAgree
  <2>3. CASE calls[c].id = CaptureId(d, u)
    BY <2>2, <2>3 DEF CaptureId
  <2>4. CASE calls[c].id # CaptureId(d, u)
    BY <1>1, <2>1, <2>4 DEF JournalInv, JournalTypeOK
  <2> QED
    BY <2>3, <2>4
<1>3. ASSUME NEW c \in Downloads, Journal(c), ~Send(c)
      PROVE  UNCHANGED messages
  BY <1>3 DEF Journal, Working, Settling, CheckKnown, CheckAnswered, CheckFull, CheckEnters,
              CallFails, TimesOut, Save, HostAnswers
<1>4. CASE World
  BY <1>1, <1>4 DEF World, AppReads, Ages, JournalInv, JournalTypeOK
<1>5. ASSUME NEW c \in Downloads, Event(c) \/ Worker(c)
      PROVE  UNCHANGED messages
  BY <1>5 DEF Event, Worker, ReadSettings, Handshake, Pause, Refresh, Flag, Submit, Enter,
              Response, Cancel, Resume, journalVars
<1>6. CASE \/ \E c \in Downloads, v \in Urls : LearnsUrl(c, v)
           \/ \E c \in Downloads : BrowserEnds(c) \/ UserResumes(c)
           \/ \E m \in {"automatic", "ask"} : SetMode(m)
           \/ Dies
           \/ UNCHANGED vars
  BY <1>6 DEF LearnsUrl, BrowserEnds, UserResumes, SetMode, Dies, WorkerDies, vars, journalVars
<1> QED
  BY <1>2, <1>3, <1>4, <1>5, <1>6 DEF Next, Journal

\* The event that begins the first run finds nothing offered.
LEMMA FirstEvent ==
    ASSUME CreatedFirst, CaptureInv, FirstRunInv, NEW d \in Downloads, Event(d)
    PROVE  FirstRunInv'
<1>1. /\ UNCHANGED messages
      /\ events' = [events EXCEPT ![d] = Tail(events[d])]
      /\ events[d] # << >>
  BY DEF Event, journalVars
<1>2. events[d] \in {<<"created">>, <<"created", "naming">>, <<"naming">>}
  BY <1>1 DEF FirstRunInv, EventsLeft
<1>3. Tail(events[d]) \in {<<"naming">>, << >>} /\ Tail(events[d]) \in EventsLeft
  <2>1. /\ Tail(<<"created">>) = << >>
        /\ Tail(<<"created", "naming">>) = <<"naming">>
        /\ Tail(<<"naming">>) = << >>
    OBVIOUS
  <2> QED
    BY <1>2, <2>1, Zenon DEF EventsLeft
<1>4. /\ events' \in [Downloads -> EventsLeft]
      /\ events'[d] = Tail(events[d])
      /\ \A c \in Downloads \ {d} : events'[c] = events[c]
  BY <1>1, <1>3 DEF FirstRunInv
<1>5. \A c \in Downloads \ {d} : FirstRun(c)'
  <2>1. \A c \in Downloads \ {d} : run'[c] = run[c]
    <3>1. UNCHANGED run \/ \E r : run' = [run EXCEPT ![d] = r]
      BY DEF Event, Ends
    <3> QED
      BY <3>1 DEF CaptureInv, TypeOK
  <2> QED
    BY <1>1, <1>4, <2>1 DEF FirstRunInv, FirstRun
<1>6. FirstRun(d)'
  <2>1. CASE run'[d] = run[d]
    BY <1>1, <1>3, <1>4, <2>1 DEF FirstRunInv, FirstRun
  <2>2. CASE run'[d] = NotRunning
    BY <1>3, <1>4, <2>2 DEF FirstRun
  <2>3. CASE run' = [run EXCEPT ![d] = [at |-> "settings",
                                        determining |-> Head(events[d]) = "naming",
                                        paused |-> FALSE, url |-> url[d]]]
    <3>1. /\ run'[d].at = "settings" /\ run'[d].paused = FALSE
          /\ run'[d].determining = (Head(events[d]) = "naming")
      BY <2>3 DEF CaptureInv, TypeOK
    <3>2. CASE run'[d].determining
      BY <1>3, <1>4, <3>1, <3>2 DEF FirstRun
    <3>3. CASE ~run'[d].determining
      <4>1. events[d] \notin {<<"naming">>, << >>}
        <5>1. Head(events[d]) # "naming"
          BY <3>1, <3>3
        <5>2. Head(<<"naming">>) = "naming"
          OBVIOUS
        <5> QED
          BY <1>1, <5>1, <5>2
      <4>2. \A u \in Urls : messages[CaptureId(d, u)] = "none"
        BY <4>1 DEF FirstRunInv, FirstRun
      <4> QED
        BY <1>1, <1>3, <1>4, <3>1, <4>2 DEF FirstRun
    <3> QED
      BY <3>2, <3>3
  <2> QED
    BY <2>1, <2>2, <2>3 DEF Event, Ends, CaptureInv, TypeOK
<1> QED
  BY <1>4, <1>5, <1>6 DEF FirstRunInv

\* A run that ends, or goes on with what it knows, has offered nothing new.
LEMMA FirstRunGoes ==
    ASSUME CaptureConstants, CreatedFirst, CaptureInv, FirstRunInv, NEW d \in Downloads,
           Worker(d)
    PROVE  FirstRun(d)'
<1> USE DEF CaptureInv
<1>1. run[d] # NotRunning /\ run[d] \in Running
  BY RunParts DEF Worker, ReadSettings, Handshake, Pause, Refresh, Flag, Submit, Response,
                  Cancel, Resume, NotRunning
<1>2. events[d] \in {<<"naming">>, << >>} /\ UNCHANGED <<events, messages>>
  <2>1. events[d] \in {<<"naming">>, << >>}
    BY <1>1 DEF FirstRunInv, FirstRun
  <2>2. UNCHANGED <<events, messages>>
    BY DEF Worker, ReadSettings, Handshake, Pause, Refresh, Flag, Submit, Response,
           Cancel, Resume, Enter, journalVars
  <2> QED
    BY <2>1, <2>2
<1>3. /\ run[d].paused => ~run[d].determining
      /\ run[d].at = "pause" => ~run[d].determining
      /\ ~run[d].determining => \A u \in Urls :
            \/ messages[CaptureId(d, u)] = "none"
            \/ run[d].at \in {"response", "cancel", "resume"} /\ u = run[d].url
  BY <1>1 DEF FirstRunInv, FirstRun
<1>4. ASSUME NEW step \in Steps \ {"idle"}, Goes(d, step),
             step = "pause" => ~run[d].determining,
             run[d].at \in {"response", "cancel", "resume"} =>
                step \in {"response", "cancel", "resume"}
      PROVE  FirstRun(d)'
  <2>1. /\ run'[d].at = step /\ run'[d].url = run[d].url
        /\ run'[d].paused = run[d].paused /\ run'[d].determining = run[d].determining
    BY <1>1, <1>4, Going
  <2> QED
    BY <1>2, <1>3, <1>4, <2>1 DEF FirstRun
<1>5. ASSUME NEW what \in Outcomes, Ends(d, what)
      PROVE  FirstRun(d)'
  BY <1>2, <1>5, Ending DEF FirstRun
<1> USE DEF Steps, Outcomes
<1>6. CASE ReadSettings(d)
  BY <1>4, <1>5, <1>6 DEF ReadSettings
<1>7. CASE Handshake(d)
  <2>1. CASE run[d].determining
    BY <1>4, <1>5, <1>7, <2>1 DEF Handshake
  <2>2. CASE ~run[d].determining
    BY <1>4, <1>5, <1>7, <2>2 DEF Handshake
  <2> QED
    BY <2>1, <2>2
<1>8. CASE Pause(d)
  <2>1. CASE browser[d] \in {"running", "paused"}
    <3>1. /\ run[d].at = "pause"
          /\ run' = [run EXCEPT ![d] = [run[d] EXCEPT !.at = "refresh", !.paused = TRUE]]
      BY <1>8, <2>1 DEF Pause, TypeOK
    <3>2. run'[d] = [run[d] EXCEPT !.at = "refresh", !.paused = TRUE]
      BY <3>1 DEF TypeOK
    <3>3. run'[d].at = "refresh" /\ run'[d].determining = run[d].determining
          /\ run'[d].url = run[d].url
      BY <1>1, <3>2 DEF Running
    <3> QED
      BY <1>2, <1>3, <3>1, <3>3 DEF FirstRun
  <2>2. CASE browser[d] \notin {"running", "paused"}
    BY <1>5, <1>8, <2>2 DEF Pause
  <2> QED
    BY <2>1, <2>2
<1>9. CASE Refresh(d)
  <2>1. /\ run[d].at = "refresh"
        /\ run'[d] = [run[d] EXCEPT !.at = "flag", !.url = url[d]]
    BY <1>9 DEF Refresh, TypeOK
  <2>2. /\ run'[d].at = "flag" /\ run'[d].determining = run[d].determining
        /\ run'[d].paused = run[d].paused
    BY <1>1, <2>1 DEF Running
  <2> QED
    BY <1>2, <1>3, <2>1, <2>2 DEF FirstRun
<1>10. CASE Flag(d) \/ Submit(d)
  BY <1>4, <1>10 DEF Flag, Submit
<1>11. CASE Response(d)
  BY <1>4, <1>5, <1>11 DEF Response
<1>12. CASE Cancel(d) \/ Resume(d)
  BY <1>5, <1>12 DEF Cancel, Resume
<1> QED
  BY <1>6, <1>7, <1>8, <1>9, <1>10, <1>11, <1>12 DEF Worker

\* What happens beside the events and runs of d offers nothing of d but what its
\* run waits for.
LEMMA FirstRunRests ==
    ASSUME CaptureConstants, CreatedFirst, CaptureInv, FirstRunInv, [Next]_vars,
           NEW d \in Downloads, events'[d] = events[d],
           \/ run'[d] = run[d]
           \/ run'[d] = NotRunning /\ UNCHANGED messages
    PROVE  FirstRun(d)'
<1>1. CASE run'[d] = NotRunning /\ UNCHANGED messages
  BY <1>1 DEF FirstRunInv, FirstRun
<1>2. CASE run'[d] = run[d]
  <2>1. \A u \in Urls : messages[CaptureId(d, u)] = "none" =>
           \/ messages'[CaptureId(d, u)] = "none"
           \/ run[d].at = "response" /\ u = run[d].url
    BY OwnMessages
  <2>2. NotRunning.at # "response"
    BY DEF NotRunning
  <2> QED
    BY <1>2, <2>1, <2>2 DEF FirstRunInv, FirstRun
<1> QED
  BY <1>1, <1>2

LEMMA FirstRunSteps ==
    ASSUME CaptureConstants, CreatedFirst, CaptureInv, FirstRunInv, [Next]_vars
    PROVE  FirstRunInv'
<1>1. CASE \E d \in Downloads : Event(d)
  BY <1>1, FirstEvent
<1>2. CASE \E d \in Downloads : Worker(d)
  <2>1. PICK d \in Downloads : Worker(d)
    BY <1>2
  <2>2. UNCHANGED events /\ \A c \in Downloads \ {d} : run'[c] = run[c]
    <3>1. UNCHANGED events
      BY <2>1 DEF Worker, ReadSettings, Handshake, Pause, Refresh, Flag, Submit, Response,
                  Cancel, Resume
    <3>2. \E r : run' = [run EXCEPT ![d] = r]
      BY <2>1 DEF Worker, ReadSettings, Handshake, Pause, Refresh, Flag, Submit, Response,
                  Cancel, Resume, Goes, Ends
    <3> QED
      BY <3>1, <3>2 DEF CaptureInv, TypeOK
  <2>3. FirstRun(d)'
    BY <2>1, FirstRunGoes
  <2>4. ASSUME NEW c \in Downloads \ {d}
        PROVE  FirstRun(c)'
    BY <2>2, FirstRunRests DEF FirstRun
  <2> QED
    BY <2>2, <2>3, <2>4 DEF FirstRunInv
<1>3. CASE Dies
  <2>1. UNCHANGED <<events, messages>> /\ \A d \in Downloads : run'[d] = NotRunning
    BY <1>3 DEF Dies, WorkerDies
  <2> QED
    BY <2>1, FirstRunRests DEF FirstRunInv
<1>4. CASE \/ \E d \in Downloads : Journal(d)
           \/ \E d \in Downloads, u \in Urls : LearnsUrl(d, u)
           \/ \E d \in Downloads : BrowserEnds(d) \/ UserResumes(d)
           \/ \E m \in {"automatic", "ask"} : SetMode(m)
           \/ World /\ UNCHANGED captureVars
           \/ UNCHANGED vars
  <2>1. UNCHANGED <<events, run>>
    BY <1>4 DEF Journal, LearnsUrl, BrowserEnds, UserResumes, SetMode, captureVars, vars
  <2>2. ASSUME NEW d \in Downloads
        PROVE  FirstRun(d)'
    BY <2>1, FirstRunRests
  <2> QED
    BY <2>1, <2>2 DEF FirstRunInv
<1> QED
  BY <1>1, <1>2, <1>3, <1>4 DEF Next

\* At the start no run has begun, and nothing has been offered.
LEMMA FirstRunStarts ==
    ASSUME CaptureConstants, CreatedFirst, Init
    PROVE  FirstRunInv
<1>1. /\ events = Order /\ run = [d \in Downloads |-> NotRunning]
      /\ messages = [i \in Ids |-> "none"]
  BY DEF Init, CaptureInit, JournalInit
<1>2. events \in [Downloads -> EventsLeft]
  BY <1>1 DEF CreatedFirst, EventsLeft
<1>3. \A d \in Downloads : FirstRun(d)
  BY <1>1 DEF FirstRun, CaptureConstants, CaptureId
<1> QED
  BY <1>2, <1>3 DEF FirstRunInv

\* A copy is let go on by its run, which was refused and has offered nothing else.
LEMMA ResumesRefused ==
    ASSUME CaptureConstants, CaptureInv, FirstRunInv, [Next]_vars,
           NEW d \in resumed' \ resumed, NEW u \in Urls
    PROVE  messages[CaptureId(d, u)] \in {"none", "refused"}
<1>1. d \in Downloads /\ Resume(d)
  BY DEF Next, Event, Worker, ReadSettings, Handshake, Pause, Refresh, Flag, Submit,
              Response, Cancel, Resume, Journal, LearnsUrl, BrowserEnds, UserResumes, SetMode,
              Dies, captureVars, vars
<1>2. /\ run[d].at = "resume" /\ run[d].paused /\ run[d] # NotRunning
      /\ calls[d].phase = "done" /\ calls[d].result = "rejected"
      /\ calls[d].id = CaptureId(d, run[d].url)
  BY <1>1 DEF Resume, CaptureInv, RunsAgree, NotRunning
<1>3. messages[CaptureId(d, run[d].url)] = "refused"
  BY <1>1, <1>2 DEF CaptureInv, AnswersAreTrue, CaptureConstants
<1>4. messages[CaptureId(d, u)] = "none" \/ u = run[d].url
  BY <1>1, <1>2 DEF FirstRunInv, FirstRun
<1> QED
  BY <1>3, <1>4

\* A paused copy is let go on only when the application has refused the download
\* and holds no other message of it, under whatever address: continuing it never
\* makes a second transfer (service-worker.js, the catch of performCaptureDownload).
THEOREM OnlyRefusedResume ==
    ASSUME CaptureConstants, CreatedFirst
    PROVE  Spec => ResumedMeansRefused
<1>1. Init => FirstRunInv
  BY FirstRunStarts
<1>2. CaptureInv /\ [Next]_vars => CaptureInv'
  BY CaptureSteps
<1>3. CaptureInv /\ FirstRunInv /\ [Next]_vars => FirstRunInv'
  BY FirstRunSteps
<1>4. CaptureInv /\ FirstRunInv /\ [Next]_vars =>
        [\A d \in resumed' \ resumed, u \in Urls :
           messages[CaptureId(d, u)] \in {"none", "refused"}]_vars
  BY ResumesRefused
<1> QED
  BY <1>1, <1>2, <1>3, <1>4, CaptureStarts, PTL DEF Spec, ResumedMeansRefused

-----------------------------------------------------------------------------
(* SENDS                                                                   *)

(* What is prepared                                                        *)

\* What the worker prepares: a selection, under an id of its own.
Message == [selection : Selections, retry : BOOLEAN, id : Ids]

\* A message is told from the absence of one.
LEMMA PostedIsMessage ==
    ASSUME Sending!SendTypes, NEW c \in Sending!Senders, posted[c] # Sending!Nothing
    PROVE  posted[c] \in Message
  BY DEF Sending!SendTypes, Message

\* A new message draws the next id.
LEMMA PostKeeps ==
    ASSUME Sending!SendConstants, Sending!SendTypes, NEW c \in Sending!Senders,
           NEW s \in Selections,
           NEW retry \in BOOLEAN, Sending!Post(c, s, retry)
    PROVE  /\ drawn' \in 0 .. MaxSends
           /\ posted' \in [Sending!Senders -> {Sending!Nothing} \cup Message]
<1> DEFINE message == [selection |-> s, retry |-> retry, id |-> Sending!SendId(drawn + 1)]
<1>1. drawn + 1 \in 1 .. MaxSends /\ drawn' = drawn + 1
  BY DEF Sending!Post, Sending!SendTypes, Sending!SendConstants
<1>2. message \in Message
  BY <1>1 DEF Sending!SendConstants, Message
<1>3. posted' = [posted EXCEPT ![c] = message]
  BY DEF Sending!Post
<1> HIDE DEF message
<1>4. posted' \in [Sending!Senders -> {Sending!Nothing} \cup Message]
  BY <1>2, <1>3 DEF Sending!SendTypes, Message
<1> QED
  BY <1>1, <1>4 DEF Sending!SendConstants

-----------------------------------------------------------------------------
(* The sends' journal                                                      *)

\* The sends' journal has another capacity and other answers: its types are the
\* same, and its steps are steps that keep the invariant anyhow.
LEMMA SameTypes == Sending!JournalTypeOK <=> JournalTypeOK
  BY DEF Sending!JournalTypeOK, Sending!CallType, Sending!RecordType, Sending!NoRecord,
         Sending!Phases, Sending!Results, Sending!Answers, Sending!Statuses, Sending!Unresolved,
         Sending!Fresh, Sending!Expired, JournalTypeOK, CallType, RecordType, NoRecord,
         Phases, Results, Answers, Statuses, Unresolved, Fresh, Expired

LEMMA SameResolve ==
    ASSUME NEW c, NEW result
    PROVE  Sending!Resolve(c, result) <=> Resolve(c, result)
  BY DEF Sending!Resolve, Resolve

LEMMA SamePasses ==
    ASSUME NEW c
    PROVE  Sending!Passes(c) <=> Passes(c)
  BY DEF Sending!Passes, Sending!JustAccepted, Sending!InDoubt, Sending!Of, Sending!Recorded,
         Sending!NoRecord, Sending!Fresh, Sending!Unresolved,
         Passes, JustAccepted, InDoubt, Of, Recorded, NoRecord, Fresh, Unresolved

LEMMA SameSets ==
    /\ Sending!Prunable = Prunable /\ Sending!NoRecord = NoRecord /\ Sending!Live = Live
    /\ \A p : Sending!InDoubt(p) = InDoubt(p) /\ Sending!JustAccepted(p) = JustAccepted(p)
    /\ \A p : Sending!Superseded(p) = Superseded(p)
    /\ \A p, status, result : Sending!Record(p, status, result) = Record(p, status, result)
    /\ \A result : Sending!Filed(result) = Filed(result)
  BY DEF Sending!Prunable, Sending!InDoubt, Sending!JustAccepted, Sending!Of, Sending!Recorded,
         Sending!NoRecord, Sending!Fresh, Sending!Expired, Sending!Unresolved, Sending!Live,
         Sending!Superseded, Sending!Record, Sending!Filed,
         Prunable, InDoubt, JustAccepted, Of, Recorded, NoRecord, Fresh, Expired, Unresolved,
         Live, Superseded, Record, Filed

LEMMA SendsWorkAnyhow ==
    ASSUME NEW c, Sending!Working(c)
    PROVE  WorkingAnyhow(c)
<1> USE SameResolve, SamePasses, SameSets DEF WorkingAnyhow
<1>1. CASE Sending!CheckKnown(c)
  BY <1>1 DEF Sending!CheckKnown, CheckKnown
<1>2. CASE Sending!CheckAnswered(c)
  BY <1>2 DEF Sending!CheckAnswered, CheckAnswered
<1>3. CASE Sending!CheckFull(c)
  BY <1>3 DEF Sending!CheckFull, FailsAnyhow
<1>4. CASE Sending!CheckEnters(c)
  BY <1>4 DEF Sending!CheckEnters, EntersAnyhow
<1>5. CASE Sending!CallFails(c) \/ Sending!Send(c) \/ Sending!TimesOut(c)
  BY <1>5 DEF Sending!CallFails, CallFails, Sending!Send, Send, Sending!TimesOut, TimesOut
<1>6. CASE Sending!Save(c)
  BY <1>6 DEF Sending!Save, Save
<1>7. ASSUME NEW answer \in SendReplies, Sending!HostAnswers(c, answer)
      PROVE  WorkingAnyhow(c)
  <2>1. answer \in Replies /\ HostAnswers(c, answer)
    BY <1>7, PartAssumption DEF Sending!HostAnswers, HostAnswers, Replies
  <2> QED
    BY <2>1
<1> QED
  BY <1>1, <1>2, <1>3, <1>4, <1>5, <1>6, <1>7 DEF Sending!Working, Sending!Settling

LEMMA SendsStepAnyhow ==
    ASSUME [Sending!JournalNext]_journalVars
    PROVE  [NextAnyhow]_journalVars
<1> USE DEF NextAnyhow
<1>1. ASSUME NEW c \in Calls, Sending!Working(c)
      PROVE  NextAnyhow
  BY <1>1, SendsWorkAnyhow
<1>2. ASSUME NEW c \in Calls, NEW i \in Ids, NEW p \in Prints, NEW retry \in BOOLEAN,
             Sending!Enter(c, i, p, retry)
      PROVE  NextAnyhow
  <2>1. Enter(c, i, p, retry)
    BY <1>2, SameSets DEF Sending!Enter, Enter
  <2> QED
    BY <2>1
<1>3. CASE Sending!World
  BY <1>3, SameSets DEF Sending!World, Sending!AppReads, Sending!Ages, Sending!Expired,
                        World, AppReads, Ages, Expired
<1>4. CASE Sending!WorkerDies
  BY <1>4, SameSets DEF Sending!WorkerDies, WorkerDies
<1> QED
  BY <1>1, <1>2, <1>3, <1>4 DEF Sending!JournalNext

LEMMA SendsJournalStarts == Sending!JournalInit => JournalInv
<1>1. Sending!JournalInit => JournalInit
  BY DEF Sending!JournalInit, Sending!Idle, Sending!NoRecord, JournalInit, Idle, NoRecord
<1> QED
  BY <1>1, JournalStarts

-----------------------------------------------------------------------------
(* Sends use the journal, and nothing but its operations                   *)

LEMMA SendsStepJournal ==
    ASSUME Sending!SendConstants, Sending!SendTypes, [Sending!SendNext]_(Sending!sendingVars)
    PROVE  [Sending!JournalNext]_journalVars
<1>1. ASSUME NEW c \in Sending!Senders, Sending!Journalled(c)
      PROVE  Sending!JournalNext
  <2>1. posted[c] \in Message
    BY <1>1, PostedIsMessage DEF Sending!Journalled
  <2>2. /\ c \in Calls /\ posted[c].id \in Ids /\ posted[c].selection \in Prints
        /\ posted[c].retry \in BOOLEAN
    BY <2>1 DEF Message, Sending!SendConstants
  <2> QED
    BY <1>1, <2>2 DEF Sending!Journalled, Sending!JournalNext
<1>2. ASSUME NEW c \in Sending!Senders, Sending!Working(c)
      PROVE  Sending!JournalNext
  BY <1>2 DEF Sending!JournalNext, Sending!SendConstants
<1>3. CASE \/ \E s \in Selections : Sending!PanelSends(s) \/ Sending!MenuSends(s)
           \/ \E c \in Sending!Senders : Sending!Refused(c) \/ Sending!Hears(c)
           \/ Sending!PanelReopens
           \/ UNCHANGED Sending!sendingVars
  BY <1>3 DEF Sending!PanelSends, Sending!MenuSends, Sending!Refused, Sending!Hears,
              Sending!PanelReopens, Sending!sendingVars, Sending!journalVars, journalVars
<1>4. CASE Sending!World \/ Sending!SendsDie
  BY <1>4 DEF Sending!SendsDie, Sending!JournalNext
<1> QED
  BY <1>1, <1>2, <1>3, <1>4 DEF Sending!SendNext

LEMMA TypesKeep ==
    ASSUME Sending!SendConstants, Sending!SendTypes, Sending!JournalTypeOK',
           [Sending!SendNext]_(Sending!sendingVars)
    PROVE  Sending!SendTypes'
<1> USE DEF Sending!SendTypes
<1>1. ASSUME NEW c \in Sending!Senders, NEW uncertain \in BOOLEAN,
             Sending!PanelHears(c, uncertain)
      PROVE  busy' \in BOOLEAN /\ unconfirmed' \in BOOLEAN
  BY <1>1 DEF Sending!PanelHears
<1>2. ASSUME NEW s \in Selections, Sending!PanelSends(s) \/ Sending!MenuSends(s)
      PROVE  Sending!SendTypes'
  <2>1. /\ drawn' \in 0 .. MaxSends
        /\ posted' \in [Sending!Senders -> {Sending!Nothing} \cup Message]
    BY <1>2, PostKeeps DEF Sending!PanelSends, Sending!MenuSends, Sending!Senders
  <2>2. busy' \in BOOLEAN /\ unconfirmed' \in BOOLEAN
    BY <1>2 DEF Sending!PanelSends, Sending!MenuSends
  <2> QED
    BY <2>1, <2>2 DEF Message
<1>3. ASSUME NEW c \in Sending!Senders, Sending!Refused(c)
      PROVE  Sending!SendTypes'
  BY <1>1, <1>3 DEF Sending!Refused
<1>4. ASSUME NEW c \in Sending!Senders, Sending!Journalled(c)
      PROVE  Sending!SendTypes'
  BY <1>4 DEF Sending!Journalled
<1>5. ASSUME NEW c \in Sending!Senders, Sending!Hears(c)
      PROVE  Sending!SendTypes'
  BY <1>1, <1>5 DEF Sending!Hears
<1>6. CASE Sending!PanelReopens
  BY <1>6 DEF Sending!PanelReopens
<1>7. CASE Sending!SendsDie
  <2>1. busy' \in BOOLEAN /\ unconfirmed' \in BOOLEAN
    BY <1>7 DEF Sending!SendsDie, Sending!PanelHears
  <2> QED
    BY <1>7, <2>1 DEF Sending!SendsDie
<1>8. CASE \/ \E c \in Sending!Senders : Sending!Working(c) /\ UNCHANGED Sending!sendVars
           \/ Sending!World /\ UNCHANGED Sending!sendVars
           \/ UNCHANGED Sending!sendingVars
  BY <1>8 DEF Sending!sendVars, Sending!sendingVars
<1> QED
  BY <1>2, <1>3, <1>4, <1>5, <1>6, <1>7, <1>8 DEF Sending!SendNext

LEMMA SendsStart ==
    ASSUME Sending!SendConstants
    PROVE  Sending!SendInit => Sending!SendTypes /\ JournalInv
<1> SUFFICES ASSUME Sending!SendInit
             PROVE  Sending!SendTypes /\ JournalInv
  OBVIOUS
<1>1. JournalInv /\ Sending!JournalTypeOK
  BY SendsJournalStarts, SameTypes DEF Sending!SendInit, JournalInv
<1>2. drawn \in 0 .. MaxSends
  BY DEF Sending!SendInit, Sending!SendConstants
<1>3. posted \in [Sending!Senders -> {Sending!Nothing} \cup Message]
  BY DEF Sending!SendInit
<1>4. busy \in BOOLEAN /\ unconfirmed \in BOOLEAN
  BY DEF Sending!SendInit
<1> QED
  BY <1>1, <1>2, <1>3, <1>4 DEF Sending!SendTypes, Message

LEMMA SendsStep ==
    ASSUME Sending!SendConstants
    PROVE  Sending!SendTypes /\ JournalInv /\ [Sending!SendNext]_(Sending!sendingVars) =>
             Sending!SendTypes' /\ JournalInv'
<1> SUFFICES ASSUME Sending!SendTypes, JournalInv, [Sending!SendNext]_(Sending!sendingVars)
             PROVE  Sending!SendTypes' /\ JournalInv'
  OBVIOUS
<1>1. JournalInv'
  BY SendsStepJournal, SendsStepAnyhow, StepsAnyhow
<1>2. Sending!JournalTypeOK'
  <2>1. JournalTypeOK'
    BY <1>1 DEF JournalInv
  <2>2. Sending!JournalTypeOK' <=> JournalTypeOK'
    BY DEF Sending!JournalTypeOK, Sending!CallType, Sending!RecordType, Sending!NoRecord,
           Sending!Phases, Sending!Results, Sending!Answers, Sending!Statuses,
           Sending!Unresolved, Sending!Fresh, Sending!Expired,
           JournalTypeOK, CallType, RecordType, NoRecord,
           Phases, Results, Answers, Statuses, Unresolved, Fresh, Expired
  <2> QED
    BY <2>1, <2>2
<1> QED
  BY <1>1, <1>2, TypesKeep

-----------------------------------------------------------------------------
(* Theorems                                                                *)

\* The panel and the menu implement the journal's specification: they are callers
\* of the journal and do nothing else to it.
THEOREM SendsUseJournal ==
    ASSUME Sending!SendConstants
    PROVE  Sending!SendSpec => Sending!JournalSpec
<1>1. Sending!SendInit => Sending!JournalInit
  BY DEF Sending!SendInit
<1>2. Sending!SendTypes
        /\ [Sending!SendNext]_(Sending!sendingVars) => [Sending!JournalNext]_journalVars
  BY SendsStepJournal
<1> QED
  BY <1>1, <1>2, SendsStart, SendsStep, PTL
     DEF Sending!SendSpec, Sending!JournalSpec, Sending!journalVars, journalVars

\* Panel, worker and journal keep their types, whatever is closed, reopened or
\* killed in between.
THEOREM SendsKeepTypes ==
    ASSUME Sending!SendConstants
    PROVE  Sending!SendSpec => []Sending!SendTypes
  BY SendsStart, SendsStep, PTL DEF Sending!SendSpec

\* A selection whose fate is unknown stays in the journal, and is not sent a second
\* time without the user's consent, whether from the panel or from the menu.
THEOREM NoBlindSend ==
    ASSUME Sending!SendConstants
    PROVE  Sending!SendSpec => []NoBlindResend
<1>1. JournalInv => NoBlindResend
  BY DoubtIsAlone
<1> QED
  BY <1>1, SendsStart, SendsStep, PTL DEF Sending!SendSpec

-----------------------------------------------------------------------------
(* THE TABS                                                                *)

(* Numbers                                                                 *)

\* A set of numbers has a least one.
LEMMA HasLeast ==
    ASSUME NEW T \in SUBSET Nat, T # {}
    PROVE  \E n \in T : \A m \in T : n <= m
<1> DEFINE R == OpToRel(<, Nat)
<1>1. IsWellFoundedOn(R, Nat)
  BY NatLessThanWellFounded
<1>2. \A m, n \in Nat : m < n => <<m, n>> \in R
  BY DEF OpToRel
<1> HIDE DEF R
<1>3. \E x \in T : \A y \in T : ~(<<y, x>> \in R)
  BY <1>1, WFMin
<1>4. \A x, y \in T : ~(y < x) => x <= y
  OBVIOUS
<1> QED
  BY <1>2, <1>3, <1>4

\* One that is bounded has a greatest one.
LEMMA HasGreatest ==
    ASSUME NEW b \in Nat, NEW T \in SUBSET (0 .. b), T # {}
    PROVE  \E n \in T : \A m \in T : m <= n
<1> DEFINE Gaps == {b - n : n \in T}
<1>1. Gaps \in SUBSET Nat /\ Gaps # {}
  <2>1. \A n \in T : n \in 0 .. b /\ b - n \in Nat
    OBVIOUS
  <2> QED
    BY <2>1
<1>2. PICK g \in Gaps : \A h \in Gaps : g <= h
  BY <1>1, HasLeast
<1>3. PICK n \in T : g = b - n
  BY <1>2
<1>4. ASSUME NEW m \in T PROVE m <= n
  <2>1. b - m \in Gaps
    OBVIOUS
  <2> QED
    BY <1>2, <1>3, <2>1
<1> QED
  BY <1>4

\* The tabs are counted; the module counts them as the library does.
LEMMA TabsAreCounted ==
    /\ IsFiniteSet(Tabs) /\ Tabs # {}
    /\ Cardinality(Tabs) \in Nat \ {0}
    /\ Tabbing!Cardinality(Tabs) = Cardinality(Tabs)
    /\ Tabbing!Pages = 1 .. Cardinality(Tabs) + MaxMoves
    /\ MaxMoves \in Nat /\ MaxAsks \in Nat
<1>1. IsFiniteSet(Tabs)
  BY PartAssumption DEF Tabbing!DetectionConstants, Tabbing!IsFiniteSet, IsFiniteSet
<1>2. Tabs # {} /\ MaxMoves \in Nat /\ MaxAsks \in Nat
  BY PartAssumption DEF Tabbing!DetectionConstants
<1>3. Tabbing!Cardinality(Tabs) = Cardinality(Tabs)
  BY DEF Tabbing!Cardinality, Cardinality
<1>4. Cardinality(Tabs) \in Nat /\ Cardinality(Tabs) # 0
  BY <1>1, <1>2, FS_CardinalityType, FS_EmptySet
<1>5. Tabbing!Pages = 1 .. Cardinality(Tabs) + MaxMoves
  BY <1>3 DEF Tabbing!Pages
<1> QED
  BY <1>1, <1>2, <1>3, <1>4, <1>5

\* The first pages number the tabs, and one of them has the first.
LEMMA TabsAreNumbered ==
    ASSUME NEW f, f = CHOOSE g \in [Tabs -> 1 .. Cardinality(Tabs)] :
                        \A s, t \in Tabs : g[s] = g[t] => s = t
    PROVE  /\ f \in [Tabs -> 1 .. Cardinality(Tabs)]
           /\ \E t \in Tabs : f[t] = 1
<1> DEFINE n == Cardinality(Tabs)
<1>1. n \in Nat \ {0} /\ IsFiniteSet(Tabs)
  BY TabsAreCounted
<1>2. ExistsBijection(Tabs, 1 .. n)
  BY <1>1, FS_CardinalityType, Fun_ExistsBijSymmetric
<1>3. PICK g : g \in Bijection(Tabs, 1 .. n)
  BY <1>2 DEF ExistsBijection
<1>4. g \in [Tabs -> 1 .. n] /\ \A s, t \in Tabs : g[s] = g[t] => s = t
  BY <1>3 DEF Bijection, Injection, IsInjective
<1>5. f \in [Tabs -> 1 .. n] /\ \A s, t \in Tabs : f[s] = f[t] => s = t
  BY <1>4
<1>6. f \in Injection(Tabs, 1 .. n)
  BY <1>5 DEF Injection, IsInjective
<1>7. IsFiniteSet(1 .. n) /\ Cardinality(1 .. n) = n
  <2>1. 1 \in Int /\ n \in Int /\ n >= 1
    BY <1>1
  <2> QED
    BY <2>1, FS_Interval
<1>8. f \in Surjection(Tabs, 1 .. n)
  BY <1>6, <1>7, FS_Injection
<1>9. 1 \in 1 .. n
  BY <1>1
<1> QED
  BY <1>5, <1>8, <1>9 DEF Surjection

-----------------------------------------------------------------------------
(* The tabs and the panel                                                  *)

\* Every page that is open was visited: there are no more than moves allow.
TabsInv ==
    /\ Tabbing!TypeOK
    /\ \A t \in Tabs : page[t] <= Cardinality(Tabs) + moves

\* What is sent to the panel, and what it shows.
Shown == [kind : {"analyzing", "found", "failed"}, page : Tabbing!Pages \cup {0}]

\* The newest page is one that is open.
LEMMA NewestIsOpen ==
    ASSUME TabsInv
    PROVE  Tabbing!Newest \in Tabbing!Pages /\ Tabbing!Newest <= Cardinality(Tabs) + moves
<1> DEFINE all == {page[t] : t \in Tabs}
           most == Cardinality(Tabs) + MaxMoves
<1>1. page \in [Tabs -> 1 .. most] /\ most \in Nat /\ Tabs # {}
  BY TabsAreCounted DEF TabsInv, Tabbing!TypeOK
<1>2. all \in SUBSET (0 .. most) /\ all # {}
  BY <1>1
<1>3. \E p \in all : \A q \in all : q <= p
  BY <1>1, <1>2, HasGreatest
<1>4. Tabbing!Newest = CHOOSE p \in all : \A q \in all : q <= p
  BY DEF Tabbing!Newest
<1>5. Tabbing!Newest \in all
  BY <1>3, <1>4
<1> QED
  BY <1>1, <1>5, TabsAreCounted DEF TabsInv

LEMMA TabsStart == Tabbing!Init => TabsInv
<1> SUFFICES ASSUME Tabbing!Init
             PROVE  TabsInv
  OBVIOUS
<1> USE TabsAreCounted
<1>1. page \in [Tabs -> 1 .. Cardinality(Tabs)] /\ \E t \in Tabs : page[t] = 1
  BY TabsAreNumbered DEF Tabbing!Init
<1>2. activeTab \in Tabs
  BY <1>1 DEF Tabbing!Init
<1>3. page \in [Tabs -> Tabbing!Pages] /\ \A t \in Tabs : page[t] <= Cardinality(Tabs) + 0
  BY <1>1
<1>4. Tabbing!Collect(activeTab, page[activeTab], FALSE) \in Tabbing!CollectType
  <2>1. activeTab \in Tabs /\ page[activeTab] \in Tabbing!Pages
    BY <1>2, <1>3
  <2> QED
    BY <2>1 DEF Tabbing!Collect, Tabbing!CollectType
<1>5. collects \subseteq Tabbing!CollectType
  BY <1>4 DEF Tabbing!Init
<1>6. port \in Seq(Shown)
  BY EmptySeq DEF Tabbing!Init
<1>7. /\ loading \subseteq Tabs /\ moves \in 0 .. MaxMoves /\ asks \in 0 .. MaxAsks /\ moves = 0
      /\ notices \subseteq [tab : Tabs, page : Tabbing!Pages]
      /\ reply \in [state : {"none", "awaited", "ready"}, page : Tabbing!Pages \cup {0}]
      /\ panel \in [state : {"analyzing", "found", "failed", "nothing"},
                    page : Tabbing!Pages \cup {0}]
  BY DEF Tabbing!Init, Tabbing!Silent, Tabbing!NoPage
<1> QED
  BY <1>2, <1>3, <1>5, <1>6, <1>7 DEF TabsInv, Tabbing!TypeOK, Shown, Tabbing!NoPage

\* A call of collectFromTab for a page that is open.
LEMMA CollectFits ==
    ASSUME NEW t \in Tabs, NEW p \in Tabbing!Pages, NEW asked \in BOOLEAN
    PROVE  Tabbing!Collect(t, p, asked) \in Tabbing!CollectType
  BY DEF Tabbing!Collect, Tabbing!CollectType

\* What is published is a message.
LEMMA PublishFits ==
    ASSUME TabsInv, NEW m \in Shown, Tabbing!Publish(m)
    PROVE  port' \in Seq(Shown)
<1>1. port \in Seq(Shown)
  BY DEF TabsInv, Tabbing!TypeOK, Shown, Tabbing!NoPage
<1> QED
  BY <1>1 DEF Tabbing!Publish

\* The end of a collection leaves the others, and perhaps an answer.
LEMMA FinishFits ==
    ASSUME TabsInv, NEW c \in collects, NEW p \in Tabbing!Pages \cup {0}, Tabbing!Finish(c, p)
    PROVE  /\ collects' \subseteq Tabbing!CollectType
           /\ reply' \in [state : {"none", "awaited", "ready"}, page : Tabbing!Pages \cup {0}]
<1>1. collects \subseteq Tabbing!CollectType
  BY DEF TabsInv, Tabbing!TypeOK
<1>2. reply \in [state : {"none", "awaited", "ready"}, page : Tabbing!Pages \cup {0}]
  BY DEF TabsInv, Tabbing!TypeOK, Tabbing!NoPage
<1>3. [state |-> "ready", page |-> p]
        \in [state : {"none", "awaited", "ready"}, page : Tabbing!Pages \cup {0}]
  OBVIOUS
<1>4. reply' = [state |-> "ready", page |-> p] \/ reply' = reply
  BY DEF Tabbing!Finish
<1> QED
  BY <1>1, <1>2, <1>3, <1>4 DEF Tabbing!Finish

LEMMA TabsStep == TabsInv /\ [Tabbing!Next]_tabVars => TabsInv'
<1> SUFFICES ASSUME TabsInv, [Tabbing!Next]_tabVars
             PROVE  TabsInv'
  OBVIOUS
<1> USE TabsAreCounted
<1> DEFINE Answered == [state : {"none", "awaited", "ready"}, page : Tabbing!Pages \cup {0}]
           Looks == [state : {"analyzing", "found", "failed", "nothing"},
                     page : Tabbing!Pages \cup {0}]
           Notices == [tab : Tabs, page : Tabbing!Pages]
<1>1. /\ activeTab \in Tabs /\ page \in [Tabs -> Tabbing!Pages] /\ loading \subseteq Tabs
      /\ moves \in 0 .. MaxMoves /\ asks \in 0 .. MaxAsks
      /\ collects \subseteq Tabbing!CollectType
      /\ notices \subseteq Notices
      /\ port \in Seq(Shown) /\ reply \in Answered /\ panel \in Looks
      /\ \A t \in Tabs : page[t] <= Cardinality(Tabs) + moves
  BY DEF TabsInv, Tabbing!TypeOK, Shown, Tabbing!NoPage
<1>g. ASSUME /\ activeTab' \in Tabs /\ page' \in [Tabs -> Tabbing!Pages]
                  /\ loading' \subseteq Tabs
             /\ moves' \in 0 .. MaxMoves /\ asks' \in 0 .. MaxAsks
             /\ collects' \subseteq Tabbing!CollectType
             /\ notices' \subseteq Notices
             /\ port' \in Seq(Shown) /\ reply' \in Answered /\ panel' \in Looks
             /\ \A t \in Tabs : page'[t] <= Cardinality(Tabs) + moves'
      PROVE  TabsInv'
  BY <1>g DEF TabsInv, Tabbing!TypeOK, Shown, Tabbing!NoPage
<1>o. \A c \in collects : /\ c.tab \in Tabs /\ c.page \in Tabbing!Pages /\ c.asked \in BOOLEAN
                          /\ [c EXCEPT !.stage = "waiting"] \in Tabbing!CollectType
  BY <1>1 DEF Tabbing!CollectType
<1>m. \A p \in Tabbing!Pages \cup {0}, k \in {"analyzing", "found", "failed"} :
        [kind |-> k, page |-> p] \in Shown /\ [state |-> k, page |-> p] \in Looks
  BY DEF Shown
<1> HIDE DEF Answered, Looks, Notices
<1>2. ASSUME NEW t \in Tabs, Tabbing!Activate(t)
      PROVE  TabsInv'
  <2>1. port' \in Seq(Shown)
    BY <1>2, <1>m, PublishFits DEF Tabbing!Activate, Tabbing!NoPage
  <2>2. Tabbing!Collect(t, page[t], FALSE) \in Tabbing!CollectType
    BY <1>1, CollectFits
  <2>3. moves' \in 0 .. MaxMoves /\ \A s \in Tabs : page[s] <= Cardinality(Tabs) + moves'
    BY <1>1, <1>2 DEF Tabbing!Activate
  <2> QED
    BY <1>1, <1>2, <1>g, <2>1, <2>2, <2>3 DEF Tabbing!Activate
<1>3. ASSUME NEW t \in Tabs, Tabbing!Navigate(t)
      PROVE  TabsInv'
  <2>1. Tabbing!Newest \in Tabbing!Pages /\ Tabbing!Newest <= Cardinality(Tabs) + moves
    BY NewestIsOpen
  <2>2. moves < MaxMoves /\ moves' = moves + 1 /\ page' = [page EXCEPT ![t] = Tabbing!Newest + 1]
    BY <1>3 DEF Tabbing!Navigate
  <2>3. Tabbing!Newest + 1 \in Tabbing!Pages /\ Tabbing!Newest + 1 <= Cardinality(Tabs) + moves'
    BY <1>1, <2>1, <2>2
  <2>4. page' \in [Tabs -> Tabbing!Pages]
          /\ \A s \in Tabs : page'[s] <= Cardinality(Tabs) + moves'
    BY <1>1, <2>2, <2>3
  <2>5. Tabbing!Collect(t, Tabbing!Newest + 1, FALSE) \in Tabbing!CollectType
    BY <2>3, CollectFits
  <2>6. moves' \in 0 .. MaxMoves
    BY <1>1, <2>2
  <2> QED
    BY <1>1, <1>3, <1>g, <2>4, <2>5, <2>6 DEF Tabbing!Navigate
<1>4. ASSUME NEW t \in Tabs, Tabbing!Complete(t)
      PROVE  TabsInv'
  <2>1. Tabbing!Collect(t, page[t], FALSE) \in Tabbing!CollectType
    BY <1>1, CollectFits
  <2> QED
    BY <1>1, <1>4, <1>g, <2>1 DEF Tabbing!Complete
<1>5. ASSUME NEW t \in Tabs, Tabbing!Notice(t)
      PROVE  TabsInv'
  <2>1. [tab |-> t, page |-> page[t]] \in Notices
    BY <1>1 DEF Notices
  <2> QED
    BY <1>1, <1>5, <1>g, <2>1 DEF Tabbing!Notice
<1>6. CASE Tabbing!Analyze
  <2>1. Tabbing!Collect(activeTab, page[activeTab], TRUE) \in Tabbing!CollectType
    BY <1>1, CollectFits
  <2>2. [state |-> "awaited", page |-> 0] \in Answered
    BY DEF Answered
  <2>3. asks' \in 0 .. MaxAsks
    BY <1>1, <1>6 DEF Tabbing!Analyze
  <2> QED
    BY <1>1, <1>6, <1>g, <1>m, <2>1, <2>2, <2>3
       DEF Tabbing!Analyze, Tabbing!NoPage, Tabbing!browserVars
<1>7. ASSUME NEW c \in collects, Tabbing!Begin(c)
      PROVE  TabsInv'
  <2>1. collects' \subseteq Tabbing!CollectType /\ reply' \in Answered
    BY <1>1, <1>7, <1>o, FinishFits DEF Tabbing!Begin, Tabbing!NoPage, Answered
  <2> QED
    BY <1>1, <1>7, <1>g, <2>1 DEF Tabbing!Begin, Tabbing!browserVars
<1>8. ASSUME NEW c \in collects, Tabbing!Found(c)
      PROVE  TabsInv'
  <2>1. collects' \subseteq Tabbing!CollectType /\ reply' \in Answered
    BY <1>8, <1>o, FinishFits DEF Tabbing!Found, Tabbing!NoPage, Answered
  <2>2. port' \in Seq(Shown)
    BY <1>1, <1>8, <1>o, <1>m, PublishFits DEF Tabbing!Found
  <2> QED
    BY <1>1, <1>8, <1>g, <2>1, <2>2 DEF Tabbing!Found, Tabbing!browserVars
<1>9. ASSUME NEW c \in collects, Tabbing!Failed(c)
      PROVE  TabsInv'
  <2>1. collects' \subseteq Tabbing!CollectType /\ reply' \in Answered
    BY <1>9, FinishFits DEF Tabbing!Failed, Tabbing!NoPage, Answered
  <2>2. port' \in Seq(Shown)
    BY <1>1, <1>9, <1>m, PublishFits DEF Tabbing!Failed, Tabbing!NoPage
  <2> QED
    BY <1>1, <1>9, <1>g, <2>1, <2>2 DEF Tabbing!Failed, Tabbing!browserVars
<1>10. ASSUME NEW n \in notices, Tabbing!Noticed(n)
       PROVE  TabsInv'
  <2>1. n.page \in Tabbing!Pages
    BY <1>1 DEF Notices
  <2>2. port' \in Seq(Shown)
    BY <1>1, <1>10, <1>m, <2>1, PublishFits DEF Tabbing!Noticed
  <2> QED
    BY <1>1, <1>10, <1>g, <2>2 DEF Tabbing!Noticed, Tabbing!browserVars
<1>11. CASE Tabbing!Receive
  <2>1. port # << >> /\ port' = Tail(port)
    BY <1>11 DEF Tabbing!Receive
  <2>2. Head(port) \in Shown /\ port' \in Seq(Shown)
    BY <1>1, <2>1
  <2>3. panel' \in Looks
    BY <1>11, <1>m, <2>2 DEF Tabbing!Receive, Shown
  <2> QED
    BY <1>1, <1>11, <1>g, <2>2, <2>3 DEF Tabbing!Receive, Tabbing!browserVars
<1>12. CASE Tabbing!Answered
  <2>1. reply.page \in Tabbing!Pages \cup {0} /\ Tabbing!Silent \in Answered
    BY <1>1 DEF Answered, Tabbing!Silent, Tabbing!NoPage
  <2>2. panel' \in Looks
    BY <1>1, <1>12, <2>1 DEF Tabbing!Answered, Looks
  <2> QED
    BY <1>1, <1>12, <1>g, <2>1, <2>2 DEF Tabbing!Answered, Tabbing!browserVars
<1>13. CASE UNCHANGED tabVars
  BY <1>1, <1>13, <1>g DEF tabVars
<1> QED
  BY <1>2, <1>3, <1>4, <1>5, <1>6, <1>7, <1>8, <1>9, <1>10, <1>11, <1>12, <1>13
     DEF Tabbing!Next, Tabbing!Working

-----------------------------------------------------------------------------
(* THE EXTENSION                                                           *)

\* One part moves in a behaviour, and the journal keeps its invariant under both
\* its users; while the captures rest, no copy of the browser is cancelled.
ExtensionInv ==
    /\ JournalInv
    /\ TypeOK
    /\ Sending!SendTypes
    /\ TabsInv
    /\ focus = "capture" => CaptureInv
    /\ focus # "capture" => \A d \in Downloads : browser[d] # "cancelled"

LEMMA ExtensionStarts == MCInit => ExtensionInv
<1> SUFFICES ASSUME MCInit
             PROVE  ExtensionInv
  OBVIOUS
<1>1. CaptureInv
  BY PartAssumption, CaptureStarts DEF MCInit
<1>2. Sending!SendTypes
  BY PartAssumption, SendsStart DEF MCInit
<1>3. TabsInv
  BY TabsStart DEF MCInit
<1>4. \A d \in Downloads : browser[d] # "cancelled"
  BY DEF MCInit, Init, CaptureInit
<1> QED
  BY <1>1, <1>2, <1>3, <1>4 DEF ExtensionInv, CaptureInv

\* The types of the captures and of the sends are those of their journal and of
\* what they keep themselves.
LEMMA TypesOfCaptures ==
    ASSUME TypeOK, UNCHANGED captureVars, JournalTypeOK'
    PROVE  TypeOK'
  BY DEF TypeOK, captureVars

LEMMA TypesOfSends ==
    ASSUME Sending!SendTypes, UNCHANGED sendVars, JournalTypeOK'
    PROVE  Sending!SendTypes'
<1>1. Sending!JournalTypeOK' <=> JournalTypeOK'
  BY DEF Sending!JournalTypeOK, Sending!CallType, Sending!RecordType, Sending!NoRecord,
         Sending!Phases, Sending!Results, Sending!Answers, Sending!Statuses,
         Sending!Unresolved, Sending!Fresh, Sending!Expired,
         JournalTypeOK, CallType, RecordType, NoRecord,
         Phases, Results, Answers, Statuses, Unresolved, Fresh, Expired
<1> QED
  BY <1>1 DEF Sending!SendTypes, sendVars

\* What the invariant says of a part stays true while the part rests.
LEMMA TabsRest ==
    ASSUME TabsInv, UNCHANGED tabVars
    PROVE  TabsInv'
  BY TabsStep

LEMMA ExtensionStep == ExtensionInv /\ [MCNext]_partVars => ExtensionInv'
<1> SUFFICES ASSUME ExtensionInv, [MCNext]_partVars
             PROVE  ExtensionInv'
  OBVIOUS
<1> USE DEF ExtensionInv
<1>1. CASE InCapture(Next)
  <2>1. focus = "capture" /\ Next /\ UNCHANGED <<sendVars, tabVars, focus>>
    BY <1>1 DEF InCapture
  <2>2. CaptureInv'
    BY <2>1, PartAssumption, CaptureSteps
  <2>3. JournalInv' /\ TypeOK' /\ JournalTypeOK'
    BY <2>2 DEF CaptureInv, JournalInv
  <2>4. Sending!SendTypes' /\ TabsInv'
    BY <2>1, <2>3, TypesOfSends, TabsRest
  <2> QED
    BY <2>1, <2>2, <2>3, <2>4
<1>2. CASE InSend(Sending!SendNext)
  <2>1. focus = "send" /\ Sending!SendNext /\ UNCHANGED <<captureVars, tabVars, focus>>
    BY <1>2 DEF InSend
  <2>2. Sending!SendTypes' /\ JournalInv'
    BY <2>1, PartAssumption, SendsStep
  <2>3. TypeOK' /\ TabsInv'
    BY <2>1, <2>2, TypesOfCaptures, TabsRest DEF JournalInv
  <2>4. UNCHANGED browser
    BY <2>1 DEF captureVars
  <2> QED
    BY <2>1, <2>2, <2>3, <2>4
<1>3. CASE InTabs(Tabbing!Next)
  <2>1. focus = "tabs" /\ Tabbing!Next /\ UNCHANGED <<journalVars, captureVars, sendVars, focus>>
    BY <1>3 DEF InTabs
  <2>2. TabsInv'
    BY <2>1, TabsStep
  <2>3. JournalInv' /\ JournalTypeOK'
    <3>1. [NextAnyhow]_journalVars
      BY <2>1
    <3> QED
      BY <3>1, StepsAnyhow DEF JournalInv
  <2>4. TypeOK' /\ Sending!SendTypes'
    BY <2>1, <2>3, TypesOfCaptures, TypesOfSends
  <2>5. UNCHANGED browser
    BY <2>1 DEF captureVars
  <2> QED
    BY <2>1, <2>2, <2>3, <2>4, <2>5
<1>4. CASE UNCHANGED partVars
  <2>1. UNCHANGED <<journalVars, captureVars, sendVars, tabVars, focus>>
    BY <1>4 DEF partVars
  <2>2. TabsInv'
    BY <2>1, TabsRest
  <2>3. JournalInv' /\ JournalTypeOK'
    <3>1. [NextAnyhow]_journalVars
      BY <2>1
    <3> QED
      BY <3>1, StepsAnyhow DEF JournalInv
  <2>4. TypeOK' /\ Sending!SendTypes'
    BY <2>1, <2>3, TypesOfCaptures, TypesOfSends
  <2>5. focus = "capture" => CaptureInv'
    <3>1. CASE focus = "capture"
      <4>1. [Next]_vars
        BY <2>1 DEF vars
      <4> QED
        BY <3>1, <4>1, PartAssumption, CaptureSteps
    <3> QED
      BY <3>1
  <2>6. UNCHANGED browser /\ UNCHANGED focus
    BY <2>1 DEF captureVars
  <2> QED
    BY <2>2, <2>3, <2>4, <2>5, <2>6
<1> QED
  BY <1>1, <1>2, <1>3, <1>4 DEF MCNext

-----------------------------------------------------------------------------
(* Theorems                                                                *)

\* Captures, sends and tabs keep their types, whatever is lost, closed, repeated
\* or restarted (service-worker.js, sidepanel.js, operation-journal.js).
THEOREM PartsKeepTypes == MCSpec => []PartTypes
<1>1. ExtensionInv => PartTypes
  BY DEF ExtensionInv, PartTypes, TabsInv
<1> QED
  BY <1>1, ExtensionStarts, ExtensionStep, PTL DEF MCSpec

\* In the extension as it runs nothing whose fate is unknown is sent again, neither
\* as a capture nor as a selection.
THEOREM ExtensionNeverResends == MCSpec => []NoBlindResend
<1>1. ExtensionInv => NoBlindResend
  BY DoubtIsAlone DEF ExtensionInv
<1> QED
  BY <1>1, ExtensionStarts, ExtensionStep, PTL DEF MCSpec

\* Nor is a copy of the browser cancelled that the application has not taken.
THEOREM ExtensionLosesNothing == MCSpec => []CancelledMeansTaken
<1>1. ExtensionInv => CancelledMeansTaken
  BY DEF ExtensionInv, CaptureInv, CancelledRests, CancelledMeansTaken
<1> QED
  BY <1>1, ExtensionStarts, ExtensionStep, PTL DEF MCSpec

\* And where the browser raises onCreated first, the extension as it runs lets a copy
\* go on only when the application has refused it.
THEOREM ExtensionResumesRefused ==
    ASSUME CreatedFirst
    PROVE  MCSpec => ResumedMeansRefused
<1> DEFINE First == focus = "capture" => FirstRunInv
           Refusing == \A d \in resumed' \ resumed, u \in Urls :
                          messages[CaptureId(d, u)] \in {"none", "refused"}
<1>1. MCInit => First
  BY PartAssumption, FirstRunStarts DEF MCInit
<1>2. ASSUME ExtensionInv, First, [MCNext]_partVars
      PROVE  First' /\ [Refusing]_vars
  <2>1. CASE focus = "capture"
    <3>1. CaptureInv /\ FirstRunInv /\ [Next]_vars /\ UNCHANGED focus
      BY <1>2, <2>1 DEF ExtensionInv, MCNext, InCapture, InSend, InTabs, partVars, vars
    <3>2. FirstRunInv'
      BY <3>1, PartAssumption, FirstRunSteps
    <3>3. Refusing
      BY <3>1, PartAssumption, ResumesRefused
    <3> QED
      BY <3>1, <3>2, <3>3
  <2>2. CASE focus # "capture"
    <3>1. UNCHANGED focus /\ UNCHANGED resumed
      BY <1>2, <2>2 DEF MCNext, InCapture, InSend, InTabs, partVars, captureVars
    <3> QED
      BY <2>2, <3>1
  <2> QED
    BY <2>1, <2>2
<1> QED
  BY <1>1, <1>2, ExtensionStarts, ExtensionStep, PTL DEF MCSpec, ResumedMeansRefused
=============================================================================
