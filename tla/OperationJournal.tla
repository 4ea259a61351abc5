-------------------------- MODULE OperationJournal --------------------------
(***************************************************************************)
(* extension/sdk/operation-journal.js over cdm-native-client.js: what the  *)
(* extension's worker sends to the application is entered in a journal in  *)
(* storage.local first, so that a lost answer, a second request for the    *)
(* same thing or the death of the worker does not send it twice.           *)
(*                                                                         *)
(* A call is one use of run(): a captured browser download or a selection  *)
(* sent by the user.  `print` is its fingerprint.                          *)
(***************************************************************************)
EXTENDS Naturals, FiniteSets

CONSTANTS
    Calls,       \* the callers, each with at most one run() at a time
    Ids,         \* operation identifiers
    Prints,      \* fingerprints
    HostReplies, \* what the host may answer: "busy" to captures only
    Capacity,    \* 500 in the code
    MaxRestarts  \* bound: how often the worker dies

ASSUME JournalAssumption ==
    /\ IsFiniteSet(Ids)
    /\ HostReplies \subseteq {"accepted", "rejected", "busy"}
    /\ Capacity \in Nat \ {0}
    /\ MaxRestarts \in Nat

VARIABLES
    calls,     \* calls[c]: the run() of c
    records,   \* the journal in storage.local
    active,    \* the Map `active`: fingerprint to the call that owns it
    messages,  \* messages[i]: what became of the message of operation i
    settled,   \* operations whose last message's answer the journal has seen
    waived,    \* operations whose last message the user let it disregard
    restarts

journalVars == <<calls, records, active, messages, settled, waived, restarts>>

\* What run() may return; "error" when it throws. "busy" is temporary_failure.
Answers    == {"accepted", "rejected", "busy", "uncertain"}
Results    == Answers \cup {"error", "none"}
Unresolved == {"pending", "uncertain"}
Statuses   == Unresolved \cup {"accepted", "rejected", "superseded"}
Phases     == {"none", "waiting", "checking", "calling", "sent", "answered",
               "done", "lost"}
Live       == {"waiting", "checking", "calling", "sent", "answered"}

NoRecord == [status |-> "none"]

\* Ages: younger than two seconds, older, older than a day.
Fresh == 0
Expired == 2

Record(print, status, result) ==
    [print |-> print, status |-> status, result |-> result, age |-> Fresh]

\* Mutants: an unknown outcome filed like a refusal; the result as it is.
FiledSettled(result) == IF result = "accepted" THEN "accepted" ELSE "rejected"
FiledRaw(result) == result

\* The status under which a result is filed.
Filed(result) ==
    CASE result = "uncertain" -> "uncertain"
      [] result = "accepted"  -> "accepted"
      [] OTHER                -> "rejected"

Recorded == {i \in Ids : records[i] # NoRecord}
Of(print) == {i \in Recorded : records[i].print = print}
InDoubt(print) == {i \in Of(print) : records[i].status \in Unresolved}
JustAccepted(print) ==
    {i \in Of(print) : records[i].status = "accepted" /\ records[i].age = Fresh}
Prunable ==
    {i \in Recorded : records[i].status \notin Unresolved /\ records[i].age = Expired}

Idle == [phase |-> "none", result |-> "none"]

JournalInit ==
    /\ calls = [c \in Calls |-> Idle]
    /\ records = [i \in Ids |-> NoRecord]
    /\ active = [p \in Prints |-> {}]
    /\ messages = [i \in Ids |-> "none"]
    /\ settled = {}
    /\ waived = {}
    /\ restarts = 0

----------------------------------------------------------------------------
(* run(): the synchronous part, then the two serialized sections around    *)
(* the operation.                                                          *)

\* A call for a fingerprint that is being worked on gets that call's promise.
Enter(c, id, print, retry) ==
    /\ calls[c].phase \notin Live
    /\ calls' = [calls EXCEPT ![c] =
         [phase |-> IF active[print] = {} THEN "checking" ELSE "waiting",
          id |-> id, print |-> print, retry |-> retry, result |-> "none"]]
    /\ active' = IF active[print] = {} THEN [active EXCEPT ![print] = {c}] ELSE active
    /\ UNCHANGED <<records, messages, settled, waived, restarts>>

\* The promise resolves for its owner and for those who share it; `finally`
\* takes it out of the map.
Resolve(c, result) ==
    LET p == calls[c].print IN
    /\ calls' = [d \in Calls |->
         IF d = c \/ (calls[d].phase = "waiting" /\ calls[d].print = p)
         THEN [calls[d] EXCEPT !.phase = "done", !.result = result]
         ELSE calls[d]]
    /\ active' = [active EXCEPT ![p] = {}]

\* The identifier is known: its result, or uncertain when there is none yet.
CheckKnown(c) ==
    LET r == records[calls[c].id] IN
    /\ calls[c].phase = "checking"
    /\ r # NoRecord
    /\ Resolve(c, IF r.print # calls[c].print THEN "error"
                  ELSE IF r.result = "none" THEN "uncertain" ELSE r.result)
    /\ UNCHANGED <<records, messages, settled, waived, restarts>>

\* Somebody else's record of the same fingerprint answers the call; which of
\* two does depends on the order of the entries.
CheckAnswered(c) ==
    LET p == calls[c].print IN
    /\ calls[c].phase = "checking"
    /\ records[calls[c].id] = NoRecord
    /\ \/ /\ InDoubt(p) # {} /\ ~calls[c].retry
          /\ Resolve(c, "uncertain")
       \/ /\ JustAccepted(p) # {}
          /\ Resolve(c, "accepted")
    /\ UNCHANGED <<records, messages, settled, waived, restarts>>

\* Nothing answers the call. A retry the user allowed supersedes what is in
\* doubt; expired records are pruned, never one that is unresolved.
Passes(c) ==
    LET p == calls[c].print IN
    /\ calls[c].phase = "checking"
    /\ records[calls[c].id] = NoRecord
    /\ JustAccepted(p) = {}
    /\ InDoubt(p) = {} \/ calls[c].retry

Superseded(p) ==
    [i \in Ids |-> IF i \in InDoubt(p)
                   THEN [records[i] EXCEPT !.status = "superseded", !.result = "uncertain"]
                   ELSE records[i]]

CheckFull(c) ==
    /\ Passes(c)
    /\ Cardinality(Recorded \ Prunable) >= Capacity
    /\ Resolve(c, "error")
    /\ UNCHANGED <<records, messages, settled, waived, restarts>>

CheckEnters(c) ==
    LET p == calls[c].print
        kept == [i \in Ids |-> IF i \in Prunable THEN NoRecord ELSE Superseded(p)[i]]
    IN
    /\ Passes(c)
    /\ Cardinality(Recorded \ Prunable) < Capacity
    /\ records' = [kept EXCEPT ![calls[c].id] = Record(p, "pending", "none")]
    /\ waived' = waived \cup InDoubt(p)
    /\ calls' = [calls EXCEPT ![c].phase = "calling"]
    /\ UNCHANGED <<active, messages, settled, restarts>>

\* sendCDMNativeMessage shakes hands first; what fails there is never sent.
CallFails(c) ==
    /\ calls[c].phase = "calling"
    /\ calls' = [calls EXCEPT ![c].phase = "answered", ![c].result = "uncertain"]
    /\ UNCHANGED <<records, active, messages, settled, waived, restarts>>

Send(c) ==
    /\ calls[c].phase = "calling"
    /\ calls' = [calls EXCEPT ![c].phase = "sent"]
    /\ messages' = [messages EXCEPT ![calls[c].id] = "open"]
    /\ settled' = settled \ {calls[c].id}
    /\ waived' = waived \ {calls[c].id}
    /\ UNCHANGED <<records, active, restarts>>

\* Mutant: no limit on the wait.
TimesOutNever(c) ==
    /\ calls[c].phase = "sent"
    /\ FALSE
    /\ UNCHANGED journalVars

\* The host answers with what the application said, or that it could not find
\* out; eight seconds without an answer, or a broken bridge, are uncertain.
HostAnswers(c, answer) ==
    /\ calls[c].phase = "sent"
    /\ \/ answer = "accepted" /\ messages[calls[c].id] = "taken"
       \/ answer = "rejected" /\ messages[calls[c].id] = "refused"
       \/ answer = "busy"
    /\ calls' = [calls EXCEPT ![c].phase = "answered", ![c].result = answer]
    /\ UNCHANGED <<records, active, messages, settled, waived, restarts>>

TimesOut(c) ==
    /\ calls[c].phase = "sent"
    /\ calls' = [calls EXCEPT ![c].phase = "answered", ![c].result = "uncertain"]
    /\ UNCHANGED <<records, active, messages, settled, waived, restarts>>

Save(c) ==
    LET r == calls[c].result IN
    /\ calls[c].phase = "answered"
    /\ records' = [records EXCEPT ![calls[c].id] = Record(calls[c].print, Filed(r), r)]
    /\ settled' = IF r = "uncertain" THEN settled ELSE settled \cup {calls[c].id}
    /\ Resolve(c, r)
    /\ UNCHANGED <<messages, waived, restarts>>

----------------------------------------------------------------------------
(* The application, the clock, and the death of the worker.                *)

\* The application finds the message in its inbox, perhaps long after the
\* worker stopped waiting for it.
AppReads(i) ==
    /\ messages[i] = "open"
    /\ \E what \in {"taken", "refused"} : messages' = [messages EXCEPT ![i] = what]
    /\ UNCHANGED <<calls, records, active, settled, waived, restarts>>

Ages(i) ==
    /\ records[i] # NoRecord
    /\ records[i].age < Expired
    /\ records' = [records EXCEPT ![i].age = @ + 1]
    /\ UNCHANGED <<calls, active, messages, settled, waived, restarts>>

WorkerDies ==
    /\ restarts < MaxRestarts
    /\ restarts' = restarts + 1
    /\ active' = [p \in Prints |-> {}]
    /\ calls' = [c \in Calls |-> IF calls[c].phase \in Live
                                 THEN [calls[c] EXCEPT !.phase = "lost"]
                                 ELSE calls[c]]
    /\ UNCHANGED <<records, messages, settled, waived>>

\* What the worker does by itself, and what it does on the host's answer.
Settling(c) ==
    \/ CheckKnown(c) \/ CheckAnswered(c) \/ CheckFull(c) \/ CheckEnters(c)
    \/ CallFails(c) \/ Send(c) \/ TimesOut(c) \/ Save(c)

Working(c) ==
    \/ Settling(c)
    \/ \E answer \in HostReplies : HostAnswers(c, answer)

World == \E i \in Ids : AppReads(i) \/ Ages(i)

\* The journal under any callers that may use it.
JournalNext ==
    \/ \E c \in Calls : Working(c)
    \/ \E c \in Calls, i \in Ids, p \in Prints, retry \in BOOLEAN : Enter(c, i, p, retry)
    \/ World
    \/ WorkerDies

JournalSpec == JournalInit /\ [][JournalNext]_journalVars

----------------------------------------------------------------------------
(* Properties, of every module that uses the journal.                      *)

CallType ==
    [phase : {"none"}, result : {"none"}]
      \cup [phase : Phases \ {"none"}, id : Ids, print : Prints, retry : BOOLEAN,
            result : Results]

RecordType ==
    {NoRecord} \cup [print : Prints, status : Statuses, age : Fresh .. Expired,
                     result : Results \ {"error"}]

JournalTypeOK ==
    /\ calls \in [Calls -> CallType]
    /\ records \in [Ids -> RecordType]
    /\ active \in [Prints -> SUBSET Calls]
    /\ messages \in [Ids -> {"none", "open", "taken", "refused"}]
    /\ settled \subseteq Ids /\ waived \subseteq Ids
    /\ restarts \in 0 .. MaxRestarts

\* Operations that were handed to the bridge and whose fate is unknown: no
\* answer was filed, and the user was not asked.
Doubted == {i \in Ids : messages[i] # "none" /\ i \notin settled \cup waived}

\* A message whose fate is unknown stays in the journal as unresolved, through
\* lost answers, pruning and the death of the worker, and the same thing is not
\* sent again beside it.
NoBlindResend ==
    \A i \in Doubted :
       /\ records[i].status \in Unresolved
       /\ \A j \in Doubted \ {i} : records[j].print # records[i].print
=============================================================================
