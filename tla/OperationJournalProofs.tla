----------------------- MODULE OperationJournalProofs -----------------------
(***************************************************************************)
(* Proofs about OperationJournal, for any callers, identifiers, prints,    *)
(* answers of the host, capacity and number of restarts.                   *)
(***************************************************************************)
EXTENDS OperationJournal, TLAPS

\* A call that has left phase "none", and an entry of the journal.
Taken == [phase : Phases \ {"none"}, id : Ids, print : Prints, retry : BOOLEAN,
          result : Results]
Entry == [print : Prints, status : Statuses, age : Fresh .. Expired,
          result : Results \ {"error"}]

\* Phases in which a call owns its fingerprint, and those in which its record
\* is in the journal.
Owning     == Live \ {"waiting"}
Delivering == {"calling", "sent", "answered"}

-----------------------------------------------------------------------------
(* The inductive invariant                                                 *)

\* The Map of active fingerprints names calls that are at work on them ...
ActiveOwns ==
    \A p \in Prints : \A c \in active[p] : calls[c].phase \in Owning /\ calls[c].print = p

\* ... and every call that is at work is alone on its fingerprint.
OwnerIsActive ==
    \A c \in Calls : calls[c].phase \in Owning => active[calls[c].print] = {c}

\* Between the two serialized sections the record of a call stays pending.
RecordIsPending ==
    \A c \in Calls : calls[c].phase \in Delivering =>
        /\ records[calls[c].id].status = "pending"
        /\ records[calls[c].id].print = calls[c].print

\* An answer is one that can be filed.
AnswerIsFiled ==
    \A c \in Calls : calls[c].phase = "answered" => calls[c].result \in Answers

\* One record of a fingerprint at most is unresolved.
OneUnresolved ==
    \A i, j \in Ids :
        /\ records[i].status \in Unresolved
        /\ records[j].status \in Unresolved
        /\ records[i].print = records[j].print
        => i = j

\* What was handed to the bridge and is not settled is unresolved.
DoubtIsRecorded == \A i \in Doubted : records[i].status \in Unresolved

JournalInv ==
    /\ JournalTypeOK
    /\ ActiveOwns
    /\ OwnerIsActive
    /\ RecordIsPending
    /\ AnswerIsFiled
    /\ OneUnresolved
    /\ DoubtIsRecorded

\* The invariant rests neither on the journal's capacity nor on the answers the
\* host is known to give: it holds when an entry is made, or refused, however full
\* the journal is, and whatever the host answers.
Replies == {"accepted", "rejected", "busy"}

EntersAnyhow(c) ==
    LET p == calls[c].print
        kept == [i \in Ids |-> IF i \in Prunable THEN NoRecord ELSE Superseded(p)[i]]
    IN
    /\ Passes(c)
    /\ records' = [kept EXCEPT ![calls[c].id] = Record(p, "pending", "none")]
    /\ waived' = waived \cup InDoubt(p)
    /\ calls' = [calls EXCEPT ![c].phase = "calling"]
    /\ UNCHANGED <<active, messages, settled, restarts>>

FailsAnyhow(c) ==
    /\ Passes(c)
    /\ Resolve(c, "error")
    /\ UNCHANGED <<records, messages, settled, waived, restarts>>

WorkingAnyhow(c) ==
    \/ CheckKnown(c) \/ CheckAnswered(c) \/ FailsAnyhow(c) \/ EntersAnyhow(c)
    \/ CallFails(c) \/ Send(c) \/ TimesOut(c) \/ Save(c)
    \/ \E answer \in Replies : HostAnswers(c, answer)

NextAnyhow ==
    \/ \E c \in Calls : WorkingAnyhow(c)
    \/ \E c \in Calls, i \in Ids, p \in Prints, retry \in BOOLEAN : Enter(c, i, p, retry)
    \/ World
    \/ WorkerDies

-----------------------------------------------------------------------------
(* Facts about calls and records                                           *)

\* What a call in a phase other than "none" is made of.
LEMMA TakenCalls ==
    ASSUME JournalTypeOK, NEW c \in Calls, calls[c].phase # "none"
    PROVE  calls[c] \in Taken
  BY DEF JournalTypeOK, CallType, Taken

\* A call that moves on keeps its identifier, its fingerprint and its consent.
LEMMA MovedCall ==
    ASSUME NEW r \in Taken, NEW phase \in Phases \ {"none"}, NEW result \in Results
    PROVE  /\ [r EXCEPT !.phase = phase, !.result = result] \in Taken
           /\ [r EXCEPT !.phase = phase, !.result = result].phase = phase
           /\ [r EXCEPT !.phase = phase, !.result = result].result = result
           /\ [r EXCEPT !.phase = phase, !.result = result].id = r.id
           /\ [r EXCEPT !.phase = phase, !.result = result].print = r.print
           /\ [r EXCEPT !.phase = phase] \in Taken
           /\ [r EXCEPT !.phase = phase].phase = phase
           /\ [r EXCEPT !.phase = phase].result = r.result
           /\ [r EXCEPT !.phase = phase].id = r.id
           /\ [r EXCEPT !.phase = phase].print = r.print
  BY DEF Taken

\* A record is an entry, or there is none.
LEMMA RecordCases ==
    ASSUME JournalTypeOK, NEW i \in Ids
    PROVE  /\ records[i] = NoRecord \/ records[i] \in Entry
           /\ records[i] # NoRecord <=> records[i].status # "none"
           /\ records[i] # NoRecord => records[i] \in Entry
           /\ records[i].status \in Unresolved => records[i] # NoRecord
  BY DEF JournalTypeOK, RecordType, Entry, NoRecord, Statuses, Unresolved

\* Two calls that are at work have different fingerprints.
LEMMA OwnersDiffer ==
    ASSUME JournalTypeOK, OwnerIsActive,
           NEW c \in Calls, NEW d \in Calls, c # d,
           calls[c].phase \in Owning, calls[d].phase \in Owning
    PROVE  calls[c].print # calls[d].print
  BY DEF OwnerIsActive

\* Two calls whose records are in the journal have different identifiers.
LEMMA DeliveriesDiffer ==
    ASSUME JournalTypeOK, OwnerIsActive, RecordIsPending,
           NEW c \in Calls, NEW d \in Calls, c # d,
           calls[c].phase \in Delivering, calls[d].phase \in Delivering
    PROVE  calls[c].id # calls[d].id
<1>1. calls[c].phase \in Owning /\ calls[d].phase \in Owning
  BY DEF Delivering, Owning, Live
<1>2. calls[c].print # calls[d].print
  BY <1>1, OwnersDiffer
<1> QED
  BY <1>2 DEF RecordIsPending

\* The end of a run(): those who shared the promise end with its owner, and
\* nobody else is touched.
LEMMA Resolved ==
    ASSUME JournalTypeOK, ActiveOwns, OwnerIsActive,
           NEW c \in Calls, calls[c].phase \in Owning,
           NEW result \in Results, Resolve(c, result)
    PROVE  /\ calls' \in [Calls -> CallType]
           /\ active' \in [Prints -> SUBSET Calls]
           /\ ActiveOwns'
           /\ OwnerIsActive'
           /\ \A d \in Calls : calls'[d].phase \in Owning => calls'[d] = calls[d] /\ d # c
           /\ calls'[c].phase = "done" /\ calls'[c].result = result
<1>1. calls[c] \in Taken
  BY TakenCalls DEF Owning, Live
<1>2. ASSUME NEW d \in Calls, calls'[d] # calls[d]
      PROVE  calls'[d] \in Taken /\ calls'[d].phase = "done"
  <2>1. calls'[d] = [calls[d] EXCEPT !.phase = "done", !.result = result]
        /\ (d = c \/ calls[d].phase = "waiting")
    BY <1>2 DEF Resolve
  <2>2. calls[d] \in Taken
    BY <2>1, <1>1, TakenCalls
  <2> QED
    BY <2>1, <2>2 DEF Taken, Phases
<1>3. calls'[c] = [calls[c] EXCEPT !.phase = "done", !.result = result]
  BY DEF Resolve
<1>4. calls'[c].phase = "done" /\ calls'[c].result = result
  BY <1>1, <1>3 DEF Taken, Phases
<1>5. \A d \in Calls : calls'[d] \in CallType
  BY <1>2 DEF JournalTypeOK, CallType, Taken
<1>6. calls' \in [Calls -> CallType]
  BY <1>5 DEF Resolve
<1>7. calls[c].print \in Prints /\ active' = [active EXCEPT ![calls[c].print] = {}]
  BY <1>1 DEF Resolve, Taken
<1>8. active' \in [Prints -> SUBSET Calls]
  BY <1>7 DEF JournalTypeOK
<1>9. \A d \in Calls : calls'[d].phase \in Owning => calls'[d] = calls[d] /\ d # c
  BY <1>2, <1>4 DEF Owning, Live
<1>10. ActiveOwns'
  <2> SUFFICES ASSUME NEW p \in Prints, NEW d \in active'[p]
               PROVE  calls'[d].phase \in Owning /\ calls'[d].print = p
    BY DEF ActiveOwns
  <2>1. p # calls[c].print /\ d \in active[p]
    BY <1>7 DEF JournalTypeOK
  <2>2. d \in Calls /\ calls[d].phase \in Owning /\ calls[d].print = p
    BY <2>1 DEF ActiveOwns, JournalTypeOK
  <2>3. calls'[d] = calls[d]
    BY <2>1, <2>2 DEF Resolve, Owning
  <2> QED
    BY <2>2, <2>3
<1>11. OwnerIsActive'
  <2> SUFFICES ASSUME NEW d \in Calls, calls'[d].phase \in Owning
               PROVE  active'[calls'[d].print] = {d}
    BY DEF OwnerIsActive
  <2>1. calls'[d] = calls[d] /\ d # c
    BY <1>9
  <2>2. calls[d].print # calls[c].print /\ active[calls[d].print] = {d}
    BY <2>1, OwnersDiffer DEF OwnerIsActive
  <2>3. calls[d].print \in Prints
    BY <2>1, TakenCalls DEF Taken, Owning, Live
  <2> QED
    BY <1>7, <2>1, <2>2, <2>3 DEF JournalTypeOK
<1> QED
  BY <1>4, <1>6, <1>8, <1>9, <1>10, <1>11

-----------------------------------------------------------------------------
(* The invariant is inductive                                              *)

LEMMA JournalStarts == JournalInit => JournalInv
<1> SUFFICES ASSUME JournalInit
             PROVE  JournalInv
  OBVIOUS
<1> USE DEF JournalInit, Idle, NoRecord
<1>1. JournalTypeOK
  BY JournalAssumption
     DEF JournalAssumption, JournalTypeOK, CallType, RecordType, Results, Answers
<1>2. ActiveOwns /\ OwnerIsActive /\ RecordIsPending /\ AnswerIsFiled
  BY DEF ActiveOwns, OwnerIsActive, RecordIsPending, AnswerIsFiled, Owning, Delivering, Live
<1>3. OneUnresolved /\ DoubtIsRecorded
  BY DEF OneUnresolved, DoubtIsRecorded, Unresolved, Doubted
<1> QED
  BY <1>1, <1>2, <1>3 DEF JournalInv

\* A call that is resolved from the journal as it is.
LEMMA ResolvedKeeps ==
    ASSUME JournalInv, NEW c \in Calls, calls[c].phase \in Owning,
           NEW result \in Results, Resolve(c, result),
           UNCHANGED <<records, messages, settled, waived, restarts>>
    PROVE  JournalInv'
<1> USE DEF JournalInv
<1>1. /\ calls' \in [Calls -> CallType] /\ active' \in [Prints -> SUBSET Calls]
      /\ ActiveOwns' /\ OwnerIsActive'
      /\ \A d \in Calls : calls'[d].phase \in Owning => calls'[d] = calls[d] /\ d # c
  BY Resolved
<1>2. JournalTypeOK'
  BY <1>1 DEF JournalTypeOK
<1>3. RecordIsPending' /\ AnswerIsFiled'
  BY <1>1 DEF RecordIsPending, AnswerIsFiled, Delivering, Owning, Live
<1>4. OneUnresolved' /\ DoubtIsRecorded'
  BY DEF OneUnresolved, DoubtIsRecorded, Doubted
<1> QED
  BY <1>1, <1>2, <1>3, <1>4

\* A caller takes its fingerprint, or shares the promise of who has it.
LEMMA EnterKeeps ==
    ASSUME JournalInv, NEW c \in Calls, NEW id \in Ids, NEW print \in Prints,
           NEW retry \in BOOLEAN, Enter(c, id, print, retry)
    PROVE  JournalInv'
<1> USE DEF JournalInv
<1> DEFINE call == [phase |-> IF active[print] = {} THEN "checking" ELSE "waiting",
                    id |-> id, print |-> print, retry |-> retry, result |-> "none"]
<1>1. /\ calls' = [calls EXCEPT ![c] = call]
      /\ active' = IF active[print] = {} THEN [active EXCEPT ![print] = {c}] ELSE active
      /\ UNCHANGED <<records, messages, settled, waived, restarts>>
      /\ calls[c].phase \notin Live
  BY DEF Enter
<1>2. call \in CallType /\ call.print = print
      /\ call.phase \notin Delivering
      /\ (call.phase \in Owning <=> active[print] = {})
  BY DEF CallType, Phases, Results, Delivering, Owning, Live
<1> HIDE DEF call
<1>3. JournalTypeOK'
  BY <1>1, <1>2 DEF JournalTypeOK
<1>4. /\ calls'[c] = call
      /\ \A d \in Calls \ {c} : calls'[d] = calls[d]
  BY <1>1 DEF JournalTypeOK
<1>5. \A p \in Prints : active'[p] = IF p = print /\ active[print] = {} THEN {c} ELSE active[p]
  BY <1>1 DEF JournalTypeOK
<1>6. \A p \in Prints : c \notin active[p]
  BY <1>1 DEF ActiveOwns, Owning
<1>7. ActiveOwns'
  BY <1>2, <1>4, <1>5, <1>6 DEF ActiveOwns, JournalTypeOK
<1>8. OwnerIsActive'
  <2> SUFFICES ASSUME NEW d \in Calls, calls'[d].phase \in Owning
               PROVE  active'[calls'[d].print] = {d}
    BY DEF OwnerIsActive
  <2>1. CASE d = c
    BY <2>1, <1>2, <1>4, <1>5
  <2>2. CASE d # c
    <3>1. calls'[d] = calls[d] /\ active[calls[d].print] = {d}
      BY <2>2, <1>4 DEF OwnerIsActive
    <3>2. calls[d].print \in Prints
      BY <3>1, TakenCalls DEF Taken, Owning, Live
    <3> QED
      BY <3>1, <3>2, <1>5
  <2> QED
    BY <2>1, <2>2
<1>9. RecordIsPending' /\ AnswerIsFiled'
  BY <1>1, <1>2, <1>4 DEF RecordIsPending, AnswerIsFiled, Delivering
<1>10. OneUnresolved' /\ DoubtIsRecorded'
  BY <1>1 DEF OneUnresolved, DoubtIsRecorded, Doubted
<1> QED
  BY <1>3, <1>7, <1>8, <1>9, <1>10

\* A call that stays at work, with the journal as it is.
LEMMA MovingKeeps ==
    ASSUME JournalInv, NEW c \in Calls, calls[c].phase \in Delivering,
           NEW call \in Taken, calls' = [calls EXCEPT ![c] = call],
           call.phase \in Delivering,
           call.id = calls[c].id, call.print = calls[c].print,
           call.phase = "answered" => call.result \in Answers,
           UNCHANGED <<records, active, restarts>>
    PROVE  /\ calls' \in [Calls -> CallType]
           /\ ActiveOwns' /\ OwnerIsActive' /\ RecordIsPending' /\ AnswerIsFiled'
           /\ OneUnresolved'
<1> USE DEF JournalInv
<1>1. calls' \in [Calls -> CallType]
  BY DEF JournalTypeOK, CallType, Taken
<1>2. calls'[c] = call /\ \A d \in Calls \ {c} : calls'[d] = calls[d]
  BY DEF JournalTypeOK
<1>3. call.phase \in Owning /\ calls[c].phase \in Owning
  BY DEF Delivering, Owning, Live
<1>4. ActiveOwns' /\ OwnerIsActive'
  BY <1>2, <1>3 DEF ActiveOwns, OwnerIsActive, JournalTypeOK
<1>5. RecordIsPending' /\ AnswerIsFiled'
  BY <1>2 DEF RecordIsPending, AnswerIsFiled
<1>6. OneUnresolved'
  BY DEF OneUnresolved
<1> QED
  BY <1>1, <1>4, <1>5, <1>6

\* What is sent is doubted, and its record is the pending one.
LEMMA SendKeeps ==
    ASSUME JournalInv, NEW c \in Calls, Send(c)
    PROVE  JournalInv'
<1> USE DEF JournalInv
<1> DEFINE call == [calls[c] EXCEPT !.phase = "sent"]
<1>1. calls[c] \in Taken /\ calls[c].id \in Ids
  BY TakenCalls DEF Send, Taken
<1>2. /\ call \in Taken /\ call.phase = "sent"
      /\ call.id = calls[c].id /\ call.print = calls[c].print
  BY <1>1 DEF Taken, Phases
<1>3. calls' = [calls EXCEPT ![c] = call] /\ UNCHANGED <<records, active, restarts>>
  BY DEF Send
<1>4. /\ calls' \in [Calls -> CallType]
      /\ ActiveOwns' /\ OwnerIsActive' /\ RecordIsPending' /\ AnswerIsFiled'
      /\ OneUnresolved'
  <2> HIDE DEF call
  <2> QED
    BY <1>2, <1>3, MovingKeeps DEF Send, Delivering
<1>5. JournalTypeOK'
  BY <1>1, <1>3, <1>4 DEF JournalTypeOK, Send
<1>6. Doubted' \subseteq Doubted \cup {calls[c].id}
  BY <1>1 DEF Doubted, Send, JournalTypeOK
<1>7. records[calls[c].id].status \in Unresolved
  BY DEF RecordIsPending, Send, Delivering, Unresolved
<1>8. DoubtIsRecorded'
  BY <1>3, <1>6, <1>7 DEF DoubtIsRecorded
<1> QED
  BY <1>4, <1>5, <1>8

\* An answer, or the end of the wait for one, leaves the journal as it is.
LEMMA AnswerKeeps ==
    ASSUME JournalInv, NEW c \in Calls,
           CallFails(c) \/ TimesOut(c) \/ \E answer \in Replies : HostAnswers(c, answer)
    PROVE  JournalInv'
<1> USE DEF JournalInv
<1>1. PICK result \in Answers :
        /\ calls' = [calls EXCEPT ![c].phase = "answered", ![c].result = result]
        /\ calls[c].phase \in Delivering
        /\ UNCHANGED <<records, active, messages, settled, waived, restarts>>
  BY DEF CallFails, TimesOut, HostAnswers, Answers, Delivering, Replies
<1> DEFINE call == [calls[c] EXCEPT !.phase = "answered", !.result = result]
<1>2. calls[c] \in Taken
  BY <1>1, TakenCalls DEF Delivering
<1>3. /\ call \in Taken /\ call.phase = "answered" /\ call.result = result
      /\ call.id = calls[c].id /\ call.print = calls[c].print
  BY <1>2 DEF Taken, Phases, Results
<1>4. calls' = [calls EXCEPT ![c] = call]
  BY <1>1, <1>2 DEF JournalTypeOK
<1>5. /\ calls' \in [Calls -> CallType]
      /\ ActiveOwns' /\ OwnerIsActive' /\ RecordIsPending' /\ AnswerIsFiled'
      /\ OneUnresolved'
  <2> HIDE DEF call
  <2> QED
    BY <1>1, <1>3, <1>4, MovingKeeps DEF Delivering
<1>6. JournalTypeOK' /\ DoubtIsRecorded'
  BY <1>1, <1>5 DEF JournalTypeOK, DoubtIsRecorded, Doubted
<1> QED
  BY <1>5, <1>6

\* A new record is entered: what it supersedes is waived, and what is pruned
\* was resolved.
LEMMA EntersKeeps ==
    ASSUME JournalInv, NEW c \in Calls, EntersAnyhow(c)
    PROVE  JournalInv'
<1> USE DEF JournalInv
<1> DEFINE p  == calls[c].print
           id == calls[c].id
           call == [calls[c] EXCEPT !.phase = "calling"]
<1>1. /\ calls[c] \in Taken /\ p \in Prints /\ id \in Ids
      /\ calls[c].phase = "checking" /\ records[id] = NoRecord
      /\ InDoubt(p) = {} \/ calls[c].retry
  BY TakenCalls DEF EntersAnyhow, Passes, Taken
<1>2. /\ call \in Taken /\ call.phase = "calling"
      /\ call.id = id /\ call.print = p
      /\ calls' = [calls EXCEPT ![c] = call]
      /\ UNCHANGED <<active, messages, settled, restarts>>
  BY <1>1 DEF Taken, Phases, EntersAnyhow
<1>3. /\ waived' = waived \cup InDoubt(p)
      /\ records' = [[i \in Ids |-> IF i \in Prunable THEN NoRecord ELSE Superseded(p)[i]]
                       EXCEPT ![id] = Record(p, "pending", "none")]
  BY DEF EntersAnyhow
<1>4. \A i \in Ids \ {id} :
        records'[i] = IF i \in Prunable THEN NoRecord
                      ELSE IF i \in InDoubt(p)
                      THEN [records[i] EXCEPT !.status = "superseded", !.result = "uncertain"]
                      ELSE records[i]
  BY <1>3 DEF Superseded
<1>5. records'[id] = Record(p, "pending", "none")
  BY <1>1, <1>3
<1>6. Record(p, "pending", "none") \in Entry
      /\ Record(p, "pending", "none").status = "pending"
      /\ Record(p, "pending", "none").print = p
  BY <1>1 DEF Record, Entry, Statuses, Unresolved, Fresh, Expired, Results
<1>7. ASSUME NEW i \in Ids \ {id}
      PROVE  /\ records'[i] \in RecordType
             /\ records'[i].status \in Unresolved =>
                  records'[i] = records[i] /\ i \notin InDoubt(p)
             /\ records[i].status \in Unresolved /\ i \notin InDoubt(p) =>
                  records'[i] = records[i]
  <2>1. CASE i \in Prunable
    <3>1. records'[i] = NoRecord /\ records[i].status \notin Unresolved
      BY <2>1, <1>4 DEF Prunable
    <3>2. NoRecord \in RecordType /\ NoRecord.status \notin Unresolved
      BY DEF RecordType, NoRecord, Unresolved
    <3> QED
      BY <3>1, <3>2
  <2>2. CASE i \notin Prunable /\ i \in InDoubt(p)
    <3>1. records[i] \in Entry
      BY <2>2, RecordCases DEF InDoubt, Of, Recorded
    <3>2. [records[i] EXCEPT !.status = "superseded", !.result = "uncertain"] \in Entry
          /\ [records[i] EXCEPT !.status = "superseded", !.result = "uncertain"].status
               = "superseded"
      BY <3>1 DEF Entry, Statuses, Results, Answers
    <3> QED
      BY <2>2, <1>4, <3>2 DEF RecordType, Entry, Unresolved
  <2>3. CASE i \notin Prunable /\ i \notin InDoubt(p)
    BY <2>3, <1>4 DEF JournalTypeOK
  <2> QED
    BY <2>1, <2>2, <2>3
<1> HIDE DEF call
<1>8. JournalTypeOK'
  <2>1. records' \in [Ids -> RecordType]
    BY <1>3, <1>5, <1>6, <1>7 DEF RecordType, Entry
  <2>2. calls' \in [Calls -> CallType] /\ waived' \subseteq Ids
    BY <1>2, <1>3 DEF JournalTypeOK, CallType, Taken, InDoubt, Of, Recorded
  <2> QED
    BY <2>1, <2>2, <1>2 DEF JournalTypeOK
<1>9. calls'[c] = call /\ \A d \in Calls \ {c} : calls'[d] = calls[d]
  BY <1>2 DEF JournalTypeOK
<1>10. ActiveOwns' /\ OwnerIsActive'
  BY <1>1, <1>2, <1>9 DEF ActiveOwns, OwnerIsActive, JournalTypeOK, Owning, Live
<1>11. AnswerIsFiled'
  BY <1>2, <1>9 DEF AnswerIsFiled
<1>12. RecordIsPending'
  <2> SUFFICES ASSUME NEW d \in Calls, calls'[d].phase \in Delivering
               PROVE  /\ records'[calls'[d].id].status = "pending"
                      /\ records'[calls'[d].id].print = calls'[d].print
    BY DEF RecordIsPending
  <2>1. CASE d = c
    BY <2>1, <1>2, <1>5, <1>6, <1>9
  <2>2. CASE d # c
    <3>1. calls'[d] = calls[d]
      BY <2>2, <1>9
    <3>2. calls[d].print # p
      BY <2>2, <3>1, <1>1, OwnersDiffer DEF Owning, Live, Delivering
    <3>3. /\ records[calls[d].id].status = "pending"
          /\ records[calls[d].id].print = calls[d].print
          /\ calls[d].id \in Ids
      BY <3>1, TakenCalls DEF RecordIsPending, Taken, Delivering
    <3>4. calls[d].id # id /\ calls[d].id \notin InDoubt(p)
      BY <3>2, <3>3, <1>1 DEF InDoubt, Of, NoRecord
    <3> QED
      BY <3>1, <3>3, <3>4, <1>7 DEF Unresolved
  <2> QED
    BY <2>1, <2>2
<1>13. OneUnresolved'
  <2>1. \A i \in Ids \ {id} : records'[i].status \in Unresolved => records'[i].print # p
    <3> SUFFICES ASSUME NEW i \in Ids \ {id}, records'[i].status \in Unresolved,
                        records'[i].print = p
                 PROVE  FALSE
      OBVIOUS
    <3>1. records'[i] = records[i] /\ i \notin InDoubt(p)
      BY <1>7
    <3>2. records[i] # NoRecord
      BY <3>1, RecordCases
    <3> QED
      BY <3>1, <3>2 DEF InDoubt, Of, Recorded
  <2> SUFFICES ASSUME NEW i \in Ids, NEW j \in Ids,
                      records'[i].status \in Unresolved, records'[j].status \in Unresolved,
                      records'[i].print = records'[j].print
               PROVE  i = j
    BY DEF OneUnresolved
  <2>2. CASE i = id \/ j = id
    BY <2>1, <2>2, <1>5, <1>6
  <2>3. CASE i # id /\ j # id
    BY <2>3, <1>7 DEF OneUnresolved
  <2> QED
    BY <2>2, <2>3
<1>14. DoubtIsRecorded'
  <2> SUFFICES ASSUME NEW i \in Doubted'
               PROVE  records'[i].status \in Unresolved
    BY DEF DoubtIsRecorded
  <2>1. i \in Ids /\ i \in Doubted /\ i \notin InDoubt(p)
    BY <1>2, <1>3 DEF Doubted
  <2>2. CASE i = id
    BY <2>2, <1>5, <1>6 DEF Unresolved
  <2>3. CASE i # id
    BY <2>1, <2>3, <1>7 DEF DoubtIsRecorded
  <2> QED
    BY <2>2, <2>3
<1> QED
  BY <1>8, <1>10, <1>11, <1>12, <1>13, <1>14

\* The result is filed; only an unknown one leaves the record unresolved.
LEMMA SaveKeeps ==
    ASSUME JournalInv, NEW c \in Calls, Save(c)
    PROVE  JournalInv'
<1> USE DEF JournalInv
<1> DEFINE id == calls[c].id
           r  == calls[c].result
           entry == Record(calls[c].print, Filed(r), r)
<1>1. /\ calls[c] \in Taken /\ id \in Ids /\ calls[c].print \in Prints
      /\ calls[c].phase = "answered" /\ r \in Answers /\ r \in Results
  BY TakenCalls DEF Save, Taken, AnswerIsFiled, Results
<1>2. /\ records' = [records EXCEPT ![id] = entry]
      /\ settled' = IF r = "uncertain" THEN settled ELSE settled \cup {id}
      /\ Resolve(c, r)
      /\ UNCHANGED <<messages, waived, restarts>>
  BY DEF Save
<1>3. /\ entry \in Entry /\ entry.print = calls[c].print
      /\ entry.status \in Unresolved <=> r = "uncertain"
  BY <1>1 DEF Record, Entry, Filed, Statuses, Unresolved, Fresh, Expired, Results, Answers
<1>4. /\ calls' \in [Calls -> CallType] /\ active' \in [Prints -> SUBSET Calls]
      /\ ActiveOwns' /\ OwnerIsActive'
      /\ \A d \in Calls : calls'[d].phase \in Owning => calls'[d] = calls[d] /\ d # c
  BY <1>1, <1>2, Resolved DEF Owning, Live
<1> HIDE DEF entry
<1>5. records'[id] = entry /\ \A i \in Ids \ {id} : records'[i] = records[i]
  BY <1>1, <1>2 DEF JournalTypeOK
<1>6. JournalTypeOK'
  BY <1>1, <1>2, <1>3, <1>4 DEF JournalTypeOK, RecordType, Entry
<1>7. AnswerIsFiled'
  BY <1>4 DEF AnswerIsFiled, Owning, Live
<1>8. RecordIsPending'
  <2> SUFFICES ASSUME NEW d \in Calls, calls'[d].phase \in Delivering
               PROVE  /\ records'[calls'[d].id].status = "pending"
                      /\ records'[calls'[d].id].print = calls'[d].print
    BY DEF RecordIsPending
  <2>1. calls'[d] = calls[d] /\ d # c
    BY <1>4 DEF Owning, Live, Delivering
  <2>2. calls[d].id # id /\ calls[d].id \in Ids
    BY <2>1, <1>1, DeliveriesDiffer, TakenCalls DEF Delivering, Taken
  <2> QED
    BY <2>1, <2>2, <1>5 DEF RecordIsPending
<1>9. /\ records[id].status \in Unresolved
      /\ records[id].print = calls[c].print
  BY <1>1 DEF RecordIsPending, Unresolved, Delivering
<1>10. \A i \in Ids : records'[i].status \in Unresolved =>
         records[i].status \in Unresolved /\ records'[i].print = records[i].print
  BY <1>3, <1>5, <1>9
<1>11. OneUnresolved'
  BY <1>10 DEF OneUnresolved
<1>12. DoubtIsRecorded'
  <2> SUFFICES ASSUME NEW i \in Doubted'
               PROVE  records'[i].status \in Unresolved
    BY DEF DoubtIsRecorded
  <2>1. i \in Ids /\ i \in Doubted /\ (i = id => r = "uncertain")
    BY <1>1, <1>2 DEF Doubted
  <2> QED
    BY <2>1, <1>3, <1>5 DEF DoubtIsRecorded
<1> QED
  BY <1>4, <1>6, <1>7, <1>8, <1>11, <1>12

\* The application and the clock.
LEMMA WorldKeeps == JournalInv /\ World => JournalInv'
<1> SUFFICES ASSUME JournalInv, NEW i \in Ids, AppReads(i) \/ Ages(i)
             PROVE  JournalInv'
  BY DEF World
<1> USE DEF JournalInv
<1>1. CASE AppReads(i)
  <2>1. Doubted' = Doubted /\ UNCHANGED <<calls, records, active>>
    BY <1>1 DEF AppReads, Doubted, JournalTypeOK
  <2>2. JournalTypeOK'
    BY <1>1 DEF AppReads, JournalTypeOK
  <2> QED
    BY <2>1, <2>2 DEF ActiveOwns, OwnerIsActive, RecordIsPending, AnswerIsFiled,
                      OneUnresolved, DoubtIsRecorded
<1>2. CASE Ages(i)
  <2>1. /\ records' = [records EXCEPT ![i].age = @ + 1]
        /\ records[i] \in Entry /\ records[i].age < Expired
        /\ UNCHANGED <<calls, active, messages, settled, waived, restarts>>
    BY <1>2, RecordCases DEF Ages
  <2>2. /\ [records[i] EXCEPT !.age = @ + 1] \in Entry
        /\ [records[i] EXCEPT !.age = @ + 1].status = records[i].status
        /\ [records[i] EXCEPT !.age = @ + 1].print = records[i].print
    BY <2>1 DEF Entry, Fresh, Expired
  <2>3. JournalTypeOK'
    BY <2>1, <2>2 DEF JournalTypeOK, RecordType, Entry
  <2>4. \A j \in Ids : /\ records'[j].status = records[j].status
                       /\ records'[j].status \in Unresolved =>
                            records'[j].print = records[j].print
    BY <2>1, <2>2 DEF JournalTypeOK
  <2>5. OneUnresolved' /\ DoubtIsRecorded'
    BY <2>1, <2>4 DEF OneUnresolved, DoubtIsRecorded, Doubted
  <2>6. RecordIsPending'
    <3> SUFFICES ASSUME NEW c \in Calls, calls[c].phase \in Delivering
                 PROVE  /\ records'[calls[c].id].status = "pending"
                        /\ records'[calls[c].id].print = calls[c].print
      BY <2>1 DEF RecordIsPending
    <3>1. calls[c].id \in Ids
      BY TakenCalls DEF Taken, Delivering
    <3> QED
      BY <3>1, <2>4 DEF RecordIsPending, Unresolved
  <2>7. ActiveOwns' /\ OwnerIsActive' /\ AnswerIsFiled'
    BY <2>1 DEF ActiveOwns, OwnerIsActive, AnswerIsFiled
  <2> QED
    BY <2>3, <2>5, <2>6, <2>7
<1> QED
  BY <1>1, <1>2

\* The worker dies: its calls are lost and nothing is active; the journal stays.
LEMMA WorkerDiesKeeps == JournalInv /\ WorkerDies => JournalInv'
<1> SUFFICES ASSUME JournalInv, WorkerDies
             PROVE  JournalInv'
  OBVIOUS
<1> USE DEF JournalInv
<1>1. \A c \in Calls : calls'[c] \in CallType /\ calls'[c].phase \notin Live
  <2> SUFFICES ASSUME NEW c \in Calls
               PROVE  calls'[c] \in CallType /\ calls'[c].phase \notin Live
    OBVIOUS
  <2>1. CASE calls[c].phase \in Live
    <3>1. calls[c] \in Taken
      BY <2>1, TakenCalls DEF Live
    <3> QED
      BY <2>1, <3>1 DEF WorkerDies, CallType, Taken, Phases, Live
  <2>2. CASE calls[c].phase \notin Live
    BY <2>2 DEF WorkerDies, JournalTypeOK
  <2> QED
    BY <2>1, <2>2
<1>2. JournalTypeOK'
  BY <1>1, JournalAssumption DEF WorkerDies, JournalTypeOK, JournalAssumption
<1>3. ActiveOwns' /\ OwnerIsActive' /\ RecordIsPending' /\ AnswerIsFiled'
  BY <1>1 DEF WorkerDies, ActiveOwns, OwnerIsActive, RecordIsPending, AnswerIsFiled,
              Owning, Delivering, Live
<1>4. OneUnresolved' /\ DoubtIsRecorded'
  BY DEF WorkerDies, OneUnresolved, DoubtIsRecorded, Doubted
<1> QED
  BY <1>2, <1>3, <1>4

\* Every step of the journal's users, of the application and of the worker's
\* end keeps the invariant.
LEMMA StepsAnyhow == JournalInv /\ [NextAnyhow]_journalVars => JournalInv'
<1> SUFFICES ASSUME JournalInv, [NextAnyhow]_journalVars
             PROVE  JournalInv'
  OBVIOUS
<1>1. ASSUME NEW c \in Calls, CheckKnown(c) \/ CheckAnswered(c) \/ FailsAnyhow(c)
      PROVE  JournalInv'
  <2>1. calls[c].phase = "checking" /\ calls[c] \in Taken
    BY <1>1, TakenCalls DEF CheckKnown, CheckAnswered, FailsAnyhow, Passes, JournalInv
  <2>2. records[calls[c].id] # NoRecord => records[calls[c].id].result \in Results
    BY <2>1, RecordCases DEF JournalInv, Entry, Taken
  <2>3. PICK result \in Results : Resolve(c, result)
    <3>1. CASE CheckKnown(c)
      BY <2>2, <3>1 DEF CheckKnown, Results, Answers
    <3>2. CASE CheckAnswered(c) \/ FailsAnyhow(c)
      BY <3>2 DEF CheckAnswered, FailsAnyhow, Results, Answers
    <3> QED
      BY <1>1, <3>1, <3>2
  <2>4. UNCHANGED <<records, messages, settled, waived, restarts>>
    BY <1>1 DEF CheckKnown, CheckAnswered, FailsAnyhow
  <2> QED
    BY <2>1, <2>3, <2>4, ResolvedKeeps DEF Owning, Live
<1>2. ASSUME NEW c \in Calls, WorkingAnyhow(c)
      PROVE  JournalInv'
  BY <1>1, <1>2, EntersKeeps, AnswerKeeps, SendKeeps, SaveKeeps DEF WorkingAnyhow
<1>3. CASE UNCHANGED journalVars
  BY <1>3 DEF journalVars, JournalInv, JournalTypeOK, ActiveOwns, OwnerIsActive,
              RecordIsPending, AnswerIsFiled, OneUnresolved, DoubtIsRecorded, Doubted
<1> QED
  BY <1>2, <1>3, EnterKeeps, WorldKeeps, WorkerDiesKeeps DEF NextAnyhow

LEMMA JournalSteps == JournalInv /\ [JournalNext]_journalVars => JournalInv'
<1>1. ASSUME NEW c \in Calls, Working(c)
      PROVE  WorkingAnyhow(c)
  <2>1. HostReplies \subseteq Replies
    BY JournalAssumption DEF JournalAssumption, Replies
  <2> QED
    BY <1>1, <2>1 DEF Working, Settling, WorkingAnyhow, CheckEnters, EntersAnyhow,
                      CheckFull, FailsAnyhow
<1>2. [JournalNext]_journalVars => [NextAnyhow]_journalVars
  BY <1>1 DEF JournalNext, NextAnyhow
<1> QED
  BY <1>2, StepsAnyhow

-----------------------------------------------------------------------------
(* Theorems                                                                *)

\* Whatever callers use the journal, its invariant holds: among others, one
\* record of a fingerprint at most is unresolved, and a call that is at work is
\* alone on its fingerprint.
THEOREM JournalInvariant == JournalSpec => []JournalInv
<1> QED
  BY JournalStarts, JournalSteps, PTL DEF JournalSpec

\* The journal, the calls and the messages keep their types, under any callers.
THEOREM JournalTypes == JournalSpec => []JournalTypeOK
<1>1. JournalInv => JournalTypeOK
  BY DEF JournalInv
<1> QED
  BY <1>1, JournalInvariant, PTL

\* A message whose fate is unknown stays unresolved in the journal, and nothing
\* with its fingerprint is doubted beside it.
LEMMA DoubtIsAlone == JournalInv => NoBlindResend
  BY DEF JournalInv, DoubtIsRecorded, OneUnresolved, NoBlindResend, Doubted

THEOREM NeverResentBlindly == JournalSpec => []NoBlindResend
  BY DoubtIsAlone, JournalInvariant, PTL
=============================================================================
