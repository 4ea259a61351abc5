------------------------------ MODULE MainWindowProofs ------------------------------
(***************************************************************************)
(* Proofs about what the pages of the main window show: the migration of   *)
(* what v1.0.0 stored (StorageMigration), the requests of the extension    *)
(* (BridgeRequests), the updates (AppUpdate), the rows of the list         *)
(* (LiveRows) and the page of the components (ComponentManager), each for  *)
(* any records, requests, releases, jobs and components and any number of  *)
(* faults, and then all of them together.                                  *)
(***************************************************************************)
EXTENDS MCMainWindow,
    FiniteSetTheorems, FunctionTheorems, SequenceTheorems, WellFoundedInduction, TLAPS

-----------------------------------------------------------------------------
(* THE MIGRATION OF WHAT IS STORED                                         *)

(* The inductive invariant                                                 *)

Database == [there : BOOLEAN, records : SUBSET Records]

\* What has been read is what the old database holds, and it is deleted only when
\* the new one holds all of it.
CopyIsWhole ==
    /\ step = "write" => copied = legacy.records
    /\ step = "remove" => legacy.records \subseteq current

MigrationInv ==
    /\ TypeOK
    /\ legacy \in Database
    /\ CopyIsWhole
    /\ NothingLost

-----------------------------------------------------------------------------
(* The invariant is inductive                                              *)

LEMMA MigrationStarts == MigrationInit => MigrationInv
<1> SUFFICES ASSUME MigrationInit
             PROVE  MigrationInv
  OBVIOUS
<1>1. PICK before \in SUBSET Records :
        legacy = [there |-> TRUE, records |-> before] /\ written = before
  BY DEF MigrationInit
<1>2. legacy \in Database /\ legacy.records = before
  BY <1>1 DEF Database
<1>3. TypeOK
  BY <1>2 DEF MigrationInit, TypeOK, Steps, Values
<1>4. CopyIsWhole /\ NothingLost
  BY <1>1, <1>2 DEF MigrationInit, CopyIsWhole, NothingLost
<1> QED
  BY <1>2, <1>3, <1>4 DEF MigrationInv

\* The steps of the migration of the database, and its end at any of them.
LEMMA DatabaseKeeps ==
    ASSUME MigrationInv,
           \/ Start \/ Create \/ OpenLegacy \/ ReadLegacy \/ CopyMissing \/ RemoveLegacy
           \/ Close
    PROVE  MigrationInv'
<1> USE DEF MigrationInv
<1>1. CASE Start \/ Close
  BY <1>1 DEF Start, Close, Moves, TypeOK, CopyIsWhole, NothingLost, Steps
<1>2. CASE Create
  BY <1>2 DEF Create, Keep, keys, TypeOK, CopyIsWhole, NothingLost, Steps
<1>3. CASE OpenLegacy
  <2>1. legacy' \in Database /\ legacy'.records = legacy.records
    BY <1>3 DEF OpenLegacy, Database
  <2> QED
    BY <1>3, <2>1 DEF OpenLegacy, Keep, keys, TypeOK, CopyIsWhole, NothingLost, Steps
<1>4. CASE ReadLegacy
  BY <1>4 DEF ReadLegacy, Fails, Keep, keys, TypeOK, CopyIsWhole, NothingLost, Steps
<1>5. CASE CopyMissing
  BY <1>5 DEF CopyMissing, Fails, Keep, keys, TypeOK, CopyIsWhole, NothingLost, Steps
<1>6. CASE RemoveLegacy
  <2>1. /\ legacy' \in Database
        /\ legacy'.records \in {legacy.records, {}}
    <3>1. Gone \in Database /\ Gone.records = {}
      BY DEF Gone, Database
    <3>2. legacy' = Gone \/ legacy' = legacy
      BY <1>6 DEF RemoveLegacy
    <3> QED
      BY <3>1, <3>2
  <2>2. legacy.records \subseteq current /\ UNCHANGED <<current, written>>
    BY <1>6 DEF RemoveLegacy, Keep, CopyIsWhole
  <2>3. written' \subseteq legacy'.records \cup current'
    BY <2>2 DEF NothingLost
  <2> QED
    BY <1>6, <2>1, <2>3 DEF RemoveLegacy, Keep, keys, TypeOK, CopyIsWhole, NothingLost, Steps
<1> QED
  BY <1>1, <1>2, <1>3, <1>4, <1>5, <1>6

\* What the user writes goes into the database in use; what he deletes was not to
\* be kept.
LEMMA WriteKeeps ==
    ASSUME MigrationInv, NEW r \in Records, NEW there \in BOOLEAN, Write(r, there)
    PROVE  MigrationInv'
<1> USE DEF MigrationInv
<1> DEFINE new == IF there THEN InUse \cup {r} ELSE InUse \ {r}
<1>1. /\ step = "ready" /\ UNCHANGED <<opened, step, copied, oldKeys, newKeys, saved>>
      /\ written' = IF there THEN written \cup {r} ELSE written \ {r}
      /\ \/ opened = "current" /\ current' = new /\ UNCHANGED legacy
         \/ /\ opened # "current" /\ UNCHANGED current
            /\ legacy' = [there |-> TRUE, records |-> new]
  BY DEF Write, keys
<1>2. InUse = IF opened = "current" THEN current ELSE legacy.records
  BY DEF InUse
<1>3. /\ InUse \subseteq Records /\ new \subseteq Records
      /\ new = IF there THEN InUse \cup {r} ELSE InUse \ {r}
  BY <1>2 DEF TypeOK
<1> HIDE DEF new
<1>4. legacy' \in Database
  <2>1. [there |-> TRUE, records |-> new] \in Database
    BY <1>3 DEF Database
  <2> QED
    BY <1>1, <2>1
<1>5. /\ current' \subseteq Records
      /\ legacy'.records \cup current' =
           (IF opened = "current" THEN legacy.records ELSE current) \cup new
  BY <1>1, <1>3 DEF TypeOK
<1>6. written' \subseteq legacy'.records \cup current'
  BY <1>1, <1>2, <1>3, <1>5 DEF NothingLost
<1>7. TypeOK'
  BY <1>1, <1>4, <1>5 DEF TypeOK, Database
<1>8. CopyIsWhole' /\ NothingLost'
  BY <1>1, <1>6 DEF CopyIsWhole, NothingLost
<1> QED
  BY <1>4, <1>7, <1>8

\* The old key is removed only when the new one holds its value.
LEMMA MoveKeyKeeps ==
    ASSUME MigrationInv, NEW k \in Keys, MoveKey(k)
    PROVE  MigrationInv'
<1> USE DEF MigrationInv
<1>1. PICK value \in {oldKeys[k], newKeys[k]} :
        /\ newKeys[k] # "none" => value = newKeys[k]
        /\ newKeys' = [newKeys EXCEPT ![k] = value]
        /\ \/ UNCHANGED oldKeys
           \/ value = oldKeys[k] /\ oldKeys' = [oldKeys EXCEPT ![k] = "none"]
        /\ UNCHANGED <<legacy, current, opened, step, copied, written, saved>>
  BY DEF MoveKey, images
<1>2. oldKeys \in [Keys -> Values] /\ newKeys \in [Keys -> Values]
  BY DEF TypeOK
<1>3. oldKeys' \in [Keys -> Values] /\ newKeys' \in [Keys -> Values]
  BY <1>1, <1>2 DEF Values
<1>4. \A j \in Keys : saved[j] # "none" => saved[j] \in {oldKeys'[j], newKeys'[j]}
  BY <1>1, <1>2 DEF NothingLost
<1> QED
  BY <1>1, <1>3, <1>4 DEF TypeOK, CopyIsWhole, NothingLost

LEMMA MigrationSteps ==
    ASSUME MigrationInv, [MigrationNext]_migrationVars
    PROVE  MigrationInv'
<1>1. CASE \E r \in Records : Save(r) \/ Delete(r)
  BY <1>1, WriteKeeps DEF Save, Delete
<1>2. CASE UNCHANGED migrationVars
  BY <1>2 DEF migrationVars, images, keys, MigrationInv, TypeOK, CopyIsWhole, NothingLost
<1> QED
  BY <1>1, <1>2, DatabaseKeeps, MoveKeyKeeps DEF MigrationNext

-----------------------------------------------------------------------------
(* Theorems                                                                *)

\* Databases and keys keep their types.
THEOREM MigrationTypes == MigrationSpec => []TypeOK
<1>1. MigrationInv /\ [MigrationNext]_migrationVars => MigrationInv'
  BY MigrationSteps
<1>2. MigrationInv => TypeOK
  BY DEF MigrationInv
<1> QED
  BY <1>1, <1>2, MigrationStarts, PTL DEF MigrationSpec

\* No record and no preference is lost on the way to the new version, whichever
\* call fails and whenever the window is closed (images/storage-migration.js,
\* runtime/storage-migration.js).
THEOREM MigrationLosesNothing == MigrationSpec => []NothingLost
<1>1. MigrationInv /\ [MigrationNext]_migrationVars => MigrationInv'
  BY MigrationSteps
<1>2. MigrationInv => NothingLost
  BY DEF MigrationInv
<1> QED
  BY <1>1, <1>2, MigrationStarts, PTL DEF MigrationSpec

-----------------------------------------------------------------------------
(* THE EXTENSION'S REQUESTS                                                *)

\* The requests are numbered as their files are written.
SentInOrder == \E n \in 0 .. Cardinality(Requests) : Sent = 1 .. n

\* None disappears, and none in the inbox is older than one that was taken.
NoneDisappears ==
    /\ Sent = inbox \cup ({taken} \ {0}) \cup over \cup withdrawn \cup lost
    /\ \A r \in over \cup ({taken} \ {0}), s \in inbox : r < s

\* A request is in hand but while the inbox is waited for or read.
InHand == taken = 0 <=> at \in {"idle", "drain"}

Adding == {"capture", "source", "playlist"}

\* What the step of a request says of what it asked and of what became of it.
StepFits ==
    /\ at = "act" => kind[taken] = "act"
    /\ at = "capture" => kind[taken] = "capture"
    /\ at = "done" /\ kind[taken] \in Adding => taken \in jobs \cup reviewed \/ answer[taken] = "refused"
    /\ at = "load" /\ kind[taken] \in Adding =>
           taken \in jobs \cup asked \/ (kind[taken] # "playlist" /\ answer[taken] = "refused")

\* What requests that were processed left behind.
ResultsKept ==
    /\ \A r \in over \ failed : kind[r] \in Adding => r \in jobs \cup reviewed \cup asked \/ answer[r] = "refused"
    /\ \A r \in Requests : answer[r] = "accepted" => r \in jobs
    /\ \A r \in Requests : told[r] = "accepted" => r \in jobs
    /\ claimed \subseteq jobs \cup asked

StatePublished == publishing \/ behind \/ published = view

BridgeInv ==
    /\ BridgeTypes
    /\ SentInOrder /\ NoneDisappears
    /\ InHand /\ StepFits /\ ResultsKept
    /\ StatePublished

\* The types in parts.
SetTypes ==
    /\ inbox \subseteq Requests /\ over \subseteq Requests /\ failed \subseteq Requests
    /\ withdrawn \subseteq Requests /\ lost \subseteq Requests /\ jobs \subseteq Requests
    /\ reviewed \subseteq Requests /\ view \subseteq Requests /\ published \subseteq Requests
    /\ asked \subseteq Requests /\ claimed \subseteq Requests /\ waiting \subseteq Requests
FileTypes ==
    /\ kind \in [Requests -> Kinds \cup {"none"}] /\ shown \in [Requests -> BOOLEAN]
    /\ answer \in [Requests -> {"none", "accepted", "review", "refused"}]
    /\ told \in [Requests -> {"none", "accepted", "review", "refused", "failure"}]
StepTypes ==
    /\ taken \in Requests \cup {0} /\ retry \in {"none", "analyze", "queue"}
    /\ faults \in 0 .. MaxFaults
    /\ at \in {"idle", "drain", "wake", "act", "capture", "source", "analyze", "queue", "prompt", "load",
               "done", "failed"}
BridgeFlags == publishing \in BOOLEAN /\ behind \in BOOLEAN /\ tools \in BOOLEAN

LEMMA BridgeParts == BridgeTypes => SetTypes /\ FileTypes /\ StepTypes /\ BridgeFlags
<1> SUFFICES ASSUME BridgeTypes PROVE SetTypes /\ FileTypes /\ StepTypes /\ BridgeFlags
  OBVIOUS
<1>1. SetTypes BY DEF BridgeTypes, SetTypes
<1>2. FileTypes BY DEF BridgeTypes, FileTypes
<1>3. StepTypes BY DEF BridgeTypes, StepTypes
<1>4. BridgeFlags BY DEF BridgeTypes, BridgeFlags
<1> QED BY <1>1, <1>2, <1>3, <1>4

LEMMA BridgePartsNext ==
    ASSUME SetTypes', FileTypes', StepTypes', BridgeFlags' PROVE BridgeTypes'
<1>1. {inbox', waiting', over', failed', withdrawn', lost', jobs', reviewed', view', published',
       asked', claimed'} \subseteq SUBSET Requests
  BY DEF SetTypes
<1>2. {publishing', behind', tools'} \subseteq BOOLEAN
  BY DEF BridgeFlags
<1>3. /\ kind' \in [Requests -> Kinds \cup {"none"}] /\ shown' \in [Requests -> BOOLEAN]
      /\ answer' \in [Requests -> {"none", "accepted", "review", "refused"}]
      /\ told' \in [Requests -> {"none", "accepted", "review", "refused", "failure"}]
  BY DEF FileTypes
<1>4. /\ taken' \in Requests \cup {0} /\ retry' \in {"none", "analyze", "queue"}
      /\ faults' \in 0 .. MaxFaults
      /\ at' \in {"idle", "drain", "wake", "act", "capture", "source", "analyze", "queue", "prompt",
                 "load", "done", "failed"}
  BY DEF StepTypes
<1> QED BY <1>1, <1>2, <1>3, <1>4 DEF BridgeTypes

LEMMA RequestNumbers ==
    ASSUME BridgeConstants
    PROVE  Cardinality(Requests) \in Nat /\ Requests \subseteq Nat /\ 0 \notin Requests
<1>1. Cardinality(Requests) \in Nat
  BY FS_CardinalityType DEF BridgeConstants
<1> QED BY <1>1 DEF BridgeConstants

LEMMA NextRequest ==
    ASSUME BridgeConstants, SentInOrder, Sent # Requests
    PROVE  /\ Cardinality(Sent) \in Nat /\ Cardinality(Sent) + 1 \in Requests
           /\ Sent = 1 .. Cardinality(Sent)
<1>1. PICK n \in 0 .. Cardinality(Requests) : Sent = 1 .. n
  BY DEF SentInOrder
<1>2. n \in Nat /\ Cardinality(Requests) \in Nat /\ n <= Cardinality(Requests)
  BY <1>1, RequestNumbers
<1>3. Cardinality(Sent) = n
  BY <1>1, <1>2, FS_Interval
<1>4. n # Cardinality(Requests)
  BY <1>1 DEF BridgeConstants
<1>5. n + 1 \in 1 .. Cardinality(Requests)
  BY <1>2, <1>4
<1> QED BY <1>1, <1>2, <1>3, <1>5 DEF BridgeConstants

LEMMA FileTypesKeep ==
    ASSUME BridgeConstants, BridgeInv, BridgeNext
    PROVE  FileTypes'
<1> FileTypes /\ StepTypes /\ SetTypes /\ InHand
  BY BridgeParts DEF BridgeInv
<1>1. CASE UNCHANGED <<kind, shown, answer, told>>
  BY <1>1 DEF FileTypes
<1>2. ASSUME NEW k \in Kinds, NEW wanted \in BOOLEAN, Send(k, wanted) PROVE FileTypes'
  BY <1>2 DEF Send, FileTypes
<1>3. ASSUME NEW r \in Requests, HostReads(r) \/ HostGivesUp(r) PROVE FileTypes'
  BY <1>3 DEF HostReads, HostGivesUp, FileTypes
<1>4. CASE Capture
  BY <1>4 DEF Capture, Answers, FileTypes
<1> QED BY <1>1, <1>2, <1>3, <1>4 DEF BridgeNext, files, Poll, Drain, Wake, Act, Source, Analyze, Queue,
           Prompt, Load, Done, Failed, Refresh, Publish, Installed, Restart

LEMMA StepTypesKeep ==
    ASSUME BridgeConstants, BridgeInv, BridgeNext
    PROVE  StepTypes'
<1> FileTypes /\ StepTypes /\ SetTypes /\ InHand
  BY BridgeParts DEF BridgeInv
<1>1. faults' \in 0 .. MaxFaults
  BY DEF BridgeNext, StepTypes, Faulty, BridgeConstants, Send, HostReads, HostGivesUp, Poll, Drain, Wake, Act,
         Capture, Source, Analyze, Queue, Prompt, Load, Done, Failed, Refresh, Publish, Installed, Restart
<1>2. \A r \in Requests : First(kind[r]) \in {"act", "capture", "source", "done", "failed", "queue"}
                          \/ kind[r] = "none"
  BY DEF First, FileTypes, Kinds
<1>3. CASE UNCHANGED <<taken, at, retry>>
  BY <1>1, <1>3 DEF StepTypes
<1>4. CASE Poll \/ Act \/ Capture \/ Source \/ Analyze \/ Queue \/ Prompt \/ Load \/ Done \/ Failed
  BY <1>1, <1>4 DEF Poll, Act, Capture, Source, Analyze, Queue, Prompt, Load, Done, Failed, Goes, Errs, Asks,
            Ended, Resumes, StepTypes
<1>5. CASE Restart
  BY <1>1, <1>5 DEF Restart, StepTypes
<1>6. CASE Drain \/ Wake
  <2>1. at = "wake" => taken \in Requests /\ kind[taken] # "none"
    BY DEF BridgeInv, NoneDisappears, InHand, StepTypes, Sent
  <2>2. \A r \in inbox : r \in Requests /\ kind[r] # "none"
    BY DEF BridgeInv, NoneDisappears, Sent
  <2> QED BY <1>1, <1>2, <1>6, <2>1, <2>2 DEF Drain, Wake, Taken, Goes, StepTypes
<1> QED BY <1>3, <1>4, <1>5, <1>6 DEF BridgeNext, process, Send, HostReads, HostGivesUp,
           Refresh, Publish, Installed

LEMMA SetTypesKeep ==
    ASSUME BridgeConstants, BridgeInv, BridgeNext
    PROVE  SetTypes' /\ BridgeFlags'
<1> SetTypes /\ StepTypes /\ BridgeFlags /\ InHand /\ SentInOrder
  BY BridgeParts DEF BridgeInv
<1>1. ASSUME NEW k \in Kinds, NEW wanted \in BOOLEAN, Send(k, wanted) PROVE SetTypes'
  <2>1. Cardinality(Sent) + 1 \in Requests
    BY <1>1, NextRequest DEF Send
  <2> QED BY <1>1, <2>1 DEF Send, process, results, state, SetTypes
<1>2. ASSUME NEW r \in Requests, HostReads(r) \/ HostGivesUp(r) PROVE SetTypes'
  BY <1>2 DEF HostReads, HostGivesUp, process, results, state, SetTypes
<1>3. ASSUME Poll PROVE SetTypes'
  BY <1>3 DEF Poll, Goes, files, process, results, state, SetTypes
<1>4. ASSUME Drain PROVE SetTypes'
  BY <1>4 DEF Drain, files, process, results, state, SetTypes
<1>5. ASSUME Wake PROVE SetTypes'
  BY <1>5 DEF Wake, Goes, files, process, results, state, SetTypes
<1>6. ASSUME Act PROVE SetTypes'
  BY <1>6 DEF Act, Goes, Errs, files, process, results, state, SetTypes
<1>7. ASSUME Analyze PROVE SetTypes'
  BY <1>7 DEF Analyze, Goes, Errs, Asks, files, process, results, state, SetTypes
<1>8. ASSUME Installed PROVE SetTypes'
  BY <1>8 DEF Installed, files, process, results, state, SetTypes
<1>9. ASSUME Capture PROVE SetTypes'
  BY <1>9 DEF Capture, Goes, Errs, InHand, StepTypes, files, process, results, state, SetTypes
<1>10. ASSUME Source PROVE SetTypes'
  BY <1>10 DEF Source, Goes, Errs, InHand, StepTypes, files, process, results, state, SetTypes
<1>11. ASSUME Queue PROVE SetTypes'
  BY <1>11 DEF Queue, Goes, Errs, Asks, InHand, StepTypes, files, process, results, state, SetTypes
<1>12. ASSUME Prompt PROVE SetTypes'
  BY <1>12 DEF Prompt, InHand, StepTypes, files, process, results, state, SetTypes
<1>13. ASSUME Load PROVE SetTypes'
  BY <1>13 DEF Load, Refreshes, Ended, InHand, StepTypes, files, process, results, state, SetTypes
<1>14. ASSUME Done PROVE SetTypes'
  BY <1>14 DEF Done, Ended, InHand, StepTypes, files, process, results, state, SetTypes
<1>15. ASSUME Failed PROVE SetTypes'
  BY <1>15 DEF Failed, Ended, InHand, StepTypes, files, process, results, state, SetTypes
<1>16. ASSUME Refresh PROVE SetTypes'
  BY <1>16 DEF Refresh, Refreshes, files, process, results, state, SetTypes
<1>17. ASSUME Publish PROVE SetTypes'
  BY <1>17 DEF Publish, files, process, results, state, SetTypes
<1>18. ASSUME Restart PROVE SetTypes'
  BY <1>18 DEF Restart, StepTypes, files, process, results, state, SetTypes
<1>19. SetTypes'
  BY <1>1, <1>2, <1>3, <1>4, <1>5, <1>6, <1>7, <1>8, <1>9, <1>10, <1>11, <1>12, <1>13, <1>14, <1>15, <1>16, <1>17, <1>18 DEF BridgeNext
<1>20. publishing' \in BOOLEAN
  BY DEF BridgeNext, BridgeFlags, state, Send, HostReads, HostGivesUp, Poll, Drain, Wake, Act, Refreshes,
         Capture, Source, Analyze, Queue, Prompt, Load, Done, Failed, Refresh, Publish, Installed, Restart
<1>21. behind' \in BOOLEAN
  BY DEF BridgeNext, BridgeFlags, state, Send, HostReads, HostGivesUp, Poll, Drain, Wake, Act, Refreshes,
         Capture, Source, Analyze, Queue, Prompt, Load, Done, Failed, Refresh, Publish, Installed, Restart
<1>22. tools' \in BOOLEAN
  BY DEF BridgeNext, BridgeFlags, state, Send, HostReads, HostGivesUp, Poll, Drain, Wake, Act, Refreshes,
         Capture, Source, Analyze, Queue, Prompt, Load, Done, Failed, Refresh, Publish, Installed, Restart
<1> QED BY <1>19, <1>20, <1>21, <1>22 DEF BridgeFlags

\* Requests come, are taken in their order and stay accounted for.
LEMMA NoneDisappearsKeeps ==
    ASSUME BridgeConstants, BridgeInv, BridgeNext
    PROVE  NoneDisappears' /\ SentInOrder' /\ InHand'
<1> SetTypes /\ StepTypes /\ FileTypes /\ InHand /\ SentInOrder /\ NoneDisappears
  BY BridgeParts DEF BridgeInv
<1>0. Requests \subseteq Nat \ {0}
  BY RequestNumbers
<1>4. \A k \in Kinds : First(k) \notin {"idle", "drain"}
  BY DEF First, Kinds
<1>5. \A r \in Sent : kind[r] \in Kinds
  BY DEF Sent, FileTypes
<1>1. ASSUME NEW k \in Kinds, NEW wanted \in BOOLEAN, Send(k, wanted)
      PROVE  NoneDisappears' /\ SentInOrder' /\ InHand'
  <2> DEFINE r == Cardinality(Sent) + 1
  <2>1. r \in Requests /\ Sent = 1 .. r - 1
    BY <1>1, NextRequest DEF Send
  <2>2. kind' = [kind EXCEPT ![r] = k] /\ inbox' = inbox \cup {r} /\ k # "none"
    BY <1>1 DEF Send, Kinds
  <2> HIDE DEF r
  <2>3. Sent' = Sent \cup {r}
    BY <2>1, <2>2 DEF Sent, FileTypes
  <2>4. r \in Nat \ {0} /\ r <= Cardinality(Requests) /\ Cardinality(Requests) \in Nat
    BY <2>1, RequestNumbers DEF BridgeConstants
  <2>5. SentInOrder'
    <3>1. Sent' = 1 .. r
      BY <2>1, <2>3, <2>4
    <3> QED BY <2>4, <3>1 DEF SentInOrder
  <2>6. UNCHANGED <<taken, at, over, withdrawn, lost>>
    BY <1>1 DEF Send, process
  <2>7. NoneDisappears'
    <3>1. \A x \in Sent : x < r
      BY <2>1, <2>4
    <3>2. over \cup ({taken} \ {0}) \subseteq Sent
      BY DEF NoneDisappears
    <3> QED BY <2>2, <2>3, <2>6, <3>1, <3>2 DEF NoneDisappears
  <2> QED BY <2>5, <2>6, <2>7 DEF InHand
<1>2. ASSUME UNCHANGED kind, ~\E k \in Kinds, wanted \in BOOLEAN : Send(k, wanted)
      PROVE  NoneDisappears' /\ SentInOrder' /\ InHand'
  <2>1. Sent' = Sent
    BY <1>2 DEF Sent
  <2>2. SentInOrder'
    BY <2>1 DEF SentInOrder
  <2> SUFFICES NoneDisappears' /\ InHand'
    BY <2>2
  <2>3. ASSUME NEW r \in Requests, HostReads(r) \/ HostGivesUp(r) PROVE NoneDisappears' /\ InHand'
    BY <2>1, <2>3 DEF HostReads, HostGivesUp, process, NoneDisappears, InHand
  <2>4. CASE Poll
    BY <2>1, <2>4 DEF Poll, Goes, files, NoneDisappears, InHand
  <2>5. CASE Drain
    <3>1. CASE inbox = {}
      BY <2>1, <2>5, <3>1 DEF Drain, Taken, NoneDisappears, InHand
    <3>2. CASE inbox # {}
      <4>1. PICK r \in Taken : taken' = r /\ at' = IF shown[r] THEN "wake" ELSE First(kind[r])
        BY <2>5, <3>2 DEF Drain
      <4>6. inbox \subseteq Nat \ {0}
        BY <1>0 DEF SetTypes
      <4>7. r \in inbox /\ \A s \in inbox : r <= s
        BY <4>1 DEF Taken
      <4>8. Taken = {r}
        <5>1. \A x \in Taken : x <= r /\ x \in inbox
          BY <4>7 DEF Taken
        <5>2. \A x \in Taken : x = r
          BY <4>6, <4>7, <5>1
        <5> QED BY <4>1, <5>2
      <4>2. r \in inbox /\ r \in Nat \ {0} /\ Taken = {r} /\ \A s \in inbox \ {r} : r < s
        BY <4>6, <4>7, <4>8
      <4>3. taken = 0 /\ inbox' = inbox \ {r} /\ UNCHANGED <<over, withdrawn, lost>>
        BY <2>5, <4>2 DEF Drain, InHand
      <4>4. NoneDisappears'
        BY <2>1, <4>1, <4>2, <4>3 DEF NoneDisappears
      <4>5. at' \notin {"idle", "drain"}
        BY <1>4, <1>5, <4>1, <4>2 DEF NoneDisappears
      <4> QED BY <4>1, <4>2, <4>4, <4>5 DEF InHand
    <3> QED BY <3>1, <3>2
  <2>6. CASE Wake \/ Act \/ Capture \/ Source \/ Analyze \/ Queue \/ Prompt
    <3>1. UNCHANGED <<inbox, taken, over, withdrawn, lost>> /\ taken # 0
      BY <2>6 DEF Wake, Act, Capture, Source, Analyze, Queue, Prompt, Goes, Errs, Asks, files, InHand
    <3>2. at' \notin {"idle", "drain"}
      <4>1. CASE Wake
        <5>1. taken \in Sent
          BY <3>1 DEF NoneDisappears
        <5> QED BY <1>4, <1>5, <4>1, <5>1 DEF Wake, Goes
      <4>2. CASE ~Wake
        BY <2>6, <4>2 DEF Act, Capture, Source, Analyze, Queue, Prompt, Goes, Errs, Asks, Resumes
      <4> QED BY <4>1, <4>2
    <3> QED BY <2>1, <3>1, <3>2 DEF NoneDisappears, InHand
  <2>7. CASE Load \/ Done \/ Failed
    <3>1. over' = over \cup {taken} /\ taken' = 0 /\ at' = "idle" /\ UNCHANGED <<inbox, withdrawn, lost>>
          /\ taken # 0
      BY <2>7 DEF Load, Done, Failed, Ended, files, InHand
    <3> QED BY <2>1, <3>1 DEF NoneDisappears, InHand
  <2>8. CASE Refresh \/ Publish \/ Installed
    BY <2>1, <2>8 DEF Refresh, Publish, Installed, files, process, NoneDisappears, InHand
  <2>9. CASE Restart
    BY <2>1, <2>9 DEF Restart, files, NoneDisappears, InHand
  <2> QED BY <2>3, <2>4, <2>5, <2>6, <2>7, <2>8, <2>9, <1>2 DEF BridgeNext
<1>3. (\E k \in Kinds, wanted \in BOOLEAN : Send(k, wanted)) \/ UNCHANGED kind
  BY DEF BridgeNext, files, HostReads, HostGivesUp, Poll, Drain, Wake, Act, Capture, Source, Analyze, Queue,
         Prompt, Load, Done, Failed, Refresh, Publish, Installed, Restart
<1> QED BY <1>1, <1>2, <1>3

\* A file that is written is of a request that was not asked yet.
LEMMA SendIsNew ==
    ASSUME BridgeConstants, SentInOrder, FileTypes, NEW k \in Kinds, NEW wanted \in BOOLEAN, Send(k, wanted)
    PROVE  \A r \in Sent : kind'[r] = kind[r]
<1> DEFINE new == Cardinality(Sent) + 1
<1>1. new \notin Sent
  BY NextRequest DEF Send
<1>2. kind' = [kind EXCEPT ![new] = k]
  BY DEF Send
<1> HIDE DEF new
<1> QED BY <1>1, <1>2 DEF Sent, FileTypes

\* What a step of the request in hand says of it.
LEMMA StepFitsKeeps ==
    ASSUME BridgeConstants, BridgeInv, BridgeNext
    PROVE  StepFits'
<1> SetTypes /\ StepTypes /\ FileTypes /\ InHand /\ NoneDisappears /\ StepFits /\ SentInOrder
  BY BridgeParts DEF BridgeInv
<1> USE DEF Adding
<1>1. taken # 0 => taken \in Sent /\ taken \in Requests
  BY DEF NoneDisappears, StepTypes
<1>2. ASSUME NEW k \in Kinds, NEW wanted \in BOOLEAN, Send(k, wanted) PROVE StepFits'
  <2>1. taken # 0 => kind'[taken] = kind[taken]
    BY <1>1, <1>2, SendIsNew
  <2>2. UNCHANGED <<taken, at, answer, jobs, reviewed, asked>>
    BY <1>2 DEF Send, process, results
  <2> QED BY <2>1, <2>2 DEF StepFits, InHand
<1>3. ASSUME NEW r \in Requests, HostReads(r) \/ HostGivesUp(r) PROVE StepFits'
  BY <1>3 DEF HostReads, HostGivesUp, process, results, StepFits
<1>4. ASSUME Poll \/ Restart \/ Load \/ Done \/ Failed PROVE StepFits'
  BY <1>4 DEF Poll, Goes, Restart, Load, Done, Failed, Ended, StepFits
<1>5. ASSUME Refresh \/ Publish \/ Installed PROVE StepFits'
  BY <1>5 DEF Refresh, Publish, Installed, process, results, files, StepFits
<1>6. ASSUME NEW r \in Sent, First(kind[r]) = at', taken' = r, UNCHANGED kind PROVE StepFits'
  BY <1>6 DEF First, StepFits
<1>7. ASSUME Drain PROVE StepFits'
  <2>1. CASE inbox = {}
    BY <1>7, <2>1 DEF Drain, Taken, StepFits
  <2>2. CASE inbox # {}
    <3>1. PICK r \in Taken : taken' = r /\ at' = IF shown[r] THEN "wake" ELSE First(kind[r])
      BY <1>7, <2>2 DEF Drain
    <3>2. r \in Sent /\ UNCHANGED kind
      BY <1>7 DEF Drain, Taken, NoneDisappears
    <3>3. CASE at' = "wake"
      BY <3>3 DEF StepFits
    <3> QED BY <1>6, <3>1, <3>2, <3>3
  <2> QED BY <2>1, <2>2
<1>8. ASSUME Wake PROVE StepFits'
  BY <1>1, <1>6, <1>8 DEF Wake, Goes, InHand, files
<1>9. ASSUME Act PROVE StepFits'
  BY <1>9 DEF Act, Goes, Errs, StepFits, files, results
<1>10. ASSUME Capture PROVE StepFits'
  BY <1>1, <1>10 DEF Capture, Goes, Errs, Answers, StepFits, InHand, FileTypes
<1>11. ASSUME Source PROVE StepFits'
  BY <1>11 DEF Source, Goes, Errs, StepFits
<1>12. ASSUME Analyze PROVE StepFits'
  BY <1>12 DEF Analyze, Goes, Errs, Asks, StepFits
<1>13. ASSUME Queue PROVE StepFits'
  BY <1>13 DEF Queue, Goes, Errs, Asks, StepFits
<1>14. ASSUME Prompt PROVE StepFits'
  BY <1>14 DEF Prompt, Resumes, StepFits
<1> QED BY <1>2, <1>3, <1>4, <1>5, <1>7, <1>8, <1>9, <1>10, <1>11, <1>12, <1>13, <1>14 DEF BridgeNext

\* What the processed requests, the answers and the user were told stays true.
LEMMA ResultsKeep ==
    ASSUME BridgeConstants, BridgeInv, BridgeNext
    PROVE  ResultsKept'
<1> SetTypes /\ StepTypes /\ FileTypes /\ InHand /\ NoneDisappears /\ StepFits /\ ResultsKept
    /\ SentInOrder
  BY BridgeParts DEF BridgeInv
<1>1. over \subseteq Sent /\ (taken # 0 => taken \in Sent /\ taken \in Requests)
  BY DEF NoneDisappears, StepTypes
<1>2. ASSUME NEW k \in Kinds, NEW wanted \in BOOLEAN, Send(k, wanted) PROVE ResultsKept'
  <2>1. \A r \in over : kind'[r] = kind[r]
    BY <1>1, <1>2, SendIsNew
  <2>2. UNCHANGED <<over, failed, answer, told, jobs, reviewed, asked, claimed>>
    BY <1>2 DEF Send, process, results
  <2> QED BY <2>1, <2>2 DEF ResultsKept
<1>3. ASSUME NEW r \in Requests, HostReads(r) \/ HostGivesUp(r) PROVE ResultsKept'
  BY <1>3 DEF HostReads, HostGivesUp, process, results, ResultsKept, FileTypes
<1>4. ASSUME Poll \/ Restart \/ Refresh \/ Publish \/ Installed \/ Drain \/ Wake \/ Act \/ Analyze
      PROVE ResultsKept'
  <2>1. UNCHANGED <<kind, over, failed, answer, told, jobs, reviewed, asked, claimed>>
    BY <1>4 DEF Poll, Goes, Errs, Asks, Restart, Refresh, Publish, Installed, Drain, Wake, Act, Analyze,
                files, process, results
  <2> QED BY <2>1 DEF ResultsKept
<1>5. ASSUME Capture PROVE ResultsKept'
  <2>1. /\ jobs \subseteq jobs' /\ reviewed \subseteq reviewed'
        /\ UNCHANGED <<kind, over, failed, told, asked, claimed>>
    BY <1>5 DEF Capture, Goes, Errs
  <2>2. taken \in Requests
    BY <1>1, <1>5 DEF Capture, InHand
  <2>3. \/ UNCHANGED answer
        \/ /\ \A r \in Requests \ {taken} : answer'[r] = answer[r]
           /\ \/ answer'[taken] = "accepted" /\ taken \in jobs'
              \/ answer'[taken] = "review" /\ taken \in reviewed'
              \/ answer'[taken] = "refused"
    BY <1>5, <2>2 DEF Capture, Answers, FileTypes
  <2>4. over \subseteq Requests
    BY DEF SetTypes
  <2> QED BY <2>1, <2>2, <2>3, <2>4 DEF ResultsKept
<1>6. ASSUME Source \/ Queue \/ Prompt PROVE ResultsKept'
  <2>1. /\ jobs \subseteq jobs' /\ reviewed \subseteq reviewed' /\ asked \subseteq asked'
        /\ UNCHANGED <<kind, over, failed, answer, told, claimed>>
    BY <1>6 DEF Source, Queue, Prompt, Goes, Errs, Asks, files, results
  <2> QED BY <2>1 DEF ResultsKept
<1>7. ASSUME Load \/ Done \/ Failed PROVE ResultsKept'
  <2>1. over' = over \cup {taken} /\ UNCHANGED <<kind, answer, told, jobs, reviewed, asked>>
    BY <1>7 DEF Load, Done, Failed, Ended, files, results
  <2>2. taken \in failed' \/ (kind[taken] \in Adding => taken \in jobs \cup reviewed \cup asked \/ answer[taken] = "refused")
    BY <1>7 DEF Load, Done, Failed, StepFits
  <2>3. failed \subseteq failed'
    BY <1>7 DEF Load, Done, Failed
  <2>4. claimed' \subseteq jobs \cup asked
    BY <1>7 DEF Load, Done, Failed, results, StepFits, ResultsKept, Adding
  <2> QED BY <2>1, <2>2, <2>3, <2>4 DEF ResultsKept
<1> QED BY <1>2, <1>3, <1>4, <1>5, <1>6, <1>7 DEF BridgeNext

LEMMA StatePublishedKeeps ==
    ASSUME BridgeInv, BridgeNext
    PROVE  StatePublished'
BY DEF BridgeInv, BridgeNext, StatePublished, state, Send, HostReads, HostGivesUp, Poll, Drain, Wake, Act,
       Refreshes, Capture, Source, Analyze, Queue, Prompt, Load, Done, Failed, Refresh, Publish, Installed,
       Restart

LEMMA BridgeStarts == BridgeConstants /\ BridgeInit => BridgeInv
<1> SUFFICES ASSUME BridgeConstants, BridgeInit PROVE BridgeInv
  OBVIOUS
<1> USE DEF BridgeInit
<1>1. SetTypes BY DEF SetTypes
<1>2. FileTypes BY DEF FileTypes
<1>3. StepTypes BY DEF StepTypes, BridgeConstants
<1>4. BridgeFlags BY DEF BridgeFlags
<1>5. BridgeTypes
  <2>1. {inbox, waiting, over, failed, withdrawn, lost, jobs, reviewed, view, published, asked,
         claimed} \subseteq SUBSET Requests
    OBVIOUS
  <2>2. {publishing, behind, tools} \subseteq BOOLEAN
    OBVIOUS
  <2> QED BY <1>2, <1>3, <2>1, <2>2 DEF BridgeTypes, FileTypes, StepTypes
<1>6. Sent = {}
  BY DEF Sent
<1>7. SentInOrder
  <2>1. {} = 1 .. 0 /\ 0 \in 0 .. Cardinality(Requests)
    BY RequestNumbers
  <2> QED BY <1>6, <2>1 DEF SentInOrder
<1>8. NoneDisappears
  BY <1>6 DEF NoneDisappears
<1>9. InHand /\ StepFits /\ ResultsKept
  BY DEF InHand, StepFits, ResultsKept
<1>10. StatePublished
  BY DEF StatePublished
<1> QED BY <1>5, <1>7, <1>8, <1>9, <1>10 DEF BridgeInv

LEMMA BridgeSteps ==
    ASSUME BridgeConstants, BridgeInv, [BridgeNext]_bridgeVars
    PROVE  BridgeInv'
<1>1. CASE UNCHANGED bridgeVars
  BY <1>1 DEF bridgeVars, BridgeInv, BridgeTypes, SentInOrder, NoneDisappears, InHand, StepFits, ResultsKept,
              StatePublished, Sent
<1>2. CASE BridgeNext
  <2>1. BridgeTypes'
    BY <1>2, SetTypesKeep, FileTypesKeep, StepTypesKeep, BridgePartsNext
  <2> QED BY <1>2, <2>1, NoneDisappearsKeeps, StepFitsKeeps, ResultsKeep, StatePublishedKeeps DEF BridgeInv
<1> QED BY <1>1, <1>2

\* No request of the extension disappears, and what it, the host and the panel are
\* told of it is true, for any number of requests, failures and ends.
THEOREM NoRequestDisappears ==
    ASSUME BridgeConstants PROVE BridgeSpec => []RequestsKept
<1>1. BridgeInit => BridgeInv BY BridgeStarts
<1>2. BridgeInv /\ [BridgeNext]_bridgeVars => BridgeInv' BY BridgeSteps
<1>3. BridgeInv => RequestsKept
  BY DEF BridgeInv, NoneDisappears, ResultsKept, StatePublished, RequestsKept, Adding
<1> QED BY <1>1, <1>2, <1>3, PTL DEF BridgeSpec

\* The requests, their results and the host's steps keep their types.
THEOREM BridgeKeepsTypes ==
    ASSUME BridgeConstants PROVE BridgeSpec => []BridgeTypes
<1>1. BridgeInit => BridgeInv BY BridgeStarts
<1>2. BridgeInv /\ [BridgeNext]_bridgeVars => BridgeInv' BY BridgeSteps
<1>3. BridgeInv => BridgeTypes
  BY DEF BridgeInv
<1> QED BY <1>1, <1>2, <1>3, PTL DEF BridgeSpec

-----------------------------------------------------------------------------
(* THE UPDATES                                                             *)

(* The update of the application                                            *)

\* The types, by what they say of the page, of the user and of the application.
WorldTypes ==
    version \in Releases /\ staged \in Releases /\ released \in Releases
LookupTypes ==
    /\ available \in Releases /\ metadata \in Releases /\ got \in Releases /\ key \in Releases
    /\ lookup \in {"none", "asked", "answered", "refused", "notify", "told", "untold", "metadata"}
    /\ pending \in Releases /\ noticed \in [Releases -> Nat] /\ cut \subseteq Releases
    /\ checks \in Nat
InstallTypes ==
    /\ target \in Releases /\ recorded \subseteq Releases \X Releases
    /\ install \in {"none", "asked", "downloading", "replacing", "done", "refused"}
    /\ events \in Seq({"download", "install"}) /\ progress \in {"none", "download", "install"}
    /\ tool \in {"none", "checking", "applying"}
UpdateFlags ==
    /\ running \in BOOLEAN /\ listed \in BOOLEAN /\ moved \in BOOLEAN /\ due \in BOOLEAN
    /\ checking \in BOOLEAN /\ installing \in BOOLEAN /\ slots \in BOOLEAN /\ canUpdate \in BOOLEAN

\* What a check has found is not older than what the user was told of last, and what he
\* is told of is newer; it is then what the page offers.
FoundFits ==
    /\ key <= released /\ got <= released /\ (got # 0 => key <= got)
    /\ lookup \in {"notify", "told", "untold"} => key < got
    /\ lookup \in {"notify", "told", "untold", "metadata"} => got # 0 /\ available = got

\* Whoever was told of a version remembers it, or is about to.
ToldOnce ==
    \A v \in Releases \ cut :
        noticed[v] = 0 \/ (noticed[v] = 1 /\ (v <= key \/ (lookup = "told" /\ v = got)))

\* Until a release comes out after a check, whatever is offered, found or installed is one
\* version; before the first check there is none.
OneRelease ==
    /\ moved => checks > 0
    /\ checks = 0 => available = 0 /\ got = 0 /\ target = 0 /\ lookup = "none"
    /\ install \in {"downloading", "replacing", "done"} => target # 0
    /\ moved \/ (/\ available \in {0, released} /\ got \in {0, released} /\ target \in {0, released}
                 /\ \A r \in recorded : r[1] = r[2])

\* The version offered is remembered as pending but while the user is told of it, and after
\* it was put in place.
PendingFits ==
    (/\ lookup \notin {"notify", "told", "untold"} /\ available # 0
     /\ installing => install # "none") => pending = available

SlotsFit == slots = installing /\ (checking <=> lookup # "none") /\ (install # "none" => installing)

UpdateTypesParts == WorldTypes /\ LookupTypes /\ InstallTypes /\ UpdateFlags
UpdateInv ==
    UpdateTypesParts /\ FoundFits /\ ToldOnce /\ OneRelease /\ PendingFits /\ SlotsFit

\* The application and the server.
LEMMA WorldKeepsTypes ==
    ASSUME UpdateConstants, UpdateTypesParts, UpdateNext
    PROVE  WorldTypes'
<1> USE DEF world, looking, putting, toolVars, bounds, UpdateTypesParts, WorldTypes, LookupTypes, InstallTypes, Releases, UpdateConstants
<1>1. ASSUME NEW automatic \in BOOLEAN, Check(automatic) PROVE WorldTypes'
  BY <1>1 DEF Check, DrawSlots
<1>2. CASE DueAgain
  BY <1>2 DEF DueAgain
<1>3. CASE Served
  BY <1>3 DEF Served, Newest, Slip
<1>4. CASE Answered
  BY <1>4 DEF Answered, CheckOver, Remember, DrawSlots
<1>5. CASE Notify
  BY <1>5 DEF Notify, Slip
<1>6. CASE Told
  BY <1>6 DEF Told, Remember
<1>7. CASE Described
  BY <1>7 DEF Described, CheckOver, DrawSlots
<1>8. CASE Refused
  BY <1>8 DEF Refused, CheckOver, DrawSlots
<1>9. CASE Install
  BY <1>9 DEF Install, DrawSlots
<1>10. CASE Begin
  BY <1>10 DEF Begin, Newest
<1>11. CASE Download
  BY <1>11 DEF Download, Says, Slip
<1>12. CASE Replace
  BY <1>12 DEF Replace, Slip
<1>13. CASE Hear
  BY <1>13 DEF Hear, DrawSlots
<1>14. CASE InstallOver
  BY <1>14 DEF InstallOver, Remember
<1>15. CASE InstallRefused
  BY <1>15 DEF InstallRefused, DrawSlots
<1>16. CASE ToolCheck
  BY <1>16 DEF ToolCheck, DrawSlots
<1>17. CASE ToolApply
  BY <1>17 DEF ToolApply, DrawSlots
<1>18. CASE ToolAnswered
  BY <1>18 DEF ToolAnswered, DrawSlots
<1>19. CASE Release
  BY <1>19 DEF Release
<1>20. CASE Transfer
  BY <1>20 DEF Transfer
<1>21. CASE Snapshot
  BY <1>21 DEF Snapshot
<1>22. CASE Relaunch
  BY <1>22 DEF Relaunch
<1>23. QED  BY <1>1, <1>2, <1>3, <1>4, <1>5, <1>6, <1>7, <1>8, <1>9, <1>10, <1>11, <1>12, <1>13, <1>14, <1>15, <1>16, <1>17, <1>18, <1>19, <1>20, <1>21, <1>22 DEF UpdateNext

\* The checks.
LEMMA LookupKeepsTypes ==
    ASSUME UpdateConstants, UpdateTypesParts, UpdateNext
    PROVE  LookupTypes'
<1> USE DEF world, looking, putting, toolVars, bounds, UpdateTypesParts, WorldTypes, LookupTypes, InstallTypes, Releases, UpdateConstants
<1>1. ASSUME NEW automatic \in BOOLEAN, Check(automatic) PROVE LookupTypes'
  BY <1>1 DEF Check, DrawSlots
<1>2. CASE DueAgain
  BY <1>2 DEF DueAgain
<1>3. CASE Served
  BY <1>3 DEF Served, Newest, Slip
<1>4. CASE Answered
  <2> USE <1>4 DEF Answered, CheckOver, Remember
  <2>1. available' = got /\ metadata' = 0 /\ UNCHANGED <<key, noticed, cut, checks>>
    OBVIOUS
  <2>2. pending' \in {0, got, pending} /\ got' \in {0, got}
    OBVIOUS
  <2>3. lookup' \in {"none", "notify", "metadata"}
    OBVIOUS
  <2>4. QED  BY <2>1, <2>2, <2>3
<1>5. CASE Notify
  <2>1. noticed' \in [Releases -> Nat]
    <3>1. noticed' = [noticed EXCEPT ![got] = @ + 1] \/ noticed' = noticed
      BY <1>5 DEF Notify
    <3>2. noticed \in [Releases -> Nat] /\ (got \in Releases => noticed[got] + 1 \in Nat)
      OBVIOUS
    <3>3. CASE noticed' = [noticed EXCEPT ![got] = @ + 1]
      <4> HIDE DEF Releases
      <4>1. QED  BY <3>2, <3>3
    <3>4. QED  BY <3>1, <3>2, <3>3
  <2>2. lookup' \in {"told", "untold"} /\ UNCHANGED <<available, metadata, got, key, pending, cut, checks>>
    BY <1>5 DEF Notify
  <2>3. QED  BY <2>1, <2>2
<1>6. CASE Told
  BY <1>6 DEF Told, Remember
<1>7. CASE Described
  BY <1>7 DEF Described, CheckOver, DrawSlots
<1>8. CASE Refused
  BY <1>8 DEF Refused, CheckOver, DrawSlots
<1>9. CASE Install
  BY <1>9 DEF Install, DrawSlots
<1>10. CASE Begin
  BY <1>10 DEF Begin, Newest
<1>11. CASE Download
  BY <1>11 DEF Download, Says, Slip
<1>12. CASE Replace
  BY <1>12 DEF Replace, Slip
<1>13. CASE Hear
  BY <1>13 DEF Hear, DrawSlots
<1>14. CASE InstallOver
  BY <1>14 DEF InstallOver, Remember
<1>15. CASE InstallRefused
  BY <1>15 DEF InstallRefused, DrawSlots
<1>16. CASE ToolCheck
  BY <1>16 DEF ToolCheck, DrawSlots
<1>17. CASE ToolApply
  BY <1>17 DEF ToolApply, DrawSlots
<1>18. CASE ToolAnswered
  BY <1>18 DEF ToolAnswered, DrawSlots
<1>19. CASE Release
  BY <1>19 DEF Release
<1>20. CASE Transfer
  BY <1>20 DEF Transfer
<1>21. CASE Snapshot
  BY <1>21 DEF Snapshot
<1>22. CASE Relaunch
  BY <1>22 DEF Relaunch
<1>23. QED  BY <1>1, <1>2, <1>3, <1>4, <1>5, <1>6, <1>7, <1>8, <1>9, <1>10, <1>11, <1>12, <1>13, <1>14, <1>15, <1>16, <1>17, <1>18, <1>19, <1>20, <1>21, <1>22 DEF UpdateNext

\* The installs.
LEMMA InstallKeepsTypes ==
    ASSUME UpdateConstants, UpdateTypesParts, UpdateNext
    PROVE  InstallTypes'
<1> USE DEF world, looking, putting, toolVars, bounds, UpdateTypesParts, WorldTypes, LookupTypes, InstallTypes, Releases, UpdateConstants
<1>1. ASSUME NEW automatic \in BOOLEAN, Check(automatic) PROVE InstallTypes'
  BY <1>1 DEF Check, DrawSlots
<1>2. CASE DueAgain
  BY <1>2 DEF DueAgain
<1>3. CASE Served
  BY <1>3 DEF Served, Newest, Slip
<1>4. CASE Answered
  BY <1>4 DEF Answered, CheckOver, Remember, DrawSlots
<1>5. CASE Notify
  BY <1>5 DEF Notify, Slip
<1>6. CASE Told
  BY <1>6 DEF Told, Remember
<1>7. CASE Described
  BY <1>7 DEF Described, CheckOver, DrawSlots
<1>8. CASE Refused
  BY <1>8 DEF Refused, CheckOver, DrawSlots
<1>9. CASE Install
  BY <1>9 DEF Install, DrawSlots
<1>10. CASE Begin
  BY <1>10 DEF Begin, Newest
<1>11. CASE Download
  <2>1. events' \in Seq({"download", "install"})
    <3>1. events' = Append(events, "install") \/ events' = Append(events, "download")
      BY <1>11 DEF Download, Says
    <3>2. events \in Seq({"download", "install"})
      OBVIOUS
    <3>3. Append(events, "install") \in Seq({"download", "install"})
      BY <3>2, AppendProperties
    <3>4. Append(events, "download") \in Seq({"download", "install"})
      BY <3>2, AppendProperties
    <3>5. QED  BY <3>1, <3>3, <3>4, Zenon
  <2>2. install' \in {"replacing", "refused"} /\ UNCHANGED <<target, recorded, progress, tool>>
    BY <1>11 DEF Download
  <2>3. QED  BY <2>1, <2>2
<1>12. CASE Replace
  BY <1>12 DEF Replace, Slip
<1>13. CASE Hear
  BY <1>13 DEF Hear, DrawSlots
<1>14. CASE InstallOver
  BY <1>14 DEF InstallOver, Remember
<1>15. CASE InstallRefused
  BY <1>15 DEF InstallRefused, DrawSlots
<1>16. CASE ToolCheck
  BY <1>16 DEF ToolCheck, DrawSlots
<1>17. CASE ToolApply
  BY <1>17 DEF ToolApply, DrawSlots
<1>18. CASE ToolAnswered
  BY <1>18 DEF ToolAnswered, DrawSlots
<1>19. CASE Release
  BY <1>19 DEF Release
<1>20. CASE Transfer
  BY <1>20 DEF Transfer
<1>21. CASE Snapshot
  BY <1>21 DEF Snapshot
<1>22. CASE Relaunch
  BY <1>22 DEF Relaunch
<1>23. QED  BY <1>1, <1>2, <1>3, <1>4, <1>5, <1>6, <1>7, <1>8, <1>9, <1>10, <1>11, <1>12, <1>13, <1>14, <1>15, <1>16, <1>17, <1>18, <1>19, <1>20, <1>21, <1>22 DEF UpdateNext

\* What is or is not.
LEMMA FlagsKeepTypes ==
    ASSUME UpdateConstants, UpdateTypesParts, UpdateNext
    PROVE  UpdateFlags'
<1> USE DEF world, looking, putting, toolVars, bounds, UpdateTypesParts, UpdateFlags
<1>1. ASSUME NEW automatic \in BOOLEAN, Check(automatic) PROVE UpdateFlags'
  BY <1>1 DEF Check, DrawSlots
<1>2. CASE DueAgain
  BY <1>2 DEF DueAgain
<1>3. CASE Served
  BY <1>3 DEF Served, Newest, Slip
<1>4. CASE Answered
  BY <1>4 DEF Answered, CheckOver, Remember, DrawSlots
<1>5. CASE Notify
  BY <1>5 DEF Notify, Slip
<1>6. CASE Told
  BY <1>6 DEF Told, Remember
<1>7. CASE Described
  BY <1>7 DEF Described, CheckOver, DrawSlots
<1>8. CASE Refused
  BY <1>8 DEF Refused, CheckOver, DrawSlots
<1>9. CASE Install
  BY <1>9 DEF Install, DrawSlots
<1>10. CASE Begin
  BY <1>10 DEF Begin, Newest
<1>11. CASE Download
  BY <1>11 DEF Download, Says, Slip
<1>12. CASE Replace
  BY <1>12 DEF Replace, Slip
<1>13. CASE Hear
  BY <1>13 DEF Hear, DrawSlots
<1>14. CASE InstallOver
  BY <1>14 DEF InstallOver, Remember
<1>15. CASE InstallRefused
  BY <1>15 DEF InstallRefused, DrawSlots
<1>16. CASE ToolCheck
  BY <1>16 DEF ToolCheck, DrawSlots
<1>17. CASE ToolApply
  BY <1>17 DEF ToolApply, DrawSlots
<1>18. CASE ToolAnswered
  BY <1>18 DEF ToolAnswered, DrawSlots
<1>19. CASE Release
  BY <1>19 DEF Release
<1>20. CASE Transfer
  BY <1>20 DEF Transfer
<1>21. CASE Snapshot
  BY <1>21 DEF Snapshot
<1>22. CASE Relaunch
  BY <1>22 DEF Relaunch
<1>23. QED  BY <1>1, <1>2, <1>3, <1>4, <1>5, <1>6, <1>7, <1>8, <1>9, <1>10, <1>11, <1>12, <1>13, <1>14, <1>15, <1>16, <1>17, <1>18, <1>19, <1>20, <1>21, <1>22 DEF UpdateNext

\* A check finds what is published by then.
LEMMA FoundStep ==
    ASSUME UpdateConstants, UpdateTypesParts, FoundFits, UpdateNext
    PROVE  FoundFits'
<1> USE DEF world, looking, putting, toolVars, bounds, FoundFits, UpdateTypesParts, WorldTypes, LookupTypes, InstallTypes, Releases, UpdateConstants
<1>1. ASSUME NEW automatic \in BOOLEAN, Check(automatic) PROVE FoundFits'
  BY <1>1 DEF Check, DrawSlots
<1>2. CASE DueAgain
  BY <1>2 DEF DueAgain
<1>3. CASE Served
  BY <1>3 DEF Served, Newest, Slip
<1>4. CASE Answered
  BY <1>4 DEF Answered, CheckOver, Remember, DrawSlots
<1>5. CASE Notify
  BY <1>5 DEF Notify, Slip
<1>6. CASE Told
  BY <1>6 DEF Told, Remember
<1>7. CASE Described
  BY <1>7 DEF Described, CheckOver, DrawSlots
<1>8. CASE Refused
  BY <1>8 DEF Refused, CheckOver, DrawSlots
<1>9. CASE Install
  BY <1>9 DEF Install, DrawSlots
<1>10. CASE Begin
  BY <1>10 DEF Begin, Newest
<1>11. CASE Download
  BY <1>11 DEF Download, Says, Slip
<1>12. CASE Replace
  BY <1>12 DEF Replace, Slip
<1>13. CASE Hear
  BY <1>13 DEF Hear, DrawSlots
<1>14. CASE InstallOver
  BY <1>14 DEF InstallOver, Remember
<1>15. CASE InstallRefused
  BY <1>15 DEF InstallRefused, DrawSlots
<1>16. CASE ToolCheck
  BY <1>16 DEF ToolCheck, DrawSlots
<1>17. CASE ToolApply
  BY <1>17 DEF ToolApply, DrawSlots
<1>18. CASE ToolAnswered
  BY <1>18 DEF ToolAnswered, DrawSlots
<1>19. CASE Release
  BY <1>19 DEF Release
<1>20. CASE Transfer
  BY <1>20 DEF Transfer
<1>21. CASE Snapshot
  BY <1>21 DEF Snapshot
<1>22. CASE Relaunch
  BY <1>22 DEF Relaunch
<1>23. QED  BY <1>1, <1>2, <1>3, <1>4, <1>5, <1>6, <1>7, <1>8, <1>9, <1>10, <1>11, <1>12, <1>13, <1>14, <1>15, <1>16, <1>17, <1>18, <1>19, <1>20, <1>21, <1>22 DEF UpdateNext

\* A version is told when it is newer than the one remembered.
LEMMA ToldStep ==
    ASSUME UpdateConstants, UpdateTypesParts, FoundFits, SlotsFit, ToldOnce, UpdateNext
    PROVE  ToldOnce'
<1> USE DEF world, looking, putting, toolVars, bounds, FoundFits, SlotsFit, ToldOnce, UpdateTypesParts, WorldTypes, LookupTypes, InstallTypes, Releases, UpdateConstants
<1>1. ASSUME NEW automatic \in BOOLEAN, Check(automatic) PROVE ToldOnce'
  BY <1>1 DEF Check, DrawSlots
<1>2. CASE DueAgain
  BY <1>2 DEF DueAgain
<1>3. CASE Served
  BY <1>3 DEF Served, Newest, Slip
<1>4. CASE Answered
  BY <1>4 DEF Answered, CheckOver, Remember, DrawSlots
<1>5. CASE Notify
  BY <1>5 DEF Notify, Slip
<1>6. CASE Told
  BY <1>6 DEF Told, Remember
<1>7. CASE Described
  BY <1>7 DEF Described, CheckOver, DrawSlots
<1>8. CASE Refused
  BY <1>8 DEF Refused, CheckOver, DrawSlots
<1>9. CASE Install
  BY <1>9 DEF Install, DrawSlots
<1>10. CASE Begin
  BY <1>10 DEF Begin, Newest
<1>11. CASE Download
  BY <1>11 DEF Download, Says, Slip
<1>12. CASE Replace
  BY <1>12 DEF Replace, Slip
<1>13. CASE Hear
  BY <1>13 DEF Hear, DrawSlots
<1>14. CASE InstallOver
  BY <1>14 DEF InstallOver, Remember
<1>15. CASE InstallRefused
  BY <1>15 DEF InstallRefused, DrawSlots
<1>16. CASE ToolCheck
  BY <1>16 DEF ToolCheck, DrawSlots
<1>17. CASE ToolApply
  BY <1>17 DEF ToolApply, DrawSlots
<1>18. CASE ToolAnswered
  BY <1>18 DEF ToolAnswered, DrawSlots
<1>19. CASE Release
  BY <1>19 DEF Release
<1>20. CASE Transfer
  BY <1>20 DEF Transfer
<1>21. CASE Snapshot
  BY <1>21 DEF Snapshot
<1>22. CASE Relaunch
  BY <1>22 DEF Relaunch
<1>23. QED  BY <1>1, <1>2, <1>3, <1>4, <1>5, <1>6, <1>7, <1>8, <1>9, <1>10, <1>11, <1>12, <1>13, <1>14, <1>15, <1>16, <1>17, <1>18, <1>19, <1>20, <1>21, <1>22 DEF UpdateNext

\* One version, until another is published after a check.
LEMMA ReleaseStep ==
    ASSUME UpdateConstants, UpdateTypesParts, FoundFits, SlotsFit, OneRelease, UpdateNext
    PROVE  OneRelease'
<1> USE DEF world, looking, putting, toolVars, bounds, FoundFits, SlotsFit, OneRelease, UpdateTypesParts, WorldTypes, LookupTypes, InstallTypes, Releases, UpdateConstants
<1>1. ASSUME NEW automatic \in BOOLEAN, Check(automatic) PROVE OneRelease'
  BY <1>1 DEF Check, DrawSlots
<1>2. CASE DueAgain
  BY <1>2 DEF DueAgain
<1>3. CASE Served
  BY <1>3 DEF Served, Newest, Slip
<1>4. CASE Answered
  BY <1>4 DEF Answered, CheckOver, Remember, DrawSlots
<1>5. CASE Notify
  BY <1>5 DEF Notify, Slip
<1>6. CASE Told
  BY <1>6 DEF Told, Remember
<1>7. CASE Described
  BY <1>7 DEF Described, CheckOver, DrawSlots
<1>8. CASE Refused
  BY <1>8 DEF Refused, CheckOver, DrawSlots
<1>9. CASE Install
  BY <1>9 DEF Install, DrawSlots
<1>10. CASE Begin
  BY <1>10 DEF Begin, Newest
<1>11. CASE Download
  BY <1>11 DEF Download, Says, Slip
<1>12. CASE Replace
  BY <1>12 DEF Replace, Slip
<1>13. CASE Hear
  BY <1>13 DEF Hear, DrawSlots
<1>14. CASE InstallOver
  BY <1>14 DEF InstallOver, Remember
<1>15. CASE InstallRefused
  BY <1>15 DEF InstallRefused, DrawSlots
<1>16. CASE ToolCheck
  BY <1>16 DEF ToolCheck, DrawSlots
<1>17. CASE ToolApply
  BY <1>17 DEF ToolApply, DrawSlots
<1>18. CASE ToolAnswered
  BY <1>18 DEF ToolAnswered, DrawSlots
<1>19. CASE Release
  <2>1. CASE checks = 0
    BY <1>19, <2>1 DEF Release
  <2>2. CASE checks # 0
    <3>1. checks > 0
      BY <2>2
    <3>2. moved' = (checks > 0)
      BY <1>19 DEF Release
    <3>3. moved'
      BY <3>1, <3>2, Zenon
    <3>4. QED  BY <1>19, <2>2, <3>1, <3>3 DEF Release
  <2>3. QED  BY <2>1, <2>2
<1>20. CASE Transfer
  BY <1>20 DEF Transfer
<1>21. CASE Snapshot
  BY <1>21 DEF Snapshot
<1>22. CASE Relaunch
  BY <1>22 DEF Relaunch
<1>23. QED  BY <1>1, <1>2, <1>3, <1>4, <1>5, <1>6, <1>7, <1>8, <1>9, <1>10, <1>11, <1>12, <1>13, <1>14, <1>15, <1>16, <1>17, <1>18, <1>19, <1>20, <1>21, <1>22 DEF UpdateNext

\* The end of a check remembers what it offers.
LEMMA PendingStep ==
    ASSUME UpdateConstants, UpdateTypesParts, FoundFits, SlotsFit, PendingFits, UpdateNext
    PROVE  PendingFits'
<1> USE DEF world, looking, putting, toolVars, bounds, FoundFits, SlotsFit, PendingFits, UpdateTypesParts, WorldTypes, LookupTypes, InstallTypes, Releases, UpdateConstants
<1>1. ASSUME NEW automatic \in BOOLEAN, Check(automatic) PROVE PendingFits'
  BY <1>1 DEF Check, DrawSlots
<1>2. CASE DueAgain
  BY <1>2 DEF DueAgain
<1>3. CASE Served
  BY <1>3 DEF Served, Newest, Slip
<1>4. CASE Answered
  BY <1>4 DEF Answered, CheckOver, Remember, DrawSlots
<1>5. CASE Notify
  BY <1>5 DEF Notify, Slip
<1>6. CASE Told
  BY <1>6 DEF Told, Remember
<1>7. CASE Described
  BY <1>7 DEF Described, CheckOver, DrawSlots
<1>8. CASE Refused
  BY <1>8 DEF Refused, CheckOver, DrawSlots
<1>9. CASE Install
  BY <1>9 DEF Install, DrawSlots
<1>10. CASE Begin
  BY <1>10 DEF Begin, Newest
<1>11. CASE Download
  BY <1>11 DEF Download, Says, Slip
<1>12. CASE Replace
  BY <1>12 DEF Replace, Slip
<1>13. CASE Hear
  BY <1>13 DEF Hear, DrawSlots
<1>14. CASE InstallOver
  BY <1>14 DEF InstallOver, Remember
<1>15. CASE InstallRefused
  BY <1>15 DEF InstallRefused, DrawSlots
<1>16. CASE ToolCheck
  BY <1>16 DEF ToolCheck, DrawSlots
<1>17. CASE ToolApply
  BY <1>17 DEF ToolApply, DrawSlots
<1>18. CASE ToolAnswered
  BY <1>18 DEF ToolAnswered, DrawSlots
<1>19. CASE Release
  BY <1>19 DEF Release
<1>20. CASE Transfer
  BY <1>20 DEF Transfer
<1>21. CASE Snapshot
  BY <1>21 DEF Snapshot
<1>22. CASE Relaunch
  BY <1>22 DEF Relaunch
<1>23. QED  BY <1>1, <1>2, <1>3, <1>4, <1>5, <1>6, <1>7, <1>8, <1>9, <1>10, <1>11, <1>12, <1>13, <1>14, <1>15, <1>16, <1>17, <1>18, <1>19, <1>20, <1>21, <1>22 DEF UpdateNext

\* The progress is drawn with every change of it.
LEMMA SlotsStep ==
    ASSUME UpdateConstants, UpdateTypesParts, SlotsFit, UpdateNext
    PROVE  SlotsFit'
<1> USE DEF world, looking, putting, toolVars, bounds, SlotsFit, LookupTypes, InstallTypes, UpdateTypesParts
<1>1. ASSUME NEW automatic \in BOOLEAN, Check(automatic) PROVE SlotsFit'
  BY <1>1 DEF Check, DrawSlots
<1>2. CASE DueAgain
  BY <1>2 DEF DueAgain
<1>3. CASE Served
  BY <1>3 DEF Served, Newest, Slip
<1>4. CASE Answered
  BY <1>4 DEF Answered, CheckOver, Remember, DrawSlots
<1>5. CASE Notify
  BY <1>5 DEF Notify, Slip
<1>6. CASE Told
  BY <1>6 DEF Told, Remember
<1>7. CASE Described
  BY <1>7 DEF Described, CheckOver, DrawSlots
<1>8. CASE Refused
  BY <1>8 DEF Refused, CheckOver, DrawSlots
<1>9. CASE Install
  BY <1>9 DEF Install, DrawSlots
<1>10. CASE Begin
  BY <1>10 DEF Begin, Newest
<1>11. CASE Download
  BY <1>11 DEF Download, Says, Slip
<1>12. CASE Replace
  BY <1>12 DEF Replace, Slip
<1>13. CASE Hear
  BY <1>13 DEF Hear, DrawSlots
<1>14. CASE InstallOver
  BY <1>14 DEF InstallOver, Remember
<1>15. CASE InstallRefused
  BY <1>15 DEF InstallRefused, DrawSlots
<1>16. CASE ToolCheck
  BY <1>16 DEF ToolCheck, DrawSlots
<1>17. CASE ToolApply
  BY <1>17 DEF ToolApply, DrawSlots
<1>18. CASE ToolAnswered
  BY <1>18 DEF ToolAnswered, DrawSlots
<1>19. CASE Release
  BY <1>19 DEF Release
<1>20. CASE Transfer
  BY <1>20 DEF Transfer
<1>21. CASE Snapshot
  BY <1>21 DEF Snapshot
<1>22. CASE Relaunch
  BY <1>22 DEF Relaunch
<1>23. QED  BY <1>1, <1>2, <1>3, <1>4, <1>5, <1>6, <1>7, <1>8, <1>9, <1>10, <1>11, <1>12, <1>13, <1>14, <1>15, <1>16, <1>17, <1>18, <1>19, <1>20, <1>21, <1>22 DEF UpdateNext

LEMMA UpdateStart == ASSUME UpdateConstants PROVE UpdateInit => UpdateInv
  BY DEF UpdateConstants, UpdateInit, UpdateInv, UpdateTypesParts, WorldTypes, LookupTypes, InstallTypes,
         UpdateFlags, FoundFits, ToldOnce, OneRelease, PendingFits, SlotsFit, Releases

LEMMA UpdateStep ==
    ASSUME UpdateConstants, UpdateInv, [UpdateNext]_updateVars
    PROVE  UpdateInv'
<1>1. CASE UpdateNext
  BY <1>1, WorldKeepsTypes, LookupKeepsTypes, InstallKeepsTypes, FlagsKeepTypes, FoundStep, ToldStep,
     ReleaseStep, PendingStep, SlotsStep DEF UpdateInv, UpdateTypesParts
<1>2. CASE UNCHANGED updateVars
  BY <1>2 DEF updateVars, UpdateInv, UpdateTypesParts, WorldTypes, LookupTypes, InstallTypes,
              UpdateFlags, FoundFits, ToldOnce, OneRelease, PendingFits, SlotsFit
<1>3. QED  BY <1>1, <1>2

\* The update's variables keep their types.
THEOREM UpdateKeepsTypes ==
    ASSUME UpdateConstants
    PROVE  UpdateSpec => []UpdateTypes
<1>1. UpdateInv => UpdateTypes
  BY DEF UpdateInv, UpdateTypesParts, UpdateTypes, WorldTypes, LookupTypes, InstallTypes, UpdateFlags
<1>2. QED  BY <1>1, UpdateStart, UpdateStep, PTL DEF UpdateSpec

\* The user is told of a version once, what is recorded as installed is what was put in
\* place, what is offered is pending, and the progress drawn is that of an install: for
\* any releases, checks, installs, starts and failures (main.js, checkForAppUpdates
\* and installAvailableUpdate).
THEOREM UpdatesAreTold ==
    ASSUME UpdateConstants
    PROVE  UpdateSpec => []UpdateTrue
<1>1. UpdateInv => UpdateTrue
  BY DEF UpdateInv, UpdateTypesParts, UpdateTrue, ToldOnce, OneRelease, PendingFits, SlotsFit
<1>2. QED  BY <1>1, UpdateStart, UpdateStep, PTL DEF UpdateSpec

-----------------------------------------------------------------------------
(* THE ROWS OF THE LIST                                                    *)

(* Numbers                                                                 *)

\* A set of numbers has a least one.
LEMMA HasLeast ==
    ASSUME NEW T \in SUBSET Nat, T # {}
    PROVE  \E n \in T : \A m \in T : n <= m
<1> DEFINE R == OpToRel(<, Nat)
<1>1. IsWellFoundedOn(R, Nat)
  BY NatLessThanWellFounded
<1>2. \A m, n \in Nat : m < n => <<m, n>> \in R
  BY DEF OpToRel
<1> HIDE DEF R
<1>3. \E x \in T : \A y \in T : ~(<<y, x>> \in R)
  BY <1>1, WFMin
<1>4. \A x, y \in T : ~(y < x) => x <= y
  OBVIOUS
<1> QED
  BY <1>2, <1>3, <1>4

\* A set that has 0, and after each of the first numbers the next one, has them all.
LEMMA Reaches ==
    ASSUME NEW b \in Nat, NEW T, 0 \in T, \A n \in 0 .. b - 1 : n \in T => n + 1 \in T
    PROVE  0 .. b \subseteq T
<1> SUFFICES ASSUME 0 .. b \ T # {} PROVE FALSE
  OBVIOUS
<1>1. (0 .. b \ T) \in SUBSET Nat
  OBVIOUS
<1>2. PICK n \in 0 .. b \ T : \A m \in 0 .. b \ T : n <= m
  BY <1>1, HasLeast
<1>3. n # 0 /\ n - 1 \in 0 .. b - 1 /\ n - 1 \in T
  BY <1>2
<1> QED
  BY <1>2, <1>3

-----------------------------------------------------------------------------
(* The order of the nodes                                                  *)

\* Ranks that differ, as many as there are members, order a set: its members follow one
\* another, each once.
LEMMA RanksOrder ==
    ASSUME NEW S, IsFiniteSet(S), NEW rank \in [S -> 1 .. Cardinality(S)],
           \A x, y \in S : rank[x] = rank[y] => x = y
    PROVE  /\ ByRank(S, rank) \in Seq(S) /\ Len(ByRank(S, rank)) = Cardinality(S)
           /\ \A n \in 1 .. Cardinality(S) :
                ByRank(S, rank)[n] \in S /\ rank[ByRank(S, rank)[n]] = n
<1>1. Cardinality(S) \in Nat
  BY FS_CardinalityType
<1>2. IsFiniteSet(1 .. Cardinality(S)) /\ Cardinality(1 .. Cardinality(S)) = Cardinality(S)
  <2>1. 1 \in Int /\ Cardinality(S) \in Int
    BY <1>1
  <2>2. /\ IsFiniteSet(1 .. Cardinality(S))
        /\ Cardinality(1 .. Cardinality(S)) =
             IF 1 > Cardinality(S) THEN 0 ELSE Cardinality(S) - 1 + 1
    BY <2>1, FS_Interval
  <2> QED
    BY <1>1, <2>2
<1>3. rank \in Injection(S, 1 .. Cardinality(S))
  BY DEF Injection, IsInjective
<1>4. rank \in Surjection(S, 1 .. Cardinality(S))
  BY <1>2, <1>3, FS_Injection
<1>5. \A n \in 1 .. Cardinality(S) : \E x \in S : rank[x] = n
  BY <1>4 DEF Surjection
<1> DEFINE ordered == [n \in 1 .. Cardinality(S) |-> CHOOSE x \in S : rank[x] = n]
<1>6. \A n \in 1 .. Cardinality(S) : ordered[n] \in S /\ rank[ordered[n]] = n
  BY <1>5
<1>7. ByRank(S, rank) = ordered
  BY DEF ByRank
<1>8. ordered = [n \in 1 .. Cardinality(S) |-> ordered[n]]
  OBVIOUS
<1> HIDE DEF ordered
<1>9. ordered \in Seq(S) /\ Len(ordered) = Cardinality(S)
  BY <1>1, <1>6, <1>8
<1> QED
  BY <1>6, <1>7, <1>9

\* The nodes a list can have, and a list that has each at most once.
AllNodes == Jobs \X {"row", "recovery"}
Once(seq) == \A m, n \in 1 .. Len(seq) : seq[m] = seq[n] => m = n

LEMMA Preceding ==
    ASSUME RowConstants, NEW by
    PROVE  /\ \A m \in AllNodes : ~Precedes(m, m, by)
           /\ \A l, m, n \in AllNodes : Precedes(l, m, by) /\ Precedes(m, n, by) => Precedes(l, n, by)
           /\ \A m, n \in AllNodes : m = n \/ Precedes(m, n, by) \/ Precedes(n, m, by)
<1>1. ASSUME NEW n \in AllNodes
      PROVE  n[1] \in Nat /\ n[2] \in {"row", "recovery"} /\ n = <<n[1], n[2]>>
  <2>1. PICK j \in Jobs, side \in {"row", "recovery"} : n = <<j, side>>
    BY DEF AllNodes
  <2> QED
    BY <2>1 DEF RowConstants
<1>2. \A m \in AllNodes : ~Precedes(m, m, by)
  BY <1>1 DEF Precedes
<1>3. ASSUME NEW l \in AllNodes, NEW m \in AllNodes, NEW n \in AllNodes,
             Precedes(l, m, by), Precedes(m, n, by)
      PROVE  Precedes(l, n, by)
  <2>1. l[1] \in Nat /\ m[1] \in Nat /\ n[1] \in Nat
    BY <1>1
  <2> QED
    BY <1>3, <2>1 DEF Precedes
<1>4. ASSUME NEW m \in AllNodes, NEW n \in AllNodes
      PROVE  m = n \/ Precedes(m, n, by) \/ Precedes(n, m, by)
  <2>1. m[1] \in Nat /\ n[1] \in Nat
    BY <1>1
  <2>2. CASE m[1] # n[1]
    BY <2>1, <2>2 DEF Precedes
  <2>3. CASE m[1] = n[1]
    BY <1>1, <2>3 DEF Precedes
  <2> QED
    BY <2>2, <2>3
<1> QED
  BY <1>2, <1>3, <1>4

\* In order each node of a set stands once.
LEMMA InOrderOnce ==
    ASSUME RowConstants, NEW by, NEW S \in SUBSET AllNodes
    PROVE  InOrder(S, by) \in Seq(S) /\ Once(InOrder(S, by))
<1> DEFINE UpTo(n) == {m \in S : m = n \/ Precedes(m, n, by)}
           rank == [n \in S |-> Cardinality(UpTo(n))]
<1>1. IsFiniteSet(S)
  <2>1. IsFiniteSet(Jobs)
    BY DEF RowConstants
  <2>2. IsFiniteSet({"row", "recovery"})
    <3>1. IsFiniteSet({}) /\ IsFiniteSet({} \cup {"row"})
      BY FS_EmptySet, FS_AddElement
    <3>2. IsFiniteSet(({} \cup {"row"}) \cup {"recovery"})
      BY <3>1, FS_AddElement
    <3>3. {"row", "recovery"} = ({} \cup {"row"}) \cup {"recovery"}
      OBVIOUS
    <3> QED
      BY <3>2, <3>3
  <2>3. IsFiniteSet(AllNodes)
    BY <2>1, <2>2, FS_Product DEF AllNodes
  <2> QED
    BY <2>3, FS_Subset
<1>2. \A n \in S : /\ IsFiniteSet(UpTo(n)) /\ Cardinality(UpTo(n)) \in Nat
                   /\ Cardinality(UpTo(n)) <= Cardinality(S) /\ n \in UpTo(n)
  <2>1. \A n \in S : UpTo(n) \subseteq S /\ n \in UpTo(n)
    OBVIOUS
  <2> HIDE DEF UpTo
  <2> QED
    BY <1>1, <2>1, FS_Subset, FS_CardinalityType
<1>3. Cardinality(S) \in Nat /\ \A n \in S : Cardinality(UpTo(n)) # 0
  BY <1>1, <1>2, FS_CardinalityType, FS_EmptySet
<1>4. ASSUME NEW m \in S, NEW n \in S, Precedes(m, n, by)
      PROVE  Cardinality(UpTo(m)) # Cardinality(UpTo(n))
  <2>1. m \in AllNodes /\ n \in AllNodes
    OBVIOUS
  <2>2. UpTo(m) \subseteq UpTo(n) /\ n \notin UpTo(m)
    BY <1>4, <2>1, Preceding
  <2> HIDE DEF UpTo
  <2>3. UpTo(m) # UpTo(n)
    BY <1>2, <2>2
  <2> QED
    BY <1>2, <2>2, <2>3, FS_Subset
<1>5. rank \in [S -> 1 .. Cardinality(S)]
  BY <1>2, <1>3
<1>6. ASSUME NEW m \in S, NEW n \in S, rank[m] = rank[n]
      PROVE  m = n
  <2>1. Cardinality(UpTo(m)) = Cardinality(UpTo(n))
    BY <1>6
  <2> HIDE DEF UpTo
  <2> QED
    BY <1>4, <2>1, Preceding
<1>7. InOrder(S, by) = ByRank(S, rank)
  BY DEF InOrder
<1> HIDE DEF rank
<1>8. /\ InOrder(S, by) \in Seq(S) /\ Len(InOrder(S, by)) = Cardinality(S)
      /\ \A n \in 1 .. Cardinality(S) : rank[InOrder(S, by)[n]] = n
  BY <1>1, <1>5, <1>6, <1>7, RanksOrder
<1> QED
  BY <1>8 DEF Once

LEMMA NodesOnce ==
    ASSUME RowConstants, NEW place, NEW by, NEW known
    PROVE  Nodes(place, by, known) \in Seq(AllNodes) /\ Once(Nodes(place, by, known))
<1>1. Listing(place, known) \in SUBSET AllNodes
  <2>1. VisibleIn(place) \subseteq Jobs
    BY DEF VisibleIn
  <2>2. \A j \in Jobs : <<j, "row">> \in AllNodes /\ <<j, "recovery">> \in AllNodes
    BY DEF AllNodes
  <2> QED
    BY <2>1, <2>2 DEF Listing
<1>2. /\ InOrder(Listing(place, known), by) \in Seq(Listing(place, known))
      /\ Once(InOrder(Listing(place, known), by))
  BY <1>1, InOrderOnce
<1>3. Seq(Listing(place, known)) \subseteq Seq(AllNodes)
  BY <1>1
<1> QED
  BY <1>2, <1>3 DEF Nodes

\* Whether a row has a recovery does not depend on what is known of it.
LEMMA SameNodes ==
    ASSUME NEW place, NEW by, NEW known, NEW other
    PROVE  Nodes(place, by, known) = Nodes(place, by, other)
<1>1. \A j : Panel(j, known) # "none" <=> Panel(j, other) # "none"
  BY DEF Panel
<1>2. Listing(place, known) = Listing(place, other)
  BY <1>1 DEF Listing
<1> QED
  BY <1>2 DEF Nodes

-----------------------------------------------------------------------------
(* The nodes put in order                                                  *)

\* What a sequence is without one of its members.
LEMMA RemoveAtParts ==
    ASSUME NEW S, NEW s \in Seq(S), NEW i \in DOMAIN s
    PROVE  /\ RemoveAt(s, i) \in Seq(S) /\ Len(RemoveAt(s, i)) = Len(s) - 1
           /\ \A k \in 1 .. Len(s) - 1 : RemoveAt(s, i)[k] = s[IF k < i THEN k ELSE k + 1]
<1> DEFINE before == SubSeq(s, 1, i - 1)
           after  == SubSeq(s, i + 1, Len(s))
<1>1. Len(s) \in Nat /\ i \in 1 .. Len(s)
  BY LenProperties
<1>2. \A k \in 1 .. Len(s) : s[k] \in S
  BY ElementOfSeq
<1>3. /\ before \in Seq(S) /\ Len(before) = i - 1
      /\ \A k \in 1 .. i - 1 : before[k] = s[k]
  <2>1. \A k \in 1 .. i - 1 : s[k] \in S
    BY <1>1, <1>2
  <2>2. /\ before \in Seq(S) /\ Len(before) = IF 1 <= i - 1 THEN i - 1 - 1 + 1 ELSE 0
        /\ \A k \in 1 .. i - 1 - 1 + 1 : before[k] = s[1 + k - 1]
    BY <1>1, <2>1, SubSeqProperties
  <2> HIDE DEF before
  <2>3. i \in Int /\ i - 1 - 1 + 1 = i - 1 /\ (IF 1 <= i - 1 THEN i - 1 - 1 + 1 ELSE 0) = i - 1
    BY <1>1
  <2>4. ASSUME NEW k \in 1 .. i - 1
        PROVE  before[k] = s[k]
    <3>1. before[k] = s[1 + k - 1]
      BY <2>2, <2>3
    <3>2. 1 + k - 1 = k
      BY <1>1
    <3>3. QED  BY <3>1, <3>2
  <2>5. QED  BY <2>2, <2>3, <2>4
<1>4. /\ after \in Seq(S) /\ Len(after) = Len(s) - i
      /\ \A k \in 1 .. Len(s) - i : after[k] = s[i + k]
  <2>1. \A k \in i + 1 .. Len(s) : s[k] \in S
    BY <1>1, <1>2
  <2>2. /\ after \in Seq(S) /\ Len(after) = IF i + 1 <= Len(s) THEN Len(s) - (i + 1) + 1 ELSE 0
        /\ \A k \in 1 .. Len(s) - (i + 1) + 1 : after[k] = s[i + 1 + k - 1]
    BY <1>1, <2>1, SubSeqProperties
  <2> HIDE DEF after
  <2>3. QED  BY <1>1, <2>2
<1>5. RemoveAt(s, i) = before \o after
  BY DEF RemoveAt
<1> HIDE DEF before, after
<1>6. /\ before \o after \in Seq(S) /\ Len(before \o after) = Len(s) - 1
      /\ \A k \in 1 .. Len(s) - 1 : (before \o after)[k] = IF k <= i - 1 THEN before[k] ELSE after[k - (i - 1)]
  <2>1. /\ before \o after \in Seq(S) /\ Len(before \o after) = Len(before) + Len(after)
        /\ \A k \in 1 .. Len(before) + Len(after) :
             (before \o after)[k] = IF k <= Len(before) THEN before[k] ELSE after[k - Len(before)]
    BY <1>3, <1>4, ConcatProperties
  <2>2. Len(before) = i - 1 /\ Len(before) + Len(after) = Len(s) - 1
    BY <1>1, <1>3, <1>4
  <2>3. QED  BY <2>1, <2>2
<1>7. ASSUME NEW k \in 1 .. Len(s) - 1
      PROVE  (before \o after)[k] = s[IF k < i THEN k ELSE k + 1]
  <2>1. CASE k < i
    <3>1. k \in 1 .. i - 1 /\ k <= i - 1
      BY <1>1, <2>1
    <3>2. QED  BY <1>3, <1>6, <2>1, <3>1
  <2>2. CASE ~(k < i)
    <3>1. k - (i - 1) \in 1 .. Len(s) - i /\ ~(k <= i - 1) /\ i + (k - (i - 1)) = k + 1
      BY <1>1, <2>2
    <3>2. (before \o after)[k] = after[k - (i - 1)]
      BY <1>6, <3>1
    <3>3. after[k - (i - 1)] = s[k + 1]
      BY <1>4, <3>1
    <3>4. QED  BY <2>2, <3>2, <3>3
  <2>3. QED  BY <2>1, <2>2
<1>8. QED  BY <1>5, <1>6, <1>7


LEMMA WithoutParts ==
    ASSUME NEW S, NEW seq \in Seq(S), Once(seq), NEW node
    PROVE  /\ Without(seq, node) \in Seq(S) /\ Once(Without(seq, node))
           /\ \A i \in 1 .. Len(Without(seq, node)) :
                /\ Without(seq, node)[i] # node
                /\ \E j \in 1 .. Len(seq) : Without(seq, node)[i] = seq[j]
<1>1. Len(seq) \in Nat /\ DOMAIN seq = 1 .. Len(seq)
  BY LenProperties
<1>2. CASE \E i \in DOMAIN seq : seq[i] = node
  <2> DEFINE spot == CHOOSE i \in DOMAIN seq : seq[i] = node
             rest == RemoveAt(seq, spot)
             was(k) == IF k < spot THEN k ELSE k + 1
  <2>1. spot \in DOMAIN seq /\ seq[spot] = node
    BY <1>2
  <2>2. Without(seq, node) = rest
    BY <1>2 DEF Without
  <2> HIDE DEF spot
  <2>3. /\ rest \in Seq(S) /\ Len(rest) = Len(seq) - 1
        /\ \A k \in 1 .. Len(seq) - 1 : rest[k] = seq[was(k)]
    BY <2>1, RemoveAtParts
  <2> HIDE DEF rest
  <2>4. \A k \in 1 .. Len(seq) - 1 : was(k) \in 1 .. Len(seq) /\ was(k) # spot
    BY <1>1, <2>1
  <2>5. \A k, l \in 1 .. Len(seq) - 1 : was(k) = was(l) => k = l
    BY <1>1, <2>1
  <2> HIDE DEF was
  <2>6. Once(rest)
    BY <2>3, <2>4, <2>5 DEF Once
  <2>7. \A k \in 1 .. Len(rest) : rest[k] # node /\ \E j \in 1 .. Len(seq) : rest[k] = seq[j]
    BY <1>1, <2>1, <2>3, <2>4 DEF Once
  <2> QED
    BY <2>2, <2>3, <2>6, <2>7
<1>3. CASE ~\E i \in DOMAIN seq : seq[i] = node
  BY <1>1, <1>3 DEF Without
<1> QED
  BY <1>2, <1>3

\* A step of the loop that puts the nodes in order, from the one before.
LEMMA PlacingSteps ==
    ASSUME NEW S, NEW old, NEW wanted \in Seq(S)
    PROVE  /\ Placing(old, wanted)[0] = [before |-> <<>>, after |-> old]
           /\ \A i \in 1 .. Len(wanted) :
                Placing(old, wanted)[i] = PlaceNode(Placing(old, wanted)[i - 1], wanted[i])
<1> DEFINE N == Len(wanted)
           Begun == [before |-> <<>>, after |-> old]
           Upto(f, b) ==
             f = [i \in 0 .. b |-> IF i = 0 THEN Begun ELSE PlaceNode(f[i - 1], wanted[i])]
           T == {b \in 0 .. N : \E f : Upto(f, b)}
<1>1. N \in Nat
  BY LenProperties
<1>2. 0 \in T
  <2> DEFINE first == [i \in 0 .. 0 |-> Begun]
  <2>1. Upto(first, 0)
    OBVIOUS
  <2> HIDE DEF first, Upto
  <2>2. \E f : Upto(f, 0)
    BY <2>1
  <2>3. 0 \in 0 .. N
    BY <1>1
  <2> QED
    BY <2>2, <2>3
<1>3. ASSUME NEW b \in 0 .. N - 1, b \in T PROVE b + 1 \in T
  <2>1. PICK f : Upto(f, b)
    BY <1>3
  <2> DEFINE g == [i \in 0 .. b + 1 |-> IF i = b + 1 THEN PlaceNode(f[b], wanted[b + 1]) ELSE f[i]]
  <2>2. b \in Nat /\ b + 1 \in 0 .. N
    BY <1>1
  <2>3. \A i \in 0 .. b : f[i] = IF i = 0 THEN Begun ELSE PlaceNode(f[i - 1], wanted[i])
    BY <2>1
  <2>4. \A i \in 0 .. b + 1 : g[i] = IF i = 0 THEN Begun ELSE PlaceNode(g[i - 1], wanted[i])
    <3>1. ASSUME NEW i \in 0 .. b PROVE g[i] = f[i] /\ (i # 0 => i - 1 \in 0 .. b /\ g[i - 1] = f[i - 1])
      BY <2>2
    <3>2. g[b + 1] = PlaceNode(f[b], wanted[b + 1]) /\ g[b] = f[b]
      BY <2>2
    <3>3. ASSUME NEW i \in 0 .. b
          PROVE  g[i] = IF i = 0 THEN Begun ELSE PlaceNode(g[i - 1], wanted[i])
      BY <2>3, <3>1
    <3>4. b + 1 # 0 /\ (b + 1) - 1 = b /\ \A i \in 0 .. b + 1 : i \in 0 .. b \/ i = b + 1
      BY <2>2
    <3> QED
      BY <3>2, <3>3, <3>4
  <2>5. g = [i \in 0 .. b + 1 |-> g[i]]
    OBVIOUS
  <2> HIDE DEF g
  <2>6. Upto(g, b + 1)
    BY <2>4, <2>5
  <2> QED
    BY <2>2, <2>6
<1>4. \E f : Upto(f, N)
  <2> HIDE DEF T
  <2>1. 0 .. N \subseteq T
    BY <1>1, <1>2, <1>3, Reaches
  <2>2. N \in T
    BY <1>1, <2>1
  <2> QED
    BY <2>2 DEF T
<1> DEFINE placing == CHOOSE f : Upto(f, N)
<1>5. Placing(old, wanted) = placing
  BY DEF Placing
<1>6. Upto(placing, N)
  BY <1>4
<1> HIDE DEF placing
<1>7. \A i \in 0 .. N : placing[i] = IF i = 0 THEN Begun ELSE PlaceNode(placing[i - 1], wanted[i])
  BY <1>6
<1> QED
  BY <1>1, <1>5, <1>7

\* After each step the first nodes stand as they are wanted, and none of them after.
LEMMA PlacesWanted ==
    ASSUME NEW S, NEW old \in Seq(S), Once(old), NEW wanted \in Seq(S)
    PROVE  LET end == Placing(old, wanted)[Len(wanted)]
           IN  /\ end.before = wanted /\ end.after \in Seq(S)
               /\ \A m \in 1 .. Len(end.after), k \in 1 .. Len(wanted) : end.after[m] # wanted[k]
<1> DEFINE N == Len(wanted)
           done == Placing(old, wanted)
           Fits(d, i) ==
             /\ d.before \in Seq(S) /\ Len(d.before) = i
             /\ \A k \in 1 .. i : d.before[k] = wanted[k]
             /\ d.after \in Seq(S) /\ Once(d.after)
             /\ \A m \in 1 .. Len(d.after), k \in 1 .. i : d.after[m] # wanted[k]
           T == {i \in 0 .. N : Fits(done[i], i)}
<1>1. N \in Nat /\ \A k \in 1 .. N : wanted[k] \in S
  BY LenProperties, ElementOfSeq
<1>2. /\ done[0] = [before |-> <<>>, after |-> old]
      /\ \A i \in 1 .. N : done[i] = PlaceNode(done[i - 1], wanted[i])
  BY PlacingSteps
<1> HIDE DEF done
<1>3. Fits(done[0], 0)
  BY <1>2, EmptySeq
<1>4. ASSUME NEW i \in 1 .. N, Fits(done[i - 1], i - 1) PROVE Fits(done[i], i)
  <2> DEFINE d == done[i - 1]
  <2>1. done[i] = [before |-> Append(d.before, wanted[i]), after |-> Without(d.after, wanted[i])]
    BY <1>2 DEF PlaceNode
  <2> HIDE DEF d
  <2>2. Fits(d, i - 1)
    BY <1>4 DEF d
  <2>3. /\ Append(d.before, wanted[i]) \in Seq(S) /\ Len(Append(d.before, wanted[i])) = i
        /\ \A k \in 1 .. i : Append(d.before, wanted[i])[k] = wanted[k]
    <3>1. wanted[i] \in S /\ i \in Nat
      BY <1>1
    <3>2. d.before \in Seq(S) /\ Len(d.before) = i - 1 /\ \A k \in 1 .. i - 1 : d.before[k] = wanted[k]
      BY <2>2
    <3>3. /\ Append(d.before, wanted[i]) \in Seq(S) /\ Len(Append(d.before, wanted[i])) = Len(d.before) + 1
          /\ \A k \in 1 .. Len(d.before) : Append(d.before, wanted[i])[k] = d.before[k]
          /\ Append(d.before, wanted[i])[Len(d.before) + 1] = wanted[i]
      BY <3>1, <3>2, AppendProperties
    <3>4. Len(d.before) + 1 = i /\ \A k \in 1 .. i : k \in 1 .. i - 1 \/ k = i
      BY <3>1, <3>2
    <3> QED
      BY <3>2, <3>3, <3>4
  <2>4. /\ Without(d.after, wanted[i]) \in Seq(S) /\ Once(Without(d.after, wanted[i]))
        /\ \A m \in 1 .. Len(Without(d.after, wanted[i])) :
             /\ Without(d.after, wanted[i])[m] # wanted[i]
             /\ \E j \in 1 .. Len(d.after) : Without(d.after, wanted[i])[m] = d.after[j]
    <3>1. d.after \in Seq(S) /\ Once(d.after)
      BY <2>2
    <3>2. \A seq \in Seq(S) : \A node : Once(seq) =>
             /\ Without(seq, node) \in Seq(S) /\ Once(Without(seq, node))
             /\ \A m \in 1 .. Len(Without(seq, node)) :
                  /\ Without(seq, node)[m] # node
                  /\ \E j \in 1 .. Len(seq) : Without(seq, node)[m] = seq[j]
      BY WithoutParts
    <3> QED
      BY <3>1, <3>2
  <2>5. \A k \in 1 .. i : k \in 1 .. i - 1 \/ k = i
    BY <1>1
  <2>6. \A m \in 1 .. Len(Without(d.after, wanted[i])), k \in 1 .. i :
           Without(d.after, wanted[i])[m] # wanted[k]
    BY <2>2, <2>4, <2>5
  <2> QED
    BY <2>1, <2>3, <2>4, <2>6
<1> HIDE DEF Fits
<1>5. 0 .. N \subseteq T
  <2>1. 0 \in T
    BY <1>1, <1>3
  <2>2. ASSUME NEW i \in 0 .. N - 1, i \in T PROVE i + 1 \in T
    <3>1. i + 1 \in 1 .. N /\ (i + 1) - 1 = i /\ i + 1 \in 0 .. N
      BY <1>1
    <3>2. Fits(done[i + 1], i + 1)
      BY <1>4, <2>2, <3>1
    <3> QED
      BY <3>1, <3>2
  <2> HIDE DEF T
  <2> QED
    BY <1>1, <2>1, <2>2, Reaches
<1>6. Fits(done[N], N)
  BY <1>1, <1>5
<1>7. done[N].before = wanted
  BY <1>1, <1>6, SeqEqual DEF Fits
<1> QED
  BY <1>6, <1>7 DEF Fits, done

\* What follows the wanted nodes is removed, they are not.
LEMMA RetainsFirst ==
    ASSUME NEW S, NEW wanted \in Seq(S), NEW after \in Seq(S),
           \A m \in 1 .. Len(after), k \in 1 .. Len(wanted) : after[m] # wanted[k]
    PROVE  Retained(wanted \o after, wanted) = wanted
<1> DEFINE N == Len(wanted)
           seq == wanted \o after
           spot == {i \in DOMAIN seq : \E n \in DOMAIN wanted : wanted[n] = seq[i]}
           rank == [i \in spot |-> Cardinality({m \in spot : m <= i})]
           kept == ByRank(spot, rank)
<1>1. N \in Nat /\ Len(after) \in Nat /\ DOMAIN wanted = 1 .. N
  BY LenProperties
<1>2. /\ DOMAIN seq = 1 .. N + Len(after)
      /\ \A i \in 1 .. N + Len(after) : seq[i] = IF i <= N THEN wanted[i] ELSE after[i - N]
  BY ConcatProperties, LenProperties
<1> HIDE DEF seq
<1>3. spot = 1 .. N
  <2>1. \A i \in 1 .. N : i \in spot
    BY <1>1, <1>2
  <2>2. ASSUME NEW i \in spot PROVE i \in 1 .. N
    <3>1. PICK n \in 1 .. N : wanted[n] = seq[i]
      BY <1>1
    <3>2. i \in 1 .. N + Len(after)
      BY <1>2
    <3>3. i > N => i - N \in 1 .. Len(after) /\ seq[i] = after[i - N]
      BY <1>1, <1>2, <3>2
    <3> QED
      BY <1>1, <3>1, <3>2, <3>3
  <2> QED
    BY <2>1, <2>2
<1> HIDE DEF spot
<1>4. IsFiniteSet(spot) /\ Cardinality(spot) = N
  <2>1. 1 \in Int /\ N \in Int
    BY <1>1
  <2>2. IsFiniteSet(1 .. N) /\ Cardinality(1 .. N) = IF 1 > N THEN 0 ELSE N - 1 + 1
    BY <2>1, FS_Interval
  <2> QED
    BY <1>1, <1>3, <2>2
<1>5. \A i \in 1 .. N : rank[i] = i
  <2>1. TAKE i \in 1 .. N
  <2>2. 1 \in Int /\ i \in Int /\ i >= 1 /\ i \in spot
    BY <1>1, <1>3
  <2>3. {m \in spot : m <= i} = 1 .. i
    BY <1>1, <1>3
  <2>4. Cardinality(1 .. i) = IF 1 > i THEN 0 ELSE i - 1 + 1
    BY <2>2, FS_Interval
  <2>5. rank[i] = Cardinality({m \in spot : m <= i})
    BY <2>2
  <2>6. Cardinality(1 .. i) = i
    BY <2>2, <2>4
  <2> QED
    BY <2>3, <2>5, <2>6
<1>6. kept = [n \in 1 .. N |-> n]
  <2>1. \A n \in 1 .. N : (CHOOSE x \in spot : rank[x] = n) = n
    BY <1>3, <1>5
  <2>2. kept = [n \in 1 .. N |-> CHOOSE x \in spot : rank[x] = n]
    BY <1>4 DEF ByRank
  <2> QED
    BY <2>1, <2>2
<1>7. Retained(seq, wanted) = [n \in DOMAIN kept |-> seq[kept[n]]]
  BY DEF Retained, spot
<1> HIDE DEF kept
<1>8. Retained(seq, wanted) = [n \in 1 .. N |-> wanted[n]]
  <2>1. DOMAIN kept = 1 .. N /\ \A n \in 1 .. N : kept[n] = n
    BY <1>6
  <2>2. \A n \in 1 .. N : seq[kept[n]] = wanted[n]
    BY <1>1, <1>2, <2>1
  <2> QED
    BY <1>7, <2>1, <2>2
<1>9. wanted = [n \in 1 .. N |-> wanted[n]]
  BY LenProperties
<1> QED
  BY <1>8, <1>9 DEF seq

\* Whatever stood in the list, each node once, what is wanted stands there in the end.
LEMMA PlacedAsWanted ==
    ASSUME NEW S, NEW old \in Seq(S), Once(old), NEW wanted \in Seq(S)
    PROVE  Placed(old, wanted) = wanted
<1> DEFINE end == Placing(old, wanted)[Len(wanted)]
<1>1. /\ end.before = wanted /\ end.after \in Seq(S)
      /\ \A m \in 1 .. Len(end.after), k \in 1 .. Len(wanted) : end.after[m] # wanted[k]
  BY PlacesWanted
<1>2. Placed(old, wanted) = Retained(end.before \o end.after, wanted)
  BY DEF Placed
<1> HIDE DEF end
<1> QED
  BY <1>1, <1>2, RetainsFirst

-----------------------------------------------------------------------------
(* What the rows show                                                      *)

\* A snapshot of a job made regular.
Normal(j, s) == IF j \in Playlists THEN NormalPlaylist(s) ELSE NormalFile(s)

\* A row that shows a job, with the signatures a patch compares it by; its tag and
\* whether it can be dragged may be older.
Row(job, tag, drag) ==
    [frame |-> job.status, picture |-> job.thumb, body |-> Body(job), tag |-> tag, drag |-> drag,
     structure |-> Structure(job), content |-> Content(job), live |-> Live(job)]
ShowsJob(row, job) == \E tag \in {"none", "high"}, drag \in BOOLEAN : row = Row(job, tag, drag)

\* A row that is not named to the next patch shows its job; one that is named shows what
\* its job was before one thing of it changed. While a menu is open neither holds.
RawFits == raw \in [Jobs -> {NoJob} \cup UNION {Snapshots(j) : j \in Jobs}]
SnapshotFits(j) == raw[j] = NoJob \/ raw[j] \in Snapshots(j)
RowKept(j) == IF j \in Visible THEN ShowsJob(page[j], Job(j)) ELSE page[j] = NoRow
RowBehind(j) ==
    \/ page[j] = NoRow
    \/ \E s \in Snapshots(j) :
          ShowsJob(page[j], Normal(j, s)) /\ (raw[j] = NoJob \/ OneThing(raw[j], s))
\* The nodes stand once each and, with nothing to patch and no menu open, in the order
\* chosen.
RowsInv ==
    /\ RawFits /\ changed \subseteq Jobs /\ rowMenu \in BOOLEAN
    /\ \A j \in Jobs : SnapshotFits(j)
    /\ changed = {} => counts = Counts
    /\ nodes \in Seq(AllNodes) /\ Once(nodes)
    /\ changed = {} /\ ~rowMenu => nodes = Nodes(section, sortOrder, recovery)
    /\ ~rowMenu => \A j \in Jobs : IF j \in changed THEN RowBehind(j) ELSE RowKept(j)

\* A job is listed with one of its statuses, so that its row is not the missing one.
LEMMA RowIsThere ==
    ASSUME NEW j \in Jobs, NEW s \in Snapshots(j), NEW row, ShowsJob(row, Normal(j, s))
    PROVE  row # NoRow
<1>1. s.status \in Statuses
  BY DEF Snapshots
<1>2. Normal(j, s).status \in Statuses
  BY <1>1 DEF Normal, NormalFile, NormalPlaylist, Statuses
<1>3. row.frame \in Statuses
  BY <1>2 DEF ShowsJob, Row
<1>4. NoRow.frame = "absent"
  BY DEF NoRow, Markup
<1>5. QED  BY <1>3, <1>4 DEF Statuses

LEMMA MarkupShows == ASSUME NEW job PROVE ShowsJob(Markup(job), job)
<1>1. Tag(job) \in {"none", "high"} /\ (job.status = "completed") \in BOOLEAN
  BY DEF Tag
<1>2. Markup(job) = Row(job, Tag(job), job.status = "completed")
  BY DEF Markup, Row
<1>3. QED  BY <1>1, <1>2 DEF ShowsJob

\* What a row shows of a job is what it shows of one with the same signatures.
LEMMA SameRow ==
    ASSUME NEW old, NEW new, old.kind = new.kind, old.status = new.status, old.progress = new.progress
    PROVE  Body(old) = Body(new)
  BY DEF Body, Bar, Button

\* Of two snapshots that differ in one thing, a patch by the signatures that differ turns
\* the one's row into the other's.
LEMMA PatchShows ==
    ASSUME NEW j \in Jobs, NEW s \in Snapshots(j), NEW t \in Snapshots(j), OneThing(t, s),
           NEW row, ShowsJob(row, Normal(j, s))
    PROVE  ShowsJob(PatchRow(row, Normal(j, t)), Normal(j, t))
<1> DEFINE old == Normal(j, s)
           new == Normal(j, t)
<1>1. /\ old.thumb = s.thumb /\ old.priority = s.priority
      /\ new.thumb = t.thumb /\ new.priority = t.priority /\ old.kind = new.kind
  BY DEF Normal, NormalFile, NormalPlaylist
<1>2. PICK tag \in {"none", "high"}, drag \in BOOLEAN : row = Row(old, tag, drag)
  BY DEF ShowsJob
<1>3. ASSUME t.status = s.status, t.done = s.done, t.bad = s.bad
      PROVE  new.status = old.status /\ new.progress = old.progress
  BY <1>3 DEF Normal, NormalFile, NormalPlaylist
<1>4. CASE t.thumb = s.thumb /\ t.priority = s.priority
  <2>1. row.structure = Structure(new)
    BY <1>1, <1>2, <1>4 DEF Row, Structure
  <2>2. Structure(new) = Structure(old) /\ Content(new) = Content(old)
    BY <1>1, <1>4 DEF Structure, Content
  <2>3. CASE row.live # Live(new)
    <3>1. PatchRow(row, new) = Row(new, tag, drag)
      BY <1>1, <1>2, <1>4, <2>1, <2>2, <2>3 DEF PatchRow, PatchBody, Row
    <3>2. QED  BY <3>1 DEF ShowsJob
  <2>4. CASE row.live = Live(new)
    <3>1. Live(old) = Live(new)
      BY <1>2, <2>4 DEF Row
    <3>2. old.status = new.status /\ old.progress = new.progress
      BY <3>1 DEF Live
    <3>3. Body(old) = Body(new)
      BY <1>1, <3>2, SameRow
    <3>4. PatchRow(row, new) = Row(new, tag, drag)
      BY <1>1, <1>2, <1>4, <2>1, <2>2, <2>4, <3>1, <3>2, <3>3 DEF PatchRow, Row
    <3>5. QED  BY <3>4 DEF ShowsJob
  <2>5. QED  BY <2>3, <2>4
<1>5. CASE t = [s EXCEPT !.thumb = t.thumb] /\ t.thumb # s.thumb
  <2>1. t.status = s.status /\ t.done = s.done /\ t.bad = s.bad /\ t.priority = s.priority
    BY <1>5 DEF Snapshots
  <2>2. new.status = old.status /\ new.progress = old.progress
    BY <1>3, <2>1
  <2>3. Body(old) = Body(new)
    BY <1>1, <2>2, SameRow
  <2>4. Live(old) = Live(new) /\ Content(old) = Content(new)
    BY <1>1, <2>1, <2>2 DEF Live, Content
  <2>5. row.structure # Structure(new) /\ row.content = Content(new)
    BY <1>1, <1>2, <1>5, <2>4 DEF Row, Structure
  <2>6. PatchRow(row, new) = Row(new, tag, drag)
    BY <1>1, <1>2, <2>2, <2>3, <2>4, <2>5 DEF PatchRow, PatchPicture, Row
  <2>7. QED  BY <2>6 DEF ShowsJob
<1>6. CASE t = [s EXCEPT !.priority = t.priority] /\ t.priority # s.priority
  <2>1. row.structure # Structure(new) /\ row.content # Content(new)
    BY <1>1, <1>2, <1>6 DEF Row, Structure, Content
  <2>2. PatchRow(row, new) = Markup(new)
    BY <2>1 DEF PatchRow
  <2>3. QED  BY <2>2, MarkupShows
<1>7. QED  BY <1>4, <1>5, <1>6 DEF OneThing, Snapshots

\* Which nodes there are, and their order, follows from the snapshot, the section and the
\* order chosen.
LEMMA NodesFollow ==
    ASSUME UNCHANGED raw, NEW known
    PROVE  Nodes(section, sortOrder, recovery)' = Nodes(section', sortOrder', known)
<1>1. VisibleIn(section)' = VisibleIn(section')
  BY DEF VisibleIn, IsListed, Job
<1>2. Listing(section, recovery)' = Listing(section', recovery')
  BY <1>1 DEF Listing, Panel, Job
<1>3. Nodes(section, sortOrder, recovery)' = Nodes(section', sortOrder', recovery')
  BY <1>2 DEF Nodes
<1> QED
  BY <1>3, SameNodes

LEMMA ListedFits ==
    ASSUME RowsInv, NEW place, NEW j \in VisibleIn(place)
    PROVE  j \in Jobs /\ raw[j] \in Snapshots(j) /\ Job(j) = Normal(j, raw[j])
  BY DEF RowsInv, VisibleIn, IsListed, SnapshotFits, Job, Normal

\* A page that is drawn anew shows every job of its section.
LEMMA DrawnAnew ==
    ASSUME RowConstants, RowsInv, NEW place, NEW by, NEW known, DrawRows(place, by, known),
           UNCHANGED raw, section' = place, sortOrder' = by, rowMenu' \in BOOLEAN
    PROVE  RowsInv'
<1>1. Counts' = Counts /\ counts' = Counts /\ changed' = {}
  BY DEF DrawRows, Counts, IsListed, Job
<1>2. ASSUME NEW j \in Jobs PROVE (j \in Visible)' <=> j \in VisibleIn(place)
  BY DEF Visible, VisibleIn, IsListed, Job
<1>3. ASSUME NEW j \in Jobs PROVE Job(j)' = Job(j)
  BY DEF Job
<1>4. ASSUME NEW j \in Jobs PROVE RowKept(j)'
  <2>1. CASE j \in VisibleIn(place)
    <3>1. page'[j] = Markup(Job(j))
      BY <2>1 DEF DrawRows
    <3>2. QED  BY <1>2, <1>3, <2>1, <3>1, MarkupShows DEF RowKept
  <2>2. CASE j \notin VisibleIn(place)
    BY <1>2, <2>2 DEF RowKept, DrawRows
  <2>3. QED  BY <2>1, <2>2
<1>5. /\ nodes' = Nodes(section, sortOrder, recovery)'
      /\ nodes' \in Seq(AllNodes) /\ Once(nodes')
  <2>1. nodes' = Nodes(section', sortOrder', known)
    BY DEF DrawRows
  <2> QED
    BY <2>1, NodesFollow, NodesOnce
<1>6. QED  BY <1>1, <1>4, <1>5 DEF RowsInv, RawFits, SnapshotFits

\* A snapshot changes one thing of a job whose last change has been patched.
LEMMA NewsStep ==
    ASSUME ~Together, RowsInv, NEW j \in Jobs, ListChanges(j)
    PROVE  RowsInv'
<1>1. PICK s \in Snapshots(j) \cup {NoJob} :
         /\ s = NoJob \/ (j \notin changed /\ (IF raw[j] = NoJob THEN s.status = "queued" ELSE OneThing(s, raw[j])))
         /\ raw' = [raw EXCEPT ![j] = s]
  BY DEF ListChanges
<1>2. /\ changed' = changed \cup {j}
      /\ UNCHANGED <<page, nodes, section, rowMenu>>
  BY DEF ListChanges
<1>3. RawFits' /\ raw'[j] = s /\ \A k \in Jobs \ {j} : raw'[k] = raw[k]
  BY <1>1 DEF RawFits, RowsInv
<1>4. ASSUME NEW k \in Jobs PROVE SnapshotFits(k)'
  BY <1>3, <1>4 DEF SnapshotFits, RowsInv
<1>5. ASSUME ~rowMenu, NEW k \in Jobs \ {j}
      PROVE  IF k \in changed' THEN RowBehind(k)' ELSE RowKept(k)'
  <2>1. (k \in Visible)' <=> k \in Visible
    BY <1>2, <1>3 DEF Visible, VisibleIn, IsListed, Job
  <2>2. Job(k)' = Job(k)
    BY <1>3 DEF Job
  <2>3. k \in changed' <=> k \in changed
    BY <1>2
  <2>4. CASE k \in changed
    <3>1. RowBehind(k)
      BY <1>5, <2>4 DEF RowsInv
    <3>2. RowBehind(k)'
      BY <1>2, <1>3, <3>1 DEF RowBehind
    <3>3. QED  BY <2>3, <2>4, <3>2
  <2>5. CASE k \notin changed
    <3>1. RowKept(k)
      BY <1>5, <2>5 DEF RowsInv
    <3>2. RowKept(k)'
      BY <1>2, <2>1, <2>2, <3>1 DEF RowKept
    <3>3. QED  BY <2>3, <2>5, <3>2
  <2>6. QED  BY <2>4, <2>5
<1>6. ASSUME ~rowMenu PROVE RowBehind(j)'
  <2>1. CASE j \in changed
    <3>1. RowBehind(j) /\ raw'[j] = NoJob
      BY <1>1, <1>3, <1>6, <2>1 DEF RowsInv
    <3>2. QED  BY <1>2, <3>1 DEF RowBehind
  <2>2. CASE j \notin changed /\ j \in Visible
    <3>1. ShowsJob(page[j], Normal(j, raw[j])) /\ raw[j] \in Snapshots(j) /\ raw[j] # NoJob
      BY <1>6, <2>2, ListedFits DEF RowsInv, RowKept, Visible, VisibleIn, IsListed
    <3>2. raw'[j] = NoJob \/ OneThing(raw'[j], raw[j])
      BY <1>1, <1>3, <3>1
    <3>3. QED  BY <1>2, <3>1, <3>2 DEF RowBehind
  <2>3. CASE j \notin changed /\ j \notin Visible
    <3>1. RowKept(j)
      BY <1>6, <2>3 DEF RowsInv
    <3>2. QED  BY <1>2, <2>3, <3>1 DEF RowKept, RowBehind
  <2>4. QED  BY <2>1, <2>2, <2>3
<1>7. QED  BY <1>2, <1>3, <1>4, <1>5, <1>6 DEF RowsInv

\* A patch brings every row that is shown up to its job.
LEMMA PatchStep ==
    ASSUME RowConstants, RowsInv, Patch
    PROVE  RowsInv'
<1>1. Counts' = Counts /\ counts' = Counts /\ changed' = {} /\ UNCHANGED <<raw, section, rowMenu>>
  BY DEF Patch, Counts, IsListed, Job
<1>2. ASSUME ~rowMenu, NEW j \in Jobs PROVE RowKept(j)'
  <2>1. Job(j)' = Job(j) /\ ((j \in Visible)' <=> j \in Visible)
    BY <1>1 DEF Job, Visible, VisibleIn, IsListed
  <2>2. page'[j] = IF j \in Visible THEN Patched(j) ELSE NoRow
    BY <1>2 DEF Patch
  <2>3. CASE j \notin Visible
    BY <2>1, <2>2, <2>3 DEF RowKept
  <2>4. CASE j \in Visible
    <3>1. raw[j] \in Snapshots(j) /\ raw[j] # NoJob /\ Job(j) = Normal(j, raw[j])
      BY <2>4, ListedFits DEF Visible, VisibleIn, IsListed
    <3>2. CASE page[j] = NoRow
      BY <2>1, <2>2, <2>4, <3>2, MarkupShows DEF RowKept, Patched
    <3>3. CASE page[j] # NoRow /\ j \in changed
      <4>1. PICK s \in Snapshots(j) :
               ShowsJob(page[j], Normal(j, s)) /\ OneThing(raw[j], s)
        BY <1>2, <3>1, <3>3 DEF RowsInv, RowBehind
      <4>2. ShowsJob(PatchRow(page[j], Normal(j, raw[j])), Normal(j, raw[j]))
        BY <3>1, <4>1, PatchShows
      <4>3. QED  BY <2>1, <2>2, <2>4, <3>1, <3>3, <4>2 DEF RowKept, Patched
    <3>4. CASE page[j] # NoRow /\ j \notin changed
      BY <1>2, <2>1, <2>2, <2>4, <3>4 DEF RowsInv, RowKept, Patched
    <3>5. QED  BY <3>2, <3>3, <3>4
  <2>5. QED  BY <2>3, <2>4
<1>3. nodes' \in Seq(AllNodes) /\ Once(nodes')
      /\ (~rowMenu => nodes' = Nodes(section, sortOrder, recovery)')
  <2>1. CASE rowMenu
    BY <2>1 DEF Patch, RowsInv
  <2>2. CASE ~rowMenu
    <3>1. nodes' = Placed(nodes, Nodes(section, sortOrder, recovery))
      BY <2>2 DEF Patch
    <3>2. /\ Nodes(section, sortOrder, recovery) \in Seq(AllNodes)
          /\ Once(Nodes(section, sortOrder, recovery))
      BY NodesOnce
    <3>3. nodes \in Seq(AllNodes) /\ Once(nodes)
      BY DEF RowsInv
    <3>4. nodes' = Nodes(section, sortOrder, recovery)
      BY <3>1, <3>2, <3>3, PlacedAsWanted
    <3>5. Nodes(section, sortOrder, recovery)' = Nodes(section', sortOrder', recovery)
      BY <1>1, NodesFollow
    <3>6. section' = section /\ sortOrder' = sortOrder
      BY DEF Patch
    <3> QED
      BY <3>2, <3>4, <3>5, <3>6
  <2> QED
    BY <2>1, <2>2
<1>4. QED  BY <1>1, <1>2, <1>3 DEF RowsInv, RawFits, SnapshotFits

LEMMA RowStart ==
    ASSUME RowConstants, RowInit
    PROVE  RowsInv
<1>1. raw \in [Jobs -> {NoJob} \cup {[NoJob EXCEPT !.status = "queued"]}]
  BY DEF RowInit
<1>2. ASSUME NEW j \in Jobs PROVE [NoJob EXCEPT !.status = "queued"] \in Snapshots(j)
  BY DEF NoJob, Snapshots, RowConstants, Statuses
<1>3. ASSUME NEW j \in Jobs PROVE SnapshotFits(j)
  BY <1>1, <1>2 DEF SnapshotFits
<1>4. RawFits
  BY <1>1, <1>2 DEF RawFits
<1>5. ASSUME NEW j \in Jobs PROVE (j \in Visible) <=> IsListed(j)
  BY DEF RowInit, Visible, VisibleIn
<1>6. ASSUME NEW j \in Jobs PROVE RowKept(j)
  BY <1>5, MarkupShows DEF RowInit, RowKept
<1>7. changed = {} /\ counts = Counts /\ rowMenu = FALSE
  BY DEF RowInit
<1>8. nodes = Nodes(section, sortOrder, recovery)
  BY DEF RowInit
<1>9. nodes \in Seq(AllNodes) /\ Once(nodes)
  BY <1>8, NodesOnce
<1>10. QED  BY <1>3, <1>4, <1>6, <1>7, <1>8, <1>9 DEF RowsInv

LEMMA RowsStep ==
    ASSUME RowConstants, ~Together, RowsInv, [RowNext]_rowVars
    PROVE  RowsInv'
<1>1. ASSUME NEW j \in Jobs, ListChanges(j) PROVE RowsInv'
  BY <1>1, NewsStep
<1>2. ASSUME NEW j \in Jobs, Recovered(j) PROVE RowsInv'
  BY <1>2, DrawnAnew DEF Recovered, Render, RowsInv
<1>3. CASE Patch
  BY <1>3, PatchStep
<1>4. CASE Redraw
  BY <1>4, DrawnAnew DEF Redraw, Render, RowsInv
<1>5. CASE Menu
  BY <1>5, DrawnAnew DEF Menu, Render, RowsInv
<1>6. CASE Sort
  BY <1>6, DrawnAnew DEF Sort, Render, RowsInv
<1>7. CASE Section
  BY <1>7, DrawnAnew DEF Section, Render, RowsInv
<1>8. CASE UNCHANGED rowVars
  <2>1. Nodes(section, sortOrder, recovery)' = Nodes(section, sortOrder, recovery)
    BY <1>8, NodesFollow DEF rowVars
  <2> QED
    BY <1>8, <2>1 DEF rowVars, RowsInv, RawFits, SnapshotFits, RowKept, RowBehind, Counts, Visible,
                      VisibleIn, IsListed, Job
<1>9. QED  BY <1>1, <1>2, <1>3, <1>4, <1>5, <1>6, <1>7, <1>8 DEF RowNext

LEMMA RowsImply == RowsInv => RowsShowJobs
<1>1. ASSUME RowsInv PROVE RowsDrawn
  <2>1. ASSUME changed = {}, ~rowMenu, NEW j \in Jobs
        PROVE  /\ (page[j] # NoRow) <=> (j \in Visible)
               /\ j \in Visible => /\ page[j].frame = Job(j).status /\ page[j].picture = Job(j).thumb
                                   /\ page[j].body = Body(Job(j))
    <3>1. RowKept(j)
      BY <1>1, <2>1 DEF RowsInv
    <3>2. CASE j \in Visible
      <4>1. ShowsJob(page[j], Job(j)) /\ raw[j] \in Snapshots(j) /\ Job(j) = Normal(j, raw[j])
        BY <1>1, <3>1, <3>2, ListedFits DEF RowKept, Visible
      <4>2. page[j] # NoRow
        BY <4>1, RowIsThere
      <4>3. QED  BY <3>2, <4>1, <4>2 DEF ShowsJob, Row
    <3>3. CASE j \notin Visible
      BY <3>1, <3>3 DEF RowKept
    <3>4. QED  BY <3>2, <3>3
  <2>2. changed = {} => counts = Counts
    BY <1>1 DEF RowsInv
  <2>3. QED  BY <2>1, <2>2 DEF RowsDrawn
<1>2. ASSUME RowsInv, changed = {}, ~rowMenu
      PROVE  nodes = Nodes(section, sortOrder, [j \in Jobs |-> IF panel[j] = "found" THEN "found" ELSE "none"])
  BY <1>2, SameNodes DEF RowsInv
<1> QED
  BY <1>1, <1>2 DEF RowsShowJobs

\* A list with no change left to patch shows the totals, and with no menu open each row
\* shows its job and stands where the order chosen has it, its recovery under it: for any
\* jobs, playlists, sections and patches, when a snapshot brings one change of a job at a
\* time (live.js, patchLiveDownloadRow and the loop that moves the nodes).
THEOREM RowsStandInOrder ==
    ASSUME RowConstants, ~Together
    PROVE  RowSpec => []RowsShowJobs
<1>1. RowInit => RowsInv
  BY RowStart
<1>2. RowsInv /\ [RowNext]_rowVars => RowsInv'
  BY RowsStep
<1> QED
  BY <1>1, <1>2, RowsImply, PTL DEF RowSpec

-----------------------------------------------------------------------------
(* What the rows are, however many changes a snapshot brings               *)

RowsTypesInv ==
    /\ RawFits /\ \A j \in Jobs : SnapshotFits(j)
    /\ changed \subseteq Jobs /\ DOMAIN page = Jobs
    /\ panel \in [Jobs -> {"none", "loading", "found"}]
    /\ recovery \in [Jobs -> {"none", "asked", "found"}]
    /\ nodes \in Seq(AllNodes) /\ Once(nodes)
    /\ counts \in [Statuses -> 0 .. Cardinality(Jobs)]
    /\ section \in {"downloads", "queue", "history"}
    /\ sortOrder \in {"newest", "oldest"} /\ rowMenu \in BOOLEAN

\* No status has more jobs than there are.
LEMMA CountsFit ==
    ASSUME RowConstants
    PROVE  Counts \in [Statuses -> 0 .. Cardinality(Jobs)]
<1> SUFFICES ASSUME NEW s \in Statuses
             PROVE  Cardinality({j \in Jobs : IsListed(j) /\ Job(j).status = s})
                      \in 0 .. Cardinality(Jobs)
  BY DEF Counts
<1> DEFINE some == {j \in Jobs : IsListed(j) /\ Job(j).status = s}
<1>1. some \subseteq Jobs /\ IsFiniteSet(Jobs)
  BY DEF RowConstants
<1> HIDE DEF some
<1>2. IsFiniteSet(some) /\ Cardinality(some) <= Cardinality(Jobs)
  BY <1>1, FS_Subset
<1>3. Cardinality(some) \in Nat /\ Cardinality(Jobs) \in Nat
  BY <1>1, <1>2, FS_CardinalityType
<1>4. Cardinality(some) \in 0 .. Cardinality(Jobs)
  BY <1>2, <1>3
<1> QED
  BY <1>4 DEF some

\* A recovery that is looked for was not known before.
LEMMA AskedFits ==
    ASSUME NEW known \in [Jobs -> {"none", "asked", "found"}]
    PROVE  RecoveryAsked(known) \in [Jobs -> {"none", "asked", "found"}]
  BY DEF RecoveryAsked

\* The same when the page is drawn from the state of then.
LEMMA DrawnTypes ==
    ASSUME RowConstants, RowsTypesInv,
           NEW place \in {"downloads", "queue", "history"}, NEW by \in {"newest", "oldest"},
           NEW known \in [Jobs -> {"none", "asked", "found"}],
           Render(place, by, known), UNCHANGED raw, section' = place, sortOrder' = by,
           rowMenu' \in BOOLEAN
    PROVE  RowsTypesInv'
<1>1. nodes' \in Seq(AllNodes) /\ Once(nodes')
  BY NodesOnce DEF Render, DrawRows
<1>2. counts' \in [Statuses -> 0 .. Cardinality(Jobs)]
  BY CountsFit DEF Render, DrawRows
<1>3. panel' \in [Jobs -> {"none", "loading", "found"}]
  BY DEF Render, DrawRows, Panel
<1>4. recovery' \in [Jobs -> {"none", "asked", "found"}]
  BY AskedFits DEF Render
<1>5. changed' \subseteq Jobs /\ DOMAIN page' = Jobs
  BY DEF Render, DrawRows
<1> QED
  BY <1>1, <1>2, <1>3, <1>4, <1>5 DEF RowsTypesInv, RawFits, SnapshotFits

LEMMA RowTypesStart ==
    ASSUME RowConstants, RowInit
    PROVE  RowsTypesInv
<1>1. RawFits /\ (\A j \in Jobs : SnapshotFits(j)) /\ nodes \in Seq(AllNodes) /\ Once(nodes)
  BY RowStart DEF RowsInv
<1>2. counts \in [Statuses -> 0 .. Cardinality(Jobs)]
  BY CountsFit DEF RowInit
<1>3. /\ changed \subseteq Jobs /\ DOMAIN page = Jobs
      /\ panel \in [Jobs -> {"none", "loading", "found"}]
      /\ recovery \in [Jobs -> {"none", "asked", "found"}]
      /\ section \in {"downloads", "queue", "history"}
      /\ sortOrder \in {"newest", "oldest"} /\ rowMenu \in BOOLEAN
  BY DEF RowInit
<1> QED
  BY <1>1, <1>2, <1>3 DEF RowsTypesInv

LEMMA RowTypesStep ==
    ASSUME RowConstants, RowsTypesInv, [RowNext]_rowVars
    PROVE  RowsTypesInv'
<1> USE DEF RowsTypesInv
<1>1. ASSUME NEW j \in Jobs, ListChanges(j) PROVE RowsTypesInv'
  <2>1. PICK s \in Snapshots(j) \cup {NoJob} : raw' = [raw EXCEPT ![j] = s]
    BY <1>1 DEF ListChanges
  <2>2. RawFits' /\ \A i \in Jobs : SnapshotFits(i)'
    BY <2>1 DEF RawFits, SnapshotFits
  <2>3. changed' \subseteq Jobs
    BY <1>1 DEF ListChanges
  <2> QED
    BY <1>1, <2>2, <2>3 DEF ListChanges
<1>2. ASSUME NEW j \in Jobs, Recovered(j) PROVE RowsTypesInv'
  <2>1. [recovery EXCEPT ![j] = "found"] \in [Jobs -> {"none", "asked", "found"}]
    OBVIOUS
  <2> QED
    BY <1>2, <2>1, DrawnTypes DEF Recovered
<1>3. CASE Patch
  <2>1. nodes' \in Seq(AllNodes) /\ Once(nodes')
    BY <1>3, NodesOnce, PlacedAsWanted DEF Patch
  <2>2. counts' \in [Statuses -> 0 .. Cardinality(Jobs)]
    BY <1>3, CountsFit DEF Patch
  <2>3. panel' \in [Jobs -> {"none", "loading", "found"}] /\ DOMAIN page' = Jobs
    BY <1>3 DEF Patch, Panel
  <2> QED
    BY <1>3, <2>1, <2>2, <2>3 DEF Patch, RawFits, SnapshotFits
<1>4. CASE Redraw
  BY <1>4, DrawnTypes DEF Redraw
<1>5. CASE Menu
  BY <1>5, DrawnTypes DEF Menu
<1>6. CASE Sort
  <2>1. sortOrder' \in {"newest", "oldest"}
    BY <1>6 DEF Sort
  <2> QED
    BY <1>6, <2>1, DrawnTypes DEF Sort
<1>7. CASE Section
  <2>1. section' \in {"downloads", "queue", "history"}
    BY <1>7 DEF Section
  <2> QED
    BY <1>7, <2>1, DrawnTypes DEF Section
<1>8. CASE UNCHANGED rowVars
  BY <1>8 DEF rowVars, RawFits, SnapshotFits
<1> QED
  BY <1>1, <1>2, <1>3, <1>4, <1>5, <1>6, <1>7, <1>8 DEF RowNext

\* What the list knows and draws keeps its types, for any jobs and snapshots.
THEOREM RowsKeepTypes ==
    ASSUME RowConstants
    PROVE  RowSpec => []RowTypes
<1>1. RowInit => RowsTypesInv
  BY RowTypesStart
<1>2. RowsTypesInv /\ [RowNext]_rowVars => RowsTypesInv'
  BY RowTypesStep
<1>3. ASSUME RowsTypesInv PROVE RowTypes
  <2>1. \A j \in Jobs : raw[j] = NoJob \/ raw[j] \in Snapshots(j)
    BY <1>3 DEF RowsTypesInv, SnapshotFits
  <2>2. ToSet(nodes) \subseteq Jobs \X {"row", "recovery"}
    BY <1>3 DEF RowsTypesInv, ToSet, AllNodes
  <2> QED
    BY <1>3, <2>1, <2>2 DEF RowsTypesInv, RowTypes
<1> QED
  BY <1>1, <1>2, <1>3, PTL DEF RowSpec

-----------------------------------------------------------------------------
(* THE COMPONENTS                                                          *)

\* What the instance takes from the libraries is theirs.
LEMMA ComponentsCount ==
    /\ \A S : Comp!Cardinality(S) = Cardinality(S)
    /\ \A s, i : Comp!RemoveAt(s, i) = RemoveAt(s, i)
<1>1. \A S : Comp!Cardinality(S) = Cardinality(S)
  BY DEF Comp!Cardinality, Cardinality
<1>2. \A s, i : Comp!RemoveAt(s, i) = RemoveAt(s, i)
  BY DEF Comp!RemoveAt, RemoveAt
<1> QED
  BY <1>1, <1>2

(* The inductive invariant                                                 *)

CommandKinds    == Comp!Actions \cup {"list", "discover", "catalog"}
Commands == [kind : CommandKinds, id : Ids, stage : {"sent", "done"} \cup Comp!Phases,
             version : 0 .. CompMaxReleases, cancelled : BOOLEAN, ok : BOOLEAN,
             list : {Comp!NoRows} \cup [Ids -> Comp!Status]]
Announced     == [id : Ids, phase : Comp!Phases \cup Comp!Ends]
RowSet   == [state : Comp!States, phase : Comp!Phases \cup Comp!Ends \cup {Comp!NoPhase}]

\* Only an install passes through the phases, a command has its answer when it is done,
\* and one that is cancelled goes no further than the download.
Fitting(c) ==
    /\ c.stage \in Comp!Phases => c.kind = "install"
    /\ c.ok => c.stage = "done" /\ ~c.cancelled
    /\ c.cancelled => c.kind = "install" /\ c.stage \notin {"verify", "install"}
    /\ c.ok /\ Comp!Lists(c) => c.list \in [Ids -> Comp!Status]

CommandsFit == commands \in Seq(Commands) /\ \A i \in DOMAIN commands : Fitting(commands[i])

\* The main thread serves its commands in their order.
InTurn(s) ==
    \A i, j \in DOMAIN s :
        i < j /\ s[i].kind # "install" /\ s[j].kind # "install" /\ s[j].stage # "sent"
            => s[i].stage # "sent"

\* The scheduler's one check is under way.
OneCheck(s, flying) ==
    /\ flying => \E i \in DOMAIN s : s[i].kind = "discover"
    /\ \A i \in DOMAIN s : s[i].kind = "discover" => flying
    /\ \A i, j \in DOMAIN s : s[i].kind = "discover" /\ s[j].kind = "discover" => i = j

\* The last thing hears of a component that is at work is what it does.
AtWork(s, id)     == \E i \in DOMAIN s : s[i].id = id /\ Comp!Holds(s[i])
EndTold(s, id, k) == \E m \in DOMAIN s : m > k /\ s[m].id = id /\ s[m].phase \in Comp!Ends
ToldFits ==
    /\ compEvents \in Seq(Announced)
    /\ \A k \in DOMAIN compEvents :
         compEvents[k].phase \in Comp!Phases =>
             AtWork(commands, compEvents[k].id) \/ EndTold(compEvents, compEvents[k].id, k)
    /\ \A id \in Ids : phases[id] \in Comp!Phases => AtWork(commands, id) \/ EndTold(compEvents, id, 0)

\* What the manager would list while no install is at work.
ListOf(versions, broken, newest) ==
    [id \in Ids |->
        [state |-> IF versions[id] = 0 THEN IF id \in broken THEN "error" ELSE "missing"
                   ELSE IF newest > versions[id] THEN "update-available" ELSE "installed",
         version |-> versions[id], available |-> newest]]
Now == ListOf(installed, errors, catalog)

\* A list is on its way that will show it, or the last list that was answering shows it.
Due(c)    == c.kind \in Comp!Actions \/ (c.kind = "list" /\ ~c.ok)
HasList(c) == Comp!Lists(c) /\ c.ok
LastList(s, held, now) ==
    \/ \E i \in DOMAIN s : s[i].list = now /\ HasList(s[i]) /\ \A j \in DOMAIN s : j > i => ~HasList(s[j])
    \/ held = now /\ \A i \in DOMAIN s : ~HasList(s[i])
UpToDate(s, held, now) == (\E i \in DOMAIN s : Due(s[i])) \/ LastList(s, held, now)

\* With nothing to come the page is as it was drawn.
AsDrawn ==
    commands = <<>> =>
        /\ compOff = {}
        /\ rows # Comp!NoRows =>
             \A id \in Ids : rows[id] = [state |-> components[id].state, phase |-> phases[id]]

ComponentInv ==
    /\ Comp!ComponentTypes /\ CommandsFit /\ InTurn(commands) /\ OneCheck(commands, inFlight)
    /\ ToldFits /\ (overtaken \/ UpToDate(commands, components, Now)) /\ AsDrawn

-----------------------------------------------------------------------------
(* The list of commands                                                    *)

\* An element keeps its order when another is taken out.
LEMMA RemovedParts ==
    ASSUME NEW S, NEW s \in Seq(S), NEW i \in DOMAIN s
    PROVE  LET rest   == RemoveAt(s, i)
               was(k) == IF k < i THEN k ELSE k + 1
           IN /\ rest \in Seq(S) /\ DOMAIN rest = 1 .. Len(s) - 1
              /\ \A k \in DOMAIN rest : was(k) \in DOMAIN s \ {i} /\ rest[k] = s[was(k)]
              /\ \A j \in DOMAIN s \ {i} : \E k \in DOMAIN rest : j = was(k)
              /\ \A k, m \in DOMAIN rest : k < m <=> was(k) < was(m)
<1> DEFINE rest   == RemoveAt(s, i)
           was(k) == IF k < i THEN k ELSE k + 1
<1>1. /\ rest \in Seq(S) /\ Len(rest) = Len(s) - 1
      /\ \A k \in 1 .. Len(s) - 1 : rest[k] = s[was(k)]
  BY RemoveAtParts
<1> HIDE DEF rest
<1>2. /\ Len(s) \in Nat /\ DOMAIN s = 1 .. Len(s) /\ i \in 1 .. Len(s)
      /\ DOMAIN rest = 1 .. Len(s) - 1
  BY <1>1, LenProperties
<1>3. \A k \in DOMAIN rest : was(k) \in DOMAIN s \ {i} /\ rest[k] = s[was(k)]
  BY <1>1, <1>2
<1>4. ASSUME NEW j \in DOMAIN s \ {i}
      PROVE  \E k \in DOMAIN rest : j = was(k)
  <2>1. CASE j < i
    <3>1. j \in DOMAIN rest /\ was(j) = j
      BY <1>2, <2>1
    <3>2. QED  BY <3>1
  <2>2. CASE ~(j < i)
    <3>1. j - 1 \in DOMAIN rest /\ was(j - 1) = j
      BY <1>2, <2>2
    <3>2. QED  BY <3>1
  <2>3. QED  BY <2>1, <2>2
<1>5. \A k, m \in DOMAIN rest : k < m <=> was(k) < was(m)
  BY <1>2
<1>6. QED  BY <1>1, <1>2, <1>3, <1>4, <1>5 DEF rest

\* A new command is the last one.
LEMMA AddedParts ==
    ASSUME NEW S, NEW s \in Seq(S), NEW e \in S
    PROVE  /\ Append(s, e) \in Seq(S) /\ Len(s) \in Nat
           /\ DOMAIN s = 1 .. Len(s) /\ DOMAIN Append(s, e) = 1 .. Len(s) + 1
           /\ \A k \in DOMAIN s : Append(s, e)[k] = s[k]
           /\ Append(s, e)[Len(s) + 1] = e /\ Append(s, e) # <<>>
<1>1. /\ Append(s, e) \in Seq(S) /\ Len(Append(s, e)) = Len(s) + 1
      /\ \A k \in 1 .. Len(s) : Append(s, e)[k] = s[k]
      /\ Append(s, e)[Len(s) + 1] = e
  BY AppendProperties
<1>2. Len(s) \in Nat /\ DOMAIN s = 1 .. Len(s) /\ DOMAIN Append(s, e) = 1 .. Len(s) + 1
  BY <1>1, LenProperties
<1>3. Append(s, e) # <<>>
  BY <1>1, <1>2, EmptySeq
<1>4. QED  BY <1>1, <1>2, <1>3

LEMMA CommandParts ==
    ASSUME Comp!ComponentConstants, NEW what \in CommandKinds, NEW id \in Ids
    PROVE  /\ Comp!Command(what, id) \in Commands /\ Fitting(Comp!Command(what, id))
           /\ Comp!Command(what, id).kind = what /\ Comp!Command(what, id).stage = "sent"
           /\ ~Comp!Command(what, id).ok
<1>1. 0 \in 0 .. CompMaxReleases
  BY DEF Comp!ComponentConstants
<1>2. Comp!Command(what, id) \in Commands
  BY <1>1 DEF Comp!Command, Commands
<1>3. QED  BY <1>2 DEF Comp!Command, Fitting, Comp!Phases

\* A command that is added disturbs none of the others, if it is not a second check.
LEMMA AddedKeeps ==
    ASSUME Comp!ComponentConstants, NEW s \in Seq(Commands), NEW what \in CommandKinds, NEW id \in Ids,
           \A i \in DOMAIN s : Fitting(s[i]), InTurn(s), NEW flying, OneCheck(s, flying),
           what = "discover" => ~flying
    PROVE  LET t == Append(s, Comp!Command(what, id))
           IN /\ t \in Seq(Commands) /\ t # <<>> /\ \A i \in DOMAIN t : Fitting(t[i])
              /\ InTurn(t) /\ OneCheck(t, flying \/ what = "discover")
              /\ DOMAIN s \subseteq DOMAIN t /\ \A i \in DOMAIN s : t[i] = s[i]
              /\ \A i \in DOMAIN t \ DOMAIN s : t[i] = Comp!Command(what, id) /\ \A j \in DOMAIN s : j < i
              /\ what \in Comp!Actions \cup {"list"} => \E i \in DOMAIN t : Due(t[i])
              /\ \A held, now : LastList(s, held, now) => LastList(t, held, now)
<1> DEFINE c == Comp!Command(what, id)
           t == Append(s, c)
<1>1. /\ c \in Commands /\ Fitting(c) /\ c.kind = what /\ c.stage = "sent" /\ ~c.ok
  BY CommandParts
<1> HIDE DEF c
<1>2. /\ t \in Seq(Commands) /\ Len(s) \in Nat
      /\ DOMAIN s = 1 .. Len(s) /\ DOMAIN t = 1 .. Len(s) + 1
      /\ \A k \in DOMAIN s : t[k] = s[k]
      /\ t[Len(s) + 1] = c /\ t # <<>>
  BY <1>1, AddedParts
<1> HIDE DEF t
<1>3. \A i \in DOMAIN t : i \in DOMAIN s \/ i = Len(s) + 1
  BY <1>2
<1>4. /\ DOMAIN s \subseteq DOMAIN t /\ Len(s) + 1 \in DOMAIN t /\ Len(s) + 1 \notin DOMAIN s
      /\ \A j \in DOMAIN s : j < Len(s) + 1
  BY <1>2
<1>5. \A i \in DOMAIN t : Fitting(t[i])
  BY <1>1, <1>2, <1>3
<1>6. InTurn(t)
  <2>1. SUFFICES ASSUME NEW i \in DOMAIN t, NEW j \in DOMAIN t, i < j,
                        t[i].kind # "install", t[j].kind # "install", t[j].stage # "sent"
                 PROVE  t[i].stage # "sent"
    BY DEF InTurn
  <2>2. j \in DOMAIN s
    BY <1>1, <1>2, <1>3, <2>1
  <2>3. i \in DOMAIN s
    BY <1>2, <1>3, <2>1, <2>2
  <2>4. QED  BY <1>2, <2>1, <2>2, <2>3 DEF InTurn
<1>7. OneCheck(t, flying \/ what = "discover")
  BY <1>1, <1>2, <1>3, <1>4 DEF OneCheck
<1>8. what \in Comp!Actions \cup {"list"} => \E i \in DOMAIN t : Due(t[i])
  BY <1>1, <1>2, <1>4 DEF Due
<1>9. ~HasList(c)
  BY <1>1 DEF HasList
<1>10. ASSUME NEW held, NEW now, LastList(s, held, now)
       PROVE  LastList(t, held, now)
  BY <1>2, <1>3, <1>4, <1>9, <1>10 DEF LastList
<1>11. \A i \in DOMAIN t \ DOMAIN s : t[i] = c /\ \A j \in DOMAIN s : j < i
  BY <1>2, <1>3, <1>4
<1>12. QED  BY <1>2, <1>4, <1>5, <1>6, <1>7, <1>8, <1>10, <1>11 DEF c, t

\* A command that is taken out disturbs none of the others.
LEMMA RemovedKeeps ==
    ASSUME NEW s \in Seq(Commands), \A k \in DOMAIN s : Fitting(s[k]), InTurn(s),
           NEW flying, OneCheck(s, flying), NEW i \in DOMAIN s
    PROVE  LET rest == RemoveAt(s, i)
           IN /\ rest \in Seq(Commands) /\ \A k \in DOMAIN rest : Fitting(rest[k])
              /\ InTurn(rest) /\ OneCheck(rest, flying /\ s[i].kind # "discover")
              /\ \A j \in DOMAIN s \ {i} : \E k \in DOMAIN rest : rest[k] = s[j]
<1> DEFINE rest   == RemoveAt(s, i)
           was(k) == IF k < i THEN k ELSE k + 1
<1>1. /\ rest \in Seq(Commands)
      /\ \A k \in DOMAIN rest : was(k) \in DOMAIN s \ {i} /\ rest[k] = s[was(k)]
      /\ \A j \in DOMAIN s \ {i} : \E k \in DOMAIN rest : j = was(k)
      /\ \A k, m \in DOMAIN rest : k < m <=> was(k) < was(m)
  BY RemovedParts
<1>2. DOMAIN rest \subseteq Nat
  <2>1. DOMAIN rest = 1 .. Len(rest) /\ Len(rest) \in Nat
    BY <1>1, LenProperties
  <2>2. QED  BY <2>1
<1> HIDE DEF rest
<1>3. \A j \in DOMAIN s \ {i} : \E k \in DOMAIN rest : rest[k] = s[j]
  BY <1>1
<1>4. \A k, m \in DOMAIN rest : was(k) = was(m) => k = m
  BY <1>1, <1>2
<1> HIDE DEF was
<1>5. \A k \in DOMAIN rest : Fitting(rest[k])
  BY <1>1
<1>6. InTurn(rest)
  BY <1>1 DEF InTurn
<1>7. OneCheck(rest, flying /\ s[i].kind # "discover")
  <2>1. ASSUME flying, s[i].kind # "discover"
        PROVE  \E k \in DOMAIN rest : rest[k].kind = "discover"
    <3>1. PICK j \in DOMAIN s : s[j].kind = "discover"
      BY <2>1 DEF OneCheck
    <3>2. QED  BY <1>3, <2>1, <3>1
  <2>2. ASSUME NEW k \in DOMAIN rest, rest[k].kind = "discover"
        PROVE  flying /\ s[i].kind # "discover"
    BY <1>1, <2>2 DEF OneCheck
  <2>3. ASSUME NEW k \in DOMAIN rest, NEW m \in DOMAIN rest,
               rest[k].kind = "discover", rest[m].kind = "discover"
        PROVE  k = m
    <3>1. was(k) = was(m)
      BY <1>1, <2>3 DEF OneCheck
    <3>2. QED  BY <1>4, <3>1
  <2>4. QED  BY <2>1, <2>2, <2>3 DEF OneCheck
<1>8. QED  BY <1>1, <1>3, <1>5, <1>6, <1>7 DEF rest

-----------------------------------------------------------------------------
(* What the manager lists                                                  *)

LEMMA ListingTyped ==
    ASSUME Comp!ComponentConstants, NEW versions \in [Ids -> 0 .. CompMaxReleases], NEW broken,
           NEW newest \in 0 .. CompMaxReleases
    PROVE  ListOf(versions, broken, newest) \in [Ids -> Comp!Status]
<1> DEFINE stateOf(id) == IF versions[id] = 0 THEN IF id \in broken THEN "error" ELSE "missing"
                          ELSE IF newest > versions[id] THEN "update-available" ELSE "installed"
<1>1. 0 .. CompMaxReleases \subseteq Nat
  BY DEF Comp!ComponentConstants
<1>2. \A id \in Ids : stateOf(id) \in Comp!States
  BY DEF Comp!States
<1>3. ListOf(versions, broken, newest) =
        [id \in Ids |-> [state |-> stateOf(id), version |-> versions[id], available |-> newest]]
  BY DEF ListOf
<1> HIDE DEF stateOf
<1>4. \A id \in Ids : versions[id] \in Nat /\ newest \in Nat
  BY <1>1
<1>5. \A id \in Ids : [state |-> stateOf(id), version |-> versions[id], available |-> newest] \in Comp!Status
  BY <1>2, <1>4 DEF Comp!Status
<1>6. QED  BY <1>3, <1>5

LEMMA StatusesIdle ==
    ASSUME \A i \in DOMAIN commands : ~Comp!Holds(commands[i])
    PROVE  Comp!Statuses = Now
<1>1. \A id \in Ids : ~Comp!Busy(id)
  BY DEF Comp!Busy
<1>2. QED  BY <1>1 DEF Comp!Statuses, Comp!StatusOf, Now, ListOf

\* A list is typed while an install is at work, too.
LEMMA StatusesTyped ==
    ASSUME Comp!ComponentConstants, installed \in [Ids -> 0 .. CompMaxReleases], catalog \in 0 .. CompMaxReleases
    PROVE  Comp!Statuses \in [Ids -> Comp!Status]
<1>1. Now \in [Ids -> Comp!Status]
  BY ListingTyped DEF Now
<1>2. ASSUME NEW id \in Ids
      PROVE  Comp!StatusOf(id) \in Comp!Status
  <2>1. CASE Comp!Busy(id)
    <3> DEFINE All == {commands[j] : j \in DOMAIN commands}
               one == CHOOSE c \in All : c.id = id /\ Comp!Holds(c)
    <3>1. \E c \in All : c.id = id /\ Comp!Holds(c)
      BY <2>1 DEF Comp!Busy
    <3>2. one \in All /\ Comp!Holds(one)
      BY <3>1
    <3>3. one.stage \in Comp!States
      BY <3>2 DEF Comp!Holds, Comp!States
    <3>4. Comp!StatusOf(id) = [state |-> one.stage, version |-> installed[id], available |-> catalog]
      BY <2>1 DEF Comp!StatusOf
    <3> HIDE DEF one
    <3>5. installed[id] \in Nat /\ catalog \in Nat
      BY DEF Comp!ComponentConstants
    <3>6. QED  BY <3>3, <3>4, <3>5 DEF Comp!Status
  <2>2. CASE ~Comp!Busy(id)
    <3>1. Comp!StatusOf(id) = Now[id]
      BY <2>2 DEF Comp!StatusOf, Now, ListOf
    <3>2. QED  BY <1>1, <3>1
  <2>3. QED  BY <2>1, <2>2
<1>3. QED  BY <1>2 DEF Comp!Statuses

-----------------------------------------------------------------------------
(* The page                                                                *)

LEMMA ComponentsStart ==
    ASSUME Comp!ComponentConstants, Comp!ComponentInit
    PROVE  ComponentInv
<1>1. /\ CompMaxReleases \in Nat /\ CompMaxReleases # 0 /\ MaxActs \in Nat /\ CompMaxFaults \in Nat
      /\ {0, 1} \subseteq 0 .. CompMaxReleases
  BY DEF Comp!ComponentConstants
<1>2. /\ commands \in Seq(Commands) /\ DOMAIN commands = {} /\ commands = <<>>
      /\ compEvents \in Seq(Announced) /\ DOMAIN compEvents = {}
  BY EmptySeq DEF Comp!ComponentInit
<1>3. Comp!Statuses = Now
  BY <1>2, StatusesIdle DEF Comp!ComponentInit
<1>4. installed \in [Ids -> 0 .. CompMaxReleases] /\ errors \subseteq Ids /\ {catalog, compPublished} \subseteq 0 .. CompMaxReleases
  BY <1>1 DEF Comp!ComponentInit
<1>5. Now \in [Ids -> Comp!Status]
  BY <1>4, ListingTyped DEF Now
<1>6. Comp!ComponentTypes
  <2>1. phases \in [Ids -> Comp!Phases \cup Comp!Ends \cup {Comp!NoPhase}] /\ components \in [Ids -> Comp!Status]
    BY <1>3, <1>5 DEF Comp!ComponentInit
  <2>2. 0 \in 0 .. MaxActs /\ 0 \in 0 .. CompMaxFaults
    BY <1>1
  <2>3. {inFlight, backoff, overtaken} \subseteq BOOLEAN
    BY DEF Comp!ComponentInit
  <2>4. QED  BY <1>4, <2>1, <2>2, <2>3 DEF Comp!ComponentInit, Comp!ComponentTypes
<1>7. CommandsFit /\ InTurn(commands) /\ OneCheck(commands, inFlight)
  BY <1>2 DEF CommandsFit, InTurn, OneCheck, Comp!ComponentInit
<1>8. ToldFits /\ UpToDate(commands, components, Now) /\ AsDrawn
  BY <1>2, <1>3 DEF ToldFits, UpToDate, LastList, AsDrawn, Comp!ComponentInit, Comp!NoPhase, Comp!Phases
<1>9. QED  BY <1>6, <1>7, <1>8 DEF ComponentInv

\* What is added does not change what is at work and what is to be hears.
LEMMA SentKeeps ==
    ASSUME Comp!ComponentConstants, ComponentInv, NEW what \in CommandKinds, NEW id \in Ids,
           what = "discover" => ~inFlight,
           commands' = Append(commands, Comp!Command(what, id)),
           inFlight' = (inFlight \/ what = "discover"), acts' \in 0 .. MaxActs,
           UNCHANGED <<Comp!manager, compEvents, components, phases, rows, backoff, overtaken, compFaults>>
    PROVE  ComponentInv'
<1>1. /\ commands' \in Seq(Commands) /\ commands' # <<>> /\ \A i \in DOMAIN commands' : Fitting(commands'[i])
      /\ InTurn(commands') /\ OneCheck(commands', inFlight')
      /\ DOMAIN commands \subseteq DOMAIN commands' /\ \A i \in DOMAIN commands : commands'[i] = commands[i]
      /\ \A i \in DOMAIN commands' \ DOMAIN commands : commands'[i] = Comp!Command(what, id)
      /\ \A held, now : LastList(commands, held, now) => LastList(commands', held, now)
  BY AddedKeeps DEF ComponentInv, CommandsFit
<1>2. \A x : AtWork(commands, x) => AtWork(commands', x)
  BY <1>1 DEF AtWork
<1>3. Now' = Now
  BY DEF Now, Comp!manager
<1>4. UpToDate(commands, components, Now) => UpToDate(commands', components', Now')
  BY <1>1, <1>3 DEF UpToDate
<1>5. ToldFits'
  BY <1>2 DEF ComponentInv, ToldFits
<1>6. Comp!ComponentTypes'
  BY DEF ComponentInv, Comp!ComponentTypes, Comp!manager
<1>7. QED  BY <1>1, <1>4, <1>5, <1>6 DEF ComponentInv, CommandsFit, AsDrawn

LEMMA ClickKeeps ==
    ASSUME Comp!ComponentConstants, ComponentInv, Comp!Click \/ Comp!CheckNow \/ \E force \in BOOLEAN : Comp!Discover(force)
    PROVE  ComponentInv'
<1>0. inFlight \in BOOLEAN
  BY DEF ComponentInv, Comp!ComponentTypes
<1>1. acts' \in 0 .. MaxActs
  <2>1. acts < MaxActs /\ acts' = acts + 1 /\ acts \in 0 .. MaxActs
    BY DEF Comp!Click, Comp!CheckNow, Comp!Discover, Comp!Acts, ComponentInv, Comp!ComponentTypes
  <2>2. QED  BY <2>1 DEF Comp!ComponentConstants
<1>2. CASE Comp!Click
  <2>1. PICK id \in Ids : \E action \in Comp!Offers(id) : commands' = Append(commands, Comp!Command(action, id))
    BY <1>2 DEF Comp!Click
  <2>2. PICK action \in Comp!Offers(id) : commands' = Append(commands, Comp!Command(action, id))
    BY <2>1
  <2>3. action \in CommandKinds /\ action # "discover"
    BY <2>2 DEF Comp!Offers, CommandKinds, Comp!Actions
  <2>4. UNCHANGED <<Comp!manager, compEvents, components, phases, rows, inFlight, backoff, overtaken, compFaults>>
    BY <1>2 DEF Comp!Click, Comp!scheduler
  <2>5. inFlight' = (inFlight \/ action = "discover")
    BY <1>0, <2>3, <2>4
  <2>6. QED  BY <1>1, <2>2, <2>3, <2>4, <2>5, SentKeeps
<1>3. CASE Comp!CheckNow
  <2>1. PICK id \in Ids : commands' = Append(commands, Comp!Command("catalog", id))
    BY <1>3 DEF Comp!CheckNow
  <2>2. UNCHANGED <<Comp!manager, compEvents, components, phases, rows, inFlight, backoff, overtaken, compFaults>>
    BY <1>3 DEF Comp!CheckNow, Comp!scheduler
  <2>3. inFlight' = (inFlight \/ "catalog" = "discover") /\ "catalog" \in CommandKinds
    BY <1>0, <2>2 DEF CommandKinds
  <2>4. QED  BY <1>1, <2>1, <2>2, <2>3, SentKeeps
<1>4. CASE \E force \in BOOLEAN : Comp!Discover(force)
  <2> DEFINE id == CHOOSE x \in Ids : TRUE
  <2>1. commands' = Append(commands, Comp!Command("discover", id)) /\ ~inFlight
    BY <1>4 DEF Comp!Discover
  <2>2. id \in Ids
    BY DEF Comp!ComponentConstants
  <2>3. /\ inFlight' = (inFlight \/ "discover" = "discover") /\ "discover" \in CommandKinds
        /\ UNCHANGED <<Comp!manager, compEvents, components, phases, rows, backoff, overtaken, compFaults>>
    BY <1>4 DEF Comp!Discover, Comp!page, CommandKinds
  <2> HIDE DEF id
  <2>4. QED  BY <1>1, <2>1, <2>2, <2>3, SentKeeps
<1>5. QED  BY <1>2, <1>3, <1>4

\* What is drawn from memory shows it.
LEMMA RowsTyped ==
    ASSUME components' \in [Ids -> Comp!Status], phases' \in [Ids -> Comp!Phases \cup Comp!Ends \cup {Comp!NoPhase}]
    PROVE  /\ [id \in Ids |-> Comp!Row(id)] \in [Ids -> RowSet]
           /\ \A id \in Ids : [x \in Ids |-> Comp!Row(x)][id] = [state |-> components'[id].state, phase |-> phases'[id]]
BY DEF Comp!Row, RowSet, Comp!Status

LEMMA VisitKeeps ==
    ASSUME Comp!ComponentConstants, ComponentInv, Comp!Visit
    PROVE  ComponentInv'
<1>1. /\ components \in [Ids -> Comp!Status] /\ phases \in [Ids -> Comp!Phases \cup Comp!Ends \cup {Comp!NoPhase}]
      /\ UNCHANGED <<Comp!manager, commands, compEvents, components, phases, Comp!scheduler, overtaken, acts, compFaults>>
      /\ compOff' = {} /\ rows' = IF rows = Comp!NoRows THEN [id \in Ids |-> Comp!Row(id)] ELSE Comp!NoRows
  BY DEF Comp!Visit, ComponentInv, Comp!ComponentTypes
<1> DEFINE drawing == [id \in Ids |-> Comp!Row(id)]
<1>2. /\ drawing \in [Ids -> RowSet]
      /\ \A id \in Ids : drawing[id] = [state |-> components'[id].state, phase |-> phases'[id]]
  BY <1>1, RowsTyped
<1>3. rows' = drawing \/ rows' = Comp!NoRows
  BY <1>1
<1> HIDE DEF drawing
<1>4. AsDrawn'
  BY <1>1, <1>2, <1>3 DEF AsDrawn
<1>5. Comp!ComponentTypes'
  BY <1>1, <1>2, <1>3 DEF ComponentInv, Comp!ComponentTypes, Comp!manager, Comp!scheduler, RowSet
<1>6. ToldFits'
  BY <1>1 DEF ComponentInv, ToldFits
<1>7. UpToDate(commands, components, Now) => UpToDate(commands', components', Now')
  BY <1>1 DEF Now, Comp!manager
<1>8. CommandsFit' /\ InTurn(commands)' /\ OneCheck(commands, inFlight)'
  BY <1>1 DEF ComponentInv, CommandsFit, InTurn, OneCheck, Comp!scheduler
<1>9. QED  BY <1>1, <1>4, <1>5, <1>6, <1>7, <1>8 DEF ComponentInv

LEMMA PublishKeeps ==
    ASSUME Comp!ComponentConstants, ComponentInv, Comp!Publish \/ Comp!BackoffEnds \/ UNCHANGED Comp!componentVars
    PROVE  ComponentInv'
<1>1. /\ UNCHANGED <<installed, errors, catalog, commands, compEvents, components, phases, rows, compOff>>
      /\ UNCHANGED <<inFlight, overtaken, acts, compFaults>>
      /\ compPublished' \in 0 .. CompMaxReleases /\ backoff' \in BOOLEAN
  <2>1. CASE Comp!Publish
    <3>1. compPublished < CompMaxReleases /\ compPublished' = compPublished + 1 /\ compPublished \in 0 .. CompMaxReleases
      BY <2>1 DEF Comp!Publish, ComponentInv, Comp!ComponentTypes
    <3>2. backoff' \in BOOLEAN
      BY <2>1 DEF Comp!Publish, Comp!scheduler, ComponentInv, Comp!ComponentTypes
    <3>3. compPublished' \in 0 .. CompMaxReleases
      BY <3>1 DEF Comp!ComponentConstants
    <3>4. QED  BY <2>1, <3>2, <3>3 DEF Comp!Publish, Comp!page, Comp!scheduler
  <2>2. CASE Comp!BackoffEnds
    BY <2>2 DEF Comp!BackoffEnds, Comp!page, Comp!manager, ComponentInv, Comp!ComponentTypes
  <2>3. CASE UNCHANGED Comp!componentVars
    BY <2>3 DEF Comp!componentVars, ComponentInv, Comp!ComponentTypes
  <2>4. QED  BY <2>1, <2>2, <2>3
<1>2. Comp!ComponentTypes'
  BY <1>1 DEF ComponentInv, Comp!ComponentTypes
<1>3. ToldFits'
  BY <1>1 DEF ComponentInv, ToldFits
<1>4. UpToDate(commands, components, Now) => UpToDate(commands', components', Now')
  BY <1>1 DEF Now
<1>5. CommandsFit' /\ InTurn(commands)' /\ OneCheck(commands, inFlight)' /\ AsDrawn'
  BY <1>1 DEF ComponentInv, CommandsFit, InTurn, OneCheck, AsDrawn
<1>6. QED  BY <1>1, <1>2, <1>3, <1>4, <1>5 DEF ComponentInv

LEMMA HearKeeps ==
    ASSUME Comp!ComponentConstants, ComponentInv, Comp!Hear
    PROVE  ComponentInv'
<1> DEFINE e == Head(compEvents)
<1>1. /\ compEvents # <<>> /\ compEvents' = Tail(compEvents) /\ phases' = [phases EXCEPT ![e.id] = e.phase]
      /\ rows' = IF rows = Comp!NoRows THEN rows ELSE [rows EXCEPT ![e.id].phase = e.phase]
      /\ UNCHANGED <<Comp!manager, commands, components, compOff, Comp!scheduler, overtaken, acts, compFaults>>
  BY DEF Comp!Hear
<1>2. compEvents \in Seq(Announced) /\ Len(compEvents) \in Nat /\ DOMAIN compEvents = 1 .. Len(compEvents)
  BY LenProperties DEF ComponentInv, ToldFits
<1>3. /\ e \in Announced /\ e = compEvents[1] /\ Len(compEvents) > 0 /\ compEvents' \in Seq(Announced)
      /\ DOMAIN compEvents' = 1 .. Len(compEvents) - 1 /\ \A k \in 1 .. Len(compEvents) - 1 : compEvents'[k] = compEvents[k + 1]
  <2>1. /\ e \in Announced /\ e = compEvents[1] /\ Tail(compEvents) \in Seq(Announced) /\ Len(Tail(compEvents)) = Len(compEvents) - 1
        /\ \A k \in 1 .. Len(Tail(compEvents)) : Tail(compEvents)[k] = compEvents[k + 1]
    BY <1>1, <1>2, HeadTailProperties
  <2>2. Len(compEvents) > 0
    BY <1>1, <1>2, EmptySeq
  <2>3. QED  BY <1>1, <2>1, <2>2, LenProperties
<1> HIDE DEF e
<1>4. /\ e.id \in Ids /\ e.phase \in Comp!Phases \cup Comp!Ends
      /\ components \in [Ids -> Comp!Status] /\ phases \in [Ids -> Comp!Phases \cup Comp!Ends \cup {Comp!NoPhase}]
      /\ rows = Comp!NoRows \/ rows \in [Ids -> RowSet]
  BY <1>3 DEF Announced, ComponentInv, Comp!ComponentTypes, RowSet
<1>5. /\ phases' \in [Ids -> Comp!Phases \cup Comp!Ends \cup {Comp!NoPhase}] /\ phases'[e.id] = e.phase
      /\ \A id \in Ids \ {e.id} : phases'[id] = phases[id]
  BY <1>1, <1>4
<1>6. /\ rows' = Comp!NoRows \/ rows' \in [Ids -> RowSet]
      /\ rows = Comp!NoRows => rows' = Comp!NoRows
      /\ rows # Comp!NoRows => \A id \in Ids : rows'[id] = IF id = e.id THEN [state |-> rows[id].state, phase |-> e.phase]
                                                                  ELSE rows[id]
  <2>1. CASE rows = Comp!NoRows
    BY <1>1, <2>1
  <2>2. CASE rows # Comp!NoRows
    <3>1. rows \in [Ids -> RowSet] /\ rows' = [rows EXCEPT ![e.id] = [rows[e.id] EXCEPT !.phase = e.phase]]
      BY <1>1, <1>4, <2>2
    <3>2. /\ rows[e.id] \in RowSet
          /\ [rows[e.id] EXCEPT !.phase = e.phase] = [state |-> rows[e.id].state, phase |-> e.phase]
      BY <1>4, <3>1 DEF RowSet
    <3>3. [state |-> rows[e.id].state, phase |-> e.phase] \in RowSet
      BY <1>4, <3>2 DEF RowSet
    <3>4. QED  BY <1>4, <2>2, <3>1, <3>2, <3>3
  <2>3. QED  BY <2>1, <2>2
<1>7. AsDrawn'
  <2>1. SUFFICES ASSUME commands' = <<>>
                 PROVE  compOff' = {} /\ (rows' # Comp!NoRows => \A id \in Ids :
                            rows'[id] = [state |-> components'[id].state, phase |-> phases'[id]])
    BY DEF AsDrawn
  <2>2. compOff = {} /\ (rows # Comp!NoRows =>
             \A id \in Ids : rows[id] = [state |-> components[id].state, phase |-> phases[id]])
    BY <1>1, <2>1 DEF ComponentInv, AsDrawn
  <2>3. ASSUME rows' # Comp!NoRows, NEW id \in Ids
        PROVE  rows'[id] = [state |-> components'[id].state, phase |-> phases'[id]]
    <3>1. rows # Comp!NoRows /\ rows[id] = [state |-> components[id].state, phase |-> phases[id]]
      BY <1>6, <2>2, <2>3
    <3>2. rows[id].state = components'[id].state
      BY <1>1, <3>1
    <3>3. CASE id = e.id
      <4>1. rows'[id] = [state |-> rows[id].state, phase |-> e.phase]
        BY <1>6, <3>1, <3>3
      <4>2. QED  BY <1>5, <3>2, <3>3, <4>1
    <3>4. CASE id # e.id
      <4>1. rows'[id] = rows[id] /\ phases'[id] = phases[id]
        BY <1>5, <1>6, <3>1, <3>4
      <4>2. components'[id].state = components[id].state
        BY <1>1
      <4>3. QED  BY <3>1, <4>1, <4>2
    <3>5. QED  BY <3>3, <3>4
  <2>4. QED  BY <1>1, <2>2, <2>3
<1>8. ToldFits'
  <2>1. commands' = commands
    BY <1>1
  <2>2. ASSUME NEW id \in Ids, NEW k \in Nat, EndTold(compEvents, id, k + 1)
        PROVE  EndTold(compEvents', id, k)
    <3>1. PICK m \in DOMAIN compEvents : m > k + 1 /\ compEvents[m].id = id /\ compEvents[m].phase \in Comp!Ends
      BY <2>2 DEF EndTold
    <3>2. m - 1 \in DOMAIN compEvents' /\ m - 1 > k /\ compEvents'[m - 1] = compEvents[m]
      BY <1>2, <1>3, <3>1
    <3>3. QED  BY <3>1, <3>2 DEF EndTold
  <2>3. ASSUME NEW k \in DOMAIN compEvents', compEvents'[k].phase \in Comp!Phases
        PROVE  AtWork(commands', compEvents'[k].id) \/ EndTold(compEvents', compEvents'[k].id, k)
    <3>1. k \in Nat /\ k + 1 \in DOMAIN compEvents /\ compEvents'[k] = compEvents[k + 1]
      BY <1>2, <1>3
    <3>2. AtWork(commands, compEvents'[k].id) \/ EndTold(compEvents, compEvents'[k].id, k + 1)
      BY <2>3, <3>1 DEF ComponentInv, ToldFits
    <3>3. compEvents[k + 1] \in Announced
      BY <1>2, <3>1, ElementOfSeq
    <3>4. compEvents'[k].id \in Ids
      BY <3>1, <3>3 DEF Announced
    <3>5. QED  BY <2>1, <2>2, <3>1, <3>2, <3>4
  <2>4. ASSUME NEW id \in Ids, phases'[id] \in Comp!Phases
        PROVE  AtWork(commands', id) \/ EndTold(compEvents', id, 0)
    <3>1. CASE id = e.id
      <4>1. 1 \in DOMAIN compEvents /\ compEvents[1].phase \in Comp!Phases /\ compEvents[1].id = id
        BY <1>2, <1>3, <1>5, <2>4, <3>1
      <4>2. AtWork(commands, id) \/ EndTold(compEvents, id, 0 + 1)
        BY <4>1 DEF ComponentInv, ToldFits
      <4>3. 0 \in Nat
        OBVIOUS
      <4>4. QED  BY <2>1, <2>2, <4>2, <4>3
    <3>2. CASE id # e.id
      <4>1. AtWork(commands, id) \/ EndTold(compEvents, id, 0)
        BY <1>5, <2>4, <3>2 DEF ComponentInv, ToldFits
      <4>2. EndTold(compEvents, id, 0) => EndTold(compEvents, id, 0 + 1)
        BY <1>2, <1>3, <3>2 DEF EndTold
      <4>3. 0 \in Nat
        OBVIOUS
      <4>4. QED  BY <2>1, <2>2, <4>1, <4>2, <4>3
    <3>3. QED  BY <3>1, <3>2
  <2>5. QED  BY <1>3, <2>3, <2>4 DEF ToldFits
<1>9. Comp!ComponentTypes'
  BY <1>1, <1>5, <1>6 DEF ComponentInv, Comp!ComponentTypes, Comp!manager, Comp!scheduler, RowSet
<1>10. UpToDate(commands, components, Now) => UpToDate(commands', components', Now')
  BY <1>1 DEF Now, Comp!manager
<1>11. CommandsFit' /\ InTurn(commands)' /\ OneCheck(commands, inFlight)'
  BY <1>1 DEF ComponentInv, CommandsFit, InTurn, OneCheck, Comp!scheduler
<1>12. QED  BY <1>1, <1>7, <1>8, <1>9, <1>10, <1>11 DEF ComponentInv

-----------------------------------------------------------------------------
(* A command that goes a step further                                      *)

LEMMA ChangedParts ==
    ASSUME NEW i \in DOMAIN commands, NEW c \in Commands, commands \in Seq(Commands),
           commands' = [commands EXCEPT ![i] = c]
    PROVE  /\ commands' \in Seq(Commands) /\ DOMAIN commands' = DOMAIN commands /\ commands'[i] = c
           /\ \A j \in DOMAIN commands \ {i} : commands'[j] = commands[j]
<1>1. DOMAIN commands = 1 .. Len(commands) /\ Len(commands) \in Nat
  BY LenProperties
<1>2. \A j \in DOMAIN commands : commands[j] \in Commands
  BY ElementOfSeq
<1>3. commands' \in Seq(Commands) /\ DOMAIN commands' = DOMAIN commands
  BY <1>1, ExceptSeq
<1>4. commands'[i] = c /\ \A j \in DOMAIN commands \ {i} : commands'[j] = commands[j]
  BY <1>1, <1>2
<1>5. QED  BY <1>3, <1>4

\* What a command becomes: of its kind, for its component, and fitting.
Becomes(i, c) ==
    /\ i \in DOMAIN commands /\ DOMAIN commands' = DOMAIN commands /\ commands' \in Seq(Commands)
    /\ commands'[i] = c /\ c.kind = commands[i].kind /\ c.id = commands[i].id /\ Fitting(c)
    /\ \A j \in DOMAIN commands \ {i} :
         /\ commands'[j].kind = commands[j].kind /\ commands'[j].id = commands[j].id
         /\ commands'[j].stage = commands[j].stage /\ Fitting(commands'[j])

LEMMA BecomesKeeps ==
    ASSUME ComponentInv, NEW i, NEW c, Becomes(i, c), commands[i].kind = "install" \/ Comp!Next1(i)
    PROVE  CommandsFit' /\ InTurn(commands') /\ OneCheck(commands', inFlight) /\ commands' # <<>>
<1>1. /\ i \in DOMAIN commands /\ DOMAIN commands' = DOMAIN commands /\ commands' \in Seq(Commands)
      /\ \A j \in DOMAIN commands : commands'[j].kind = commands[j].kind
      /\ \A j \in DOMAIN commands \ {i} : commands'[j].stage = commands[j].stage
      /\ \A j \in DOMAIN commands : Fitting(commands'[j])
  BY DEF Becomes
<1>2. OneCheck(commands', inFlight)
  BY <1>1 DEF ComponentInv, OneCheck
<1>3. InTurn(commands')
  <2>1. SUFFICES ASSUME NEW j \in DOMAIN commands, NEW k \in DOMAIN commands, j < k,
                        commands[j].kind # "install", commands[k].kind # "install",
                        commands'[k].stage # "sent"
                 PROVE  commands'[j].stage # "sent"
    BY <1>1 DEF InTurn
  <2>2. CASE k = i
    <3>1. Comp!Next1(i) /\ j \in 1 .. i - 1
      <4>1. DOMAIN commands = 1 .. Len(commands) /\ Len(commands) \in Nat
        BY LenProperties DEF ComponentInv, CommandsFit
      <4>2. QED  BY <2>1, <2>2, <4>1
    <3>2. commands[j].stage # "sent" /\ j # i
      BY <2>1, <2>2, <3>1 DEF Comp!Next1
    <3>3. QED  BY <1>1, <3>2
  <2>3. CASE k # i
    <3>1. commands[j].stage # "sent"
      BY <1>1, <2>1, <2>3 DEF ComponentInv, InTurn
    <3>2. CASE j # i
      BY <1>1, <3>1, <3>2
    <3>3. CASE j = i
      BY <2>1, <3>1, <3>3 DEF Comp!Next1
    <3>4. QED  BY <3>2, <3>3
  <2>4. QED  BY <2>2, <2>3
<1>4. commands' # <<>>
  BY <1>1
<1>5. QED  BY <1>1, <1>2, <1>3, <1>4 DEF CommandsFit

\* What a command of the main thread does to what it lists.
LEMMA ExecuteKeeps ==
    ASSUME Comp!ComponentConstants, ComponentInv, Comp!Execute
    PROVE  ComponentInv'
<1>1. PICK i \in DOMAIN commands :
        Comp!Next1(i) /\ (Comp!Refresh(i) \/ Comp!List(i) \/ Comp!Verify(i) \/ Comp!Uninstall(i) \/ Comp!Cancel(i))
  BY DEF Comp!Execute
<1> DEFINE c == commands[i]
<1>2. UNCHANGED <<compPublished, compEvents, components, phases, rows, compOff, inFlight, backoff, overtaken, acts>>
  BY DEF Comp!Execute, Comp!page, Comp!scheduler
<1>3. /\ commands \in Seq(Commands) /\ \A j \in DOMAIN commands : commands[j] \in Commands /\ Fitting(commands[j])
      /\ installed \in [Ids -> 0 .. CompMaxReleases] /\ errors \subseteq Ids
      /\ catalog \in 0 .. CompMaxReleases /\ compPublished \in 0 .. CompMaxReleases
  BY ElementOfSeq DEF ComponentInv, Comp!ComponentTypes, CommandsFit
<1>4. c \in Commands /\ c.kind # "install" /\ c.stage = "sent" /\ ~c.cancelled /\ ~c.ok
  BY <1>1, <1>3 DEF Comp!Next1, Fitting
<1>5. ASSUME NEW d \in Commands, commands' = [commands EXCEPT ![i] = d],
             d.kind = c.kind, d.id = c.id, d.stage = "done", ~d.cancelled,
             d.ok /\ Comp!Lists(d) => d.list \in [Ids -> Comp!Status]
      PROVE  /\ Becomes(i, d) /\ commands'[i] = d
             /\ \A j \in DOMAIN commands \ {i} : commands'[j] = commands[j]
  <2>1. Fitting(d)
    BY <1>5 DEF Fitting, Comp!Phases
  <2>2. QED  BY <1>3, <1>5, <2>1, ChangedParts DEF Becomes
<1>6. ASSUME NEW d, Becomes(i, d), d.stage = "done",
             installed' \in [Ids -> 0 .. CompMaxReleases], errors' \subseteq Ids,
             catalog' \in 0 .. CompMaxReleases, compFaults' \in 0 .. CompMaxFaults,
             overtaken \/ UpToDate(commands', components, Now')
      PROVE  ComponentInv'
  <2>1. CommandsFit' /\ InTurn(commands') /\ OneCheck(commands', inFlight) /\ commands' # <<>>
    BY <1>1, <1>6, BecomesKeeps
  <2>2. \A x : AtWork(commands, x) => AtWork(commands', x)
    BY <1>4, <1>6 DEF AtWork, Becomes, Comp!Holds, Comp!Phases
  <2>3. ToldFits'
    BY <1>2, <2>2 DEF ComponentInv, ToldFits
  <2>4. Comp!ComponentTypes'
    BY <1>2, <1>6 DEF ComponentInv, Comp!ComponentTypes
  <2>5. QED  BY <1>2, <1>6, <2>1, <2>3, <2>4 DEF ComponentInv, AsDrawn
<1>7. compFaults \in 0 .. CompMaxFaults /\ (Comp!Faulty => compFaults' \in 0 .. CompMaxFaults)
  <2>1. compFaults \in 0 .. CompMaxFaults
    BY DEF ComponentInv, Comp!ComponentTypes
  <2>2. QED  BY <2>1 DEF Comp!Faulty, Comp!ComponentConstants
\* Only another action changes what is listed, and it asks for the list.
<1>8. ASSUME NEW d, Becomes(i, d), d.kind \in Comp!Actions
      PROVE  UpToDate(commands', components, Now')
  BY <1>8 DEF Becomes, UpToDate, Due
\* A list that refusal leaves the next one to come, or the last one as it was.
<1>9. ASSUME NEW d, Becomes(i, d), \A j \in DOMAIN commands \ {i} : commands'[j] = commands[j],
             d.kind \notin Comp!Actions, ~d.ok, Now' = Now
      PROVE  overtaken \/ UpToDate(commands', components, Now')
  <2>1. SUFFICES ASSUME UpToDate(commands, components, Now)
                 PROVE  UpToDate(commands', components, Now)
    BY <1>9 DEF ComponentInv
  <2>2. CASE \E j \in DOMAIN commands : Due(commands[j])
    <3>1. PICK j \in DOMAIN commands : Due(commands[j])
      BY <2>2
    <3>2. Due(commands'[j])
      <4>1. CASE j = i
        BY <1>4, <1>9, <3>1, <4>1 DEF Due, Becomes
      <4>2. CASE j # i
        BY <1>9, <3>1, <4>2
      <4>3. QED  BY <4>1, <4>2
    <3>3. QED  BY <1>9, <3>2 DEF UpToDate, Becomes
  <2>3. CASE LastList(commands, components, Now)
    <3>1. /\ DOMAIN commands' = DOMAIN commands /\ ~HasList(commands[i]) /\ ~HasList(commands'[i])
          /\ \A j \in DOMAIN commands \ {i} : commands'[j] = commands[j]
      BY <1>4, <1>9 DEF Becomes, HasList
    <3>2. LastList(commands', components, Now)
      BY <2>3, <3>1 DEF LastList
    <3>3. QED  BY <3>2 DEF UpToDate
  <2>4. QED  BY <2>1, <2>2, <2>3 DEF UpToDate
\* A list that was answering is the last one, for the main thread keeps the order.
<1>10. ASSUME NEW d, Becomes(i, d), \A j \in DOMAIN commands \ {i} : commands'[j] = commands[j],
              Comp!Lists(d), d.ok, (\A j \in DOMAIN commands : ~Comp!Holds(commands[j])) => d.list = Now'
       PROVE  UpToDate(commands', components, Now')
  <2>1. \A j \in DOMAIN commands \ {i} : j > i => ~HasList(commands[j])
    <3>1. SUFFICES ASSUME NEW j \in DOMAIN commands \ {i}, j > i, HasList(commands[j])
                   PROVE  FALSE
      OBVIOUS
    <3>2. commands[j].stage = "done" /\ commands[j].kind # "install" /\ i < j
      <4>1. DOMAIN commands \subseteq Int
        <5>1. DOMAIN commands = 1 .. Len(commands) /\ Len(commands) \in Nat
          BY <1>3, LenProperties
        <5>2. QED  BY <5>1
      <4>2. QED  BY <1>3, <3>1, <4>1 DEF HasList, Comp!Lists, Fitting
    <3>3. QED  BY <1>4, <3>2 DEF ComponentInv, InTurn
  <2>2. CASE \E j \in DOMAIN commands : Comp!Holds(commands[j])
    <3>1. PICK j \in DOMAIN commands : Comp!Holds(commands[j])
      BY <2>2
    <3>2. commands[j].kind = "install" /\ j # i
      BY <1>3, <1>4, <3>1 DEF Fitting, Comp!Holds
    <3>3. commands'[j] = commands[j] /\ j \in DOMAIN commands'
      BY <1>10, <3>2 DEF Becomes
    <3>4. QED  BY <3>2, <3>3 DEF UpToDate, Due, Comp!Actions
  <2>3. CASE \A j \in DOMAIN commands : ~Comp!Holds(commands[j])
    <3>1. /\ DOMAIN commands' = DOMAIN commands /\ i \in DOMAIN commands' /\ commands'[i] = d
          /\ \A j \in DOMAIN commands' : j > i => ~HasList(commands'[j])
      <4>1. ~(i > i)
        <5>1. DOMAIN commands = 1 .. Len(commands) /\ Len(commands) \in Nat
          BY <1>3, LenProperties
        <5>2. QED  BY <5>1
      <4>2. QED  BY <1>10, <2>1, <4>1 DEF Becomes
    <3>2. QED  BY <1>10, <2>3, <3>1 DEF UpToDate, LastList, HasList
  <2>4. QED  BY <2>2, <2>3
<1> DEFINE refusal == [c EXCEPT !.stage = "done"]
           passed == [c EXCEPT !.stage = "done", !.ok = TRUE]
<1>11. /\ refusal \in Commands /\ passed \in Commands
       /\ refusal.kind = c.kind /\ refusal.id = c.id /\ refusal.stage = "done" /\ ~refusal.cancelled /\ ~refusal.ok
       /\ passed.kind = c.kind /\ passed.id = c.id /\ passed.stage = "done" /\ ~passed.cancelled /\ passed.ok
  BY <1>4 DEF Commands
<1>12. /\ commands' = [commands EXCEPT ![i].stage = "done"] => commands' = [commands EXCEPT ![i] = refusal]
       /\ commands' = [commands EXCEPT ![i].stage = "done", ![i].ok = TRUE]
            => commands' = [commands EXCEPT ![i] = passed]
  OBVIOUS
<1> HIDE DEF refusal, passed
<1>13. ASSUME commands' = [commands EXCEPT ![i].stage = "done"], Comp!Faulty,
              UNCHANGED <<installed, errors, catalog>>, c.kind \notin Comp!Actions
       PROVE  ComponentInv'
  <2>1. /\ Becomes(i, refusal) /\ \A j \in DOMAIN commands \ {i} : commands'[j] = commands[j]
    BY <1>5, <1>11, <1>12, <1>13
  <2>2. overtaken \/ UpToDate(commands', components, Now')
    BY <1>9, <1>11, <1>13, <2>1 DEF Now
  <2>3. QED  BY <1>3, <1>6, <1>7, <1>11, <1>13, <2>1, <2>2
<1>14. CASE Comp!Refresh(i)
  <2> DEFINE list == [id \in Ids |->
                       [state |-> IF installed[id] = 0 THEN Comp!StatusOf(id).state
                                  ELSE IF compPublished > installed[id] THEN "update-available" ELSE "installed",
                        version |-> installed[id], available |-> compPublished]]
             answering == [c EXCEPT !.stage = "done", !.ok = TRUE, !.list = list]
  <2>1. /\ c.kind \in {"discover", "catalog"} /\ \A j \in DOMAIN commands : ~Comp!Holds(commands[j])
        /\ UNCHANGED <<installed, errors>>
    BY <1>14 DEF Comp!Refresh, Comp!Locked
  <2>2. CASE catalog' = compPublished /\ UNCHANGED compFaults
             /\ commands' = [commands EXCEPT ![i].stage = "done", ![i].ok = TRUE, ![i].list = list]
    <3>1. list = ListOf(installed, errors, compPublished)
      <4>1. \A id \in Ids : ~Comp!Busy(id)
        BY <2>1 DEF Comp!Busy
      <4>2. ASSUME NEW id \in Ids
            PROVE  list[id] = ListOf(installed, errors, compPublished)[id]
        <5>1. installed[id] = 0 => Comp!StatusOf(id).state = IF id \in errors THEN "error" ELSE "missing"
          BY <4>1 DEF Comp!StatusOf
        <5>2. QED  BY <5>1 DEF ListOf
      <4>3. QED  BY <4>2 DEF ListOf
    <3> HIDE DEF list
    <3>2. list = Now' /\ list \in [Ids -> Comp!Status]
      BY <1>3, <2>1, <2>2, <3>1, ListingTyped DEF Now
    <3>3. /\ answering \in Commands /\ answering.kind = c.kind /\ answering.id = c.id /\ answering.stage = "done"
          /\ ~answering.cancelled /\ answering.ok /\ answering.list = list
      BY <1>4, <3>2 DEF Commands
    <3>4. commands' = [commands EXCEPT ![i] = answering]
      BY <2>2
    <3> HIDE DEF answering
    <3>5. Becomes(i, answering) /\ \A j \in DOMAIN commands \ {i} : commands'[j] = commands[j]
      BY <1>5, <3>2, <3>3, <3>4
    <3>6. UpToDate(commands', components, Now')
      BY <1>10, <2>1, <3>2, <3>3, <3>5 DEF Comp!Lists
    <3>7. QED  BY <1>3, <1>6, <1>7, <2>1, <2>2, <3>3, <3>5, <3>6
  <2>3. CASE Comp!Faulty /\ commands' = [commands EXCEPT ![i].stage = "done"] /\ UNCHANGED catalog
    BY <1>13, <2>1, <2>3 DEF Comp!Actions
  <2>4. QED  BY <1>14, <2>2, <2>3 DEF Comp!Refresh
<1>15. CASE Comp!List(i)
  <2> DEFINE answering == [c EXCEPT !.stage = "done", !.ok = TRUE, !.list = Comp!Statuses]
  <2>1. c.kind = "list" /\ UNCHANGED <<installed, errors, catalog>>
    BY <1>15 DEF Comp!List
  <2>2. CASE commands' = [commands EXCEPT ![i].stage = "done", ![i].ok = TRUE, ![i].list = Comp!Statuses]
             /\ UNCHANGED compFaults
    <3>1. Comp!Statuses \in [Ids -> Comp!Status]
      BY <1>3, StatusesTyped
    <3>2. /\ answering \in Commands /\ answering.kind = c.kind /\ answering.id = c.id /\ answering.stage = "done"
          /\ ~answering.cancelled /\ answering.ok /\ answering.list = Comp!Statuses
      BY <1>4, <3>1 DEF Commands
    <3>3. commands' = [commands EXCEPT ![i] = answering]
      BY <2>2
    <3> HIDE DEF answering
    <3>4. Becomes(i, answering) /\ \A j \in DOMAIN commands \ {i} : commands'[j] = commands[j]
      BY <1>5, <3>1, <3>2, <3>3
    <3>5. (\A j \in DOMAIN commands : ~Comp!Holds(commands[j])) => answering.list = Now'
      BY <2>1, <3>2, StatusesIdle DEF Now
    <3>6. UpToDate(commands', components, Now')
      BY <1>10, <2>1, <3>2, <3>4, <3>5 DEF Comp!Lists
    <3>7. QED  BY <1>3, <1>6, <1>7, <2>1, <2>2, <3>2, <3>4, <3>6
  <2>3. CASE Comp!Faulty /\ commands' = [commands EXCEPT ![i].stage = "done"]
    BY <1>13, <2>1, <2>3 DEF Comp!Actions
  <2>4. QED  BY <1>15, <2>2, <2>3 DEF Comp!List
<1>16. CASE Comp!Verify(i)
  <2>1. /\ c.kind = "verify" /\ UNCHANGED <<installed, errors, catalog, compFaults>>
        /\ commands' = [commands EXCEPT ![i] = passed]
    BY <1>12, <1>16 DEF Comp!Verify
  <2>2. Becomes(i, passed)
    BY <1>5, <1>11, <2>1 DEF Comp!Lists
  <2>3. QED  BY <1>3, <1>6, <1>7, <1>8, <1>11, <2>1, <2>2 DEF Comp!Actions
<1>17. CASE Comp!Uninstall(i)
  <2>1. c.kind = "remove" /\ c.id \in Ids /\ UNCHANGED catalog
    BY <1>4, <1>17 DEF Comp!Uninstall, Commands
  <2>2. CASE /\ installed' = [installed EXCEPT ![c.id] = 0] /\ errors' = errors \ {c.id}
             /\ commands' = [commands EXCEPT ![i].stage = "done", ![i].ok = TRUE] /\ UNCHANGED compFaults
    <3>1. Becomes(i, passed)
      BY <1>5, <1>11, <1>12, <2>1, <2>2 DEF Comp!Lists
    <3>2. installed' \in [Ids -> 0 .. CompMaxReleases] /\ errors' \subseteq Ids
      <4>1. 0 \in 0 .. CompMaxReleases
        BY DEF Comp!ComponentConstants
      <4>2. QED  BY <1>3, <2>2, <4>1
    <3>3. QED  BY <1>3, <1>6, <1>7, <1>8, <1>11, <2>1, <2>2, <3>1, <3>2 DEF Comp!Actions
  <2>3. CASE /\ Comp!Locked \/ compFaults < CompMaxFaults
             /\ compFaults' = IF Comp!Locked THEN compFaults ELSE compFaults + 1
             /\ commands' = [commands EXCEPT ![i].stage = "done"] /\ UNCHANGED <<installed, errors>>
    <3>1. Becomes(i, refusal)
      BY <1>5, <1>11, <1>12, <2>1, <2>3
    <3>2. compFaults' \in 0 .. CompMaxFaults
      BY <1>7, <2>3 DEF Comp!ComponentConstants
    <3>3. QED  BY <1>3, <1>6, <1>8, <1>11, <2>1, <2>3, <3>1, <3>2 DEF Comp!Actions
  <2>4. QED  BY <1>17, <2>2, <2>3 DEF Comp!Uninstall
<1>18. CASE Comp!Cancel(i)
  <2> DEFINE hears == {j \in DOMAIN commands : commands[j].id = c.id /\ commands[j].stage = "download"}
             new(j) == IF j = i THEN [commands[j] EXCEPT !.stage = "done", !.ok = hears # {}]
                       ELSE IF j \in hears THEN [commands[j] EXCEPT !.cancelled = TRUE] ELSE commands[j]
  <2>1. /\ c.kind = "cancel" /\ UNCHANGED <<installed, errors, catalog, compFaults>>
        /\ commands' = [j \in DOMAIN commands |-> new(j)]
    BY <1>18 DEF Comp!Cancel
  <2>2. ASSUME NEW j \in DOMAIN commands
        PROVE  /\ new(j) \in Commands /\ Fitting(new(j))
               /\ new(j).kind = commands[j].kind /\ new(j).id = commands[j].id
               /\ j # i => new(j).stage = commands[j].stage
               /\ j = i => new(j).stage = "done"
    <3>1. commands[j] \in Commands /\ Fitting(commands[j])
      BY <1>3
    <3>2. CASE j = i
      <4> DEFINE d == [commands[j] EXCEPT !.stage = "done", !.ok = hears # {}]
      <4>1. (hears # {}) \in BOOLEAN
        OBVIOUS
      <4> HIDE DEF hears
      <4>2. d \in Commands /\ d.kind = c.kind /\ d.id = c.id /\ d.stage = "done" /\ d.cancelled = c.cancelled
        BY <3>1, <3>2, <4>1, Zenon DEF Commands
      <4>3. new(j) = d
        BY <3>2
      <4> HIDE DEF d
      <4>4. Fitting(d)
        BY <1>4, <2>1, <4>2 DEF Fitting, Comp!Lists, Comp!Phases
      <4>5. QED  BY <3>2, <4>2, <4>3, <4>4
    <3>3. CASE j # i /\ j \in hears
      <4> DEFINE d == [commands[j] EXCEPT !.cancelled = TRUE]
      <4>1. commands[j].stage = "download"
        BY <3>3
      <4>2. /\ d \in Commands /\ d.kind = commands[j].kind /\ d.id = commands[j].id
            /\ d.stage = commands[j].stage /\ d.cancelled /\ d.ok = commands[j].ok
        BY <3>1 DEF Commands
      <4>3. new(j) = d
        BY <3>3
      <4> HIDE DEF d
      <4>4. Fitting(d)
        BY <3>1, <4>1, <4>2 DEF Fitting, Comp!Phases
      <4>5. QED  BY <3>3, <4>2, <4>3, <4>4
    <3>4. CASE j # i /\ j \notin hears
      BY <3>1, <3>4
    <3>5. QED  BY <3>2, <3>3, <3>4
  <2> HIDE DEF new
  <2>3. commands' \in Seq(Commands) /\ DOMAIN commands' = DOMAIN commands
    <3>1. DOMAIN commands = 1 .. Len(commands) /\ Len(commands) \in Nat
      BY <1>3, LenProperties
    <3>2. commands' \in [1 .. Len(commands) -> Commands]
      BY <2>1, <2>2, <3>1
    <3>3. QED  BY <3>1, <3>2, SeqDef
  <2>4. \A j \in DOMAIN commands : commands'[j] = new(j)
    BY <2>1
  <2>5. Becomes(i, new(i)) /\ new(i).kind = "cancel" /\ new(i).stage = "done"
    BY <2>1, <2>2, <2>3, <2>4 DEF Becomes
  <2>6. QED  BY <1>3, <1>6, <1>7, <1>8, <2>1, <2>5 DEF Comp!Actions
<1>19. QED  BY <1>1, <1>14, <1>15, <1>16, <1>17, <1>18

-----------------------------------------------------------------------------
(* The thread of an install                                                *)

LEMMA ThreadKeeps ==
    ASSUME Comp!ComponentConstants, ComponentInv, Comp!Thread
    PROVE  ComponentInv'
<1>1. PICK i \in DOMAIN commands :
        /\ commands[i].kind = "install"
        /\ Comp!TakeLock(i) \/ Comp!Download(i) \/ Comp!Check(i) \/ Comp!Activate(i) \/ Comp!Installs(i) \/ Comp!Fails(i)
  BY DEF Comp!Thread
<1> DEFINE c == commands[i]
<1>2. UNCHANGED <<components, phases, rows, compOff, inFlight, backoff, overtaken, acts>>
  BY DEF Comp!Thread, Comp!page, Comp!scheduler
<1>3. /\ commands \in Seq(Commands) /\ \A j \in DOMAIN commands : commands[j] \in Commands /\ Fitting(commands[j])
      /\ installed \in [Ids -> 0 .. CompMaxReleases] /\ errors \subseteq Ids
      /\ catalog \in 0 .. CompMaxReleases /\ compPublished \in 0 .. CompMaxReleases /\ compFaults \in 0 .. CompMaxFaults
  BY ElementOfSeq DEF ComponentInv, Comp!ComponentTypes, CommandsFit
<1>4. c \in Commands /\ Fitting(c) /\ c.kind = "install" /\ c.id \in Ids
  BY <1>1, <1>3 DEF Commands
<1>5. ASSUME NEW d \in Commands, commands' = [commands EXCEPT ![i] = d],
             d.kind = c.kind, d.id = c.id, Fitting(d),
             NEW phase \in Comp!Phases \cup Comp!Ends, phase \in Comp!Phases => Comp!Holds(d),
             compEvents' = Append(compEvents, [id |-> c.id, phase |-> phase]),
             installed' \in [Ids -> 0 .. CompMaxReleases], errors' \subseteq Ids,
             catalog' \in 0 .. CompMaxReleases, compPublished' \in 0 .. CompMaxReleases, compFaults' \in 0 .. CompMaxFaults
      PROVE  ComponentInv'
  <2>1. /\ DOMAIN commands' = DOMAIN commands /\ commands'[i] = d
        /\ \A j \in DOMAIN commands \ {i} : commands'[j] = commands[j]
    BY <1>3, <1>5, ChangedParts
  <2>2. Becomes(i, d)
    BY <1>3, <1>5, <2>1, ChangedParts DEF Becomes
  <2>3. CommandsFit' /\ InTurn(commands') /\ OneCheck(commands', inFlight) /\ commands' # <<>>
    BY <1>1, <2>2, BecomesKeeps
  <2>4. UpToDate(commands', components, Now')
    BY <1>4, <1>5, <2>1 DEF UpToDate, Due, Comp!Actions
  <2> DEFINE e == [id |-> c.id, phase |-> phase]
  <2>5. e \in Announced /\ e.id = c.id /\ e.phase = phase
    BY <1>4, <1>5 DEF Announced
  <2> HIDE DEF e
  <2>6. /\ compEvents' \in Seq(Announced) /\ Len(compEvents) \in Nat /\ DOMAIN compEvents = 1 .. Len(compEvents)
        /\ DOMAIN compEvents' = 1 .. Len(compEvents) + 1 /\ compEvents'[Len(compEvents) + 1] = e
        /\ \A k \in DOMAIN compEvents : compEvents'[k] = compEvents[k]
    <3>1. compEvents' = Append(compEvents, e) /\ compEvents \in Seq(Announced)
      BY <1>5 DEF e, ComponentInv, ToldFits
    <3>2. QED  BY <2>5, <3>1, AddedParts
  <2>7. ASSUME NEW id, NEW k \in 0 .. Len(compEvents), AtWork(commands, id) \/ EndTold(compEvents, id, k)
        PROVE  AtWork(commands', id) \/ EndTold(compEvents', id, k)
    <3>1. CASE EndTold(compEvents, id, k)
      BY <2>6, <3>1 DEF EndTold
    <3>2. CASE AtWork(commands, id)
      <4>1. PICK j \in DOMAIN commands : commands[j].id = id /\ Comp!Holds(commands[j])
        BY <3>2 DEF AtWork
      <4>2. CASE j # i
        BY <2>1, <4>1, <4>2 DEF AtWork
      <4>3. CASE j = i /\ phase \in Comp!Phases
        BY <1>5, <2>1, <4>1, <4>3 DEF AtWork
      <4>4. CASE j = i /\ phase \in Comp!Ends
        <5>1. Len(compEvents) + 1 \in DOMAIN compEvents' /\ Len(compEvents) + 1 > k
          BY <2>6
        <5>2. QED  BY <2>5, <2>6, <4>1, <4>4, <5>1 DEF EndTold
      <4>5. QED  BY <1>5, <4>2, <4>3, <4>4
    <3>3. QED  BY <2>7, <3>1, <3>2
  <2>8. ASSUME NEW k \in DOMAIN compEvents', compEvents'[k].phase \in Comp!Phases
        PROVE  AtWork(commands', compEvents'[k].id) \/ EndTold(compEvents', compEvents'[k].id, k)
    <3>1. CASE k \in DOMAIN compEvents
      <4>1. AtWork(commands, compEvents[k].id) \/ EndTold(compEvents, compEvents[k].id, k)
        BY <2>6, <2>8, <3>1 DEF ComponentInv, ToldFits
      <4>2. k \in 0 .. Len(compEvents) /\ compEvents'[k] = compEvents[k]
        BY <2>6, <3>1
      <4>3. QED  BY <2>7, <4>1, <4>2
    <3>2. CASE k \notin DOMAIN compEvents
      <4>1. k = Len(compEvents) + 1
        BY <2>6, <3>2
      <4>2. Comp!Holds(d) /\ compEvents'[k].id = c.id
        BY <1>5, <2>5, <2>6, <2>8, <4>1
      <4>3. QED  BY <1>5, <2>1, <4>2 DEF AtWork
    <3>3. QED  BY <3>1, <3>2
  <2>9. \A id \in Ids : phases'[id] \in Comp!Phases => AtWork(commands', id) \/ EndTold(compEvents', id, 0)
    <3>1. 0 \in 0 .. Len(compEvents)
      BY <2>6
    <3>2. QED  BY <1>2, <2>7, <3>1 DEF ComponentInv, ToldFits
  <2>10. ToldFits'
    BY <2>6, <2>8, <2>9 DEF ToldFits
  <2>11. Comp!ComponentTypes'
    BY <1>2, <1>5 DEF ComponentInv, Comp!ComponentTypes
  <2>12. QED  BY <1>2, <2>3, <2>4, <2>10, <2>11 DEF ComponentInv, AsDrawn
<1>6. ASSUME NEW phase \in Comp!Phases, commands' = [commands EXCEPT ![i].stage = phase],
             phase \in {"verify", "install"} => ~c.cancelled, c.stage # "done",
             compEvents' = Append(compEvents, [id |-> c.id, phase |-> phase]),
             UNCHANGED <<installed, compPublished, compFaults>>, errors' \subseteq Ids, catalog' \in 0 .. CompMaxReleases
      PROVE  ComponentInv'
  <2> DEFINE d == [c EXCEPT !.stage = phase]
  <2>1. commands' = [commands EXCEPT ![i] = d]
    BY <1>6
  <2>2. /\ d \in Commands /\ d.kind = c.kind /\ d.id = c.id /\ d.stage = phase
        /\ d.cancelled = c.cancelled /\ d.ok = c.ok
    BY <1>4 DEF Commands
  <2> HIDE DEF d
  <2>3. Fitting(d) /\ Comp!Holds(d)
    BY <1>4, <1>6, <2>2 DEF Fitting, Comp!Holds
  <2>4. QED  BY <1>3, <1>5, <1>6, <2>1, <2>2, <2>3
<1>7. ASSUME NEW ok \in BOOLEAN, NEW phase \in Comp!Ends, Comp!Finished(i, ok, phase), ok => ~c.cancelled,
             installed' \in [Ids -> 0 .. CompMaxReleases], errors' \subseteq Ids, compFaults' \in 0 .. CompMaxFaults,
             UNCHANGED <<catalog, compPublished>>
      PROVE  ComponentInv'
  <2> DEFINE d == [c EXCEPT !.stage = "done", !.ok = ok]
  <2>1. commands' = [commands EXCEPT ![i] = d] /\ compEvents' = Append(compEvents, [id |-> c.id, phase |-> phase])
    BY <1>7 DEF Comp!Finished, Comp!Says
  <2>2. /\ d \in Commands /\ d.kind = c.kind /\ d.id = c.id /\ d.stage = "done"
        /\ d.cancelled = c.cancelled /\ d.ok = ok
    BY <1>4, <1>7 DEF Commands
  <2> HIDE DEF d
  <2>3. Fitting(d)
    BY <1>4, <1>7, <2>2 DEF Fitting, Comp!Phases, Comp!Lists
  <2>4. phase \notin Comp!Phases
    BY <1>7 DEF Comp!Ends, Comp!Phases
  <2>5. QED  BY <1>3, <1>5, <1>7, <2>1, <2>2, <2>3, <2>4
<1>8. CASE Comp!TakeLock(i)
  <2>1. errors' \subseteq Ids /\ "preparing" \in Comp!Phases /\ c.stage = "sent"
    BY <1>3, <1>8 DEF Comp!TakeLock, Comp!Phases
  <2>2. QED  BY <1>3, <1>6, <1>8, <2>1 DEF Comp!TakeLock, Comp!Reaches, Comp!Says
<1>9. CASE Comp!Download(i)
  <2> DEFINE d == [c EXCEPT !.stage = "download", !.version = compPublished]
  <2>1. commands' = [commands EXCEPT ![i] = d] /\ compEvents' = Append(compEvents, [id |-> c.id, phase |-> "download"])
    BY <1>9 DEF Comp!Download, Comp!Says
  <2>2. /\ d \in Commands /\ d.kind = c.kind /\ d.id = c.id /\ d.stage = "download"
        /\ d.cancelled = c.cancelled /\ d.ok = c.ok
    BY <1>3, <1>4 DEF Commands, Comp!Phases
  <2> HIDE DEF d
  <2>3. Fitting(d) /\ Comp!Holds(d) /\ "download" \in Comp!Phases
    BY <1>4, <1>9, <2>2 DEF Fitting, Comp!Holds, Comp!Phases, Comp!Download
  <2>4. QED  BY <1>3, <1>5, <1>9, <2>1, <2>2, <2>3 DEF Comp!Download
<1>10. CASE Comp!Check(i)
  <2>1. "verify" \in Comp!Phases /\ c.stage = "download" /\ ~c.cancelled
    BY <1>10 DEF Comp!Check, Comp!Phases
  <2>2. QED  BY <1>3, <1>6, <1>10, <2>1 DEF Comp!Check, Comp!Reaches, Comp!Says
<1>11. CASE Comp!Activate(i)
  <2>1. "install" \in Comp!Phases /\ c.stage = "verify" /\ ~c.cancelled
    BY <1>4, <1>11 DEF Comp!Activate, Comp!Phases, Fitting
  <2>2. QED  BY <1>3, <1>6, <1>11, <2>1 DEF Comp!Activate, Comp!Reaches, Comp!Says
<1>12. CASE Comp!Installs(i)
  <2>1. /\ ~c.cancelled /\ "done" \in Comp!Ends /\ installed' \in [Ids -> 0 .. CompMaxReleases]
        /\ c.version \in 0 .. CompMaxReleases
    BY <1>3, <1>4, <1>12 DEF Comp!Installs, Fitting, Comp!Ends, Commands
  <2>2. QED  BY <1>3, <1>7, <1>12, <2>1 DEF Comp!Installs
<1>13. CASE Comp!Fails(i)
  <2>1. errors' \subseteq Ids /\ UNCHANGED <<installed, catalog, compPublished>>
    BY <1>3, <1>4, <1>13 DEF Comp!Fails
  <2>2. CASE Comp!Finished(i, FALSE, "cancelled") /\ UNCHANGED compFaults
    <3>1. "cancelled" \in Comp!Ends
      BY DEF Comp!Ends
    <3>2. QED  BY <1>3, <1>7, <2>1, <2>2, <3>1
  <2>3. CASE Comp!Finished(i, FALSE, "error") /\ Comp!Faulty
    <3>1. "error" \in Comp!Ends
      BY DEF Comp!Ends
    <3>2. compFaults' \in 0 .. CompMaxFaults
      BY <1>3, <2>3 DEF Comp!Faulty, Comp!ComponentConstants
    <3>3. QED  BY <1>3, <1>7, <2>1, <2>3, <3>1, <3>2
  <2>4. QED  BY <1>13, <2>2, <2>3 DEF Comp!Fails
<1>14. QED  BY <1>1, <1>8, <1>9, <1>10, <1>11, <1>12, <1>13

-----------------------------------------------------------------------------
(* The answers                                                             *)

LEMMA AnsweredKeeps ==
    ASSUME Comp!ComponentConstants, ComponentInv, Comp!Answered
    PROVE  ComponentInv'
<1>1. PICK i \in DOMAIN commands :
        /\ commands[i].stage = "done"
        /\ \/ Comp!ActionAnswered(commands[i], RemoveAt(commands, i))
           \/ Comp!ListAnswered(i, commands[i], RemoveAt(commands, i))
  <2>1. \E i \in DOMAIN commands :
          /\ commands[i].stage = "done"
          /\ \/ Comp!ActionAnswered(commands[i], Comp!RemoveAt(commands, i))
             \/ Comp!ListAnswered(i, commands[i], Comp!RemoveAt(commands, i))
    BY DEF Comp!Answered
  <2> QED
    BY <2>1, ComponentsCount
<1> DEFINE c    == commands[i]
           rest == RemoveAt(commands, i)
<1>2. UNCHANGED <<installed, errors, catalog, compPublished, compEvents, acts, compFaults>>
  BY DEF Comp!Answered, Comp!manager
<1>3. /\ commands \in Seq(Commands) /\ \A j \in DOMAIN commands : commands[j] \in Commands /\ Fitting(commands[j])
      /\ components \in [Ids -> Comp!Status] /\ phases \in [Ids -> Comp!Phases \cup Comp!Ends \cup {Comp!NoPhase}]
      /\ {inFlight, backoff, overtaken} \subseteq BOOLEAN
      /\ InTurn(commands) /\ OneCheck(commands, inFlight)
  BY ElementOfSeq DEF ComponentInv, Comp!ComponentTypes, CommandsFit
<1>4. c \in Commands /\ Fitting(c) /\ c.id \in Ids /\ c.ok \in BOOLEAN /\ ~Comp!Holds(c)
  BY <1>1, <1>3 DEF Commands, Comp!Holds, Comp!Phases
<1>5. /\ rest \in Seq(Commands) /\ \A k \in DOMAIN rest : Fitting(rest[k])
      /\ InTurn(rest) /\ OneCheck(rest, inFlight /\ c.kind # "discover")
      /\ \A j \in DOMAIN commands \ {i} : \E k \in DOMAIN rest : rest[k] = commands[j]
  BY <1>3, RemovedKeeps
<1>6. \A x : AtWork(commands, x) => AtWork(rest, x)
  BY <1>4, <1>5 DEF AtWork
<1>7. Now' = Now
  BY <1>2 DEF Now
<1>8. ASSUME \A x : AtWork(rest, x) => AtWork(commands', x),
             \A id \in Ids : phases'[id] \in Comp!Phases => phases'[id] = phases[id]
      PROVE  ToldFits'
  <2>1. \A x : AtWork(commands, x) => AtWork(commands', x)
    BY <1>6, <1>8
  <2>2. \A id \in Ids : phases'[id] \in Comp!Phases => AtWork(commands', id) \/ EndTold(compEvents', id, 0)
    <3>1. SUFFICES ASSUME NEW id \in Ids, phases'[id] \in Comp!Phases
                   PROVE  AtWork(commands', id) \/ EndTold(compEvents', id, 0)
      OBVIOUS
    <3>2. phases[id] \in Comp!Phases
      BY <1>8, <3>1
    <3>3. AtWork(commands, id) \/ EndTold(compEvents, id, 0)
      BY <3>2 DEF ComponentInv, ToldFits
    <3>4. QED  BY <1>2, <2>1, <3>3
  <2>3. QED  BY <1>2, <2>1, <2>2 DEF ComponentInv, ToldFits
<1>9. CASE Comp!ActionAnswered(c, rest)
  <2>1. /\ c.kind \in Comp!Actions /\ commands' = Append(rest, Comp!Command("list", c.id))
        /\ phases' = IF c.kind = "remove" /\ c.ok THEN [phases EXCEPT ![c.id] = Comp!NoPhase] ELSE phases
        /\ UNCHANGED <<components, rows, compOff, inFlight, backoff, overtaken>>
    BY <1>9 DEF Comp!ActionAnswered, Comp!scheduler
  <2>2. OneCheck(rest, inFlight)
    <3>1. c.kind # "discover"
      BY <2>1 DEF Comp!Actions
    <3>2. (inFlight /\ c.kind # "discover") = inFlight
      BY <1>3, <3>1
    <3>3. QED  BY <1>5, <3>2
  <2> HIDE DEF rest
  <2>3. /\ commands' \in Seq(Commands) /\ commands' # <<>> /\ \A k \in DOMAIN commands' : Fitting(commands'[k])
        /\ InTurn(commands') /\ OneCheck(commands', inFlight \/ "list" = "discover")
        /\ DOMAIN rest \subseteq DOMAIN commands' /\ \A k \in DOMAIN rest : commands'[k] = rest[k]
        /\ \E k \in DOMAIN commands' : Due(commands'[k])
    <3>1. "list" \in CommandKinds
      BY DEF CommandKinds
    <3>2. QED  BY <1>4, <1>5, <2>1, <2>2, <3>1, AddedKeeps
  <2>4. OneCheck(commands', inFlight')
    <3>1. (inFlight \/ "list" = "discover") = inFlight'
      BY <1>3, <2>1
    <3>2. QED  BY <2>3, <3>1
  <2>5. /\ phases' \in [Ids -> Comp!Phases \cup Comp!Ends \cup {Comp!NoPhase}]
        /\ \A id \in Ids : phases'[id] \in Comp!Phases => phases'[id] = phases[id]
    <3>1. Comp!NoPhase \notin Comp!Phases
      BY DEF Comp!NoPhase, Comp!Phases
    <3>2. CASE c.kind = "remove" /\ c.ok
      BY <1>3, <1>4, <2>1, <3>1, <3>2
    <3>3. CASE ~(c.kind = "remove" /\ c.ok)
      BY <1>3, <2>1, <3>3
    <3>4. QED  BY <3>2, <3>3
  <2>6. ToldFits'
    <3>1. \A x : AtWork(rest, x) => AtWork(commands', x)
      BY <2>3 DEF AtWork
    <3>2. QED  BY <1>8, <2>5, <3>1
  <2>7. Comp!ComponentTypes'
    BY <1>2, <2>1, <2>5 DEF ComponentInv, Comp!ComponentTypes
  <2>8. CommandsFit' /\ UpToDate(commands', components', Now')
    BY <2>3 DEF CommandsFit, UpToDate
  <2>9. QED  BY <2>3, <2>4, <2>6, <2>7, <2>8 DEF ComponentInv, AsDrawn
<1>10. CASE Comp!ListAnswered(i, c, rest)
  <2>1. /\ Comp!Lists(c) /\ commands' = rest
        /\ components' = IF c.ok THEN c.list ELSE components
        /\ overtaken' = (overtaken \/ Comp!Later(i) \/ (c.kind = "list" /\ ~c.ok))
        /\ phases' = phases /\ Comp!Draw
        /\ inFlight' = (inFlight /\ c.kind # "discover")
        /\ backoff' = IF c.kind = "discover" THEN ~c.ok ELSE backoff
    BY <1>10 DEF Comp!ListAnswered
  <2>2. components' \in [Ids -> Comp!Status]
    BY <1>3, <1>4, <2>1 DEF Fitting
  <2> DEFINE drawing == [id \in Ids |-> Comp!Row(id)]
  <2>3. /\ drawing \in [Ids -> RowSet]
        /\ \A id \in Ids : drawing[id] = [state |-> components'[id].state, phase |-> phases'[id]]
    BY <1>3, <2>1, <2>2, RowsTyped
  <2>4. compOff' = {} /\ (rows' = Comp!NoRows \/ rows' = drawing)
    BY <2>1 DEF Comp!Draw
  <2> HIDE DEF drawing
  <2>5. AsDrawn'
    BY <2>3, <2>4 DEF AsDrawn
  <2>6. Comp!ComponentTypes'
    <3>1. inFlight' \in BOOLEAN /\ overtaken' \in BOOLEAN
      BY <2>1
    <3>2. backoff' \in BOOLEAN
      BY <1>3, <2>1
    <3>3. rows' = Comp!NoRows \/ rows' \in [Ids -> RowSet]
      BY <2>3, <2>4
    <3>4. QED  BY <1>2, <1>3, <2>1, <2>2, <3>1, <3>2, <3>3 DEF ComponentInv, Comp!ComponentTypes, RowSet
  <2>7. ToldFits'
    BY <1>8, <2>1
  <2>8. CommandsFit' /\ InTurn(commands') /\ OneCheck(commands', inFlight')
    BY <1>5, <2>1 DEF CommandsFit
  <2>9. ASSUME ~overtaken'
        PROVE  UpToDate(rest, components', Now)
    <3>1. ~overtaken /\ ~Comp!Later(i) /\ ~(c.kind = "list" /\ ~c.ok)
      BY <1>3, <2>1, <2>9
    <3>2. UpToDate(commands, components, Now)
      BY <3>1 DEF ComponentInv
    <3>3. CASE \E j \in DOMAIN commands : Due(commands[j])
      <4>1. PICK j \in DOMAIN commands : Due(commands[j])
        BY <3>3
      <4>2. j # i
        BY <2>1, <3>1, <4>1 DEF Due, Comp!Lists, Comp!Actions
      <4>3. QED  BY <1>5, <4>1, <4>2 DEF UpToDate
    <3>4. CASE LastList(commands, components, Now)
      <4> DEFINE was(k) == IF k < i THEN k ELSE k + 1
      <4>1. /\ \A k \in DOMAIN rest : was(k) \in DOMAIN commands \ {i} /\ rest[k] = commands[was(k)]
            /\ \A j \in DOMAIN commands \ {i} : \E k \in DOMAIN rest : j = was(k)
            /\ \A k, m \in DOMAIN rest : k < m <=> was(k) < was(m)
        BY <1>3, RemovedParts
      <4>2. DOMAIN rest \subseteq Int /\ DOMAIN commands \subseteq Int
        <5>1. /\ DOMAIN rest = 1 .. Len(rest) /\ Len(rest) \in Nat
              /\ DOMAIN commands = 1 .. Len(commands) /\ Len(commands) \in Nat
          BY <1>3, <1>5, LenProperties
        <5>2. QED  BY <5>1
      <4> HIDE DEF was, rest
      <4>3. \A j \in DOMAIN commands : j < i => ~HasList(commands[j])
        BY <3>1 DEF Comp!Later, HasList
      <4>4. CASE \E j \in DOMAIN commands : commands[j].list = Now /\ HasList(commands[j])
                    /\ \A m \in DOMAIN commands : m > j => ~HasList(commands[m])
        <5>1. PICK j \in DOMAIN commands : commands[j].list = Now /\ HasList(commands[j])
                 /\ \A m \in DOMAIN commands : m > j => ~HasList(commands[m])
          BY <4>4
        <5>2. CASE j = i
          <6>1. components' = Now
            BY <2>1, <5>1, <5>2 DEF HasList
          <6>2. \A k \in DOMAIN rest : ~HasList(rest[k])
            BY <4>1, <4>2, <4>3, <5>1, <5>2
          <6>3. QED  BY <6>1, <6>2 DEF UpToDate, LastList
        <5>3. CASE j # i
          <6>1. PICK k \in DOMAIN rest : j = was(k)
            BY <4>1, <5>3
          <6>2. rest[k].list = Now /\ HasList(rest[k])
            BY <4>1, <5>1, <6>1
          <6>3. ASSUME NEW m \in DOMAIN rest, m > k
                PROVE  ~HasList(rest[m])
            <7>1. k < m
              BY <4>2, <6>3
            <7>2. was(k) < was(m) /\ was(m) \in DOMAIN commands /\ was(k) \in DOMAIN commands
              BY <4>1, <7>1
            <7>3. was(m) > j
              BY <4>2, <6>1, <7>2
            <7>4. QED  BY <4>1, <5>1, <7>2, <7>3
          <6>4. QED  BY <6>2, <6>3 DEF UpToDate, LastList
        <5>4. QED  BY <5>2, <5>3
      <4>5. CASE components = Now /\ \A j \in DOMAIN commands : ~HasList(commands[j])
        <5>1. components' = Now
          BY <2>1, <4>5 DEF HasList
        <5>2. \A k \in DOMAIN rest : ~HasList(rest[k])
          BY <4>1, <4>5
        <5>3. QED  BY <5>1, <5>2 DEF UpToDate, LastList
      <4>6. QED  BY <3>4, <4>4, <4>5 DEF LastList
    <3>5. QED  BY <3>2, <3>3, <3>4 DEF UpToDate
  <2>10. overtaken' \/ UpToDate(commands', components', Now')
    BY <1>7, <2>1, <2>9
  <2>11. QED  BY <2>5, <2>6, <2>7, <2>8, <2>10 DEF ComponentInv
<1>11. QED  BY <1>1, <1>9, <1>10

-----------------------------------------------------------------------------
(* The theorems                                                            *)

LEMMA ComponentSteps ==
    ASSUME Comp!ComponentConstants
    PROVE  ComponentInv /\ [Comp!ComponentNext]_(Comp!componentVars) => ComponentInv'
<1> SUFFICES ASSUME ComponentInv, [Comp!ComponentNext]_(Comp!componentVars)
             PROVE  ComponentInv'
  OBVIOUS
<1>1. CASE Comp!Visit
  BY <1>1, VisitKeeps
<1>2. CASE Comp!Click \/ Comp!CheckNow \/ \E force \in BOOLEAN : Comp!Discover(force)
  BY <1>2, ClickKeeps
<1>3. CASE Comp!Hear
  BY <1>3, HearKeeps
<1>4. CASE Comp!Publish \/ Comp!BackoffEnds \/ UNCHANGED Comp!componentVars
  BY <1>4, PublishKeeps
<1>5. CASE Comp!Execute
  BY <1>5, ExecuteKeeps
<1>6. CASE Comp!Thread
  BY <1>6, ThreadKeeps
<1>7. CASE Comp!Answered
  BY <1>7, AnsweredKeeps
<1>8. QED  BY <1>1, <1>2, <1>3, <1>4, <1>5, <1>6, <1>7 DEF Comp!ComponentNext

LEMMA ComponentImplies ==
    ASSUME ComponentInv
    PROVE  Comp!ComponentsSettle
<1>1. ASSUME commands = <<>>, compEvents = <<>>
      PROVE  /\ \A id \in Ids : phases[id] \notin Comp!Phases
             /\ compOff = {} /\ ~inFlight
             /\ overtaken \/ components = Comp!Statuses
             /\ rows # Comp!NoRows =>
                  \A id \in Ids : rows[id] = [state |-> components[id].state, phase |-> phases[id]]
  <2>1. DOMAIN commands = {} /\ DOMAIN compEvents = {}
    BY <1>1, EmptySeq
  <2>2. \A id \in Ids : phases[id] \notin Comp!Phases
    BY <2>1 DEF ComponentInv, ToldFits, AtWork, EndTold
  <2>3. ~inFlight
    BY <2>1 DEF ComponentInv, OneCheck
  <2>4. overtaken \/ components = Now
    BY <2>1 DEF ComponentInv, UpToDate, LastList
  <2>5. QED  BY <1>1, <2>1, <2>2, <2>3, <2>4, StatusesIdle DEF ComponentInv, AsDrawn
<1>2. \A i \in DOMAIN commands :
        commands[i].cancelled => commands[i].stage \notin {"verify", "install"} /\ ~commands[i].ok
  BY DEF ComponentInv, CommandsFit, Fitting
<1>3. Cardinality({i \in DOMAIN commands : commands[i].kind = "discover"}) = IF inFlight THEN 1 ELSE 0
  <2> DEFINE looks == {i \in DOMAIN commands : commands[i].kind = "discover"}
  <2>1. CASE inFlight
    <3>1. PICK i \in DOMAIN commands : commands[i].kind = "discover"
      BY <2>1 DEF ComponentInv, OneCheck
    <3>2. looks = {i}
      BY <3>1 DEF ComponentInv, OneCheck
    <3>3. QED  BY <2>1, <3>2, FS_Singleton
  <2>2. CASE ~inFlight
    <3>1. looks = {}
      BY <2>2 DEF ComponentInv, OneCheck
    <3>2. QED  BY <2>2, <3>1, FS_EmptySet
  <2>3. QED  BY <2>1, <2>2
<1>4. QED  BY <1>1, <1>2, <1>3, ComponentsCount DEF Comp!ComponentsSettle

\* The manager, the page and the scheduler keep their types (components.rs, main.js).
THEOREM ComponentsKeepTypes ==
    ASSUME Comp!ComponentConstants
    PROVE  Comp!ComponentSpec => []Comp!ComponentTypes
<1>1. Comp!ComponentInit => ComponentInv
  BY ComponentsStart
<1>2. ComponentInv /\ [Comp!ComponentNext]_(Comp!componentVars) => ComponentInv'
  BY ComponentSteps
<1>3. ComponentInv => Comp!ComponentTypes
  BY DEF ComponentInv
<1>4. QED  BY <1>1, <1>2, <1>3, PTL DEF Comp!ComponentSpec

\* With nothing under way the page of the components shows no progress, offers its buttons
\* and lists what the manager would; a cancelled install installs nothing; one check at most
\* (main.js, component-discovery.js, components.rs).
THEOREM ComponentsAreListed ==
    ASSUME Comp!ComponentConstants
    PROVE  Comp!ComponentSpec => []Comp!ComponentsSettle
<1>1. Comp!ComponentInit => ComponentInv
  BY ComponentsStart
<1>2. ComponentInv /\ [Comp!ComponentNext]_(Comp!componentVars) => ComponentInv'
  BY ComponentSteps
<1>3. ComponentInv => Comp!ComponentsSettle
  BY ComponentImplies
<1>4. QED  BY <1>1, <1>2, <1>3, PTL DEF Comp!ComponentSpec

-----------------------------------------------------------------------------
(* THE PARTS TOGETHER                                                      *)

\* Whichever part moves, each of these takes a step of its own or rests.
LEMMA PartsMove ==
    ASSUME [MCNext]_partVars
    PROVE  /\ [RowNext]_rowVars /\ [UpdateNext]_updateVars
           /\ [Comp!ComponentNext]_(Comp!componentVars)
           /\ [MigrationNext]_migrationVars /\ [BridgeNext]_bridgeVars
<1>1. CASE UNCHANGED partVars
  BY <1>1 DEF partVars, compVars, Comp!componentVars
<1>2. ASSUME NEW part \in Parts, \A other \in Parts \ {part} : Still(other)
      PROVE  /\ part # "rows" => UNCHANGED rowVars
             /\ part # "comp" => UNCHANGED Comp!componentVars
             /\ part # "update" => UNCHANGED updateVars
             /\ part # "store" => UNCHANGED migrationVars
             /\ part # "bridge" => UNCHANGED bridgeVars
  <2>1. \A other \in {"rows", "comp", "update", "store", "bridge"} :
           other # part => Still(other)
    BY <1>2 DEF Parts
  <2>2. /\ Still("rows") => UNCHANGED rowVars
        /\ Still("comp") => UNCHANGED Comp!componentVars
        /\ Still("update") => UNCHANGED updateVars
        /\ Still("store") => UNCHANGED migrationVars
        /\ Still("bridge") => UNCHANGED bridgeVars
    BY DEF Still, compVars, Comp!componentVars
  <2>3. QED  BY <2>1, <2>2
<1>3. CASE Alone("rows", RowNext)
  BY <1>2, <1>3 DEF Alone, In, Parts
<1>4. CASE Alone("comp", Comp!ComponentNext)
  BY <1>2, <1>4 DEF Alone, In, Parts
<1>5. CASE Alone("update", UpdateNext)
  BY <1>2, <1>5 DEF Alone, In, Parts
<1>6. CASE Alone("store", MigrationNext)
  BY <1>2, <1>6 DEF Alone, In, Parts
<1>7. CASE Alone("bridge", BridgeNext)
  BY <1>2, <1>7 DEF Alone, In, Parts
<1>8. CASE \/ Alone("intake", IntakeNext) \/ Alone("editor", EditorNext)
           \/ Alone("pref", PrefNext) \/ Alone("look", LookNext)
  BY <1>2, <1>8 DEF Alone, In, Parts
<1>9. QED  BY <1>1, <1>3, <1>4, <1>5, <1>6, <1>7, <1>8 DEF MCNext

\* What is drawn is true: the rows, the page of the components and what is told of the
\* updates, for every behaviour of the pages together in which a snapshot brings one
\* change of a job at a time.
THEOREM WhatIsDrawnIsTrue ==
    ASSUME ~Together
    PROVE  MCSpec => []DrawnIsTrue
<1>1. RowConstants /\ UpdateConstants /\ Comp!ComponentConstants
  BY PartAssumption
<1>2. MCInit => RowInit /\ UpdateInit /\ Comp!ComponentInit
  BY DEF MCInit
<1>3. MCSpec => RowSpec /\ UpdateSpec /\ Comp!ComponentSpec
  BY <1>2, PartsMove, PTL DEF MCSpec, RowSpec, UpdateSpec, Comp!ComponentSpec
<1>4. /\ (RowSpec => []RowsShowJobs) /\ (UpdateSpec => []UpdateTrue)
      /\ (Comp!ComponentSpec => []Comp!ComponentsSettle)
  BY <1>1, RowsStandInOrder, UpdatesAreTold, ComponentsAreListed
<1>5. RowsShowJobs /\ UpdateTrue /\ Comp!ComponentsSettle => DrawnIsTrue
  BY DEF DrawnIsTrue
<1>6. QED  BY <1>3, <1>4, <1>5, PTL

\* Nor is anything lost of what v1.0.0 stored or of what the extension asks for, for
\* every behaviour of the pages together.
THEOREM NothingIsLostTogether == MCSpec => [](NothingLost /\ RequestsKept)
<1>1. BridgeConstants
  BY PartAssumption
<1>2. MCInit => MigrationInit /\ BridgeInit
  BY DEF MCInit
<1>3. MCSpec => MigrationSpec /\ BridgeSpec
  BY <1>2, PartsMove, PTL DEF MCSpec, MigrationSpec, BridgeSpec
<1>4. (MigrationSpec => []NothingLost) /\ (BridgeSpec => []RequestsKept)
  BY <1>1, MigrationLosesNothing, NoRequestDisappears
<1>5. QED  BY <1>3, <1>4, PTL
=============================================================================
