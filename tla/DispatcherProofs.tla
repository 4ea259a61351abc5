-------------------------- MODULE DispatcherProofs --------------------------
(* Theorems about Dispatcher, for any rows, priorities and limits. *)
EXTENDS Dispatcher, FiniteSetTheorems, TLAPS

USE JobsAssumption, RowsAssumption, LimitAssumption

-----------------------------------------------------------------------------
(* The inductive invariant                                                 *)

\* No gate has given out more permits than the largest limit.
UsedWithinLargest == \A k \in Kinds : used[k] <= MaxLimit[k]

\* The types need the accounts (a permit is only given back where there is one),
\* the accounts need the launched job to be idle, and the bound on the workers
\* follows from the accounts and the bound on the permits.
DispatchInv ==
    /\ TypeOK
    /\ PermitsAccounted
    /\ LaunchFindsJobIdle
    /\ UsedWithinLargest

\* The workers of a kind are finitely many.
LEMMA ActiveCount ==
  ASSUME TypeOK, NEW k \in Kinds
  PROVE  IsFiniteSet(ActiveOf(k)) /\ Cardinality(ActiveOf(k)) \in Nat
<1>1. ActiveOf(k) \in SUBSET Jobs
  BY DEF TypeOK, ActiveOf
<1>2. IsFiniteSet(ActiveOf(k))
  BY <1>1, FS_Subset
<1> QED
  BY <1>2, FS_CardinalityType

LEMMA DispatchInit == Init => DispatchInv
<1> SUFFICES ASSUME Init PROVE DispatchInv
  OBVIOUS
<1>1. TypeOK
  BY DEF Init, TypeOK, Settings, Kinds, Statuses, Open, Stopped
<1>2. \A k \in Kinds : ActiveOf(k) = {}
  BY DEF Init, ActiveOf
<1>3. PermitsAccounted
  BY <1>2, FS_EmptySet DEF Init, PermitsAccounted, Held
<1>4. LaunchFindsJobIdle
  BY DEF Init, LaunchFindsJobIdle
<1>5. UsedWithinLargest
  BY DEF Init, UsedWithinLargest
<1> QED
  BY <1>1, <1>3, <1>4, <1>5 DEF DispatchInv

-----------------------------------------------------------------------------
(* Every step keeps it                                                     *)

\* While no worker enters or leaves the active set, the accounts are kept when
\* a permit given out is one more held by a thread or by try_start.
LEMMA SameWorkers ==
  ASSUME TypeOK, PermitsAccounted, active' = active,
         \A k \in Kinds : used'[k] - leaving'[k] - Held(k)' = used[k] - leaving[k] - Held(k),
         leaving' \in [Kinds -> Nat], used' \in [Kinds -> Int]
  PROVE  PermitsAccounted'
<1> SUFFICES ASSUME NEW k \in Kinds
             PROVE  used'[k] = Cardinality(ActiveOf(k)') + leaving'[k] + Held(k)'
  BY DEF PermitsAccounted
<1>1. ActiveOf(k)' = ActiveOf(k)
  BY DEF ActiveOf
<1>2. Cardinality(ActiveOf(k)) \in Nat
  BY ActiveCount
<1>3. used[k] = Cardinality(ActiveOf(k)) + leaving[k] + Held(k)
  BY DEF PermitsAccounted
<1>4. Held(k) \in Nat /\ Held(k)' \in Nat
  BY DEF Held
<1>5. used[k] \in Nat /\ leaving[k] \in Nat /\ leaving'[k] \in Nat /\ used'[k] \in Int
  BY DEF TypeOK
<1> QED
  BY <1>1, <1>2, <1>3, <1>4, <1>5

\* A step that touches neither the threads' comings and goings nor the permits.
LEMMA QuietStep ==
  ASSUME DispatchInv, TypeOK', UNCHANGED <<active, leaving, used, control>>
  PROVE  DispatchInv'
<1> USE DEF DispatchInv, control
<1>1. PermitsAccounted'
  BY SameWorkers DEF TypeOK, Held
<1>2. LaunchFindsJobIdle' /\ UsedWithinLargest'
  BY DEF LaunchFindsJobIdle, UsedWithinLargest
<1> QED
  BY <1>1, <1>2

\* The invariant is inductive.
LEMMA DispatchStep == DispatchInv /\ [Next]_vars => DispatchInv'
<1> SUFFICES ASSUME DispatchInv, [Next]_vars PROVE DispatchInv'
  OBVIOUS
<1> USE DEF DispatchInv, vars, rows, threads, gates, control
<1>1. ASSUME Receive PROVE DispatchInv'
  <2>1. TypeOK'
    BY <1>1 DEF TypeOK, Settings, Kinds, Statuses, Open, Stopped, Receive, Goto
  <2>2. PermitsAccounted'
    BY <1>1, SameWorkers DEF TypeOK, Kinds, Held, Receive, Goto
  <2>3. LaunchFindsJobIdle' /\ UsedWithinLargest'
    BY <1>1 DEF LaunchFindsJobIdle, UsedWithinLargest, Receive, Goto
  <2> QED
    BY <2>1, <2>2, <2>3
<1>2. ASSUME Reconcile PROVE DispatchInv'
  <2>1. TypeOK'
    BY <1>2 DEF TypeOK, Settings, Kinds, Statuses, Open, Stopped, Reconcile, Goto
  <2>2. PermitsAccounted'
    BY <1>2, SameWorkers DEF TypeOK, Kinds, Held, Reconcile, Goto
  <2>3. LaunchFindsJobIdle' /\ UsedWithinLargest'
    BY <1>2 DEF LaunchFindsJobIdle, UsedWithinLargest, Reconcile, Goto
  <2> QED
    BY <2>1, <2>2, <2>3
<1>3. ASSUME Acquire PROVE DispatchInv'
  <2>1. TypeOK'
    BY <1>3 DEF TypeOK, Settings, Kinds, Statuses, Open, Stopped, Acquire, HasSlot
  <2>2. PermitsAccounted'
    BY <1>3, SameWorkers DEF TypeOK, Kinds, Held, Acquire, HasSlot
  <2>3. LaunchFindsJobIdle'
    BY <1>3 DEF LaunchFindsJobIdle, Acquire, HasSlot
  <2>4. UsedWithinLargest'
    BY <1>3 DEF UsedWithinLargest, TypeOK, Settings, Acquire, HasSlot
  <2> QED
    BY <2>1, <2>2, <2>3, <2>4
<1>4. ASSUME Refused PROVE DispatchInv'
  <2>1. TypeOK'
    BY <1>4 DEF TypeOK, Settings, Kinds, Statuses, Open, Stopped, Refused, Returned,
         Goto
  <2>2. PermitsAccounted'
    BY <1>4, SameWorkers DEF TypeOK, Kinds, Held, Refused, Returned, Goto
  <2>3. LaunchFindsJobIdle' /\ UsedWithinLargest'
    BY <1>4 DEF LaunchFindsJobIdle, UsedWithinLargest, Refused, Returned, Goto
  <2> QED
    BY <2>1, <2>2, <2>3
<1>5. ASSUME Claim PROVE DispatchInv'
  <2>1. TypeOK'
    BY <1>5 DEF TypeOK, Settings, Kinds, Statuses, Open, Stopped, Claim, IsNext,
         Claimable, Candidates
  <2>2. PermitsAccounted'
    BY <1>5, SameWorkers DEF TypeOK, Kinds, Held, Claim, IsNext, Claimable,
         Candidates
  <2>3. LaunchFindsJobIdle' /\ UsedWithinLargest'
    BY <1>5 DEF LaunchFindsJobIdle, UsedWithinLargest, TypeOK, Claim, IsNext,
         Claimable, Candidates
  <2> QED
    BY <2>1, <2>2, <2>3
<1>6. ASSUME ClaimFails PROVE DispatchInv'
  <2>1. used[kind] > 0
    <3>1. used[kind] = Cardinality(ActiveOf(kind)) + leaving[kind] + 1
      BY <1>6 DEF PermitsAccounted, Held, ClaimFails, TypeOK
    <3> QED
      BY <3>1, ActiveCount DEF TypeOK
  <2>2. TypeOK'
    <3>1. used' \in [Kinds -> Nat]
      BY <1>6, <2>1 DEF TypeOK, ClaimFails
    <3>2. step' \in {"acquire", "wait"} /\ kind' \in Kinds /\ started' = FALSE
      BY <1>6 DEF ClaimFails, Returned, Goto, Kinds
    <3> QED
      BY <1>6, <3>1, <3>2 DEF TypeOK, ClaimFails
  <2>3. PermitsAccounted'
    BY <1>6, SameWorkers DEF TypeOK, Kinds, Held, ClaimFails, Returned, Goto
  <2>4. LaunchFindsJobIdle'
    BY <1>6 DEF LaunchFindsJobIdle, ClaimFails, Returned, Goto
  <2>5. UsedWithinLargest'
    BY <1>6 DEF UsedWithinLargest, TypeOK, ClaimFails, Returned, Goto
  <2> QED
    BY <2>2, <2>3, <2>4, <2>5
<1>7. ASSUME Launch PROVE DispatchInv'
  <2>1. job \in Jobs \ active /\ Kind[job] = kind
    BY <1>7 DEF Launch, LaunchFindsJobIdle
  <2>2. LaunchFindsJobIdle'
    BY <1>7 DEF Launch, Returned, Goto, LaunchFindsJobIdle
  <2>3. CASE kind = "media" => runtime
    <3> USE <2>1, <2>3
    <3>1. TypeOK'
      BY <1>7 DEF TypeOK, Settings, Kinds, Statuses, Open, Stopped, Launch,
           Returned, Goto
    <3>2. active' = active \cup {job} /\ used' = used /\ leaving' = leaving
      BY <1>7 DEF Launch
    <3>3. ASSUME NEW k \in Kinds
          PROVE  used'[k] = Cardinality(ActiveOf(k)') + leaving'[k] + Held(k)'
      <4>1. used[k] = Cardinality(ActiveOf(k)) + leaving[k] + Held(k)
        BY DEF PermitsAccounted
      <4>2. Held(k) = (IF k = kind THEN 1 ELSE 0) /\ Held(k)' = 0
        BY <1>7 DEF Held, Launch, Returned, Goto
      <4>3. IsFiniteSet(ActiveOf(k)) /\ Cardinality(ActiveOf(k)) \in Nat
        BY ActiveCount
      <4>4. CASE k = kind
        <5>1. ActiveOf(k)' = ActiveOf(k) \cup {job} /\ job \notin ActiveOf(k)
          BY <3>2, <4>4 DEF ActiveOf
        <5>2. Cardinality(ActiveOf(k)') = Cardinality(ActiveOf(k)) + 1
          BY <4>3, <5>1, FS_AddElement
        <5> QED
          BY <3>2, <4>1, <4>2, <4>3, <4>4, <5>2 DEF TypeOK
      <4>5. CASE k # kind
        <5>1. ActiveOf(k)' = ActiveOf(k)
          BY <3>2, <4>5 DEF ActiveOf
        <5> QED
          BY <3>2, <4>1, <4>2, <4>3, <4>5, <5>1 DEF TypeOK
      <4> QED
        BY <4>4, <4>5
    <3>4. PermitsAccounted'
      BY <3>3 DEF PermitsAccounted
    <3>5. UsedWithinLargest'
      BY <3>2 DEF UsedWithinLargest
    <3> QED
      BY <2>2, <3>1, <3>4, <3>5
  <2>4. CASE ~(kind = "media" => runtime)
    <3> USE <2>1, <2>4
    <3>1. used[kind] > 0
      <4>1. used[kind] = Cardinality(ActiveOf(kind)) + leaving[kind] + 1
        BY <1>7 DEF PermitsAccounted, Held, Launch, TypeOK
      <4> QED
        BY <4>1, ActiveCount DEF TypeOK
    <3>2. TypeOK'
      <4>1. wake' = wake
        BY <1>7 DEF Launch, TypeOK
      <4>2. used' \in [Kinds -> Nat]
        BY <1>7, <3>1 DEF TypeOK, Launch
      <4>3. step' = "acquire" /\ kind' \in Kinds /\ started' \in BOOLEAN
        BY <1>7 DEF Launch, Returned, Goto, Kinds
      <4> QED
        BY <1>7, <4>1, <4>2, <4>3 DEF TypeOK, Launch
    <3>3. PermitsAccounted'
      BY <1>7, SameWorkers DEF TypeOK, Kinds, Held, Launch, Returned, Goto
    <3>4. UsedWithinLargest'
      BY <1>7 DEF UsedWithinLargest, TypeOK, Launch
    <3> QED
      BY <2>2, <3>2, <3>3, <3>4
  <2> QED
    BY <2>3, <2>4
<1>8. ASSUME NEW j \in Jobs, WorkerStops(j) PROVE DispatchInv'
  <2>1. TypeOK' /\ UNCHANGED <<active, leaving, used, control>>
    BY <1>8 DEF TypeOK, Settings, Kinds, Statuses, Open, Stopped, WorkerStops
  <2> QED
    BY <2>1, QuietStep
<1>9. ASSUME NEW j \in Jobs, WorkerEnds(j) PROVE DispatchInv'
  <2>1. TypeOK' /\ UNCHANGED <<active, leaving, used, control>>
    BY <1>9 DEF TypeOK, Settings, Kinds, Statuses, Open, Stopped, WorkerEnds,
         Results
  <2> QED
    BY <2>1, QuietStep
<1>10. ASSUME NEW j \in Jobs, WorkerLeaves(j) PROVE DispatchInv'
  <2>1. TypeOK'
    BY <1>10 DEF TypeOK, Settings, Kinds, Statuses, Open, Stopped, WorkerLeaves
  <2>2. ASSUME NEW k \in Kinds
        PROVE  used'[k] = Cardinality(ActiveOf(k)') + leaving'[k] + Held(k)'
    <3>1. used[k] = Cardinality(ActiveOf(k)) + leaving[k] + Held(k)
      BY DEF PermitsAccounted
    <3>2. used' = used /\ Held(k)' = Held(k) /\ Held(k) \in Nat
      BY <1>10 DEF Held, WorkerLeaves, gates, control
    <3>3. IsFiniteSet(ActiveOf(k)) /\ Cardinality(ActiveOf(k)) \in Nat
      BY ActiveCount
    <3>4. CASE k = Kind[j]
      <4>1. ActiveOf(k)' = ActiveOf(k) \ {j} /\ j \in ActiveOf(k)
        BY <1>10, <3>4 DEF ActiveOf, WorkerLeaves, TypeOK
      <4>2. Cardinality(ActiveOf(k)') = Cardinality(ActiveOf(k)) - 1
        BY <3>3, <4>1, FS_RemoveElement
      <4>3. leaving'[k] = leaving[k] + 1
        BY <1>10, <3>4 DEF WorkerLeaves, TypeOK
      <4> QED
        BY <3>1, <3>2, <3>3, <4>2, <4>3 DEF TypeOK
    <3>5. CASE k # Kind[j]
      <4>1. ActiveOf(k)' = ActiveOf(k)
        BY <1>10, <3>5 DEF ActiveOf, WorkerLeaves
      <4>2. leaving'[k] = leaving[k]
        BY <1>10, <3>5 DEF WorkerLeaves, TypeOK
      <4> QED
        BY <3>1, <3>2, <4>1, <4>2
    <3> QED
      BY <3>4, <3>5
  <2>3. LaunchFindsJobIdle' /\ UsedWithinLargest'
    BY <1>10 DEF LaunchFindsJobIdle, UsedWithinLargest, WorkerLeaves
  <2> QED
    BY <2>1, <2>2, <2>3 DEF PermitsAccounted
<1>11. ASSUME NEW j \in Jobs, ResumeRuns(j) PROVE DispatchInv'
  <2>1. TypeOK' /\ UNCHANGED <<active, leaving, used, control>>
    BY <1>11 DEF TypeOK, Settings, Kinds, Statuses, Open, Stopped, ResumeRuns
  <2> QED
    BY <2>1, QuietStep
<1>12. ASSUME NEW j \in Jobs, ResumeGivesUp(j) PROVE DispatchInv'
  <2>1. TypeOK' /\ UNCHANGED <<active, leaving, used, control>>
    BY <1>12 DEF TypeOK, Settings, Kinds, Statuses, Open, Stopped, ResumeGivesUp
  <2> QED
    BY <2>1, QuietStep
<1>13. ASSUME NEW k \in Kinds, ReturnsPermit(k) PROVE DispatchInv'
  <2>1. used[k] > 0
    <3>1. used[k] = Cardinality(ActiveOf(k)) + leaving[k] + Held(k)
      BY DEF PermitsAccounted
    <3>2. Held(k) \in Nat /\ leaving[k] > 0
      BY <1>13 DEF Held, ReturnsPermit
    <3> QED
      BY <3>1, <3>2, ActiveCount DEF TypeOK
  <2>2. TypeOK'
    BY <1>13, <2>1 DEF TypeOK, Settings, Kinds, Statuses, Open, Stopped,
         ReturnsPermit
  <2>3. PermitsAccounted'
    BY <1>13, SameWorkers DEF TypeOK, Kinds, Held, ReturnsPermit
  <2>4. LaunchFindsJobIdle'
    BY <1>13 DEF LaunchFindsJobIdle, ReturnsPermit
  <2>5. UsedWithinLargest'
    BY <1>13 DEF UsedWithinLargest, TypeOK, ReturnsPermit
  <2> QED
    BY <2>2, <2>3, <2>4, <2>5
<1>14. ASSUME NEW j \in Jobs, Add(j) PROVE DispatchInv'
  <2>1. TypeOK' /\ UNCHANGED <<active, leaving, used, control>>
    BY <1>14 DEF TypeOK, Settings, Kinds, Statuses, Open, Stopped, Add
  <2> QED
    BY <2>1, QuietStep
<1>15. ASSUME NEW j \in Jobs, Pause(j) PROVE DispatchInv'
  <2>1. TypeOK' /\ UNCHANGED <<active, leaving, used, control>>
    BY <1>15 DEF TypeOK, Settings, Kinds, Statuses, Open, Stopped, Pause
  <2> QED
    BY <2>1, QuietStep
<1>16. ASSUME NEW j \in Jobs, Cancel(j) PROVE DispatchInv'
  <2>1. TypeOK' /\ UNCHANGED <<active, leaving, used, control>>
    BY <1>16 DEF TypeOK, Settings, Kinds, Statuses, Open, Stopped, Cancel
  <2> QED
    BY <2>1, QuietStep
<1>17. ASSUME NEW j \in Jobs, Resume(j) PROVE DispatchInv'
  <2>1. TypeOK' /\ UNCHANGED <<active, leaving, used, control>>
    BY <1>17 DEF TypeOK, Settings, Kinds, Statuses, Open, Stopped, Resume
  <2> QED
    BY <2>1, QuietStep
<1>18. ASSUME NEW j \in Jobs, SetPriority(j) PROVE DispatchInv'
  <2>1. TypeOK' /\ UNCHANGED <<active, leaving, used, control>>
    BY <1>18 DEF TypeOK, Settings, Kinds, Statuses, Open, Stopped, SetPriority
  <2> QED
    BY <2>1, QuietStep
<1>19. ASSUME SetLimits PROVE DispatchInv'
  <2>1. TypeOK' /\ UNCHANGED <<active, leaving, used, control>>
    BY <1>19 DEF TypeOK, Settings, Kinds, Statuses, Open, Stopped, SetLimits
  <2> QED
    BY <2>1, QuietStep
<1>20. ASSUME RuntimeChanges PROVE DispatchInv'
  <2>1. TypeOK' /\ UNCHANGED <<active, leaving, used, control>>
    BY <1>20 DEF TypeOK, Settings, Kinds, Statuses, Open, Stopped, RuntimeChanges
  <2> QED
    BY <2>1, QuietStep
<1>21. ASSUME Restart PROVE DispatchInv'
  <2>1. TypeOK'
    BY <1>21 DEF TypeOK, Settings, Kinds, Statuses, Open, Stopped, Restart, Goto
  <2>2. \A k \in Kinds : ActiveOf(k)' = {}
    BY <1>21 DEF Restart, ActiveOf
  <2>3. ASSUME NEW k \in Kinds
        PROVE  used'[k] = Cardinality(ActiveOf(k)') + leaving'[k] + Held(k)'
    <3>1. Cardinality(ActiveOf(k)') = 0
      BY <2>2, FS_EmptySet
    <3>2. used'[k] = 0 /\ leaving'[k] = 0 /\ Held(k)' = 0
      BY <1>21 DEF Held, Restart, Goto
    <3> QED
      BY <3>1, <3>2
  <2>4. LaunchFindsJobIdle' /\ UsedWithinLargest'
    BY <1>21 DEF LaunchFindsJobIdle, UsedWithinLargest, Restart, Goto
  <2> QED
    BY <2>1, <2>3, <2>4 DEF PermitsAccounted
<1>22. CASE UNCHANGED vars
  <2>1. TypeOK' /\ UNCHANGED <<active, leaving, used, control>>
    BY <1>22 DEF TypeOK, Settings, Kinds, Statuses, Open, Stopped
  <2> QED
    BY <2>1, QuietStep
<1> QED
  BY <1>1, <1>2, <1>3, <1>4, <1>5, <1>6, <1>7, <1>8, <1>9, <1>10, <1>11, <1>12,
       <1>13, <1>14, <1>15, <1>16, <1>17, <1>18, <1>19, <1>20, <1>21, <1>22
  DEF Next, Drain, Thread, Worker, User

-----------------------------------------------------------------------------
(* The theorems                                                            *)

\* The inductive invariant always holds.
THEOREM Dispatching == Spec => []DispatchInv
  BY DispatchInit, DispatchStep, PTL DEF Spec

\* The variables keep their types, whatever is added, paused, resumed, cancelled,
\* reprioritised or restarted, and whatever the limits become.
THEOREM DispatcherTypes == Spec => []TypeOK
<1>1. DispatchInv => TypeOK
  BY DEF DispatchInv
<1> QED
  BY <1>1, Dispatching, PTL

\* No slot is ever lost or given back twice (dispatcher.rs:55, 89, 202-285).
THEOREM SlotsAccounted == Spec => []PermitsAccounted
<1>1. DispatchInv => PermitsAccounted
  BY DEF DispatchInv
<1> QED
  BY <1>1, Dispatching, PTL

\* A row never gets two workers (dispatcher.rs:312, worker.rs:77).
THEOREM OneWorkerPerRow == Spec => []LaunchFindsJobIdle
<1>1. DispatchInv => LaunchFindsJobIdle
  BY DEF DispatchInv
<1> QED
  BY <1>1, Dispatching, PTL

\* There are never more workers of a kind than its largest limit, while limits
\* are raised and reduced under running workers (concurrency.rs:5-8).
THEOREM NeverTooManyWorkers == Spec => []WithinLargestLimit
<1>1. ASSUME DispatchInv PROVE WithinLargestLimit
  <2> SUFFICES ASSUME NEW k \in Kinds PROVE Cardinality(ActiveOf(k)) <= MaxLimit[k]
    BY DEF WithinLargestLimit
  <2>1. used[k] = Cardinality(ActiveOf(k)) + leaving[k] + Held(k) /\ used[k] <= MaxLimit[k]
    BY <1>1 DEF DispatchInv, PermitsAccounted, UsedWithinLargest
  <2>2. Cardinality(ActiveOf(k)) \in Nat
    BY <1>1, ActiveCount DEF DispatchInv
  <2>3. leaving[k] \in Nat /\ Held(k) \in Nat /\ used[k] \in Nat /\ MaxLimit[k] \in Nat
    BY <1>1 DEF DispatchInv, TypeOK, Held
  <2> QED
    BY <2>1, <2>2, <2>3
<1> QED
  BY <1>1, Dispatching, PTL
=============================================================================
