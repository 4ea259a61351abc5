------------------------- MODULE HttpTransferProofs -------------------------
(***************************************************************************)
(* Proofs about HttpTransfer, for any number of versions, of any sizes,    *)
(* and any bounds.                                                         *)
(***************************************************************************)
EXTENDS HttpTransfer, SequenceTheorems, TLAPS

USE VersionsAssumption, EnvironmentAssumption, BoundsAssumption
    DEF VersionsAssumption, EnvironmentAssumption, BoundsAssumption

-----------------------------------------------------------------------------
(* Facts about the content of a file                                       *)

\* The empty file (a reserved .part, an absent destination) is a file.
LEMMA EmptyFile ==
    /\ <<>> \in Seq(Byte)
    /\ Len(<<>>) = 0
    /\ \A s \in Seq(Byte) : Len(s) \in Nat /\ (s # <<>> => Len(s) > 0)
  BY EmptySeq, LenProperties

\* What write_all does to the .part.
LEMMA AppendedFile ==
    ASSUME NEW s \in Seq(Byte), NEW b \in Byte
    PROVE  /\ Append(s, b) \in Seq(Byte)
           /\ Append(s, b) # <<>>
           /\ Len(Append(s, b)) = Len(s) + 1
           /\ \A i \in 1 .. Len(s) : Append(s, b)[i] = s[i]
           /\ Append(s, b)[Len(s) + 1] = b
  BY AppendProperties

-----------------------------------------------------------------------------
(* Type correctness                                                        *)

\* The variables keep the types of TypeOK through any number of steps of the
\* worker, the commands, the server and restarts.
THEOREM TypeCorrect == Spec => []TypeOK
<1>1. Init => TypeOK
  BY EmptyFile DEF Init, TypeOK, Statuses, Steps
<1>2. TypeOK /\ [Next]_vars => TypeOK'
  <2> SUFFICES ASSUME TypeOK, [Next]_vars
               PROVE  TypeOK'
    OBVIOUS
  <2> USE DEF TypeOK, Statuses, Steps, row, lock, facts, disk, stream, local, users
  <2>a. <<>> \in Seq(Byte) /\ Len(part) \in Nat /\ Len(dest) \in Nat
    BY EmptyFile
  <2>b. Append(part, Chunk(ver, pos)) \in Seq(Byte)
    BY AppendedFile DEF Chunk, Byte
  <2>1. CASE Dispatch
    BY <2>1 DEF Dispatch, Goto
  <2>2. CASE ClaimLease
    BY <2>2 DEF ClaimLease, Goto
  <2>3. CASE Load
    BY <2>3, <2>a DEF Load, Isolated, Goto
  <2>4. CASE ConnectFull
    BY <2>4, <2>a DEF ConnectFull, Isolated, Stream, Goto
  <2>5. CASE ConnectPartial
    BY <2>5, <2>a DEF ConnectPartial, Isolated, Stream, Goto
  <2>6. CASE ConnectUnsatisfiable
    BY <2>6, <2>a DEF ConnectUnsatisfiable, Isolated, Goto
  <2>7. CASE Refetch
    BY <2>7 DEF Refetch, Stream, Goto
  <2>8. CASE PersistRepresentation
    BY <2>8, <2>a DEF PersistRepresentation, Describes, TotalOf, TagOf, Goto
  <2>9. CASE OpenPart
    BY <2>9 DEF OpenPart, Goto
  <2>10. CASE CheckStatus
    BY <2>10 DEF CheckStatus, Goto
  <2>11. CASE ReadChunk
    BY <2>11 DEF ReadChunk, Goto
  <2>12. CASE Throttle
    BY <2>12 DEF Throttle, Goto
  <2>13. CASE WriteChunk
    <3>1. (hasPart \in BOOLEAN /\ part \in Seq(Byte) /\ dest \in Seq(Byte))'
      BY <2>13, <2>a, <2>b DEF WriteChunk, Goto
    <3>2. tries' \in Nat
      BY <2>13, <2>a, <2>b DEF WriteChunk, Goto
    <3> QED
      BY <3>1, <3>2, <2>13, <2>a, <2>b DEF WriteChunk, Goto
  <2>14. CASE ReadEnds
    BY <2>14 DEF ReadEnds, Goto
  <2>15. CASE ReconnectFull
    <3>1. (hasPart \in BOOLEAN /\ part \in Seq(Byte) /\ dest \in Seq(Byte))'
      BY <2>15, <2>a DEF ReconnectFull, Isolated, Stream, Goto
    <3>2. tries' \in Nat
      BY <2>15, <2>a DEF ReconnectFull, Isolated, Stream, Goto
    <3> QED
      BY <3>1, <3>2, <2>15, <2>a DEF ReconnectFull, Isolated, Stream, Goto
  <2>16. CASE ReconnectPartial
    BY <2>16, <2>a DEF ReconnectPartial, Resumed, Stream, Goto
  <2>17. CASE ReconnectAfterError
    BY <2>17, <2>a DEF ReconnectAfterError, Resumed, Stream, Goto
  <2>18. CASE CheckSize
    BY <2>18 DEF CheckSize, Goto
  <2>19. CASE Publish
    <3>1. (hasPart \in BOOLEAN /\ part \in Seq(Byte) /\ dest \in Seq(Byte))'
      BY <2>19, <2>a DEF Publish, Isolated, Goto
    <3>2. tries' \in Nat
      BY <2>19, <2>a DEF Publish, Isolated, Goto
    <3> QED
      BY <3>1, <3>2, <2>19, <2>a DEF Publish, Isolated, Goto
  <2>20. CASE RecordCompletion
    BY <2>20, <2>a DEF RecordCompletion, Complete, Goto
  <2>21. CASE RecordFails
    BY <2>21 DEF RecordFails, Goto
  <2>22. CASE StepFails
    BY <2>22 DEF StepFails, Goto
  <2>23. CASE ReleaseLease
    BY <2>23 DEF ReleaseLease, Goto
  <2>24. CASE Recover
    BY <2>24, <2>a DEF Recover, Complete, Goto
  <2>25. CASE Fail
    BY <2>25, <2>a DEF Fail, Complete, Stopped, Goto
  <2>26. CASE Pause
    BY <2>26 DEF Pause
  <2>27. CASE Resume
    BY <2>27 DEF Resume
  <2>28. CASE StopReads
    BY <2>28 DEF StopReads
  <2>29. CASE StopWrites
    BY <2>29 DEF StopWrites
  <2>30. CASE CleanupSeesIdle
    BY <2>30 DEF CleanupSeesIdle
  <2>31. CASE CleanupGivesUp
    BY <2>31 DEF CleanupGivesUp
  <2>32. CASE CleanupRemoves
    BY <2>32, <2>a DEF CleanupRemoves
  <2>33. CASE ServerChanges
    BY <2>33 DEF ServerChanges
  <2>34. CASE Restart
    BY <2>34 DEF Restart
  <2>35. CASE UNCHANGED vars
    BY <2>35 DEF vars
  <2> QED
    BY <2>1, <2>2, <2>3, <2>4, <2>5, <2>6, <2>7, <2>8, <2>9, <2>10, <2>11,
       <2>12, <2>13, <2>14, <2>15, <2>16, <2>17, <2>18, <2>19, <2>20, <2>21,
       <2>22, <2>23, <2>24, <2>25, <2>26, <2>27, <2>28, <2>29, <2>30, <2>31,
       <2>32, <2>33, <2>34, <2>35
    DEF Next, Worker, Environment
<1> QED
  BY <1>1, <1>2, PTL DEF Spec

-----------------------------------------------------------------------------
(* Control: the lease, the clean-up thread, rows that have ended           *)

\* Pause is never pressed on a cancelled row.
CancelledStays == "cancelled" \notin PausableFrom

\* ControlInv is inductive.
LEMMA ControlStep ==
    ASSUME CancelledStays, TypeOK, ControlInv, [Next]_vars
    PROVE  ControlInv'
<1> USE DEF TypeOK, Statuses, Steps, row, lock, facts, disk, stream, local, users,
            ControlInv, WorkerHoldsLease, Owning, LeaseIsCurrent, CompletedHasFile,
            CleanupOnlyWhenIdle
<1>1. CASE Dispatch
  BY <1>1 DEF Dispatch, Goto
<1>2. CASE ClaimLease
  BY <1>2 DEF ClaimLease, Goto
<1>3. CASE Load
  BY <1>3 DEF Load, Isolated, Goto
<1>4. CASE ConnectFull
  BY <1>4 DEF ConnectFull, Isolated, Stream, Goto
<1>5. CASE ConnectPartial
  BY <1>5 DEF ConnectPartial, Isolated, Stream, Goto
<1>6. CASE ConnectUnsatisfiable
  BY <1>6 DEF ConnectUnsatisfiable, Isolated, Goto
<1>7. CASE Refetch
  BY <1>7 DEF Refetch, Stream, Goto
<1>8. CASE PersistRepresentation
  BY <1>8 DEF PersistRepresentation, Describes, TotalOf, TagOf, Goto
<1>9. CASE OpenPart
  BY <1>9 DEF OpenPart, Goto
<1>10. CASE CheckStatus
  BY <1>10 DEF CheckStatus, Interrupted, Goto
<1>11. CASE ReadChunk
  BY <1>11 DEF ReadChunk, Goto
<1>12. CASE Throttle
  BY <1>12 DEF Throttle, Interrupted, Goto
<1>13. CASE WriteChunk
  BY <1>13, AppendedFile DEF WriteChunk, Chunk, Byte, Goto
<1>14. CASE ReadEnds
  BY <1>14 DEF ReadEnds, Goto
<1>15. CASE ReconnectFull
  BY <1>15 DEF ReconnectFull, Isolated, Stream, Goto
<1>16. CASE ReconnectPartial
  BY <1>16 DEF ReconnectPartial, Resumed, Stream, Goto
<1>17. CASE ReconnectAfterError
  BY <1>17 DEF ReconnectAfterError, Resumed, Stream, Goto
<1>18. CASE CheckSize
  BY <1>18 DEF CheckSize, SizeWrong, Goto
<1>19. CASE Publish
  BY <1>19, EmptyFile DEF Publish, Isolated, NameIsFree, Goto
<1>20. CASE RecordCompletion
  BY <1>20 DEF RecordCompletion, Complete, Finalizable, Stopped, Goto
<1>21. CASE RecordFails
  BY <1>21 DEF RecordFails, Goto
<1>22. CASE StepFails
  BY <1>22 DEF StepFails, Goto
<1>23. CASE ReleaseLease
  BY <1>23 DEF ReleaseLease, Goto
<1>24. CASE Recover
  BY <1>24 DEF Recover, Complete, Verified, Finalizable, Stopped, Goto
<1>25. CASE Fail
  BY <1>25 DEF Fail, Complete, Stopped, Verified, Finalizable, Goto
<1>26. CASE Pause
  BY <1>26 DEF Pause, CancelledStays
<1>27. CASE Resume
  BY <1>27 DEF Resume
<1>28. CASE StopReads
  BY <1>28 DEF StopReads
<1>29. CASE StopWrites
  BY <1>29 DEF StopWrites
<1>30. CASE CleanupSeesIdle
  BY <1>30 DEF CleanupSeesIdle
<1>31. CASE CleanupGivesUp
  BY <1>31 DEF CleanupGivesUp
<1>32. CASE CleanupRemoves
  BY <1>32 DEF CleanupRemoves
<1>33. CASE ServerChanges
  BY <1>33 DEF ServerChanges
<1>34. CASE Restart
  BY <1>34 DEF Restart
<1>35. CASE UNCHANGED vars
  BY <1>35 DEF vars
<1> QED
  BY <1>1, <1>2, <1>3, <1>4, <1>5, <1>6, <1>7, <1>8, <1>9, <1>10, <1>11,
     <1>12, <1>13, <1>14, <1>15, <1>16, <1>17, <1>18, <1>19, <1>20, <1>21,
     <1>22, <1>23, <1>24, <1>25, <1>26, <1>27, <1>28, <1>29, <1>30, <1>31,
     <1>32, <1>33, <1>34, <1>35
  DEF Next, Worker, Environment

\* Initially nothing runs and nothing is on disk but an empty .part.
LEMMA ControlInit == Init => ControlInv
  BY DEF Init, ControlInv, WorkerHoldsLease, Owning, Steps, CompletedHasFile,
         CleanupOnlyWhenIdle

\* ControlInv always holds: a worker at work has the lease, an ended row has no
\* worker, a completed row has its file, the clean-up waits for the worker.
THEOREM Controlled ==
    ASSUME CancelledStays
    PROVE  Spec => []ControlInv
<1>1. TypeOK /\ ControlInv /\ [Next]_vars => ControlInv'
  BY ControlStep
<1> QED
  BY <1>1, ControlInit, TypeCorrect, PTL DEF Spec

-----------------------------------------------------------------------------
(* Content: what is on disk, in the row and on the connection agree        *)

\* Every version is served with a validator, no bandwidth limit is in force,
\* and a server that ignores If-Range serves versions of one length only.
WellServed ==
    /\ Tagged = Versions
    /\ TRUE \notin Limits
    /\ LaxServer => \A v, w \in Versions : Size[v] = Size[w]

LEMMA ContentInit == Init => ContentInv
  BY EmptyFile DEF Init, ContentInv, PartIsPrefixOfTagged, PublishedIsWhole, Receiving

\* ContentInv is inductive.
LEMMA ContentStep ==
    ASSUME WellServed, TypeOK, ControlInv, ContentInv, [Next]_vars
    PROVE  ContentInv'
<1> USE DEF TypeOK, Statuses, Steps, row, lock, facts, disk, stream, local, users,
            ContentInv, PartIsPrefixOfTagged, PublishedIsWhole, Receiving, WellServed
<1>a. <<>> \in Seq(Byte) /\ Len(<<>>) = 0 /\ Len(part) \in Nat /\ (part # <<>> => Len(part) > 0)
  BY EmptyFile
<1>b. \A limited \in Limits : limited = FALSE
  OBVIOUS
<1>c. cleanup = "armed" => pc = "idle"
  BY DEF ControlInv, CleanupOnlyWhenIdle
<1>d. /\ Append(part, Chunk(ver, pos)) # <<>>
      /\ Len(Append(part, Chunk(ver, pos))) = Len(part) + 1
      /\ \A i \in 1 .. Len(part) : Append(part, Chunk(ver, pos))[i] = part[i]
      /\ Append(part, Chunk(ver, pos))[Len(part) + 1] = Chunk(ver, pos)
  <2>1. Chunk(ver, pos) \in Byte
    BY DEF Chunk, Byte
  <2>2. part \in Seq(Byte)
    OBVIOUS
  <2> QED
    BY ONLY <2>1, <2>2, AppendedFile
<1>1. CASE Dispatch
  BY <1>1, <1>a DEF Dispatch, Goto
<1>2. CASE ClaimLease
  BY <1>2, <1>a DEF ClaimLease, Goto
<1>3. CASE Load
  BY <1>3, <1>a DEF Load, Isolated, Goto
<1>4. CASE ConnectFull
  BY <1>4, <1>a DEF ConnectFull, Isolated, Stream, Goto
<1>5. CASE ConnectPartial
  BY <1>5, <1>a DEF ConnectPartial, Isolated, Stream, RepresentationChanged, TagOf, Goto
<1>6. CASE ConnectUnsatisfiable
  BY <1>6, <1>a DEF ConnectUnsatisfiable, Isolated, RangeApplies, TagOf, Goto
<1>7. CASE Refetch
  BY <1>7, <1>a DEF Refetch, Stream, Goto
<1>8. CASE PersistRepresentation
  BY <1>8, <1>a DEF PersistRepresentation, Describes, TotalOf, TagOf, Goto
<1>9. CASE OpenPart
  BY <1>9, <1>a DEF OpenPart, Goto
<1>10. CASE CheckStatus
  BY <1>10, <1>a DEF CheckStatus, Goto
<1>11. CASE ReadChunk
  BY <1>11, <1>a, <1>b DEF ReadChunk, Goto
<1>12. CASE Throttle
  BY <1>12, <1>a DEF Throttle, Goto
<1>13. CASE WriteChunk
  <2>1. CASE ~LeaseIsCurrent
    BY <1>13, <2>1 DEF WriteChunk, Goto
  <2>2. CASE LeaseIsCurrent
    <3>1. /\ part' = Append(part, Chunk(ver, pos))
          /\ pc = "write" /\ pc' = "check"
          /\ ver' = ver /\ pos' = pos /\ tag' = tag /\ total' = total /\ dest' = dest
      BY <1>13, <2>2 DEF WriteChunk, Goto
    <3>2. ver = tag /\ pos = Len(part) + 1 /\ total \in {0, Size[tag]}
      BY <3>1
    <3>3. PartIsPrefixOfTagged'
      <4> SUFFICES ASSUME NEW i \in 1 .. Len(part') PROVE part'[i] = Chunk(tag, i)
        BY <3>1
      <4>1. CASE i = Len(part) + 1
        BY <4>1, <3>1, <3>2, <1>d
      <4>2. CASE i # Len(part) + 1
        BY <4>2, <3>1, <3>2, <1>a, <1>d
      <4> QED
        BY <4>1, <4>2
    <3> QED
      BY <3>1, <3>2, <3>3, <1>a, <1>d
  <2> QED
    BY <2>1, <2>2
<1>14. CASE ReadEnds
  BY <1>14, <1>a DEF ReadEnds, EndOfBody, Goto
<1>15. CASE ReconnectFull
  BY <1>15, <1>a DEF ReconnectFull, Isolated, Stream, Goto
<1>16. CASE ReconnectPartial
  BY <1>16, <1>a DEF ReconnectPartial, Resumed, Stream, RepresentationChanged, TagOf, Goto
<1>17. CASE ReconnectAfterError
  BY <1>17, <1>a DEF ReconnectAfterError, Resumed, Stream, RepresentationChanged, TagOf, Goto
<1>18. CASE CheckSize
  BY <1>18, <1>a DEF CheckSize, SizeWrong, Goto
<1>19. CASE Publish
  BY <1>19, <1>a DEF Publish, Isolated, NameIsFree, Whole, Goto
<1>20. CASE RecordCompletion
  BY <1>20, <1>a DEF RecordCompletion, Complete, ControlInv, Goto
<1>21. CASE RecordFails
  BY <1>21, <1>a DEF RecordFails, Goto
<1>22. CASE StepFails
  BY <1>22, <1>a DEF StepFails, Goto
<1>23. CASE ReleaseLease
  BY <1>23, <1>a DEF ReleaseLease, Goto
<1>24. CASE Recover
  BY <1>24, <1>a DEF Recover, Complete, Verified, ControlInv, Goto
<1>25. CASE Fail
  BY <1>25, <1>a DEF Fail, Complete, Stopped, Verified, ControlInv, Goto
<1>26. CASE Pause
  BY <1>26 DEF Pause
<1>27. CASE Resume
  BY <1>27 DEF Resume
<1>28. CASE StopReads
  BY <1>28 DEF StopReads
<1>29. CASE StopWrites
  BY <1>29 DEF StopWrites
<1>30. CASE CleanupSeesIdle
  BY <1>30 DEF CleanupSeesIdle
<1>31. CASE CleanupGivesUp
  BY <1>31 DEF CleanupGivesUp
<1>32. CASE CleanupRemoves
  BY <1>32, <1>a, <1>c DEF CleanupRemoves
<1>33. CASE ServerChanges
  BY <1>33 DEF ServerChanges
<1>34. CASE Restart
  BY <1>34 DEF Restart
<1>35. CASE UNCHANGED vars
  BY <1>35 DEF vars
<1> QED
  BY <1>1, <1>2, <1>3, <1>4, <1>5, <1>6, <1>7, <1>8, <1>9, <1>10, <1>11,
     <1>12, <1>13, <1>14, <1>15, <1>16, <1>17, <1>18, <1>19, <1>20, <1>21,
     <1>22, <1>23, <1>24, <1>25, <1>26, <1>27, <1>28, <1>29, <1>30, <1>31,
     <1>32, <1>33, <1>34, <1>35
  DEF Next, Worker, Environment

\* ContentInv always holds for a well-served download: row, .part and open
\* response speak of one version.
THEOREM Content ==
    ASSUME CancelledStays, WellServed
    PROVE  Spec => []ContentInv
<1>1. TypeOK /\ ControlInv /\ ContentInv /\ [Next]_vars => ContentInv'
  BY ContentStep
<1> QED
  BY <1>1, ContentInit, Controlled, TypeCorrect, PTL DEF Spec

-----------------------------------------------------------------------------
(* Lengths: what is published has the length of some version, whatever the *)
(* server does about validators                                            *)

\* Every response announces its length, or no bandwidth limit is in force. (A
\* chunk dropped under a limit goes unnoticed only where no length is known.)
Unlimited    == TRUE \notin Limits
LengthsKnown == Announced = Versions \/ Unlimited

\* Of the lengths alone, whatever the validators: the row's total is that of a
\* version, and without one the open response goes on where the .part ends, so
\* that its end is that of a version (worker.rs:225-241, 621-641).
SizeInv ==
    /\ total = 0 \/ \E v \in Versions : total = Size[v]
    /\ PublishedHasSomeSize
    /\ pc = "refetch" => part = <<>>
    /\ pc = "persist" => pos = Len(part)
    /\ pc \in Receiving /\ total = 0 =>
          /\ Unlimited
          /\ pos = IF pc = "write" THEN Len(part) + 1 ELSE Len(part)
    /\ pc = "throttle" => total > 0
    /\ pc = "publish" \/ (pc = "finish" /\ part # <<>> /\ total = 0)
          => \E v \in Versions : Len(part) = Size[v]

LEMMA SizeInit == Init => SizeInv
  BY EmptyFile DEF Init, SizeInv, PublishedHasSomeSize, Receiving

\* SizeInv is inductive.
LEMMA SizeStep ==
    ASSUME CancelledStays, LengthsKnown, TypeOK, ControlInv, SizeInv, [Next]_vars
    PROVE  SizeInv'
<1> USE DEF TypeOK, Statuses, Steps, row, lock, facts, disk, stream, local, users,
            SizeInv, PublishedHasSomeSize, Receiving
<1>a. <<>> \in Seq(Byte) /\ Len(<<>>) = 0 /\ Len(part) \in Nat /\ (part # <<>> => Len(part) > 0)
  BY EmptyFile
<1>b. cleanup = "armed" => pc = "idle"
  BY DEF ControlInv, CleanupOnlyWhenIdle
<1>c. Len(Append(part, Chunk(ver, pos))) = Len(part) + 1
  BY AppendedFile DEF Chunk, Byte
<1>d. Len(dest) \in Nat /\ (dest = <<>> => Len(dest) = 0)
  BY EmptyFile
<1>1. CASE Dispatch
  BY <1>1, <1>a DEF Dispatch, Goto
<1>2. CASE ClaimLease
  BY <1>2, <1>a DEF ClaimLease, Goto
<1>3. CASE Load
  BY <1>3, <1>a DEF Load, Isolated, Goto
<1>4. CASE ConnectFull
  BY <1>4, <1>a DEF ConnectFull, Isolated, Stream, Goto
<1>5. CASE ConnectPartial
  BY <1>5, <1>a DEF ConnectPartial, Isolated, Stream, RepresentationChanged, TagOf, Goto
<1>6. CASE ConnectUnsatisfiable
  BY <1>6, <1>a DEF ConnectUnsatisfiable, Isolated, RangeApplies, TagOf, Goto
<1>7. CASE Refetch
  BY <1>7, <1>a DEF Refetch, Stream, Goto
<1>8. CASE PersistRepresentation
  BY <1>8, <1>a DEF PersistRepresentation, Describes, TotalOf, TagOf, Goto, LengthsKnown
<1>9. CASE OpenPart
  BY <1>9, <1>a DEF OpenPart, Goto
<1>10. CASE CheckStatus
  BY <1>10, <1>a DEF CheckStatus, Goto
<1>11. CASE ReadChunk
  <2>1. Unlimited => pc' = "write"
    <3> SUFFICES ASSUME Unlimited
                 PROVE  pc' = "write"
      OBVIOUS
    <3>1. \A limited \in Limits : limited = FALSE
      BY EnvironmentAssumption DEF Unlimited, EnvironmentAssumption
    <3> QED
      BY ONLY <1>11, <3>1 DEF ReadChunk, Goto
  <2>2. pc = "read" /\ pc' \in {"throttle", "write"} /\ pos' = pos + 1
        /\ UNCHANGED <<row, disk, cur, lease, known, ranges, ver, tries, users>>
    BY <1>11 DEF ReadChunk, Goto
  <2> QED
    BY <2>1, <2>2, <1>a
<1>12. CASE Throttle
  BY <1>12, <1>a DEF Throttle, Goto
<1>13. CASE WriteChunk
  BY <1>13, <1>a, <1>c DEF WriteChunk, Goto
<1>14. CASE ReadEnds
  BY <1>14, <1>a DEF ReadEnds, EndOfBody, Goto
<1>15. CASE ReconnectFull
  BY <1>15, <1>a DEF ReconnectFull, Isolated, Stream, Goto
<1>16. CASE ReconnectPartial
  BY <1>16, <1>a DEF ReconnectPartial, Resumed, Stream, RepresentationChanged, TagOf, Goto
<1>17. CASE ReconnectAfterError
  BY <1>17, <1>a DEF ReconnectAfterError, Resumed, Stream, RepresentationChanged, TagOf, Goto
<1>18. CASE CheckSize
  BY <1>18, <1>a DEF CheckSize, SizeWrong, Goto
<1>19. CASE Publish
  BY <1>19, <1>a DEF Publish, Isolated, NameIsFree, Whole, Goto
<1>20. CASE RecordCompletion
  BY <1>20, <1>a, <1>d DEF RecordCompletion, Complete, ControlInv, Goto
<1>21. CASE RecordFails
  BY <1>21, <1>a DEF RecordFails, Goto
<1>22. CASE StepFails
  BY <1>22, <1>a DEF StepFails, Goto
<1>23. CASE ReleaseLease
  BY <1>23, <1>a DEF ReleaseLease, Goto
<1>24. CASE Recover
  BY <1>24, <1>a, <1>d DEF Recover, Complete, Verified, ControlInv, Goto
<1>25. CASE Fail
  BY <1>25, <1>a, <1>d DEF Fail, Complete, Stopped, Verified, ControlInv, Goto
<1>26. CASE Pause
  BY <1>26 DEF Pause
<1>27. CASE Resume
  BY <1>27 DEF Resume
<1>28. CASE StopReads
  BY <1>28 DEF StopReads
<1>29. CASE StopWrites
  BY <1>29 DEF StopWrites
<1>30. CASE CleanupSeesIdle
  BY <1>30 DEF CleanupSeesIdle
<1>31. CASE CleanupGivesUp
  BY <1>31 DEF CleanupGivesUp
<1>32. CASE CleanupRemoves
  BY <1>32, <1>a, <1>b DEF CleanupRemoves
<1>33. CASE ServerChanges
  BY <1>33 DEF ServerChanges
<1>34. CASE Restart
  BY <1>34 DEF Restart
<1>35. CASE UNCHANGED vars
  BY <1>35 DEF vars
<1> QED
  BY <1>1, <1>2, <1>3, <1>4, <1>5, <1>6, <1>7, <1>8, <1>9, <1>10, <1>11,
     <1>12, <1>13, <1>14, <1>15, <1>16, <1>17, <1>18, <1>19, <1>20, <1>21,
     <1>22, <1>23, <1>24, <1>25, <1>26, <1>27, <1>28, <1>29, <1>30, <1>31,
     <1>32, <1>33, <1>34, <1>35
  DEF Next, Worker, Environment

\* What is published has the length of one of the versions, even when it mixes
\* two of them: the size checks before the rename need no validator.
THEOREM LengthIsSome ==
    ASSUME CancelledStays, LengthsKnown
    PROVE  Spec => []PublishedHasSomeSize
<1>1. TypeOK /\ ControlInv /\ SizeInv /\ [Next]_vars => SizeInv'
  BY SizeStep
<1>2. SizeInv => PublishedHasSomeSize
  BY DEF SizeInv
<1> QED
  BY <1>1, <1>2, SizeInit, Controlled, TypeCorrect, PTL DEF Spec

-----------------------------------------------------------------------------
(* The properties                                                          *)

\* No claim, command or restart ever takes the lease from the worker that is
\* between its claim and its last step (http.rs:68-142).
THEOREM LeaseHeld ==
    ASSUME CancelledStays
    PROVE  Spec => []WorkerHoldsLease
<1>1. ControlInv => WorkerHoldsLease
  BY DEF ControlInv
<1> QED
  BY <1>1, Controlled, PTL

\* A completed row has its file, of the size it reports (http.rs:519).
THEOREM CompletionHasFile ==
    ASSUME CancelledStays
    PROVE  Spec => []CompletedHasFile
<1>1. ControlInv => CompletedHasFile
  BY DEF ControlInv
<1> QED
  BY <1>1, Controlled, PTL

\* The clean-up of a cancelled download never finds a worker at work on the
\* .part it removes (lib.rs:702).
THEOREM CleanupIsSafe ==
    ASSUME CancelledStays
    PROVE  Spec => []CleanupOnlyWhenIdle
<1>1. ControlInv => CleanupOnlyWhenIdle
  BY DEF ControlInv
<1> QED
  BY <1>1, Controlled, PTL

\* Whatever the pauses, retries, restarts and changes of the resource: the .part
\* is a prefix of the version the row names, and what gets its final name is a
\* whole version (worker.rs:225, 382-498).
THEOREM NoSplice ==
    ASSUME CancelledStays, WellServed
    PROVE  Spec => [](PartIsPrefixOfTagged /\ PublishedIsWhole)
<1>1. ContentInv => PartIsPrefixOfTagged /\ PublishedIsWhole
  BY DEF ContentInv
<1> QED
  BY <1>1, Content, PTL

\* A worker that is still busy neither completes, fails nor restarts a row the
\* user has stopped (http.rs:453, 554; dispatcher.rs:325).
THEOREM StopRespected == Spec => StopIsRespected
<1>1. TypeOK /\ [Next]_vars
      => [(status \in Stopped) => status' \notin {"completed", "failed", "running"}]_vars
  <2> SUFFICES ASSUME TypeOK, Next, status \in Stopped
               PROVE  status' \notin {"completed", "failed", "running"}
    OBVIOUS
  <2> USE DEF TypeOK, Stopped, row, lock, facts
  <2>1. CASE Dispatch
    BY <2>1 DEF Dispatch, Goto
  <2>2. CASE ClaimLease
    BY <2>2 DEF ClaimLease, Goto
  <2>3. CASE Load
    BY <2>3 DEF Load, Goto
  <2>4. CASE ConnectFull
    BY <2>4 DEF ConnectFull, Goto
  <2>5. CASE ConnectPartial
    BY <2>5 DEF ConnectPartial, Goto
  <2>6. CASE ConnectUnsatisfiable
    BY <2>6 DEF ConnectUnsatisfiable, Goto
  <2>7. CASE Refetch
    BY <2>7 DEF Refetch, Goto
  <2>8. CASE PersistRepresentation
    BY <2>8 DEF PersistRepresentation, Goto
  <2>9. CASE OpenPart
    BY <2>9 DEF OpenPart, Goto
  <2>10. CASE CheckStatus
    BY <2>10 DEF CheckStatus, Goto
  <2>11. CASE ReadChunk
    BY <2>11 DEF ReadChunk, Goto
  <2>12. CASE Throttle
    BY <2>12 DEF Throttle, Goto
  <2>13. CASE WriteChunk
    BY <2>13 DEF WriteChunk, Goto
  <2>14. CASE ReadEnds
    BY <2>14 DEF ReadEnds, Goto
  <2>15. CASE ReconnectFull
    BY <2>15 DEF ReconnectFull, Goto
  <2>16. CASE ReconnectPartial
    BY <2>16 DEF ReconnectPartial, Resumed, Goto
  <2>17. CASE ReconnectAfterError
    BY <2>17 DEF ReconnectAfterError, Resumed, Goto
  <2>18. CASE CheckSize
    BY <2>18 DEF CheckSize, Goto
  <2>19. CASE Publish
    BY <2>19 DEF Publish, Goto
  <2>20. CASE RecordCompletion
    BY <2>20 DEF RecordCompletion, Complete, Finalizable, Goto
  <2>21. CASE RecordFails
    BY <2>21 DEF RecordFails, Goto
  <2>22. CASE StepFails
    BY <2>22 DEF StepFails, Goto
  <2>23. CASE ReleaseLease
    BY <2>23 DEF ReleaseLease, Goto
  <2>24. CASE Recover
    BY <2>24 DEF Recover, Complete, Verified, Goto
  <2>25. CASE Fail
    BY <2>25 DEF Fail, Complete, Verified, Goto
  <2>26. CASE Pause
    BY <2>26 DEF Pause
  <2>27. CASE Resume
    BY <2>27 DEF Resume
  <2>28. CASE StopReads
    BY <2>28 DEF StopReads
  <2>29. CASE StopWrites
    BY <2>29 DEF StopWrites
  <2>30. CASE CleanupSeesIdle
    BY <2>30 DEF CleanupSeesIdle
  <2>31. CASE CleanupGivesUp
    BY <2>31 DEF CleanupGivesUp
  <2>32. CASE CleanupRemoves
    BY <2>32 DEF CleanupRemoves
  <2>33. CASE ServerChanges
    BY <2>33 DEF ServerChanges
  <2>34. CASE Restart
    BY <2>34 DEF Restart
  <2> QED
    BY <2>1, <2>2, <2>3, <2>4, <2>5, <2>6, <2>7, <2>8, <2>9, <2>10, <2>11,
       <2>12, <2>13, <2>14, <2>15, <2>16, <2>17, <2>18, <2>19, <2>20, <2>21,
       <2>22, <2>23, <2>24, <2>25, <2>26, <2>27, <2>28, <2>29, <2>30, <2>31,
       <2>32, <2>33, <2>34
    DEF Next, Worker, Environment
<1> QED
  BY <1>1, TypeCorrect, PTL DEF Spec, StopIsRespected

-----------------------------------------------------------------------------
(* HttpTransfer implements DownloadPromise                                 *)

Open == {"queued", "running"}

\* What a step may do to the status of the row ...
StatusMoves ==
    \/ status' = status
    \/ status \in Open /\ status' \in Open
    \/ status # "cancelled" /\ status' = "paused"
    \/ status' = "cancelled"
    \/ status \in {"paused", "failed"} /\ status' = "queued"
    \/ status \in Open /\ status' = "completed" /\ dest # <<>>
    \/ status \in Open /\ status' = "failed"

\* ... and to the destination, which only Publish writes.
DestMoves == dest' = dest \/ (dest = <<>> /\ dest' # <<>> /\ status' = status)

LEMMA Moves ==
    ASSUME CancelledStays, TypeOK, ControlInv, [Next]_vars
    PROVE  StatusMoves /\ DestMoves
<1> USE DEF TypeOK, Statuses, Steps, row, lock, facts, disk, stream, local, users,
            StatusMoves, DestMoves, Open, ControlInv
<1>1. CASE Dispatch
  BY <1>1 DEF Dispatch, Goto
<1>2. CASE ClaimLease
  BY <1>2 DEF ClaimLease, Goto
<1>3. CASE Load
  BY <1>3 DEF Load, Goto
<1>4. CASE ConnectFull
  BY <1>4 DEF ConnectFull, Goto
<1>5. CASE ConnectPartial
  BY <1>5 DEF ConnectPartial, Goto
<1>6. CASE ConnectUnsatisfiable
  BY <1>6 DEF ConnectUnsatisfiable, Goto
<1>7. CASE Refetch
  BY <1>7 DEF Refetch, Goto
<1>8. CASE PersistRepresentation
  BY <1>8 DEF PersistRepresentation, Goto
<1>9. CASE OpenPart
  BY <1>9 DEF OpenPart, Goto
<1>10. CASE CheckStatus
  BY <1>10 DEF CheckStatus, Goto
<1>11. CASE ReadChunk
  BY <1>11 DEF ReadChunk, Goto
<1>12. CASE Throttle
  BY <1>12 DEF Throttle, Goto
<1>13. CASE WriteChunk
  BY <1>13 DEF WriteChunk, Goto
<1>14. CASE ReadEnds
  BY <1>14 DEF ReadEnds, Goto
<1>15. CASE ReconnectFull
  BY <1>15 DEF ReconnectFull, Goto
<1>16. CASE ReconnectPartial
  BY <1>16 DEF ReconnectPartial, Resumed, Goto
<1>17. CASE ReconnectAfterError
  BY <1>17 DEF ReconnectAfterError, Resumed, Goto
<1>18. CASE CheckSize
  BY <1>18 DEF CheckSize, Goto
<1>19. CASE Publish
  BY <1>19 DEF Publish, NameIsFree, Goto
<1>20. CASE RecordCompletion
  BY <1>20 DEF RecordCompletion, Complete, Finalizable, Stopped, Goto
<1>21. CASE RecordFails
  BY <1>21 DEF RecordFails, Goto
<1>22. CASE StepFails
  BY <1>22 DEF StepFails, Goto
<1>23. CASE ReleaseLease
  BY <1>23 DEF ReleaseLease, Goto
<1>24. CASE Recover
  BY <1>24 DEF Recover, Complete, Verified, Stopped, Goto
<1>25. CASE Fail
  BY <1>25 DEF Fail, Complete, Verified, Stopped, Goto
<1>26. CASE Pause
  BY <1>26 DEF Pause, CancelledStays
<1>27. CASE Resume
  BY <1>27 DEF Resume
<1>28. CASE StopReads
  BY <1>28 DEF StopReads
<1>29. CASE StopWrites
  BY <1>29 DEF StopWrites
<1>30. CASE CleanupSeesIdle
  BY <1>30 DEF CleanupSeesIdle
<1>31. CASE CleanupGivesUp
  BY <1>31 DEF CleanupGivesUp
<1>32. CASE CleanupRemoves
  BY <1>32 DEF CleanupRemoves
<1>33. CASE ServerChanges
  BY <1>33 DEF ServerChanges
<1>34. CASE Restart
  BY <1>34 DEF Restart
<1>35. CASE UNCHANGED vars
  BY <1>35 DEF vars
<1> QED
  BY <1>1, <1>2, <1>3, <1>4, <1>5, <1>6, <1>7, <1>8, <1>9, <1>10, <1>11,
     <1>12, <1>13, <1>14, <1>15, <1>16, <1>17, <1>18, <1>19, <1>20, <1>21,
     <1>22, <1>23, <1>24, <1>25, <1>26, <1>27, <1>28, <1>29, <1>30, <1>31,
     <1>32, <1>33, <1>34, <1>35
  DEF Next, Worker, Environment

\* The initial state of the download is that of its promise, and every step is
\* a step of the promise or changes nothing the promise speaks of.
THEOREM Refinement ==
    ASSUME CancelledStays, WellServed
    PROVE  Spec => KeepsPromise
<1>1. Init => Promise!Init
  BY DEF Init, Promise!Init, Outcome
<1>2. TypeOK /\ ControlInv /\ ContentInv' /\ [Next]_vars => [Promise!Next]_(Promise!vars)
  <2> SUFFICES ASSUME TypeOK, ControlInv, ContentInv', [Next]_vars
               PROVE  [Promise!Next]_(Promise!vars)
    OBVIOUS
  <2>1. StatusMoves /\ DestMoves
    BY Moves
  <2>2. status \in Statuses
    BY DEF TypeOK
  <2>3. CASE dest' # dest
    <3>1. dest = <<>> /\ dest' \in {Whole(v) : v \in Versions}
      BY <2>1, <2>3 DEF DestMoves, ContentInv, PublishedIsWhole
    <3>2. Outcome' = Outcome
      BY <2>1, <2>3 DEF DestMoves, Outcome
    <3> QED
      BY <3>1, <3>2 DEF Promise!Next, Promise!Publish
  <2>4. CASE dest' = dest
    <3> USE <2>4 DEF Outcome, Open, Promise!Next, Promise!vars
    <3>1. CASE status' = status \/ (status \in Open /\ status' \in Open)
      BY <3>1
    <3>2. CASE status # "cancelled" /\ status' = "paused"
      BY <3>2, <2>2 DEF Promise!Suspend, Statuses, ControlInv
    <3>3. CASE status' = "cancelled"
      BY <3>3 DEF Promise!Cancel
    <3>4. CASE status \in {"paused", "failed"} /\ status' = "queued"
      BY <3>4 DEF Promise!Reopen
    <3>5. CASE status \in Open /\ status' = "completed" /\ dest # <<>>
      BY <3>5 DEF Promise!Succeed
    <3>6. CASE status \in Open /\ status' = "failed"
      BY <3>6 DEF Promise!GiveUp
    <3> QED
      BY <3>1, <3>2, <3>3, <3>4, <3>5, <3>6, <2>1 DEF StatusMoves
  <2> QED
    BY <2>3, <2>4
<1> QED
  BY <1>1, <1>2, TypeCorrect, Controlled, Content, PTL DEF Spec, KeepsPromise, Promise!Spec

=============================================================================
