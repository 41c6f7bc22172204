---------------------------- MODULE UpdateProof ----------------------------
(***************************************************************************)
(* For every set of builds: an update run, killed or losing power between  *)
(* any two of its steps and restarted any number of times, never lets go   *)
(* of the last verified binary, never settles on another one, and refuses  *)
(* to recover only where nothing is left to recover.  What may happen to   *)
(* that binary is a power loss before its own bytes are on the disk.       *)
(***************************************************************************)
EXTENDS Update, TLAPS

\* Before the first run the installed build is the trusted one and there is
\* neither a rollback copy nor a record.
LEMMA InitEstablishes == Init => UpdateInv
BY NoFileIsNoBuild
DEF Init, UpdateInv, TypeOK, RecordTellsFiles, StepKnowsFiles, BytesFollowFiles,
    Settled, VerifiedFile, Phases, Steps, Outcomes

\* Reading the leftovers: where `converge` sends the run agrees with the
\* shape its unwinding prefix leaves the files in.
LEMMA ConvergePreserves == UpdateInv /\ Converge => UpdateInv'
<1> SUFFICES ASSUME UpdateInv, Converge PROVE UpdateInv'
  OBVIOUS
<1>0. VerifiedFile # NoFile /\ VerifiedFile' = VerifiedFile
  BY NoFileIsNoBuild, TornIsNoBuild DEF UpdateInv, TypeOK, Converge, history, VerifiedFile
<1> USE NoFileIsNoBuild, <1>0 DEF UpdateInv
<1>1. TypeOK'
  BY DEF TypeOK, Converge, ConvergeTarget, Refuses, Phases, Steps, run, report, history,
         RecordTellsFiles, Settled, MovedAside, Replaced, Renamed
<1>2. RecordTellsFiles'
  BY DEF TypeOK, Converge, RecordTellsFiles, Settled, MovedAside, Replaced,
         Phases, run, report
<1>3. StepKnowsFiles'
  <2>1. CASE record = "none"
    BY <2>1 DEF TypeOK, Converge, ConvergeTarget, RecordTellsFiles,
                StepKnowsFiles, Settled, run, report
  <2>2. CASE record = "staged"
    BY <2>2 DEF TypeOK, Converge, ConvergeTarget, Refuses, RecordTellsFiles,
                StepKnowsFiles, Settled, MovedAside, run, report
  <2>3. CASE record = "swapped"
    BY <2>3 DEF TypeOK, Converge, ConvergeTarget, Refuses, RecordTellsFiles,
                StepKnowsFiles, Settled, MovedAside, Replaced, run, report
  <2>4. CASE record = "verified"
    BY <2>4 DEF TypeOK, Converge, ConvergeTarget, Refuses, RecordTellsFiles,
                StepKnowsFiles, Settled, run, report
  <2> QED BY <2>1, <2>2, <2>3, <2>4 DEF TypeOK, Phases
<1>4. BytesFollowFiles'
  <2>1. pc' \in {"resolve", "idle", "dropNext", "restore", "dropPrev"}
    BY DEF TypeOK, Phases, Converge, ConvergeTarget
  <2>2. (exe' = NoFile => "exe" \notin unflushed') /\ (prev' = NoFile => "prev" \notin unflushed')
    BY DEF Converge, BytesFollowFiles, Renamed
  <2> QED BY <2>1, <2>2 DEF BytesFollowFiles
<1> QED BY <1>1, <1>2, <1>3, <1>4

\* Every step keeps the files, the record and the run within their types.
LEMMA TypePreserves == UpdateInv /\ [Next]_vars => TypeOK'
<1> SUFFICES ASSUME UpdateInv, [Next]_vars PROVE TypeOK'
  OBVIOUS
<1>0. TypeOK /\ (pc = "report" => after # "resolve")
  BY DEF UpdateInv, StepKnowsFiles
<1> USE <1>0 DEF TypeOK, Goto, files, run, report, history, Renamed, Removed
<1>1. ASSUME NEW b \in Builds, Invoke(b) PROVE TypeOK'
  BY <1>1 DEF Invoke, Steps
<1>2. CASE Converge
  BY <1>2, ConvergePreserves DEF UpdateInv
<1>3. CASE Resolve
  BY <1>3 DEF Resolve, RecordVerdict, Outcomes, Steps
<1>4. CASE ProbeLock
  BY <1>4 DEF ProbeLock, Steps
<1>5. CASE Extract
  BY <1>5 DEF Extract, Steps
<1>6. CASE ClearNext
  BY <1>6 DEF ClearNext, Steps
<1>7. CASE Place
  BY <1>7 DEF Place, Steps
<1>8. CASE Unstage
  BY <1>8 DEF Unstage, Steps
<1>9. CASE RecordStaged
  BY <1>9 DEF RecordStaged, SetPhase, Steps, Phases
<1>10. CASE Preflight
  BY <1>10 DEF Preflight, Steps
<1>11. CASE EarlyVerify
  BY <1>11 DEF EarlyVerify, Steps
<1>12. CASE ClearPrev
  BY <1>12 DEF ClearPrev, Steps
<1>13. CASE MoveOld
  BY <1>13 DEF MoveOld, Steps
<1>14. CASE RecordSwapped
  BY <1>14 DEF RecordSwapped, SetPhase, Steps, Phases
<1>15. CASE MoveNew
  BY <1>15 DEF MoveNew, Steps
<1>16. CASE Verify
  BY <1>16 DEF Verify, Steps
<1>17. CASE RecordVerified
  BY <1>17 DEF RecordVerified, SetPhase, Steps, Phases, BytesFollowFiles, UpdateInv
<1>18. CASE Restore
  BY <1>18 DEF Restore, Steps
<1>19. CASE DropNext
  BY <1>19 DEF DropNext, Steps
<1>20. CASE DropStage
  BY <1>20 DEF DropStage, Steps
<1>21. CASE DropPrev
  BY <1>21 DEF DropPrev, Steps
<1>22. CASE DropRecord
  BY <1>22 DEF DropRecord, Steps, Phases
<1>23. CASE Finish
  BY <1>23 DEF Finish, RecordVerdict, Outcomes, Steps
<1>24. CASE Stop
  BY <1>24 DEF Stop, Steps
<1>25. CASE PowerLoss
  BY <1>25 DEF PowerLoss, VerifiedCopy, Steps
<1>26. CASE UNCHANGED vars
  BY <1>26 DEF vars
<1> HIDE <1>0 DEF TypeOK, Goto, files, run, report, history, Renamed, Removed
<1> QED
  BY <1>1, <1>2, <1>3, <1>4, <1>5, <1>6, <1>7, <1>8, <1>9, <1>10, <1>11,
     <1>12, <1>13, <1>14, <1>15, <1>16, <1>17, <1>18, <1>19, <1>20, <1>21,
     <1>22, <1>23, <1>24, <1>25, <1>26
  DEF Next

\* A power loss tears what was never synced and keeps the shape of the files.
LEMMA PowerLossPreserves ==
    UpdateInv /\ PowerLoss => RecordTellsFiles' /\ StepKnowsFiles'
<1> SUFFICES ASSUME UpdateInv, PowerLoss PROVE RecordTellsFiles' /\ StepKnowsFiles'
  OBVIOUS
<1>1. PICK torn \in SUBSET unflushed :
         /\ exe' = IF "exe" \in torn THEN TornFile ELSE exe
         /\ prev' = IF "prev" \in torn THEN TornFile ELSE prev
         /\ spoilt' = (spoilt \/ VerifiedCopy \in torn)
  BY DEF PowerLoss
<1>2. /\ VerifiedFile' = IF VerifiedCopy \in torn THEN TornFile ELSE VerifiedFile
      /\ VerifiedFile # NoFile /\ TornFile # NoFile
  BY <1>1, NoFileIsNoBuild, TornIsNoBuild
  DEF UpdateInv, TypeOK, PowerLoss, VerifiedFile
<1>3. /\ record' = record /\ pc' = "idle"
      /\ exe = NoFile => exe' = NoFile
      /\ prev = NoFile => prev' = NoFile
      /\ exe # NoFile => exe' # NoFile
  BY <1>1, <1>2 DEF UpdateInv, BytesFollowFiles, PowerLoss
<1>4. RecordTellsFiles'
  BY <1>1, <1>2, <1>3
  DEF UpdateInv, RecordTellsFiles, Settled, MovedAside, Replaced, VerifiedCopy
<1>5. StepKnowsFiles'
  BY <1>3 DEF StepKnowsFiles
<1> QED BY <1>4, <1>5

\* Every step of a run, and its interruption, keeps the record and the step
\* counter truthful about the files.
LEMMA ShapePreserves ==
    UpdateInv /\ [Next]_vars => RecordTellsFiles' /\ StepKnowsFiles'
<1> DEFINE Shape == RecordTellsFiles /\ StepKnowsFiles
<1> SUFFICES ASSUME UpdateInv, [Next]_vars PROVE Shape'
  OBVIOUS
<1>0. Shape /\ VerifiedFile # NoFile /\ record \in Phases /\ pc \in Steps
  BY NoFileIsNoBuild, TornIsNoBuild DEF UpdateInv, TypeOK, VerifiedFile
<1>a. UNCHANGED history => VerifiedFile' = VerifiedFile
  BY DEF history, VerifiedFile
<1> USE <1>0, <1>a DEF RecordTellsFiles, StepKnowsFiles, Settled, MovedAside,
    Replaced, Goto, files, run, report, Phases, Steps
<1>1. ASSUME NEW b \in Builds, Invoke(b) PROVE Shape'
  BY <1>1 DEF Invoke
<1>2. CASE Converge
  BY <1>2, ConvergePreserves DEF UpdateInv
<1>3. CASE Resolve
  BY <1>3 DEF Resolve
<1>4. CASE ProbeLock
  BY <1>4 DEF ProbeLock
<1>5. CASE Extract
  BY <1>5 DEF Extract
<1>6. CASE ClearNext
  BY <1>6 DEF ClearNext
<1>7. CASE Place
  BY <1>7 DEF Place
<1>8. CASE Unstage
  BY <1>8 DEF Unstage
<1>9. CASE RecordStaged
  BY <1>9 DEF RecordStaged, SetPhase
<1>10. CASE Preflight
  BY <1>10 DEF Preflight
<1>11. CASE EarlyVerify
  BY <1>11 DEF EarlyVerify
<1>12. CASE ClearPrev
  BY <1>12 DEF ClearPrev
<1>13. CASE MoveOld
  BY <1>13 DEF MoveOld
<1>14. CASE RecordSwapped
  BY <1>14 DEF RecordSwapped, SetPhase
<1>15. CASE MoveNew
  BY <1>15 DEF MoveNew
<1>16. CASE Verify
  BY <1>16 DEF Verify
<1>17. CASE RecordVerified
  BY <1>17, NoFileIsNoBuild DEF RecordVerified, SetPhase, VerifiedFile
<1>18. CASE Restore
  BY <1>18 DEF Restore
<1>19. CASE DropNext
  BY <1>19 DEF DropNext
<1>20. CASE DropStage
  BY <1>20 DEF DropStage
<1>21. CASE DropPrev
  BY <1>21 DEF DropPrev
<1>22. CASE DropRecord
  BY <1>22 DEF DropRecord
<1>23. CASE Finish
  BY <1>23 DEF Finish
<1>24. CASE Stop
  BY <1>24 DEF Stop
<1>25. CASE PowerLoss
  BY <1>25, PowerLossPreserves
<1>26. CASE UNCHANGED vars
  BY <1>26 DEF vars, history
<1> HIDE <1>0, <1>a DEF RecordTellsFiles, StepKnowsFiles, Settled, MovedAside,
    Replaced, Goto, files, run, report, Phases, Steps
<1> QED
  BY <1>1, <1>2, <1>3, <1>4, <1>5, <1>6, <1>7, <1>8, <1>9, <1>10, <1>11,
     <1>12, <1>13, <1>14, <1>15, <1>16, <1>17, <1>18, <1>19, <1>20, <1>21,
     <1>22, <1>23, <1>24, <1>25, <1>26
  DEF Next

\* The bytes a power loss may tear move with their files, and a run that was
\* not interrupted swaps in and verifies the binary it was given.
LEMMA BytesPreserve == UpdateInv /\ [Next]_vars => BytesFollowFiles'
<1> SUFFICES ASSUME UpdateInv, [Next]_vars PROVE BytesFollowFiles'
  OBVIOUS
<1>0. /\ BytesFollowFiles
      /\ archive # NoFile /\ VerifiedFile # NoFile
      /\ pc \in {"verify", "recordVerified", "restore"} => prev = VerifiedFile
  BY NoFileIsNoBuild, TornIsNoBuild
  DEF UpdateInv, TypeOK, StepKnowsFiles, Replaced, VerifiedFile
<1> USE <1>0 DEF BytesFollowFiles, Goto, files, run, report, Renamed, Removed
<1>1. ASSUME NEW b \in Builds, Invoke(b) PROVE BytesFollowFiles'
  BY <1>1 DEF Invoke
<1>2. CASE Converge
  BY <1>2, ConvergePreserves DEF UpdateInv
<1>3. CASE Resolve
  BY <1>3 DEF Resolve
<1>4. CASE ProbeLock
  BY <1>4 DEF ProbeLock
<1>5. CASE Extract
  BY <1>5 DEF Extract
<1>6. CASE ClearNext
  BY <1>6 DEF ClearNext
<1>7. CASE Place
  BY <1>7 DEF Place
<1>8. CASE Unstage
  BY <1>8 DEF Unstage
<1>9. CASE RecordStaged
  BY <1>9 DEF RecordStaged, SetPhase
<1>10. CASE Preflight
  BY <1>10 DEF Preflight
<1>11. CASE EarlyVerify
  BY <1>11 DEF EarlyVerify
<1>12. CASE ClearPrev
  BY <1>12 DEF ClearPrev
<1>13. CASE MoveOld
  BY <1>13 DEF MoveOld
<1>14. CASE RecordSwapped
  BY <1>14 DEF RecordSwapped, SetPhase
<1>15. CASE MoveNew
  BY <1>15 DEF MoveNew
<1>16. CASE Verify
  BY <1>16 DEF Verify
<1>17. CASE RecordVerified
  BY <1>17 DEF RecordVerified, SetPhase
<1>18. CASE Restore
  BY <1>18 DEF Restore
<1>19. CASE DropNext
  BY <1>19 DEF DropNext
<1>20. CASE DropStage
  BY <1>20 DEF DropStage
<1>21. CASE DropPrev
  BY <1>21 DEF DropPrev
<1>22. CASE DropRecord
  BY <1>22 DEF DropRecord
<1>23. CASE Finish
  BY <1>23 DEF Finish
<1>24. CASE Stop
  BY <1>24 DEF Stop
<1>25. CASE PowerLoss
  BY <1>25 DEF PowerLoss
<1>26. CASE UNCHANGED vars
  BY <1>26 DEF vars
<1> HIDE <1>0 DEF BytesFollowFiles, Goto, files, run, report, Renamed, Removed
<1> QED
  BY <1>1, <1>2, <1>3, <1>4, <1>5, <1>6, <1>7, <1>8, <1>9, <1>10, <1>11,
     <1>12, <1>13, <1>14, <1>15, <1>16, <1>17, <1>18, <1>19, <1>20, <1>21,
     <1>22, <1>23, <1>24, <1>25, <1>26
  DEF Next

\* The record and the run's step bound the files in every reachable state.
THEOREM UpdateInvariant == Spec => []UpdateInv
<1>1. Init => UpdateInv
  BY InitEstablishes
<1>2. UpdateInv /\ [Next]_vars => UpdateInv'
  BY TypePreserves, ShapePreserves, BytesPreserve DEF UpdateInv
<1> QED BY <1>1, <1>2, PTL DEF Spec

\* No kill, error or power loss during an update or its recovery takes the last
\* build that passed the verification, but for a power loss that tears the
\* verified binary itself before its bytes are on the disk.
THEOREM TrustedAlwaysSurvives == Spec => []TrustedSurvives
<1>1. UpdateInv => TrustedSurvives
  BY DEF UpdateInv, TypeOK, Phases, RecordTellsFiles, Settled, MovedAside,
         Replaced, VerifiedFile, TrustedSurvives
<1> QED BY <1>1, UpdateInvariant, PTL

\* An installation without a record has the last verified build in place.
THEOREM OnlyVerifiedEverSettles == Spec => []OnlyVerifiedSettles
<1>1. UpdateInv => OnlyVerifiedSettles
  BY DEF UpdateInv, RecordTellsFiles, Settled, OnlyVerifiedSettles
<1> QED BY <1>1, UpdateInvariant, PTL

\* Recovery refuses only where the verified build is already in place.
THEOREM RefusalAlwaysFalseAlarm == Spec => []RefusalIsFalseAlarm
<1>1. UpdateInv => RefusalIsFalseAlarm
  BY NoFileIsNoBuild, TornIsNoBuild
  DEF UpdateInv, TypeOK, Phases, RecordTellsFiles, Settled, MovedAside,
      Replaced, VerifiedFile, Refuses, RefusalIsFalseAlarm
<1> QED BY <1>1, UpdateInvariant, PTL

=============================================================================
