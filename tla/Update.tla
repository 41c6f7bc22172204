------------------------------- MODULE Update -------------------------------
(***************************************************************************)
(* The transaction of `wyrd update` (crates/wyrd-cli/src/update): the      *)
(* installed executable is replaced by the one of a local archive, checked *)
(* against the drive, and put back when the check does not pass.  Every    *)
(* file the transaction moves lies beside the executable:                  *)
(*                                                                         *)
(*   exe     <exe>                the binary the operator runs             *)
(*   prev    <exe>.prev           the rollback copy                        *)
(*   next    <exe>.next           the staged new binary                    *)
(*   stage   <exe>.stage/         extraction scratch                       *)
(*   record  <exe>.update-state   how far an unfinished run got            *)
(*   verdict <exe>.update-verdict what the last run reported               *)
(*                                                                         *)
(* The directory is synced after each rename and removal and the record    *)
(* before its rename, so each of these is one atomic step; `Stop` ends the *)
(* run between any two of them and stands for a crash, a kill and every    *)
(* error the code returns early with.  The bytes of the staged binary are  *)
(* never synced: `unflushed` names the files whose bytes may not have      *)
(* reached the disk, and `PowerLoss` tears any of them.  One run is active *)
(* at a time.                                                              *)
(***************************************************************************)

EXTENDS UpdateState

Phases == {"none", "staged", "swapped", "verified"}

Outcomes == {"none", "in_progress", "done", "rolled-back", "refused"}

Steps == {"idle", "converge", "resolve", "probe", "extract", "clearNext",
          "place", "unstage", "recordStaged", "preflight", "earlyVerify",
          "clearPrev", "moveOld", "recordSwapped", "moveNew", "verify",
          "recordVerified", "restore", "dropNext", "dropStage", "dropPrev",
          "dropRecord", "report"}

VARIABLES next, stage,
    verdict, inPlace,   \* the outcome and the binary the verdict file names
    after,      \* what the active run does once its clean-up is complete
    archive,    \* the build the active run was given
    running,    \* the build of the active run's own process
    unflushed   \* the binaries whose bytes a power loss may still tear

report == <<verdict, inPlace>>
files == <<exe, prev, next, stage, record>>
run == <<archive, running>>
history == <<trusted, spoilt>>
vars == <<exe, prev, next, stage, record, verdict, inPlace, pc, after,
          archive, running, unflushed, trusted, spoilt>>

Init ==
    /\ exe \in Builds
    /\ trusted = exe
    /\ spoilt = FALSE
    /\ unflushed = {}
    /\ running = exe
    /\ archive = exe
    /\ prev = NoFile
    /\ next = NoFile
    /\ stage = "absent"
    /\ record = "none"
    /\ verdict = "none"
    /\ inPlace = NoFile
    /\ pc = "idle"
    /\ after = "resolve"

\* The bytes of a binary follow it through a rename and go with its removal.
Renamed(from, to) ==
    (unflushed \ {from, to}) \cup (IF from \in unflushed THEN {to} ELSE {})
Removed(f) == unflushed \ {f}

-----------------------------------------------------------------------------
(* The start of a run, and what a leftover record makes of it.             *)

\* The operator runs `wyrd update` with an archive that carries build b.  A
\* process that was already started runs on after its file was renamed away.
Invoke(b) ==
    /\ pc = "idle"
    /\ pc' = "converge"
    /\ archive' = b
    /\ running' \in (IF exe \in Builds THEN {exe} ELSE Builds)
    /\ UNCHANGED <<files, report, after, unflushed, history>>

ConvergeTarget ==
    CASE record = "none" -> "resolve"
      [] record # "none" /\ Refuses -> "idle"
      [] record = "staged" /\ ~Refuses -> "dropNext"
      [] record = "swapped" /\ ~Refuses ->
             IF exe = NoFile THEN "dropNext" ELSE "restore"
      [] record = "verified" /\ ~Refuses -> "dropPrev"

\* A bug to tell apart: an interrupted swap is cleaned up as a staging is.
ConvergeForgetsSwap ==
    /\ pc = "converge"
    /\ after' = "resolve"
    /\ exe' = IF exe = NoFile THEN prev ELSE exe
    /\ prev' = IF exe = NoFile THEN NoFile ELSE prev
    /\ unflushed' = IF exe = NoFile THEN Renamed("prev", "exe") ELSE unflushed
    /\ pc' = IF ConvergeTarget = "restore" THEN "dropNext" ELSE ConvergeTarget
    /\ UNCHANGED <<next, stage, record, report, run, history>>

\* A missing executable beside a rollback copy is restored first, whatever
\* the record says; the record decides the rest.
Converge ==
    /\ pc = "converge"
    /\ after' = "resolve"
    /\ exe' = IF exe = NoFile THEN prev ELSE exe
    /\ prev' = IF exe = NoFile THEN NoFile ELSE prev
    /\ unflushed' = IF exe = NoFile THEN Renamed("prev", "exe") ELSE unflushed
    /\ pc' = ConvergeTarget
    /\ UNCHANGED <<next, stage, record, report, run, history>>

-----------------------------------------------------------------------------
(* The forward path, in the order of `update_run`.                         *)

Goto(from, to) == pc = from /\ pc' = to

\* The verdict file is best effort: a failed write leaves the old one.
RecordVerdict(outcome, build) ==
    \/ verdict' = outcome /\ inPlace' = build
    \/ UNCHANGED report

Resolve ==
    /\ Goto("resolve", "probe")
    /\ RecordVerdict("in_progress", running)
    /\ UNCHANGED <<files, after, run, unflushed, history>>

ProbeLock ==
    /\ Goto("probe", "extract")
    /\ stage' = "absent"
    /\ UNCHANGED <<exe, prev, next, record, report, after, run, unflushed, history>>

Extract ==
    /\ pc = "extract"
    /\ \/ pc' = "clearNext" /\ stage' = "present"
       \/ pc' = "idle" /\ stage' = "absent"      \* tar rejects the archive
    /\ UNCHANGED <<exe, prev, next, record, report, after, run, unflushed, history>>

ClearNext ==
    /\ Goto("clearNext", "place")
    /\ next' = NoFile
    /\ unflushed' = Removed("next")
    /\ UNCHANGED <<exe, prev, stage, record, report, after, run, history>>

Place ==
    /\ Goto("place", "unstage")
    /\ next' = archive
    /\ unflushed' = unflushed \cup {"next"}
    /\ UNCHANGED <<exe, prev, stage, record, report, after, run, history>>

Unstage ==
    /\ Goto("unstage", "recordStaged")
    /\ stage' = "absent"
    /\ UNCHANGED <<exe, prev, next, record, report, after, run, unflushed, history>>

SetPhase(from, phase, to) ==
    /\ Goto(from, to)
    /\ record' = phase
    /\ UNCHANGED <<exe, prev, next, stage, report, run, unflushed>>

RecordStaged ==
    SetPhase("recordStaged", "staged", "preflight") /\ UNCHANGED <<after, history>>

Preflight == Goto("preflight", "earlyVerify") /\ UNCHANGED <<files, report, after, run, unflushed, history>>

\* The staged binary checks the drive before anything is swapped.
EarlyVerify ==
    /\ pc = "earlyVerify"
    /\ \/ pc' = "clearPrev" /\ UNCHANGED after
       \/ pc' = "dropNext" /\ after' = "refused"
    /\ UNCHANGED <<files, report, run, unflushed, history>>

ClearPrev ==
    /\ Goto("clearPrev", "moveOld")
    /\ prev' = NoFile
    /\ unflushed' = Removed("prev")
    /\ UNCHANGED <<exe, next, stage, record, report, after, run, history>>

MoveOld ==
    /\ Goto("moveOld", "recordSwapped")
    /\ exe # NoFile
    /\ prev' = exe
    /\ exe' = NoFile
    /\ unflushed' = Renamed("exe", "prev")
    /\ UNCHANGED <<next, stage, record, report, after, run, history>>

RecordSwapped ==
    SetPhase("recordSwapped", "swapped", "moveNew") /\ UNCHANGED <<after, history>>

\* A bug to tell apart: the rollback copy goes once the new binary is placed.
MoveNewDropsPrev ==
    /\ Goto("moveNew", "verify")
    /\ next # NoFile
    /\ exe' = next
    /\ next' = NoFile
    /\ prev' = NoFile
    /\ unflushed' = Renamed("next", "exe") \ {"prev"}
    /\ UNCHANGED <<stage, record, report, after, run, history>>

MoveNew ==
    /\ Goto("moveNew", "verify")
    /\ next # NoFile
    /\ exe' = next
    /\ next' = NoFile
    /\ unflushed' = Renamed("next", "exe")
    /\ UNCHANGED <<prev, stage, record, report, after, run, history>>

\* The swapped-in binary checks the drive; a rejection, a timeout and a child
\* that cannot be run all roll back.
Verify ==
    /\ pc = "verify"
    /\ \/ pc' = "recordVerified" /\ UNCHANGED after
       \/ pc' = "restore" /\ after' = "rolled-back"
    /\ UNCHANGED <<files, report, run, unflushed, history>>

RecordVerified ==
    /\ SetPhase("recordVerified", "verified", "dropPrev")
    /\ after' = "done"
    /\ trusted' = exe
    /\ spoilt' = FALSE

-----------------------------------------------------------------------------
(* Clean-up, shared by `converge`, `rollback`, `rollback_staging` and      *)
(* `commit`.                                                               *)

\* A bug to tell apart: the rollback copy is removed, not moved back.
RestoreDeletes ==
    /\ Goto("restore", "dropNext")
    /\ prev # NoFile
    /\ prev' = NoFile
    /\ unflushed' = Removed("prev")
    /\ UNCHANGED <<exe, next, stage, record, report, after, run, history>>

Restore ==
    /\ Goto("restore", "dropNext")
    /\ prev # NoFile
    /\ exe' = prev
    /\ prev' = NoFile
    /\ unflushed' = Renamed("prev", "exe")
    /\ UNCHANGED <<next, stage, record, report, after, run, history>>

DropNext ==
    /\ Goto("dropNext", "dropStage")
    /\ next' = NoFile
    /\ unflushed' = Removed("next")
    /\ UNCHANGED <<exe, prev, stage, record, report, after, run, history>>

DropStage ==
    /\ Goto("dropStage", "dropRecord")
    /\ stage' = "absent"
    /\ UNCHANGED <<exe, prev, next, record, report, after, run, unflushed, history>>

DropPrev ==
    /\ Goto("dropPrev", "dropRecord")
    /\ prev' = NoFile
    /\ unflushed' = Removed("prev")
    /\ UNCHANGED <<exe, next, stage, record, report, after, run, history>>

DropRecord ==
    /\ Goto("dropRecord", IF after = "resolve" THEN "resolve" ELSE "report")
    /\ record' = "none"
    /\ UNCHANGED <<exe, prev, next, stage, report, after, run, unflushed, history>>

Finish ==
    /\ Goto("report", "idle")
    /\ RecordVerdict(after, IF after = "done" THEN archive ELSE running)
    /\ UNCHANGED <<files, after, run, unflushed, history>>

Stop ==
    /\ pc # "idle"
    /\ pc' = "idle"
    /\ UNCHANGED <<files, report, after, run, unflushed, history>>

\* The binary that passed the verification, rather than another copy of its build.
VerifiedCopy == IF prev # NoFile /\ record # "verified" THEN "prev" ELSE "exe"

\* The machine stops, with or without a run: of the binaries that were never
\* synced any may come back torn; what comes back whole has reached the disk.
PowerLoss ==
    /\ pc' = "idle"
    /\ \E torn \in SUBSET unflushed :
          LET Left(name, file) == IF name \in torn THEN TornFile ELSE file
          IN  /\ exe' = Left("exe", exe)
              /\ prev' = Left("prev", prev)
              /\ next' = Left("next", next)
              /\ spoilt' = (spoilt \/ VerifiedCopy \in torn)
    /\ unflushed' = {}
    /\ UNCHANGED <<stage, record, report, after, run, trusted>>

-----------------------------------------------------------------------------

Next ==
    \/ \E b \in Builds : Invoke(b)
    \/ Converge \/ Resolve \/ ProbeLock
    \/ Extract \/ ClearNext \/ Place \/ Unstage \/ RecordStaged
    \/ Preflight \/ EarlyVerify
    \/ ClearPrev \/ MoveOld \/ RecordSwapped \/ MoveNew
    \/ Verify \/ RecordVerified
    \/ Restore \/ DropNext \/ DropStage \/ DropPrev \/ DropRecord
    \/ Finish \/ Stop \/ PowerLoss

Spec == Init /\ [][Next]_vars

-----------------------------------------------------------------------------

\* Every file holds a build or is absent, and the run is at one of its steps.
TypeOK ==
    /\ {exe, prev, next} \subseteq Builds \cup {NoFile, TornFile}
    /\ stage \in {"absent", "present"}
    /\ record \in Phases
    /\ verdict \in Outcomes /\ inPlace \in Builds \cup {NoFile}
    /\ pc \in Steps
    /\ after \in {"resolve", "refused", "rolled-back", "done"}
    /\ archive \in Builds /\ running \in Builds /\ trusted \in Builds
    /\ unflushed \subseteq {"exe", "prev", "next"} /\ spoilt \in BOOLEAN

\* "the invocation converges reality to a clean state (complete or roll back
\* per the phase) before starting anything new" (docs/update.md, section 4):
\* no interruption leaves files that every later run refuses.
RecoveryConverges == pc = "idle" => ~Refuses

\* The shapes the two binaries can have: in place alone, moved aside, and
\* kept as the rollback copy of a binary that is in place.
Settled == exe = VerifiedFile /\ prev = NoFile
MovedAside == exe = NoFile /\ prev = VerifiedFile
Replaced == exe # NoFile /\ prev = VerifiedFile

\* What the record tells about the files, interrupted or not.
RecordTellsFiles ==
    /\ record = "none" => Settled
    /\ record = "staged" => Settled \/ MovedAside
    /\ record = "swapped" => Settled \/ MovedAside \/ Replaced
    /\ record = "verified" => exe = VerifiedFile

\* What the active run knows of them at each of its steps.
StepKnowsFiles ==
    /\ pc \in {"resolve", "probe", "extract", "clearNext", "place", "unstage",
               "recordStaged", "report"} => record = "none"
    /\ pc \in {"preflight", "earlyVerify", "clearPrev", "moveOld"} =>
           record = "staged" /\ Settled
    /\ pc = "recordSwapped" => record = "staged" /\ MovedAside
    /\ pc = "moveNew" => record = "swapped" /\ MovedAside
    /\ pc \in {"verify", "recordVerified", "restore"} =>
           record = "swapped" /\ Replaced
    /\ pc \in {"dropNext", "dropStage"} => record # "none" /\ Settled
    /\ pc = "dropPrev" => record = "verified"
    /\ pc = "dropRecord" => Settled
    /\ pc = "report" => after # "resolve"

\* Only a file that is there has bytes to lose, and the new binary is whole from
\* its placing to its verification: no run outlives a power loss.
BytesFollowFiles ==
    /\ exe = NoFile => "exe" \notin unflushed
    /\ prev = NoFile => "prev" \notin unflushed
    /\ pc \in {"unstage", "recordStaged", "preflight", "earlyVerify", "clearPrev",
               "moveOld", "recordSwapped", "moveNew"} => next = archive
    /\ pc \in {"verify", "recordVerified"} => exe = archive

\* The inductive invariant: the record and the step of the run each bound
\* the shape of the files, so that a run cut short anywhere leaves a record
\* from which `converge` can tell what to undo.
UpdateInv == TypeOK /\ RecordTellsFiles /\ StepKnowsFiles /\ BytesFollowFiles

=============================================================================
