---------------------------- MODULE UpdateState -----------------------------
(* The binaries `wyrd update` moves between the files beside the executable, *)
(* and what it promises about them.                                         *)

CONSTANTS
    Builds,     \* the builds an archive may carry
    NoFile,     \* "no such file"
    TornFile    \* a file whose bytes a power loss left incomplete

ASSUME NoFileIsNoBuild == NoFile \notin Builds
ASSUME TornIsNoBuild == TornFile \notin Builds /\ TornFile # NoFile

VARIABLES
    exe, prev, record,   \* the binary, its rollback copy and the state record
    pc,         \* the step the active run takes next, "idle" without a run
    trusted,    \* history: the last build that passed the verification
    spoilt      \* history: a power loss tore the binary that passed it

\* `converge` gives up on these files and names a manual recovery.
Refuses ==
    \/ record # "none" /\ exe = NoFile /\ prev = NoFile
    \/ record = "swapped" /\ exe # NoFile /\ prev = NoFile
    \/ record = "verified" /\ exe = NoFile

\* The file of the binary that was verified last, torn if a power loss got it.
VerifiedFile == IF spoilt THEN TornFile ELSE trusted

\* swap_first, swap_second, rollback, converge:
\* the last build that passed the verification is on disk at every moment, whole,
\* in place or as the rollback copy, however often runs and recoveries are killed
\* or lose power and whatever else a power loss tears.  One thing alone takes it:
\* a power loss that tears the verified binary itself, whose bytes no step syncs.
TrustedSurvives == ~spoilt => exe = trusted \/ prev = trusted

\* run_verify_child, commit, converge:
\* between runs, an installation without a record has the last verified build
\* in place, or what a power loss left of that very binary: a build that was
\* never verified does not settle, nor does a torn copy of one.
OnlyVerifiedSettles == pc = "idle" /\ record = "none" => exe = VerifiedFile

\* converge: between runs, recovery refuses only over an installation that is already
\* restored: the file in place is the verified binary, no copy was lost.
RefusalIsFalseAlarm ==
    pc = "idle" /\ Refuses => record = "swapped" /\ exe = VerifiedFile
=============================================================================
