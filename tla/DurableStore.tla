---------------------------- MODULE DurableStore ----------------------------
(***************************************************************************)
(* The fact log of one drive directory                                     *)
(* (crates/wyrd-sync/src/durable/store.rs): the LOCK, the commit files     *)
(* commits/<seq>.commit, the CURRENT marker and the eight stages of        *)
(* DurableStore::commit_until, with processes that are killed at any       *)
(* stage, system calls that fail at any stage, and power losses that keep  *)
(* of every unsynced directory entry either the old or the new version.    *)
(*                                                                         *)
(* Abstractions.  A fact batch is a value of Batch (its encoding, sealing  *)
(* under the store key and size ceilings are left out: Batch holds the     *)
(* batches check_commit_fits admits).  The BLAKE3 hash of a commit covers  *)
(* its sequence, its predecessor's hash and its records, so the commit     *)
(* itself stands for its hash.  DRIVE and store-key.wrap are in place.     *)
(* MaxSeq stands for u64::MAX.                                             *)
(***************************************************************************)
EXTENDS Naturals

CONSTANTS
    Proc,            \* processes that may open the directory
    Batch,           \* non-empty fact batches
    MaxSeq,          \* the last representable sequence number
    NoProc,          \* the lock is free
    Zeros            \* the all-zero hash before the first commit

ASSUME MaxSeqAssumption == MaxSeq \in Nat
ASSUME NoProcAssumption == NoProc \notin Proc
ASSUME ZerosAssumption == Zeros # "torn"

VARIABLES
    lock,            \* holder of the kernel lock on LOCK
    handle,          \* per process: the open DurableStore's current and last_hash
    stage,           \* per process: where its commit_until call stands
    new,             \* the commit the lock holder is writing
    tmpSynced,       \* <seq>.commit.tmp was fsynced since it was written
    curTmpSynced,    \* CURRENT.tmp was fsynced since it was written
    commits,         \* <seq>.commit as the running system reads it
    commitsMay,      \* what a power loss may leave at <seq>.commit
    current,         \* CURRENT as the running system reads it
    currentMay,      \* what a power loss may leave at CURRENT
    acked            \* CURRENT as of the last commit that returned Ok

disk  == <<commits, commitsMay, current, currentMay>>
temps == <<new, tmpSynced, curTmpSynced>>
vars  == <<lock, handle, stage, temps, disk, acked>>

Seqs == 1..MaxSeq

\* No file of that name, and a file whose content was never synced; neither
\* decodes as a commit or as a marker.
Absent == [seq |-> 0]
Torn == [seq |-> 0, hash |-> "torn"]

\* A missing CURRENT reads as sequence 0 with the zero hash.
Fresh == [seq |-> 0, hash |-> Zeros]

Stages == {"closed", "idle", "written", "synced", "renamed", "dirSynced",
           "curWritten", "curSynced", "curRenamed"}

Init ==
    /\ lock = NoProc
    /\ handle = [p \in Proc |-> Fresh]
    /\ stage = [p \in Proc |-> "closed"]
    /\ new = Absent
    /\ tmpSynced = FALSE
    /\ curTmpSynced = FALSE
    /\ commits = [s \in Seqs |-> Absent]
    /\ commitsMay = [s \in Seqs |-> {Absent}]
    /\ current = Fresh
    /\ currentMay = {Fresh}
    /\ acked = Fresh

-----------------------------------------------------------------------------
(* open, drop, load                                                        *)

\* Mutation: open without taking the lock.
OpenUnlocked(p) ==
    /\ stage[p] = "closed"
    /\ lock' = p
    /\ handle' = [handle EXCEPT ![p] = current]
    /\ stage' = [stage EXCEPT ![p] = "idle"]
    /\ UNCHANGED <<temps, disk, acked>>

\* open: the lock first (StoreLocked otherwise), then CURRENT is trusted.
Open(p) ==
    /\ stage[p] = "closed"
    /\ lock = NoProc
    /\ lock' = p
    /\ handle' = [handle EXCEPT ![p] = current]
    /\ stage' = [stage EXCEPT ![p] = "idle"]
    /\ UNCHANGED <<temps, disk, acked>>

\* Dropping the store releases the lock.
Close(p) ==
    /\ stage[p] = "idle"
    /\ lock' = NoProc
    /\ stage' = [stage EXCEPT ![p] = "closed"]
    /\ UNCHANGED <<handle, temps, disk, acked>>

\* load replays c.seq commits of the files f under the marker c: every file is
\* there, decodes for its sequence and links to its predecessor, and the last
\* one is the tip the marker names.
HashBefore(f, s) == IF s = 1 THEN Zeros ELSE f[s - 1]

Loads(c, f) ==
    /\ \A s \in 1..c.seq :
          /\ f[s].seq = s
          /\ f[s].prev = HashBefore(f, s)
    /\ c.hash = HashBefore(f, c.seq + 1)

-----------------------------------------------------------------------------
(* commit_until, one action per stage                                      *)

\* Refresh against disk, then name the next commit.
Refreshed(p) == IF current.seq > handle[p].seq THEN current ELSE handle[p]

WriteTemp(p, b) ==
    /\ stage[p] = "idle"
    /\ Refreshed(p).seq < MaxSeq
    /\ handle' = [handle EXCEPT ![p] = Refreshed(p)]
    /\ new' = [seq |-> Refreshed(p).seq + 1, prev |-> Refreshed(p).hash, facts |-> b]
    /\ tmpSynced' = FALSE
    /\ stage' = [stage EXCEPT ![p] = "written"]
    /\ UNCHANGED <<lock, curTmpSynced, disk, acked>>

FsyncTemp(p) ==
    /\ stage[p] = "written"
    /\ tmpSynced' = TRUE
    /\ stage' = [stage EXCEPT ![p] = "synced"]
    /\ UNCHANGED <<lock, handle, new, curTmpSynced, disk, acked>>

\* The rename replaces whatever orphan a crashed predecessor left there.
RenameCommit(p) ==
    /\ stage[p] = "synced"
    /\ commits' = [commits EXCEPT ![new.seq] = new]
    /\ commitsMay' = [commitsMay EXCEPT ![new.seq] =
                         @ \cup {new} \cup (IF tmpSynced THEN {} ELSE {Torn})]
    /\ stage' = [stage EXCEPT ![p] = "renamed"]
    /\ UNCHANGED <<lock, handle, temps, current, currentMay, acked>>

\* Mutation: the commits directory is not synced before CURRENT advances.
FsyncCommitDirSkipped(p) ==
    /\ stage[p] = "renamed"
    /\ stage' = [stage EXCEPT ![p] = "dirSynced"]
    /\ UNCHANGED <<lock, handle, temps, disk, acked>>

FsyncCommitDir(p) ==
    /\ stage[p] = "renamed"
    /\ commitsMay' = [s \in Seqs |-> commitsMay[s] \cap {commits[s], Torn}]
    /\ stage' = [stage EXCEPT ![p] = "dirSynced"]
    /\ UNCHANGED <<lock, handle, temps, commits, current, currentMay, acked>>

WriteCurrentTemp(p) ==
    /\ stage[p] = "dirSynced"
    /\ curTmpSynced' = FALSE
    /\ stage' = [stage EXCEPT ![p] = "curWritten"]
    /\ UNCHANGED <<lock, handle, new, tmpSynced, disk, acked>>

FsyncCurrentTemp(p) ==
    /\ stage[p] = "curWritten"
    /\ curTmpSynced' = TRUE
    /\ stage' = [stage EXCEPT ![p] = "curSynced"]
    /\ UNCHANGED <<lock, handle, new, tmpSynced, disk, acked>>

\* The commit point: CURRENT names the new commit and the handle follows.
Marker(c) == [seq |-> c.seq, hash |-> c]

RenameCurrent(p) ==
    /\ stage[p] = "curSynced"
    /\ current' = Marker(new)
    /\ currentMay' = currentMay \cup {Marker(new)} \cup (IF curTmpSynced THEN {} ELSE {Torn})
    /\ handle' = [handle EXCEPT ![p] = Marker(new)]
    /\ stage' = [stage EXCEPT ![p] = "curRenamed"]
    /\ UNCHANGED <<lock, temps, commits, commitsMay, acked>>

\* Mutation: Ok is returned without syncing the drive directory.
FsyncDirSkipped(p) ==
    /\ stage[p] = "curRenamed"
    /\ acked' = handle[p]
    /\ stage' = [stage EXCEPT ![p] = "idle"]
    /\ UNCHANGED <<lock, handle, temps, disk>>

\* The directory is synced and the call returns Ok.
FsyncDir(p) ==
    /\ stage[p] = "curRenamed"
    /\ currentMay' = currentMay \cap {current, Torn}
    /\ acked' = handle[p]
    /\ stage' = [stage EXCEPT ![p] = "idle"]
    /\ UNCHANGED <<lock, handle, temps, commits, commitsMay, current>>

-----------------------------------------------------------------------------
(* faults                                                                  *)

\* Mutation: a failure of the last fsync is reported as Ok.
IoErrorSwallowed(p) ==
    /\ stage[p] \notin {"closed", "idle"}
    /\ stage' = [stage EXCEPT ![p] = "idle"]
    /\ acked' = IF stage[p] = "curRenamed" THEN handle[p] ELSE acked
    /\ UNCHANGED <<lock, handle, temps, disk>>

\* The system call of the next stage fails: the call returns Err there and
\* leaves the handle as it is (advanced, when only the last fsync failed).
IoError(p) ==
    /\ stage[p] \notin {"closed", "idle"}
    /\ stage' = [stage EXCEPT ![p] = "idle"]
    /\ UNCHANGED <<lock, handle, temps, disk, acked>>

\* The process dies; the kernel drops its lock, the page cache stays.
Kill(p) ==
    /\ stage[p] # "closed"
    /\ lock' = NoProc
    /\ stage' = [stage EXCEPT ![p] = "closed"]
    /\ UNCHANGED <<handle, temps, disk, acked>>

\* Power loss: every process dies and each directory entry comes back as one
\* of the versions that may have reached the disk.
PowerLoss ==
    /\ lock' = NoProc
    /\ stage' = [p \in Proc |-> "closed"]
    /\ \E f \in [Seqs -> UNION {commitsMay[s] : s \in Seqs}], c \in currentMay :
          /\ \A s \in Seqs : f[s] \in commitsMay[s]
          /\ commits' = f
          /\ commitsMay' = [s \in Seqs |-> {f[s]}]
          /\ current' = c
          /\ currentMay' = {c}
    /\ UNCHANGED <<handle, temps, acked>>

Step(p) ==
    \/ Open(p) \/ Close(p)
    \/ \E b \in Batch : WriteTemp(p, b)
    \/ FsyncTemp(p) \/ RenameCommit(p) \/ FsyncCommitDir(p)
    \/ WriteCurrentTemp(p) \/ FsyncCurrentTemp(p) \/ RenameCurrent(p) \/ FsyncDir(p)
    \/ IoError(p) \/ Kill(p)

Next == (\E p \in Proc : Step(p)) \/ PowerLoss

Spec == Init /\ [][Next]_vars
-----------------------------------------------------------------------------
(* properties                                                              *)

IsMarker(c) == c = [seq |-> c.seq, hash |-> c.hash] /\ c.seq \in 0..MaxSeq

\* The variables have their shapes: the handle, the marker and the
\* acknowledged marker are CURRENT values, stages are commit_until's stages,
\* and a file is always one of the versions it may have on disk.
TypeOK ==
    /\ lock \in Proc \cup {NoProc}
    /\ stage \in [Proc -> Stages]
    /\ handle = [p \in Proc |-> handle[p]] /\ \A p \in Proc : IsMarker(handle[p])
    /\ tmpSynced \in BOOLEAN /\ curTmpSynced \in BOOLEAN
    /\ commits = [s \in Seqs |-> commits[s]]
    /\ commitsMay = [s \in Seqs |-> commitsMay[s]]
    /\ \A s \in Seqs : commits[s] \in commitsMay[s]
    /\ current \in currentMay
    /\ IsMarker(current) /\ IsMarker(acked)

\* What a power loss at this moment can leave on disk.
Survivors == {f \in [Seqs -> UNION {commitsMay[s] : s \in Seqs}] :
                 \A s \in Seqs : f[s] \in commitsMay[s]}

\* Whatever was killed, failed or lost power, and at whichever stage of a
\* commit, load finds an intact chain up to CURRENT: it never reports
\* MissingCommit, CorruptCommit or CorruptCurrent, now or after a power loss.
NeverDamaged ==
    /\ Loads(current, commits)
    /\ \A c \in currentMay : \A f \in Survivors : Loads(c, f)

\* A commit call that returned Ok is never undone: every state a power loss can
\* leave still replays the acknowledged commit, under the same hash, at its
\* sequence.
AckedSurvives ==
    \A c \in currentMay \cup {current} :
        /\ acked.seq <= c.seq
        /\ \A f \in Survivors : acked.hash = HashBefore(f, acked.seq + 1)

\* No step rewrites a commit at or below CURRENT, by a rename over it or by
\* resurrecting an orphan: between two markers only the tail is replaced.
CommittedImmutable ==
    [][\A s \in 1..current.seq : s <= current'.seq => commits'[s] = commits[s]]_vars

\* The fact log implements the abstract log: RenameCurrent is the one commit
\* point, the return of commit is the acknowledgement, a power loss truncates.
Log == INSTANCE AtomicLog WITH
    log   <- [s \in 1..current.seq |-> commits[s].facts],
    acked <- acked.seq

ImplementsAtomicLog == Log!Spec
=============================================================================
