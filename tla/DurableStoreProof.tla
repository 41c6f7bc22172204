-------------------------- MODULE DurableStoreProof --------------------------
(***************************************************************************)
(* Proofs about DurableStore for any number of processes, batches and      *)
(* commits: the inductive invariant, and from it the integrity,            *)
(* durability and immutability of the fact log and its refinement of       *)
(* AtomicLog.                                                              *)
(***************************************************************************)
EXTENDS DurableStore, SequenceTheorems, TLAPS

AfterRename  == {"renamed", "dirSynced", "curWritten", "curSynced"}
AfterDirSync == {"dirSynced", "curWritten", "curSynced"}
InFlight     == {"written", "synced"} \cup AfterRename

\* The lock holder is the only open store, and its handle is CURRENT.
OneWriter ==
    \A p \in Proc : stage[p] # "closed" => lock = p /\ handle[p] = current

\* Commits up to CURRENT are linked, synced and well formed.
ChainDurable ==
    /\ \A s \in 1..current.seq :
          /\ commits[s].seq = s
          /\ commits[s].prev = HashBefore(commits, s)
          /\ commits[s].facts \in Batch
          /\ commitsMay[s] = {commits[s]}
    /\ \A s \in Seqs : Torn \notin commitsMay[s]

\* Every marker a power loss may leave names a commit of that chain, at or
\* above the acknowledged one.
MarkersOnChain ==
    /\ \A c \in currentMay :
          /\ IsMarker(c)
          /\ acked.seq <= c.seq /\ c.seq <= current.seq
          /\ c.hash = HashBefore(commits, c.seq + 1)
    /\ acked.hash = HashBefore(commits, acked.seq + 1)

\* What each stage of the commit in flight has already secured.
CommitInFlight ==
    \A p \in Proc :
        /\ stage[p] \in InFlight =>
              /\ new.seq = current.seq + 1
              /\ new.seq \in Seqs
              /\ new.prev = current.hash
              /\ new.facts \in Batch
        /\ stage[p] = "synced" => tmpSynced
        /\ stage[p] \in AfterRename => commits[new.seq] = new
        /\ stage[p] \in AfterDirSync => commitsMay[new.seq] = {new}
        /\ stage[p] = "curSynced" => curTmpSynced

IInv == TypeOK /\ OneWriter /\ ChainDurable /\ MarkersOnChain /\ CommitInFlight

-----------------------------------------------------------------------------

\* An empty directory satisfies the invariant.
LEMMA InitIInv == Init => IInv
<1>. SUFFICES ASSUME Init PROVE IInv
  OBVIOUS
<1>. USE MaxSeqAssumption, NoProcAssumption DEF Init, Fresh, Absent, Torn, Seqs
<1>1. 1..0 = {}
  OBVIOUS
<1>2. TypeOK
  <2>1. IsMarker(current) /\ IsMarker(acked) /\ \A p \in Proc : IsMarker(handle[p])
    BY DEF IsMarker
  <2>2. stage \in [Proc -> Stages]
    BY DEF Stages
  <2>. QED  BY <2>1, <2>2 DEF TypeOK
<1>3. OneWriter
  BY DEF OneWriter
<1>4. ChainDurable
  <2>1. [seq |-> 0] # [seq |-> 0, hash |-> "torn"]
    <3>1. "hash" \in DOMAIN [seq |-> 0, hash |-> "torn"] /\ "hash" \notin DOMAIN [seq |-> 0]
      OBVIOUS
    <3>. QED  BY <3>1
  <2>. QED  BY <1>1, <2>1 DEF ChainDurable
<1>5. MarkersOnChain
  BY DEF MarkersOnChain, IsMarker, HashBefore
<1>6. CommitInFlight
  BY DEF CommitInFlight, InFlight, AfterRename, AfterDirSync
<1>. QED  BY <1>2, <1>3, <1>4, <1>5, <1>6 DEF IInv

\* Open preserves the invariant.
LEMMA OpenKeeps ==
  ASSUME IInv, NEW p \in Proc, Open(p)
  PROVE  IInv'
<1>. USE MaxSeqAssumption, NoProcAssumption, ZerosAssumption DEF IInv, Open, disk, temps, IsMarker, Seqs
<1>1. TypeOK'
  BY DEF TypeOK, OneWriter, Stages
<1>2. OneWriter'
  BY DEF OneWriter, TypeOK
<1>3. ChainDurable'
  BY DEF ChainDurable, HashBefore
<1>4. MarkersOnChain'
  BY DEF MarkersOnChain, HashBefore
<1>5. CommitInFlight'
  BY DEF CommitInFlight, OneWriter, TypeOK, InFlight, AfterRename, AfterDirSync
<1>. QED  BY <1>1, <1>2, <1>3, <1>4, <1>5

\* Close preserves the invariant.
LEMMA CloseKeeps ==
  ASSUME IInv, NEW p \in Proc, Close(p)
  PROVE  IInv'
<1>. USE MaxSeqAssumption, NoProcAssumption, ZerosAssumption DEF IInv, Close, disk, temps, IsMarker, Seqs
<1>1. TypeOK'
  BY DEF TypeOK, OneWriter, Stages
<1>2. OneWriter'
  BY DEF OneWriter, TypeOK
<1>3. ChainDurable'
  BY DEF ChainDurable, HashBefore
<1>4. MarkersOnChain'
  BY DEF MarkersOnChain, HashBefore
<1>5. CommitInFlight'
  BY DEF CommitInFlight, OneWriter, TypeOK, InFlight, AfterRename, AfterDirSync
<1>. QED  BY <1>1, <1>2, <1>3, <1>4, <1>5

\* FsyncTemp preserves the invariant.
LEMMA FsyncTempKeeps ==
  ASSUME IInv, NEW p \in Proc, FsyncTemp(p)
  PROVE  IInv'
<1>. USE MaxSeqAssumption, NoProcAssumption, ZerosAssumption DEF IInv, FsyncTemp, disk, temps, IsMarker, Seqs
<1>1. TypeOK'
  BY DEF TypeOK, OneWriter, Stages
<1>2. OneWriter'
  BY DEF OneWriter, TypeOK
<1>3. ChainDurable'
  BY DEF ChainDurable, HashBefore
<1>4. MarkersOnChain'
  BY DEF MarkersOnChain, HashBefore
<1>5. CommitInFlight'
  BY DEF CommitInFlight, OneWriter, TypeOK, InFlight, AfterRename, AfterDirSync
<1>. QED  BY <1>1, <1>2, <1>3, <1>4, <1>5

\* RenameCommit preserves the invariant.
LEMMA RenameCommitKeeps ==
  ASSUME IInv, NEW p \in Proc, RenameCommit(p)
  PROVE  IInv'
<1>. USE MaxSeqAssumption, NoProcAssumption, ZerosAssumption DEF IInv, RenameCommit, disk, temps, IsMarker, Seqs
<1>1. TypeOK'
  BY DEF TypeOK, OneWriter, Stages
<1>2. OneWriter'
  BY DEF OneWriter, TypeOK
<1>a. /\ new.seq = current.seq + 1 /\ new.seq \in Seqs /\ current.seq \in Nat
      /\ new.prev = current.hash /\ new.facts \in Batch /\ tmpSynced
  BY DEF TypeOK, CommitInFlight, InFlight
<1>b. new # Torn
  BY <1>a DEF Torn
<1>c. \A s \in 1..current.seq : commits'[s] = commits[s] /\ commitsMay'[s] = commitsMay[s]
  BY <1>a DEF TypeOK
<1>d. \A s \in 1..(current.seq + 1) : HashBefore(commits', s) = HashBefore(commits, s)
  BY <1>a, <1>c DEF HashBefore
<1>e. UNCHANGED <<current, currentMay, acked>>
  OBVIOUS
<1>f. \A s \in Seqs : Torn \notin commitsMay'[s]
  BY <1>a, <1>b DEF TypeOK, ChainDurable
<1>. HIDE DEF RenameCommit
<1>3. ChainDurable'
  <2>2. ASSUME NEW s \in 1..current.seq
        PROVE  /\ commits'[s].seq = s /\ commits'[s].prev = HashBefore(commits', s)
               /\ commits'[s].facts \in Batch /\ commitsMay'[s] = {commits'[s]}
    <3>1. commits'[s] = commits[s] /\ commitsMay'[s] = commitsMay[s]
          /\ HashBefore(commits', s) = HashBefore(commits, s)
      BY <1>a, <1>c, <1>d
    <3>. QED  BY <3>1 DEF ChainDurable
  <2>. QED  BY <1>e, <1>f, <2>2 DEF ChainDurable
<1>4. MarkersOnChain'
  <2>1. ASSUME NEW c \in currentMay
        PROVE  HashBefore(commits', c.seq + 1) = HashBefore(commits, c.seq + 1)
    BY <1>a, <1>d DEF MarkersOnChain
  <2>2. HashBefore(commits', acked.seq + 1) = HashBefore(commits, acked.seq + 1)
    BY <1>a, <1>d DEF MarkersOnChain, TypeOK
  <2>. QED  BY <1>e, <2>1, <2>2 DEF MarkersOnChain
<1>. USE DEF RenameCommit
<1>5. CommitInFlight'
  BY DEF CommitInFlight, OneWriter, TypeOK, InFlight, AfterRename, AfterDirSync
<1>. QED  BY <1>1, <1>2, <1>3, <1>4, <1>5

\* FsyncCommitDir preserves the invariant.
LEMMA FsyncCommitDirKeeps ==
  ASSUME IInv, NEW p \in Proc, FsyncCommitDir(p)
  PROVE  IInv'
<1>. USE MaxSeqAssumption, NoProcAssumption, ZerosAssumption DEF IInv, FsyncCommitDir, disk, temps, IsMarker, Seqs
<1>1. TypeOK'
  BY DEF TypeOK, OneWriter, Stages
<1>2. OneWriter'
  BY DEF OneWriter, TypeOK
<1>3. ChainDurable'
  <2>1. \A s \in 1..current.seq : s \in Seqs /\ commitsMay'[s] = {commits[s]}
    BY DEF TypeOK, ChainDurable
  <2>. QED  BY <2>1 DEF ChainDurable, HashBefore
<1>4. MarkersOnChain'
  BY DEF MarkersOnChain, HashBefore
<1>5. CommitInFlight'
  BY DEF CommitInFlight, OneWriter, TypeOK, InFlight, AfterRename, AfterDirSync, ChainDurable, Torn
<1>. QED  BY <1>1, <1>2, <1>3, <1>4, <1>5

\* WriteCurrentTemp preserves the invariant.
LEMMA WriteCurrentTempKeeps ==
  ASSUME IInv, NEW p \in Proc, WriteCurrentTemp(p)
  PROVE  IInv'
<1>. USE MaxSeqAssumption, NoProcAssumption, ZerosAssumption DEF IInv, WriteCurrentTemp, disk, temps, IsMarker, Seqs
<1>1. TypeOK'
  BY DEF TypeOK, OneWriter, Stages
<1>2. OneWriter'
  BY DEF OneWriter, TypeOK
<1>3. ChainDurable'
  BY DEF ChainDurable, HashBefore
<1>4. MarkersOnChain'
  BY DEF MarkersOnChain, HashBefore
<1>5. CommitInFlight'
  <2>1. \A q \in Proc : stage'[q] \in AfterDirSync <=> (q = p \/ stage[q] \in AfterDirSync)
    BY DEF TypeOK, AfterDirSync
  <2>2. \A q \in Proc : q # p => stage[q] = "closed"
    BY DEF OneWriter
  <2>. QED  BY <2>1, <2>2 DEF TypeOK, CommitInFlight, InFlight, AfterRename, AfterDirSync
<1>. QED  BY <1>1, <1>2, <1>3, <1>4, <1>5

\* FsyncCurrentTemp preserves the invariant.
LEMMA FsyncCurrentTempKeeps ==
  ASSUME IInv, NEW p \in Proc, FsyncCurrentTemp(p)
  PROVE  IInv'
<1>. USE MaxSeqAssumption, NoProcAssumption, ZerosAssumption DEF IInv, FsyncCurrentTemp, disk, temps, IsMarker, Seqs
<1>1. TypeOK'
  BY DEF TypeOK, OneWriter, Stages
<1>2. OneWriter'
  BY DEF OneWriter, TypeOK
<1>3. ChainDurable'
  BY DEF ChainDurable, HashBefore
<1>4. MarkersOnChain'
  BY DEF MarkersOnChain, HashBefore
<1>5. CommitInFlight'
  BY DEF CommitInFlight, OneWriter, TypeOK, InFlight, AfterRename, AfterDirSync
<1>. QED  BY <1>1, <1>2, <1>3, <1>4, <1>5

\* RenameCurrent preserves the invariant.
LEMMA RenameCurrentKeeps ==
  ASSUME IInv, NEW p \in Proc, RenameCurrent(p)
  PROVE  IInv'
<1>. USE MaxSeqAssumption, NoProcAssumption, ZerosAssumption DEF IInv, RenameCurrent, disk, temps, IsMarker, Seqs, Marker
<1>a. /\ new.seq = current.seq + 1 /\ new.seq \in Seqs /\ current.seq \in Nat
      /\ new.prev = current.hash /\ new.facts \in Batch /\ curTmpSynced
      /\ commits[new.seq] = new /\ commitsMay[new.seq] = {new}
  <2>1. stage[p] = "curSynced" /\ stage[p] \in InFlight
        /\ stage[p] \in AfterRename /\ stage[p] \in AfterDirSync
    BY DEF InFlight, AfterRename, AfterDirSync
  <2>2. curTmpSynced
    BY <2>1, Zenon DEF CommitInFlight
  <2>3. new.seq = current.seq + 1 /\ new.seq \in Seqs /\ new.prev = current.hash /\ new.facts \in Batch
    BY <2>1 DEF CommitInFlight
  <2>4. commits[new.seq] = new /\ commitsMay[new.seq] = {new}
    BY <2>1 DEF CommitInFlight
  <2>5. current.seq \in Nat
    BY DEF TypeOK
  <2>. QED  BY <2>2, <2>3, <2>4, <2>5
<1>b. current' = [seq |-> new.seq, hash |-> new] /\ currentMay' = currentMay \cup {current'}
  BY <1>a
<1>c. IsMarker(current') /\ current'.seq = current.seq + 1
  BY <1>a, <1>b
<1>1. TypeOK'
  <2>1. handle' = [q \in Proc |-> handle'[q]] /\ \A q \in Proc : IsMarker(handle'[q])
    BY <1>b, <1>c DEF TypeOK
  <2>. QED  BY <1>b, <1>c, <2>1 DEF TypeOK, Stages
<1>2. OneWriter'
  BY DEF OneWriter, TypeOK
<1>3. ChainDurable'
  <2>1. current.hash = HashBefore(commits, new.seq)
    BY <1>a DEF MarkersOnChain, TypeOK
  <2>2. \A s \in 1..new.seq : s = new.seq \/ s \in 1..current.seq
    BY <1>a
  <2>. QED  BY <1>a, <1>b, <2>1, <2>2 DEF ChainDurable, HashBefore
<1>4. MarkersOnChain'
  <2>1. current'.hash = HashBefore(commits, current'.seq + 1)
    BY <1>a, <1>b DEF HashBefore
  <2>2. acked.seq <= current'.seq
    BY <1>a, <1>c DEF MarkersOnChain, TypeOK
  <2>3. ASSUME NEW c \in currentMay
        PROVE  IsMarker(c) /\ acked.seq <= c.seq /\ c.seq <= current'.seq
               /\ c.hash = HashBefore(commits, c.seq + 1)
    BY <1>a, <1>c DEF MarkersOnChain
  <2>. QED  BY <1>b, <1>c, <2>1, <2>2, <2>3 DEF MarkersOnChain
<1>5. CommitInFlight'
  BY DEF CommitInFlight, OneWriter, TypeOK, InFlight, AfterRename, AfterDirSync
<1>. QED  BY <1>1, <1>2, <1>3, <1>4, <1>5

\* FsyncDir preserves the invariant.
LEMMA FsyncDirKeeps ==
  ASSUME IInv, NEW p \in Proc, FsyncDir(p)
  PROVE  IInv'
<1>. USE MaxSeqAssumption, NoProcAssumption, ZerosAssumption DEF IInv, FsyncDir, disk, temps, IsMarker, Seqs
<1>1. TypeOK'
  BY DEF TypeOK, OneWriter, Stages
<1>2. OneWriter'
  BY DEF OneWriter, TypeOK
<1>3. ChainDurable'
  BY DEF ChainDurable, HashBefore
<1>4. MarkersOnChain'
  <2>1. handle[p] = current /\ current \in currentMay
    BY DEF OneWriter, TypeOK
  <2>2. Torn \notin currentMay
    BY DEF MarkersOnChain, HashBefore, Torn
  <2>3. currentMay' = {current}
    BY <2>1, <2>2
  <2>. QED  BY <2>1, <2>3 DEF MarkersOnChain, HashBefore, TypeOK
<1>5. CommitInFlight'
  BY DEF CommitInFlight, OneWriter, TypeOK, InFlight, AfterRename, AfterDirSync
<1>. QED  BY <1>1, <1>2, <1>3, <1>4, <1>5

\* IoError preserves the invariant.
LEMMA IoErrorKeeps ==
  ASSUME IInv, NEW p \in Proc, IoError(p)
  PROVE  IInv'
<1>. USE MaxSeqAssumption, NoProcAssumption, ZerosAssumption DEF IInv, IoError, disk, temps, IsMarker, Seqs
<1>1. TypeOK'
  BY DEF TypeOK, OneWriter, Stages
<1>2. OneWriter'
  BY DEF OneWriter, TypeOK
<1>3. ChainDurable'
  BY DEF ChainDurable, HashBefore
<1>4. MarkersOnChain'
  BY DEF MarkersOnChain, HashBefore
<1>5. CommitInFlight'
  BY DEF CommitInFlight, OneWriter, TypeOK, InFlight, AfterRename, AfterDirSync
<1>. QED  BY <1>1, <1>2, <1>3, <1>4, <1>5

\* Kill preserves the invariant.
LEMMA KillKeeps ==
  ASSUME IInv, NEW p \in Proc, Kill(p)
  PROVE  IInv'
<1>. USE MaxSeqAssumption, NoProcAssumption, ZerosAssumption DEF IInv, Kill, disk, temps, IsMarker, Seqs
<1>1. TypeOK'
  BY DEF TypeOK, OneWriter, Stages
<1>2. OneWriter'
  BY DEF OneWriter, TypeOK
<1>3. ChainDurable'
  BY DEF ChainDurable, HashBefore
<1>4. MarkersOnChain'
  BY DEF MarkersOnChain, HashBefore
<1>5. CommitInFlight'
  BY DEF CommitInFlight, OneWriter, TypeOK, InFlight, AfterRename, AfterDirSync
<1>. QED  BY <1>1, <1>2, <1>3, <1>4, <1>5

\* WriteTemp preserves the invariant.
LEMMA WriteTempKeeps ==
  ASSUME IInv, NEW p \in Proc, NEW b \in Batch, WriteTemp(p, b)
  PROVE  IInv'
<1>. USE MaxSeqAssumption, NoProcAssumption, ZerosAssumption DEF IInv, WriteTemp, disk, temps, IsMarker, Seqs, Refreshed
<1>1. TypeOK'
  BY DEF TypeOK, OneWriter, Stages
<1>2. OneWriter'
  BY DEF OneWriter, TypeOK
<1>3. ChainDurable'
  BY DEF ChainDurable, HashBefore
<1>4. MarkersOnChain'
  BY DEF MarkersOnChain, HashBefore
<1>5. CommitInFlight'
  <2>1. Refreshed(p) = current
    BY DEF OneWriter
  <2>2. \A q \in Proc : q # p => stage'[q] = "closed"
    BY DEF OneWriter, TypeOK
  <2>3. stage'[p] = "written"
    BY DEF TypeOK
  <2>4. new' = [seq |-> current.seq + 1, prev |-> current.hash, facts |-> b]
    BY <2>1
  <2>5. new'.seq = current.seq + 1 /\ new'.seq \in Seqs /\ new'.prev = current.hash /\ new'.facts \in Batch
    BY <2>1, <2>4 DEF TypeOK
  <2>. QED  BY <2>2, <2>3, <2>5 DEF CommitInFlight, InFlight, AfterRename, AfterDirSync
<1>. QED  BY <1>1, <1>2, <1>3, <1>4, <1>5

\* The versions a power loss can leave agree with the visible files on every
\* commit up to CURRENT, because those entries were synced.
LEMMA SurvivorsAgree ==
  ASSUME IInv, NEW f, \A s \in Seqs : f[s] \in commitsMay[s]
  PROVE  /\ \A s \in 1..current.seq : f[s] = commits[s]
         /\ \A s \in 1..(current.seq + 1) : HashBefore(f, s) = HashBefore(commits, s)
<1>1. current.seq \in Nat /\ 1..current.seq \subseteq Seqs
  BY MaxSeqAssumption DEF IInv, TypeOK, IsMarker, Seqs
<1>2. \A s \in 1..current.seq : f[s] = commits[s]
  BY <1>1 DEF IInv, ChainDurable
<1>. QED  BY <1>1, <1>2 DEF HashBefore

\* A power loss preserves the invariant.
LEMMA PowerLossKeeps ==
  ASSUME IInv, PowerLoss
  PROVE  IInv'
<1>1. PICK f \in [Seqs -> UNION {commitsMay[s] : s \in Seqs}], c \in currentMay :
          /\ \A s \in Seqs : f[s] \in commitsMay[s]
          /\ commits' = f
          /\ commitsMay' = [s \in Seqs |-> {f[s]}]
          /\ current' = c
          /\ currentMay' = {c}
  BY DEF PowerLoss
<1>2. /\ \A s \in 1..current.seq : f[s] = commits[s]
      /\ \A s \in 1..(current.seq + 1) : HashBefore(f, s) = HashBefore(commits, s)
  BY <1>1, SurvivorsAgree
<1>3. /\ IsMarker(c) /\ acked.seq <= c.seq /\ c.seq <= current.seq
      /\ c.hash = HashBefore(commits, c.seq + 1)
      /\ current.seq \in Nat /\ acked.seq \in Nat /\ c.seq \in Nat
      /\ 1..c.seq \subseteq 1..current.seq
  <2>1. /\ IsMarker(c) /\ acked.seq <= c.seq /\ c.seq <= current.seq
        /\ c.hash = HashBefore(commits, c.seq + 1)
    BY DEF IInv, MarkersOnChain
  <2>2. current.seq \in Nat /\ acked.seq \in Nat /\ c.seq \in Nat
    BY <2>1, MaxSeqAssumption DEF IInv, TypeOK, IsMarker
  <2>. QED  BY <2>1, <2>2
<1>4. /\ lock' = NoProc /\ stage' = [p \in Proc |-> "closed"]
      /\ UNCHANGED <<handle, new, tmpSynced, curTmpSynced, acked>>
  BY DEF PowerLoss, temps
<1>5. TypeOK'
  <2>1. stage' \in [Proc -> Stages]
    BY <1>4 DEF Stages
  <2>2. commits' = [s \in Seqs |-> commits'[s]] /\ commitsMay' = [s \in Seqs |-> commitsMay'[s]]
        /\ \A s \in Seqs : commits'[s] \in commitsMay'[s]
    BY <1>1
  <2>3. IsMarker(current') /\ current' \in currentMay' /\ IsMarker(acked')
    BY <1>1, <1>3, <1>4 DEF IInv, TypeOK
  <2>. QED  BY <1>4, <2>1, <2>2, <2>3 DEF IInv, TypeOK
<1>6. OneWriter'
  BY <1>4 DEF OneWriter
<1>7. ChainDurable'
  <2>1. ASSUME NEW s \in 1..c.seq
        PROVE  f[s].seq = s /\ f[s].prev = HashBefore(f, s) /\ f[s].facts \in Batch
    <3>1. s \in 1..current.seq /\ s \in 1..(current.seq + 1)
      BY <1>3
    <3>. QED  BY <1>2, <3>1 DEF IInv, ChainDurable
  <2>2. \A s \in Seqs : Torn \notin {f[s]}
    BY <1>1 DEF IInv, ChainDurable
  <2>3. \A s \in 1..c.seq : s \in Seqs
    BY <1>3, MaxSeqAssumption DEF IsMarker, Seqs
  <2>. QED  BY <1>1, <2>1, <2>2, <2>3 DEF ChainDurable
<1>8. MarkersOnChain'
  <2>1. HashBefore(f, c.seq + 1) = HashBefore(commits, c.seq + 1)
        /\ HashBefore(f, acked.seq + 1) = HashBefore(commits, acked.seq + 1)
    BY <1>2, <1>3
  <2>2. acked.hash = HashBefore(commits, acked.seq + 1)
    BY DEF IInv, MarkersOnChain
  <2>. QED  BY <1>1, <1>3, <1>4, <2>1, <2>2 DEF MarkersOnChain
<1>9. CommitInFlight'
  BY <1>4 DEF CommitInFlight, InFlight, AfterRename, AfterDirSync
<1>. QED  BY <1>5, <1>6, <1>7, <1>8, <1>9 DEF IInv

\* Every step of the store, of its processes and of the machine preserves the
\* invariant.
LEMMA StepIInv == IInv /\ [Next]_vars => IInv'
<1>. SUFFICES ASSUME IInv, [Next]_vars PROVE IInv'
  OBVIOUS
<1>1. CASE PowerLoss
  BY <1>1, PowerLossKeeps
<1>2. ASSUME NEW p \in Proc, Step(p) PROVE IInv'
  BY <1>2, OpenKeeps, CloseKeeps, WriteTempKeeps, FsyncTempKeeps, RenameCommitKeeps,
     FsyncCommitDirKeeps, WriteCurrentTempKeeps, FsyncCurrentTempKeeps, RenameCurrentKeeps,
     FsyncDirKeeps, IoErrorKeeps, KillKeeps DEF Step
<1>3. CASE UNCHANGED vars
  <2>. USE <1>3 DEF vars, disk, temps, IInv
  <2>1. TypeOK'
    BY DEF TypeOK
  <2>2. OneWriter'
    BY DEF OneWriter
  <2>3. ChainDurable'
    BY DEF ChainDurable, HashBefore
  <2>4. MarkersOnChain'
    BY DEF MarkersOnChain, HashBefore
  <2>5. CommitInFlight'
    BY DEF CommitInFlight
  <2>. QED  BY <2>1, <2>2, <2>3, <2>4, <2>5
<1>. QED  BY <1>1, <1>2, <1>3 DEF Next

\* The inductive invariant holds in every reachable state of the store.
THEOREM Invariance == Spec => []IInv
  BY InitIInv, StepIInv, PTL DEF Spec

-----------------------------------------------------------------------------

\* load finds an intact chain under every surviving marker.
LEMMA IntactIfIInv == IInv => NeverDamaged
<1>. SUFFICES ASSUME IInv PROVE NeverDamaged
  OBVIOUS
<1>1. ASSUME NEW c \in currentMay, NEW f, \A s \in Seqs : f[s] \in commitsMay[s]
      PROVE  Loads(c, f)
  <2>1. /\ \A s \in 1..current.seq : f[s] = commits[s]
        /\ \A s \in 1..(current.seq + 1) : HashBefore(f, s) = HashBefore(commits, s)
    BY <1>1, SurvivorsAgree
  <2>2. /\ c.seq \in Nat /\ current.seq \in Nat /\ c.seq <= current.seq
        /\ c.hash = HashBefore(commits, c.seq + 1)
    BY DEF IInv, TypeOK, MarkersOnChain, IsMarker
  <2>3. ASSUME NEW s \in 1..c.seq PROVE f[s].seq = s /\ f[s].prev = HashBefore(f, s)
    <3>1. s \in 1..current.seq /\ s \in 1..(current.seq + 1)
      BY <2>2
    <3>. QED  BY <2>1, <3>1 DEF IInv, ChainDurable
  <2>. QED  BY <2>1, <2>2, <2>3 DEF Loads
<1>2. current \in currentMay /\ \A s \in Seqs : commits[s] \in commitsMay[s]
  BY DEF IInv, TypeOK
<1>. QED  BY <1>1, <1>2 DEF NeverDamaged, Survivors

\* The acknowledged commit is on the chain every survivor replays.
LEMMA AckedIfIInv == IInv => AckedSurvives
<1>. SUFFICES ASSUME IInv, NEW c \in currentMay \cup {current}
              PROVE  /\ acked.seq <= c.seq
                     /\ \A f \in Survivors : acked.hash = HashBefore(f, acked.seq + 1)
  BY DEF AckedSurvives
<1>1. /\ acked.seq <= c.seq /\ acked.seq <= current.seq
      /\ acked.seq \in Nat /\ current.seq \in Nat
      /\ acked.hash = HashBefore(commits, acked.seq + 1)
  BY DEF IInv, TypeOK, MarkersOnChain, IsMarker
<1>2. ASSUME NEW f \in Survivors PROVE acked.hash = HashBefore(f, acked.seq + 1)
  <2>1. \A s \in Seqs : f[s] \in commitsMay[s]
    BY DEF Survivors
  <2>2. HashBefore(f, acked.seq + 1) = HashBefore(commits, acked.seq + 1)
    BY <1>1, <2>1, SurvivorsAgree
  <2>. QED  BY <1>1, <2>2
<1>. QED  BY <1>1, <1>2

\* Type correctness of the store's state.
THEOREM TypeCorrect == Spec => []TypeOK
  BY Invariance, PTL DEF IInv

\* load never reports damage: for any number of processes and commits, whatever
\* kill, failed system call or power loss came before.
THEOREM Integrity == Spec => []NeverDamaged
  BY Invariance, IntactIfIInv, PTL

\* A commit whose call returned Ok survives every later crash.
THEOREM Durability == Spec => []AckedSurvives
  BY Invariance, AckedIfIInv, PTL

\* A rename only ever replaces the file just above CURRENT, and a power loss
\* brings back the synced versions below it.
LEMMA StepImmutable ==
  ASSUME IInv, [Next]_vars
  PROVE  \A s \in 1..current.seq : s <= current'.seq => commits'[s] = commits[s]
<1>1. CASE PowerLoss
  <2>1. PICK f : f = commits' /\ \A s \in Seqs : f[s] \in commitsMay[s]
    BY <1>1 DEF PowerLoss
  <2>. QED  BY <2>1, SurvivorsAgree
<1>2. ASSUME NEW p \in Proc, RenameCommit(p)
      PROVE  \A s \in 1..current.seq : commits'[s] = commits[s]
  <2>1. new.seq = current.seq + 1 /\ current.seq \in Nat /\ 1..current.seq \subseteq Seqs
    BY <1>2, MaxSeqAssumption
    DEF RenameCommit, IInv, CommitInFlight, InFlight, TypeOK, IsMarker, Seqs
  <2>2. \A s \in 1..current.seq : s \in Seqs /\ s # new.seq
    BY <2>1
  <2>3. commits = [s \in Seqs |-> commits[s]] /\ commits' = [commits EXCEPT ![new.seq] = new]
    BY <1>2 DEF RenameCommit, IInv, TypeOK
  <2>. QED  BY <2>2, <2>3
<1>3. ASSUME NEW p \in Proc, Step(p), ~RenameCommit(p) PROVE commits' = commits
  BY <1>3 DEF Step, Open, Close, WriteTemp, FsyncTemp, FsyncCommitDir, WriteCurrentTemp,
              FsyncCurrentTemp, RenameCurrent, FsyncDir, IoError, Kill, disk
<1>4. CASE UNCHANGED vars
  BY <1>4 DEF vars, disk
<1>. QED  BY <1>1, <1>2, <1>3, <1>4 DEF Next

\* A committed file is never rewritten: what a marker covers stays as it is for
\* as long as a marker covers it.
THEOREM Immutability == Spec => CommittedImmutable
<1>1. IInv /\ [Next]_vars =>
          [\A s \in 1..current.seq : s <= current'.seq => commits'[s] = commits[s]]_vars
  BY StepImmutable
<1>. QED  BY <1>1, Invariance, PTL DEF Spec, CommittedImmutable

-----------------------------------------------------------------------------
(* refinement                                                              *)

\* The log a load would replay.
Replayed == [s \in 1..current.seq |-> commits[s].facts]

\* The replayed log is a sequence with one batch per committed sequence number.
LEMMA ReplayedIsSeq ==
  ASSUME IInv
  PROVE  /\ current.seq \in Nat /\ acked.seq \in Nat /\ acked.seq <= current.seq
         /\ Replayed \in Seq(Batch) /\ Len(Replayed) = current.seq
<1>1. current.seq \in Nat /\ acked.seq \in Nat /\ acked.seq <= current.seq
  BY DEF IInv, TypeOK, IsMarker, MarkersOnChain
<1>2. \A s \in 1..current.seq : commits[s].facts \in Batch
  BY DEF IInv, ChainDurable
<1>3. Replayed \in [1..current.seq -> Batch]
  BY <1>2 DEF Replayed
<1>4. Replayed \in Seq(Batch)
  BY <1>1, <1>3, SeqDef
<1>5. DOMAIN Replayed = 1..current.seq
  BY DEF Replayed
<1>6. Len(Replayed) = current.seq
  BY <1>1, <1>4, <1>5, LenProperties
<1>. QED  BY <1>1, <1>4, <1>6

\* A step that leaves CURRENT and the committed files alone leaves the log alone.
LEMMA ReplayedUnchanged ==
  ASSUME IInv, UNCHANGED current,
         \A s \in 1..current.seq : commits'[s] = commits[s]
  PROVE  UNCHANGED Replayed
BY DEF Replayed

\* The CURRENT rename appends exactly the batch being committed.
LEMMA RenameCurrentAppends ==
  ASSUME IInv, NEW p \in Proc, RenameCurrent(p)
  PROVE  \E b \in Batch : Replayed' = Append(Replayed, b)
<1>1. /\ new.seq = current.seq + 1 /\ new.facts \in Batch /\ commits[new.seq] = new
      /\ current'.seq = new.seq /\ commits' = commits
  BY DEF RenameCurrent, Marker, IInv, CommitInFlight, InFlight, AfterRename
<1>2. Replayed \in Seq(Batch) /\ Len(Replayed) = current.seq /\ current.seq \in Nat
  BY ReplayedIsSeq
<1>3. Replayed' = [s \in 1..(current.seq + 1) |-> commits[s].facts]
  BY <1>1 DEF Replayed
<1>4. Append(Replayed, new.facts) = [s \in 1..(current.seq + 1) |->
                                        IF s = current.seq + 1 THEN new.facts ELSE Replayed[s]]
  BY <1>2, <1>1, AppendProperties
<1>5. \A s \in 1..(current.seq + 1) :
          commits[s].facts = IF s = current.seq + 1 THEN new.facts ELSE Replayed[s]
  BY <1>1, <1>2 DEF Replayed
<1>. QED  BY <1>1, <1>3, <1>4, <1>5

\* A power loss truncates the replayed log at the surviving marker.
LEMMA PowerLossTruncates ==
  ASSUME IInv, PowerLoss
  PROVE  \E n \in 0..Len(Replayed) :
             n \in acked.seq..Len(Replayed) /\ Replayed' = SubSeq(Replayed, 1, n)
<1>1. PICK f \in [Seqs -> UNION {commitsMay[s] : s \in Seqs}], c \in currentMay :
          /\ \A s \in Seqs : f[s] \in commitsMay[s]
          /\ commits' = f /\ current' = c
  BY DEF PowerLoss
<1>2. \A s \in 1..current.seq : f[s] = commits[s]
  BY <1>1, SurvivorsAgree
<1>3. /\ Replayed \in Seq(Batch) /\ Len(Replayed) = current.seq
      /\ current.seq \in Nat /\ acked.seq \in Nat
  BY ReplayedIsSeq
<1>4. IsMarker(c) /\ acked.seq <= c.seq /\ c.seq <= current.seq
  BY DEF IInv, MarkersOnChain
<1>5. c.seq \in Nat
  BY <1>4, MaxSeqAssumption DEF IsMarker
<1>6. Replayed' = [s \in 1..c.seq |-> Replayed[s]]
  BY <1>1, <1>2, <1>3, <1>4, <1>5 DEF Replayed
<1>7. SubSeq(Replayed, 1, c.seq) = [s \in 1..c.seq |-> Replayed[s]]
  BY <1>3, <1>4, <1>5
<1>. QED  BY <1>3, <1>4, <1>5, <1>6, <1>7

\* Every step of the store is a step of the abstract log or leaves it alone.
LEMMA StepRefines ==
  ASSUME IInv, [Next]_vars
  PROVE  [Log!Next]_(Log!vars)
<1>1. /\ Log!vars = <<Replayed, acked.seq>>
      /\ Log!vars' = <<Replayed', acked'.seq>>
      /\ Log!Next <=> \/ \E b \in Batch : Replayed' = Append(Replayed, b) /\ acked'.seq = acked.seq
                      \/ acked'.seq = Len(Replayed) /\ Replayed' = Replayed
                      \/ \E n \in 0..Len(Replayed) : /\ n \in acked.seq..Len(Replayed)
                                                     /\ Replayed' = SubSeq(Replayed, 1, n)
                                                     /\ acked'.seq = acked.seq
  BY DEF Log!vars, Log!Next, Log!Append1, Log!Ack, Log!Truncate, Replayed
<1>2. CASE PowerLoss
  <2>1. acked' = acked
    BY <1>2 DEF PowerLoss
  <2>. QED  BY <1>1, <1>2, <2>1, PowerLossTruncates
<1>3. ASSUME NEW p \in Proc, RenameCurrent(p) PROVE Log!Next
  <2>1. acked' = acked
    BY <1>3 DEF RenameCurrent
  <2>. QED  BY <1>1, <1>3, <2>1, RenameCurrentAppends
<1>4. ASSUME NEW p \in Proc, FsyncDir(p) PROVE Log!Next
  <2>1. acked' = current /\ Replayed' = Replayed
    BY <1>4 DEF FsyncDir, IInv, OneWriter, Replayed
  <2>. QED  BY <1>1, <2>1, ReplayedIsSeq
<1>5. ASSUME NEW p \in Proc, Step(p), ~RenameCurrent(p), ~FsyncDir(p)
      PROVE  UNCHANGED <<Replayed, acked>>
  <2>1. acked' = acked /\ current' = current
    BY <1>5 DEF Step, Open, Close, WriteTemp, FsyncTemp, RenameCommit, FsyncCommitDir,
                WriteCurrentTemp, FsyncCurrentTemp, IoError, Kill, disk
  <2>2. \A s \in 1..current.seq : commits'[s] = commits[s]
    <3>1. current.seq \in Nat
      BY ReplayedIsSeq
    <3>. QED  BY <2>1, <3>1, StepImmutable
  <2>. QED  BY <2>1, <2>2, ReplayedUnchanged
<1>6. CASE UNCHANGED vars
  BY <1>1, <1>6 DEF vars, disk, Replayed
<1>. QED  BY <1>1, <1>2, <1>3, <1>4, <1>5, <1>6 DEF Next

\* The fact log implements AtomicLog: commits are atomic, and a crash takes
\* away only a suffix that was never acknowledged.
THEOREM Refinement == Spec => ImplementsAtomicLog
<1>1. Init => Log!Init
  BY DEF Init, Log!Init, Fresh
<1>2. IInv /\ [Next]_vars => [Log!Next]_(Log!vars)
  BY StepRefines
<1>. QED  BY <1>1, <1>2, Invariance, PTL DEF Spec, ImplementsAtomicLog, Log!Spec
=============================================================================
