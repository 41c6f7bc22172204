------------------------------ MODULE MCLocal ------------------------------
(***************************************************************************)
(* Small instances of six parts of one device that share no state: the     *)
(* fact log, fetch on open, the serving vault and its mirror, the          *)
(* mailbox's seen ledger, its relay stream and `wyrd update`.  `part` says *)
(* which of them a behaviour exercises; the others stay as they start.     *)
(***************************************************************************)
EXTENDS UpdateState, ServingState, DurableStore, Integers, SequencesExt

CONSTANTS b1, b2,                \* update
          Corrupt, Free, Gone    \* mailbox

VARIABLES part,
          \* Update
          next, scratch, verdict, inPlace, after, archive, running, unflushed,
          \* Mailbox
          unacked, settledBelow, outstanding, nextDelivery, poison, seen,
          appended, handleOk, file, synced, shadows, status, ackedWraps, marred,
          ledgerFaults,
          \* MailboxStream
          retained, link, registered, inflight, broadcast, drainer, channel,
          spare, received, saturated, due, satEpisode, streamEpisode,
          relayEpisode, streamAlive, attached, downTicks, unflagged,
          streamFaults,
          \* Demand
          up, policy, claim, bytes, pending, admitted, waiting, unowned, notes,
          rejected, missing, recent, registering, blocked, phase, batch,
          committed, snapshot, attempted, terminal, view, promised, lost,
          skipped, room,
          \* Serving
          unsynced, verified, queue, reserved, working, drain, failed, permit,
          claimed, walk, owed, vouched, imports, servingFaults

storeVars == vars
updateVars == <<exe, prev, next, scratch, record, verdict, inPlace, pc,
                after, archive, running, unflushed, trusted, spoilt>>
mailboxVars == <<unacked, settledBelow, outstanding, nextDelivery, poison, seen,
                 appended, handleOk, file, synced, shadows, status, ackedWraps,
                 marred, ledgerFaults>>
streamVars == <<retained, link, registered, inflight, broadcast, drainer,
                channel, spare, received, saturated, due, satEpisode,
                streamEpisode, relayEpisode, streamAlive, attached, downTicks,
                unflagged, streamFaults>>
demandVars == <<up, policy, claim, bytes, pending, admitted, waiting, unowned,
                notes, rejected, missing, recent, registering, blocked, phase,
                batch, committed, snapshot, attempted, terminal, view,
                promised, lost, skipped, room>>
servingVars == <<held, rotten, unsynced, verified, mirror, queue, reserved,
                 working, drain, failed, permit, call, claimed, walk, named,
                 owed, announced, vouched, borrowed, imports, servingFaults>>
MCBuilds == {b1, b2}

\* Two readers of one file with a failing commit and a policy command; one
\* reader of an own file whose bytes are damaged twice; a vault that admits
\* two identities in one pass, with a commit failing between them.
MCSituations ==
    {[contents |-> {1}, own |-> {}, limit |-> 1, admit |-> 1, readers |-> 2,
      faults |-> 1, damage |-> 0, commands |-> 1],
     [contents |-> {1}, own |-> {1}, limit |-> 1, admit |-> 1, readers |-> 1,
      faults |-> 1, damage |-> 2, commands |-> 0],
     [contents |-> {1, 2}, own |-> {}, limit |-> 2, admit |-> 2, readers |-> 0,
      faults |-> 1, damage |-> 0, commands |-> 0]}

MCWraps == {1, 2, 3, 4}
MCEvents == {1, 2, 3}
MCContents == {1, 2}

\* Root 1 is fetched, root 2 is sealed here and twice as long: one waiting copy
\* of either leaves room for a barrier and none for the other root.
MCRoots == {1, 2}
MCSize == [r \in MCRoots |-> r]

U == INSTANCE Update WITH stage <- scratch
M == INSTANCE Mailbox WITH
        Wraps <- MCWraps, Garbage <- {4}, MaxUnacked <- 2, MaxSeen <- 2,
        MaxPoison <- 1, MaxDelivery <- 4, MaxFaults <- 2, faults <- ledgerFaults,
        acked <- ackedWraps
R == INSTANCE MailboxStream WITH
        Events <- MCEvents, MaxBroadcast <- 1, Capacity <- 1, Grace <- 2,
        MaxFaults <- 1, faults <- streamFaults
D == INSTANCE Demand WITH Contents <- MCContents, Situations <- MCSituations
S == INSTANCE Serving WITH
        Size <- MCSize, Mapped <- {1}, MaxItems <- 2, MaxBytes <- 2,
        MaxImports <- 3, MaxFaults <- 2, faults <- servingFaults,
        current <- claimed

\* A part that is not exercised starts in any one of its initial states.
LocalInit ==
    /\ part \in {"store", "update", "mailbox", "stream", "demand", "serving"}
    /\ Init /\ U!Init /\ M!Init /\ R!Init /\ D!Init /\ S!Init
    /\ part # "demand" => room.readers = 2
    /\ part # "update" => exe = b1

Storing == part = "store"
StoreOnly ==
    UNCHANGED <<part, updateVars, mailboxVars, streamVars, demandVars, servingVars>>

StoreOpen(p) == Storing /\ Open(p) /\ StoreOnly
StoreClose(p) == Storing /\ Close(p) /\ StoreOnly
StoreWriteTemp(p, b) == Storing /\ WriteTemp(p, b) /\ StoreOnly
StoreFsyncTemp(p) == Storing /\ FsyncTemp(p) /\ StoreOnly
StoreRenameCommit(p) == Storing /\ RenameCommit(p) /\ StoreOnly
StoreFsyncCommitDir(p) == Storing /\ FsyncCommitDir(p) /\ StoreOnly
StoreWriteCurrentTemp(p) == Storing /\ WriteCurrentTemp(p) /\ StoreOnly
StoreFsyncCurrentTemp(p) == Storing /\ FsyncCurrentTemp(p) /\ StoreOnly
StoreRenameCurrent(p) == Storing /\ RenameCurrent(p) /\ StoreOnly
StoreFsyncDir(p) == Storing /\ FsyncDir(p) /\ StoreOnly
StoreIoError(p) == Storing /\ IoError(p) /\ StoreOnly
StoreKill(p) == Storing /\ Kill(p) /\ StoreOnly
StorePowerLoss == Storing /\ PowerLoss /\ StoreOnly

Updating == part = "update"
UpdateOnly ==
    UNCHANGED <<part, storeVars, mailboxVars, streamVars, demandVars, servingVars>>

Invoke(b) == Updating /\ U!Invoke(b) /\ UpdateOnly
Converge == Updating /\ U!Converge /\ UpdateOnly
Resolve == Updating /\ U!Resolve /\ UpdateOnly
ProbeLock == Updating /\ U!ProbeLock /\ UpdateOnly
Extract == Updating /\ U!Extract /\ UpdateOnly
ClearNext == Updating /\ U!ClearNext /\ UpdateOnly
Place == Updating /\ U!Place /\ UpdateOnly
Unstage == Updating /\ U!Unstage /\ UpdateOnly
RecordStaged == Updating /\ U!RecordStaged /\ UpdateOnly
Preflight == Updating /\ U!Preflight /\ UpdateOnly
EarlyVerify == Updating /\ U!EarlyVerify /\ UpdateOnly
ClearPrev == Updating /\ U!ClearPrev /\ UpdateOnly
MoveOld == Updating /\ U!MoveOld /\ UpdateOnly
RecordSwapped == Updating /\ U!RecordSwapped /\ UpdateOnly
MoveNew == Updating /\ U!MoveNew /\ UpdateOnly
Verify == Updating /\ U!Verify /\ UpdateOnly
RecordVerified == Updating /\ U!RecordVerified /\ UpdateOnly
Restore == Updating /\ U!Restore /\ UpdateOnly
DropNext == Updating /\ U!DropNext /\ UpdateOnly
DropStage == Updating /\ U!DropStage /\ UpdateOnly
DropPrev == Updating /\ U!DropPrev /\ UpdateOnly
DropRecord == Updating /\ U!DropRecord /\ UpdateOnly
Finish == Updating /\ U!Finish /\ UpdateOnly
Stop == Updating /\ U!Stop /\ UpdateOnly
UpdatePowerLoss == Updating /\ U!PowerLoss /\ UpdateOnly

Mailing == part = "mailbox"
MailOnly ==
    UNCHANGED <<part, storeVars, updateVars, streamVars, demandVars, servingVars>>

Recv(w) == Mailing /\ M!Recv(w) /\ MailOnly
Rotate == Mailing /\ M!Rotate /\ MailOnly
Ack(d) == Mailing /\ M!Ack(d) /\ MailOnly
Poison(d) == Mailing /\ M!Poison(d) /\ MailOnly
MailKill == Mailing /\ M!Kill /\ MailOnly
MailPowerLoss == Mailing /\ M!PowerLoss /\ MailOnly

\* A mailbox with no mail waits, and one whose ledger does not open stays shut.
Rests == Mailing /\ UNCHANGED mailboxVars /\ MailOnly

Streaming == part = "stream"
StreamOnly ==
    UNCHANGED <<part, storeVars, updateVars, mailboxVars, demandVars, servingVars>>

Publish(e) == Streaming /\ R!Publish(e) /\ StreamOnly
Deliver(e) == Streaming /\ R!Deliver(e) /\ StreamOnly
Disconnect == Streaming /\ R!Disconnect /\ StreamOnly
Reconnect == Streaming /\ R!Reconnect /\ StreamOnly
Drain == Streaming /\ R!Drain /\ StreamOnly
Unpark == Streaming /\ R!Unpark /\ StreamOnly
StreamEnds == Streaming /\ R!StreamEnds /\ StreamOnly
StreamRecv == Streaming /\ R!Recv /\ StreamOnly
Tick == Streaming /\ R!Tick /\ StreamOnly
SaturationReplay == Streaming /\ R!SaturationReplay /\ StreamOnly
SaturationDone == Streaming /\ R!SaturationDone /\ StreamOnly
CooldownPasses == Streaming /\ R!CooldownPasses /\ StreamOnly
EstablishDrainer == Streaming /\ R!EstablishDrainer /\ StreamOnly
StreamResubscribe == Streaming /\ R!StreamResubscribe /\ StreamOnly
SwapChannel == Streaming /\ R!SwapChannel /\ StreamOnly
RelayResubscribe == Streaming /\ R!RelayResubscribe /\ StreamOnly

Demanding == part = "demand"
DemandOnly ==
    UNCHANGED <<part, storeVars, updateVars, mailboxVars, streamVars, servingVars>>

Touch(c) == Demanding /\ D!Touch(c) /\ DemandOnly
Register(c) == Demanding /\ D!Register(c) /\ DemandOnly
Complete(c) == Demanding /\ D!Complete(c) /\ DemandOnly
Poll(c) == Demanding /\ D!Poll(c) /\ DemandOnly
TimeOut(c) == Demanding /\ D!TimeOut(c) /\ DemandOnly
RecencyEnds(c) == Demanding /\ D!RecencyEnds(c) /\ DemandOnly
Damage(c) == Demanding /\ D!Damage(c) /\ DemandOnly
Reopen == Demanding /\ D!Reopen /\ DemandOnly
ClearRejected == Demanding /\ D!ClearRejected /\ DemandOnly
DiscardRejected == Demanding /\ D!DiscardRejected /\ DemandOnly
VaultSweep == Demanding /\ D!VaultSweep /\ DemandOnly
Gate == Demanding /\ D!Gate /\ DemandOnly
Peek == Demanding /\ D!Peek /\ DemandOnly
Admit == Demanding /\ D!Admit /\ DemandOnly
MarkAdmitted == Demanding /\ D!MarkAdmitted /\ DemandOnly
Scrub == Demanding /\ D!Scrub /\ DemandOnly
Fetch == Demanding /\ D!Fetch /\ DemandOnly
Settle == Demanding /\ D!Settle /\ DemandOnly
ReadFails == Demanding /\ D!ReadFails /\ DemandOnly
Down == Demanding /\ D!Down /\ DemandOnly
Up == Demanding /\ D!Up /\ DemandOnly
Pin(C) == Demanding /\ D!Pin(C) /\ DemandOnly
Unpin(C) == Demanding /\ D!Unpin(C) /\ DemandOnly
Evict(C) == Demanding /\ D!Evict(C) /\ DemandOnly

Serves == part = "serving"
ServingOnly ==
    UNCHANGED <<part, storeVars, updateVars, mailboxVars, streamVars, demandVars>>

Import(r) == Serves /\ S!Import(r) /\ ServingOnly
Reuse(r) == Serves /\ S!Reuse(r) /\ ServingOnly
Rot(r) == Serves /\ S!Rot(r) /\ ServingOnly
Rename == Serves /\ S!Rename /\ ServingOnly
SyncPublished == Serves /\ S!SyncPublished /\ ServingOnly
Confirm == Serves /\ S!Confirm /\ ServingOnly
NotifyMirror == Serves /\ S!NotifyMirror /\ ServingOnly
Begin(kind) == Serves /\ S!Begin(kind) /\ ServingOnly
Commit == Serves /\ S!Commit /\ ServingOnly
Flush == Serves /\ S!Flush /\ ServingOnly
GiveUp == Serves /\ S!GiveUp /\ ServingOnly
Announce == Serves /\ S!Announce /\ ServingOnly
MirrorTake == Serves /\ S!Take /\ ServingOnly
MirrorLand == Serves /\ S!Land /\ ServingOnly
MirrorAnswer == Serves /\ S!Answer /\ ServingOnly
MirrorEnds == Serves /\ S!DrainEnds /\ ServingOnly
ServingKill == Serves /\ S!Kill /\ ServingOnly
ServingPowerLoss == Serves /\ S!PowerLoss /\ ServingOnly
ServingOpen == Serves /\ S!Open /\ ServingOnly

LocalNext ==
    \/ \E p \in Proc :
          \/ StoreOpen(p) \/ StoreClose(p)
          \/ \E b \in Batch : StoreWriteTemp(p, b)
          \/ StoreFsyncTemp(p) \/ StoreRenameCommit(p) \/ StoreFsyncCommitDir(p)
          \/ StoreWriteCurrentTemp(p) \/ StoreFsyncCurrentTemp(p)
          \/ StoreRenameCurrent(p) \/ StoreFsyncDir(p)
          \/ StoreIoError(p) \/ StoreKill(p)
    \/ StorePowerLoss
    \/ \E b \in Builds : Invoke(b)
    \/ Converge \/ Resolve \/ ProbeLock \/ Extract \/ ClearNext \/ Place
    \/ Unstage \/ RecordStaged \/ Preflight \/ EarlyVerify \/ ClearPrev
    \/ MoveOld \/ RecordSwapped \/ MoveNew \/ Verify \/ RecordVerified
    \/ Restore \/ DropNext \/ DropStage \/ DropPrev \/ DropRecord \/ Finish
    \/ Stop \/ UpdatePowerLoss
    \/ \E w \in MCWraps : Recv(w)
    \/ Rotate
    \/ \E d \in ToSet(unacked) : Ack(d) \/ Poison(d)
    \/ MailKill \/ MailPowerLoss \/ Rests
    \/ \E e \in MCEvents : Publish(e) \/ Deliver(e)
    \/ Disconnect \/ Reconnect \/ Drain \/ Unpark \/ StreamEnds \/ StreamRecv
    \/ Tick \/ SaturationReplay \/ SaturationDone \/ CooldownPasses
    \/ EstablishDrainer \/ StreamResubscribe \/ SwapChannel
    \/ RelayResubscribe
    \/ \E c \in MCContents :
          \/ Touch(c) \/ Register(c) \/ Complete(c) \/ Poll(c) \/ TimeOut(c)
          \/ RecencyEnds(c) \/ Damage(c)
    \/ Reopen \/ ClearRejected \/ DiscardRejected \/ VaultSweep \/ Gate
    \/ Peek \/ Admit \/ MarkAdmitted \/ Scrub \/ Fetch \/ Settle
    \/ ReadFails \/ Down \/ Up
    \/ \E C \in SUBSET room.contents \ {{}} : Pin(C) \/ Unpin(C) \/ Evict(C)
    \/ \E r \in Roots : Import(r) \/ Reuse(r) \/ Rot(r)
    \/ Rename \/ SyncPublished \/ Confirm \/ NotifyMirror
    \/ \E kind \in {"fetch", "author"} : Begin(kind)
    \/ Commit \/ Flush \/ GiveUp \/ Announce
    \/ MirrorTake \/ MirrorLand \/ MirrorAnswer \/ MirrorEnds
    \/ ServingKill \/ ServingPowerLoss \/ ServingOpen

LocalSpec ==
    LocalInit
    /\ [][LocalNext]_<<part, storeVars, updateVars, mailboxVars, streamVars, demandVars,
                       servingVars>>

-----------------------------------------------------------------------------
(* The properties of the parts, under their own names.  Those of the fact  *)
(* log, the update and serving are in DurableStore, UpdateState and        *)
(* ServingState.                                                           *)

\* SeenStore (record, compact, open): what a crash leaves of the ledger keeps the
\* line of every acknowledged wrap that the session retains, or does not open.
AckSurvives == part = "mailbox" => M!AckSurvives

\* recv, settle, forget_held: a minted delivery id is held or answered Ok, never
\* both and never neither, in whatever order ids are settled.
SettledExactly == part = "mailbox" => M!SettledExactly

\* SeenStore::open: a ledger on which no append failed half way opens again after
\* every crash.
LedgerReopens == part = "mailbox" => M!LedgerReopens

\* drain_notifications, supervise: a retained event was received, is on the way or
\* is owed a replay, three gaps apart that the definition names.
FlaggedIsOwed == part = "stream" => R!FlaggedIsOwed

\* WantRegistry, sync_pass: demand is neither lost nor leaked between a peek, its
\* commits and its mark.
DemandAccounted == part = "demand" => D!DemandAccounted

\* drain_quarantine: the drive never removes the bytes of an identity it claims.
ClaimsBacked == part = "demand" => D!ClaimsBacked

\* mark_admitted: an identity the registry calls admitted is durably wanted.
\* Refuted: the run demand_lost.
AdmittedIsWanted == part = "demand" => D!AdmittedIsWanted

\* admit_wants, set_materialization_from: a pin ends only by unpin.
\* Refuted; the README describes the behaviour.
PinHeld == part = "demand" => D!PinHeld

\* converge: no interruption leaves files that every later run refuses.  Refuted;
\* the README describes the behaviour.
RecoveryConverges == part = "update" => U!RecoveryConverges
=============================================================================
