# Wyrd in TLA+

Wyrd is an encrypted, content-addressed, append-only drive that devices share without a server. This directory
models its components in TLA+, checks them with TLC on small instances, and proves with TLAPS, for every instance, what
matters most about three of them: the durable fact log, `wyrd update`, and the serving vault with its mirror.
`PROJECT.json` lists the runs, the mapping from definitions to source lines, the mutants, the hazards, the findings
and the theorems.

To repeat a run: `tlc -config <cfg> <module>`; to repeat the proofs: `tlapm DurableStoreProof.tla`, and the same for
`UpdateProof.tla` and `ServingProof.tla`.

## The system and its parts

| Part | Source (under `src/crates`) | State | Module |
|---|---|---|---|
| Durable fact log | `wyrd-sync/src/durable` | commit files, CURRENT, LOCK | `DurableStore`, `AtomicLog` |
| Membership log | `wyrd-sync/src/membership` | observed owner-signed transitions | `MembershipChain`, `Membership` |
| Snapshot authorization | `wyrd-sync/src/authorization` | snapshot DAG, classification | `Authorization` |
| Message intake | `wyrd-sync/src/runtime/intake`, `engine`, `control` | inbox, pending queue, budgets | `Intake` |
| Outbox and reconciliation | `wyrd-sync/src/runtime/{author,respond,reconcile}`, `state` | obligations, seals, statements | `Outbox` |
| Live loop, mutation queue | `wyrd-core/src/{live,mutation}` | passes, batches, held entries | `WritePath` (partly) |
| FUSE backend | `wyrd-daemon/src/fuse` | write handles, folds | `WritePath` (partly) |
| Mount supervision | `wyrd-daemon/src/lifecycle.rs`, `wyrd-cli/src/commands/mount.rs` | latch, teardown | `WritePath` |
| Want registry | `wyrd-core/src/want.rs` | blocked readers, admitted demand | `Demand` |
| Fetch and plan | `wyrd-sync/src/runtime/{fetch,plan,engine}` | attempts, terminal verdicts, claims | `Demand` (partly) |
| Policy, quarantine, scrub | `wyrd-core/src/{policy,quarantine,scrub}.rs` | pins, rejected and missing bytes | `Demand` (partly) |
| Serving vault and mirror | `wyrd-sync/src/serving`, `wyrd-format/src/durable.rs` | sealed files, mirror queue, barrier | `Serving` (partly) |
| Mailbox client | `wyrd-core/src/mailbox` | deliveries, seen ledger, relay stream | `Mailbox`, `MailboxStream` (partly) |
| Self-update | `wyrd-cli/src/update` | executable, rollback copy, record | `Update` |
| Authoring and admission | `wyrd-sync/src/runtime/author` | facts, resumable admission | parts in `Intake`, `Serving`, `Authorization` |
| Keyring, object store, bootstrap, bulk transport, read views, encodings, CLI | several | see the last section | not modelled |

How they interact: the mailbox hands sealed messages to the intake, which judges them against the membership log and
commits facts to the durable log; the classification of snapshots reads the membership log and the snapshot DAG and
decides the live heads; the live loop applies local mutations from the FUSE backend's queue on those heads, commits
them as facts and publishes the new projection to the mount. A reader of the mount that finds content missing
registers a want, which the loop turns into durable demand and a fetch. Whatever is fetched or authored goes into the
vault and from there to the serving mirror. Every authored fact leaves obligations in the outbox, which the delivery
passes discharge, announcements only once the mirror is ready, and which the peers' statements retire.

`Authorization` and `Intake` are composed with `MembershipChain`: they run the real analysis on the set of
transitions they have observed. `WritePath` is itself a composition of the handles, the queue, the loop and the
teardown, `Demand` of the readers, the registry, the loop and the policy command, `Serving` of the vault, the queue,
its worker and the loop. The durable log is composed by abstraction: `DurableStore` implements `AtomicLog`, and the
other modules use a log in which a commit either lands or does not, and may land although the call reports an error.

## The modules

### `DurableStore`, `AtomicLog`: the durable fact log

`DurableStore` models `durable/store.rs`: the exclusive LOCK, the files `commits/<seq>.commit`, the CURRENT marker and
the stages of `commit_until`, one action per stage, with three kinds of fault: `IoError` (the system call of a stage
fails and the call returns `Err`), `Kill` (a process dies, the page cache survives) and `PowerLoss` (every directory
entry that was not synced comes back in one of its versions). Each file is held twice: as the running system sees it
(`commits`, `current`) and as the set of versions a power loss may leave (`commitsMay`, `currentMay`). A rename adds
a version, a directory sync removes all but the visible one, and a rename of an unsynced file adds a torn one.
`AtomicLog` is the promise: an append-only log of which a crash may drop a suffix that was never acknowledged.

### `MembershipChain`, `Membership`: the membership log

`MembershipChain` is the analysis as operators on a set of transitions: applying changes (`state.rs`), validating a
link against its predecessor (`Links`), the walk from genesis (`Walk`), conflicts and their resolutions
(`HandleConflict`) and the classification of the rest (`ClassifyRemaining`). `Membership` is the log that observes
transitions in any order and memoizes the analysis. Signatures, key encodings and set roots are flags of a transition.

### `Authorization`: which snapshots may advance the live view

`Preverdict` is phase 1, `LiveFixedPoint` phase 2 and `Verdict` phase 3 of the classifier. The two observed sets grow
independently. Ids are hashes, so the order the code iterates in is a parameter. `ResumeSeesOldHeads` is about an
admission that is resumed after a crash: the heads it hands over are those of the epoch before.

### `Intake`: what one device does with a message

`Recv` guards the handling of one message the relay hands over. Its outcomes are the actions `Discard`, `Skip`,
`AcceptNew`, `AcceptRedelivery` and `AcceptRotation`; `Author` is an authoring call beside them; `EndPass`, `CutPass`
and `Crash` end a pass. The handling of a message is atomic, as the engine is single-threaded, and includes the flush
of the pending queue a committed transition causes. A failed commit may have landed; `resync` rebuilds the views.

### `Outbox`: what one device owes the others

`OpenPass` is the idle gate of the live loop (`live/pass.rs:489`): a pass reaches the outbox only if the log moved past
the published revision, an earlier pass failed (`fresh` stands for both) or an obligation is strictly pending. Behind
it a pass answers, delivers and announces, in this order. Each of the three is a job whose sends are separate steps, so
an error or a restart falls between any two; a mailbox error ends a step, any other error ends the pass, and a serving
barrier that is not ready (`BarrierNotReady`) skips the announcements. `Send` includes the seal that is committed before
it; `Compare` answers one statement; `OtherCommit` is anything else the device commits; `Receive`, `Ask` and `Reconnect`
are the recipients, and `Hear` is the intake of their statements. The membership chain is linear in this module and the
sender owns it.

### `WritePath`: from `write(2)` to a published head

Threads run system calls (open, write, flush, fsync, release, truncate, unlink, rename), gather the dirty handles a
mutation depends on, submit a fold and block. The loop thread takes a batch, applies each entry on the current heads,
commits, evaluates, installs the projection and answers, with a failure possible before the batch, before the install
and after it. Entries whose content is missing are held, requeued and expire. The composer latches a signal, unmounts,
runs `destroy`, joins the session, closes admission and drains. A file's content is the set of writes in it, which is
what the properties tell apart.

### `Demand`: from a read of missing content to its arrival

Readers touch content, register a want, poll the published view and leave when it serves, turns terminal or their
deadline passes (`Touch`, `Register`, `Poll`, `Complete`, `TimeOut`). The phases of `sync_pass` are one action each:
`Reopen`, `ClearRejected` and `DiscardRejected`, `VaultSweep`, `Gate`, `Peek`, `Admit`, `MarkAdmitted`, `Scrub`,
`Fetch`, `Settle`. Between any two of them readers move, because the registry, the store and the view have locks of
their own; a commit may fail, landed or not, and bytes may rot or vanish. `Pin`, `Unpin` and `Evict` are the policy
commands, which run while no daemon holds the drive. Readers are counted, not named, and the backoff ledgers of the
fetch are a free choice of which attempts are made.

### `Serving`, `ServingState`: from a sealed representation to an announcement

`Import` begins `Vault::import` with the directories that are still owed an fsync; `Rename`, `SyncPublished` and
`Confirm` are its stages for a new and for a held root; `NotifyMirror` hands the copy to the bounded queue or refuses
it. `Begin`, `Reuse` and `Commit` are the fetch pass and the authoring walk that import representations and then name
them in records; `Flush`, `GiveUp` and `Announce` are the barrier before a discharge. `Take`, `Land`, `Answer` and
`DrainEnds` are the worker, on its own thread. `Kill` and `PowerLoss` stop the device anywhere, and `Open` rebuilds the
mirror from the vault. A directory entry is `linked` until an fsync of its directory makes it `durable`. The worker
gives back the bytes of an item in the step in which it takes it; a send in between, which the code may refuse, is a
second outcome of `NotifyMirror`. The acknowledgement of a barrier and the release of its permit are one step.
`ServingState` holds the constants with their assumption, and the two properties
with the variables they speak of.

### `Mailbox` and `MailboxStream`: the receiving mailbox

`Mailbox` is `recv` and `settle` with their delivery ids, and the ledger of acknowledged wraps: a file of lines that is
appended, compacted, truncated at open and refused when corrupt, under failed appends, kills and power losses. Opening
creates the file and syncs no directory, so until the first compaction a power loss may leave no file at all (`Blank`).
`MailboxStream` is below it: the SDK's lossy broadcast, the drainer that parks on a full channel, the saturation flag,
and the supervisor's tick with its three recovery episodes. The two meet only in the handover channel and are modelled
apart: `Mailbox` takes any wrap at any time.

### `Update`, `UpdateState`: `wyrd update`

One action per rename, removal and record write of the transaction and of `converge`, the recovery that starts every
run. `Stop` ends a run between any two of them and stands for a crash, a kill and every early error. The record and the
directory entries are synced by the code; the bytes of the staged binary are not (`state.rs:364`), under whatever name
they go by (`unflushed`), and `PowerLoss` may leave any of these binaries torn. `spoilt` remembers that this happened to
the very binary that was verified. What verification looks at is one outcome. `UpdateState` holds the constants with
their assumptions, and the three properties with the variables they speak of.

### `MCLocal`: six parts side by side

`DurableStore`, `Update`, `Mailbox`, `MailboxStream`, `Demand` and `Serving` share no state, so one run explores all
six: a variable says which part a behaviour exercises, and the others stay in an initial state. Nothing is composed by
this; it is a sum, not a product.

## The runs

| Run | Instance | States | What it shows |
|---|---|---|---|
| `authorization` | universes of 12 and 14 transitions; 4 transitions with 9 snapshots | 57,344 | one chain under owner authority on which no identity is used twice; forks end only by a complete resolution, and no later arrival moves peers to the other side; derived authority never changes; the fixed point is the greatest authorized lineage; only a rejected recovery takes live work away |
| `intake` | four situations of 3 to 6 messages, up to 2 faults | 71,027 | no fork recorded, nothing committed twice, views equal to the store, no unminted grant, nothing lost, everything committable committed |
| `outbox` | 1 recipient, 2 epochs, 2 snapshots, 2 routes, 2 faults | 261,185 | nothing owed is forgotten or retired without being held, retries are byte-identical, everything owed lands, redelivery ends on a device that keeps committing |
| `write_path` | 2 calls and destroy, 2 handles, 2 paths, queue of 2, 1 event | 781,584 | no lost update, no forgotten caller, admission order |
| `write_live` | 2 calls, 1 handle, 1 path, 2 events | 125,631 | every call returns; what was committed is served |
| `local` | the six parts below | 830,515 | see below |
| `intake_lost`, `outbox_gap`, `write_lost`, `stream_lost`, `demand_lost`, `resolution_reopened` | the smallest that reach the case, or that of the passing run | | the six findings below |

The parts of `local`:

| Part | Instance | States (about) | What it shows |
|---|---|---|---|
| store | 2 processes, 2 batches, 2 commits | 33,000 | the log never loads as damaged, acknowledged commits survive, records a marker covers are not rewritten, `AtomicLog` is implemented |
| update | 2 builds | 33,000 | the verified build is not lost unless a power loss tears the verified binary itself, no other one settles, recovery refuses only where nothing is to be recovered |
| mailbox | 4 wraps (1 garbage), bounds of 2, 2, 1; 2 faults | 56,000 | acknowledged wraps survive, but for a ledger whose directory entry or half-written line is lost, a delivery id is held or consumed and never both, the ledger reopens |
| stream | 3 events, broadcast and channel of 1, 1 fault | 294,000 | outside three known gaps, an event was received, is on the way, or a replay is owed |
| demand | 1 or 2 contents, up to 2 readers, 1 fault, 2 damages or 1 command | 196,000 | registered demand is neither lost nor leaked; bytes go only after their claim |
| serving | 2 representations of different size, queue of 2 items and 2 bytes, 3 imports, 2 faults | 219,000 | what was announced is in the mirror; what a record names survives a power loss |

Why these bounds: two commits are the least for which a chain, a torn successor and a second writer exist. The
membership universes are not generated but chosen, one per family of rules: three siblings with every way of resolving
them, and two geneses with handovers, removals and retired identities. They are observed in every order, so every gap
and every late arrival happens. The parking and suppression bounds of `Intake` are set below the number of messages,
so that they overflow; `Cap = 1` makes an answer need several rounds. In `WritePath` two handles over two paths are
the least for a fold of several members and for a rename onto an open file. Faults, operations and signals share one
bound there (`MaxEvents`): each behaviour meets any one of them (any two in `write_live`), not every combination.
The bounds of the ledger, the channel, the registry and the mirror queue are all below the number of items, so that
each overflows. In `Serving` three imports are the least for a retry after another import came between, and a waiting
copy of either representation leaves room for a barrier and none for the other. These bounds are small: what needs
three handles, two recipients or three faults at once is not explored, except in the three modules that are proved.

Some passing results hold only within what their instance or statement says, because the findings and observations below
refute them beyond it. In `outbox` the recipient lacks a single transition, so no statement can list a successor of one
it lacks; with two missing, `RetiredOnlyIfHeld` fails (`outbox_gap`), and `NothingForgotten` and `EveryObligationLands`
with it. In `intake` the budgets admit everything one flush can wake; when they do not, `NoSilentLoss` fails
(`intake_lost`), and so does `Converges`. `RedeliveryQuenches` is about a device that keeps committing: on a quiet one
the gate of the pass may never open for a stale pair (see the observations). `FlaggedIsOwed` names the three gaps it
leaves out, one of which is `stream_lost`; `DemandAccounted` leaves out the identities marked admitted without a commit,
which are `demand_lost`. `AnnouncedServed` and `RecordedResident` leave out the roots that were named without an import
that returned Ok (`borrowed`, see the observations).

The type invariants hold on the same instances; they are not among the listed properties, and those of `DurableStore`,
`Update` and `Serving` are proved. Symmetry is used in `write_path` only, which checks no liveness. Deadlock is checked
in `authorization`, `local` and the write runs; the intake and the outbox come to rest when everything
was delivered.

Fairness. `Intake`: weak fairness of `Drain`, since the live loop drains the mailbox on every pass. `Outbox`: weak
fairness of the steps of a pass, of which the gate is one, since the loop runs pass after pass; strong fairness of
`Hear`, since every pass drains the mailbox before its gate, so that a busy device still hears its peers; weak fairness
of what the recipients receive and ask, since they run loops of their own. Faults are finitely many and not fair, and
nothing makes a device commit: `OtherCommit` has no fairness, and the property that needs it says so. `WritePath`: weak
fairness of the loop thread's steps and of the steps of a dispatched call and of the composer once it is signalled. No
fairness is assumed of users, remote heads, faults or signals. The liveness results say nothing of a relay that refuses
for ever. The six parts of `local` state no fairness and claim no liveness: nothing here says that a want is ever
fetched or an announcement ever sent.

## What is proved

Each proof holds for every value of the constants and has the same shape: an inductive invariant, one lemma per action
or per conjunct, and the theorems as its consequences.

`DurableStoreProof`, for every set of processes, every set of batches and every `MaxSeq`:

| Theorem | Statement |
|---|---|
| `TypeCorrect` | `Spec => []TypeOK` |
| `Integrity` | `Spec => []NeverDamaged`: every version of the directory a power loss can leave loads |
| `Durability` | `Spec => []AckedSurvives`: an acknowledged commit is in every such version |
| `Immutability` | `Spec => CommittedImmutable`: a record is not rewritten while a marker covers it |
| `Refinement` | `Spec => ImplementsAtomicLog` |

The assumptions are `MaxSeqAssumption` (a natural number), `NoProcAssumption` (no process is the "nobody" value) and
`ZerosAssumption` (the hash of genesis is not the hash of a torn file). None of the properties is inductive: that a
directory loads after a crash depends on which versions of which entries can come back together. The inductive
invariant `IInv` (theorem `Invariance`) adds to the type invariant `OneWriter` (only the holder of LOCK is inside a
commit), `ChainDurable` (every commit up to the visible CURRENT has exactly one version that can survive, and links to
its predecessor), `MarkersOnChain` (every version of CURRENT that can survive lies between the last acknowledged commit
and the visible one, with the hash of its commit) and `CommitInFlight` (what each stage of a commit has already made
durable). The refinement maps the abstract log to the chain below CURRENT: the rename of CURRENT is the append, the
final directory sync the acknowledgement, a power loss the truncation, and every other step a stutter.

`UpdateProof`, for every set of builds (assumptions `NoFileIsNoBuild` and `TornIsNoBuild`):

| Theorem | Statement |
|---|---|
| `TrustedAlwaysSurvives` | `Spec => []TrustedSurvives`: the last verified build is in place or is the rollback copy, unless a power loss tore the binary that was verified |
| `OnlyVerifiedEverSettles` | `Spec => []OnlyVerifiedSettles`: without a record, the binary in place is the verified one, torn only if that very binary was |
| `RefusalAlwaysFalseAlarm` | `Spec => []RefusalIsFalseAlarm`: recovery refuses only over a restored installation |
| `UpdateInvariant` | `Spec => []UpdateInv` |

A crash leaves only the files, so the argument runs through them: `RecordTellsFiles` bounds the shapes the two binaries
can have under each record, and `StepKnowsFiles` does the same for each step of a run. `Stop` needs the first from the
second, `Converge` the second from the first. `BytesFollowFiles` says that only a file that exists has unsynced bytes,
which `PowerLoss` needs, and that the new binary is whole from its placing to its verification, as no run outlives a
power loss.

`ServingProof`, for every set of representations and sizes, every queue bound and any number of imports and faults
(assumption `ItemsDiffer`):

| Theorem | Statement |
|---|---|
| `AnnouncedAlwaysServed` | `Spec => []AnnouncedServed` |
| `RecordedAlwaysResident` | `Spec => []RecordedResident` |
| `ServingInvariant` | `Spec => []ServingInv` |

`EntriesKnown` says that once this process vouches for the directory, the only entry without an fsync is that of the
import in flight, and that an import answers Ok only over a durable entry. `CopiesKnown` says where each copy is that
was answered Ok: in the mirror, in the queue, in the worker's hand, or behind a remembered failure or a lost worker,
which no barrier passes. `BarrierKnown` says that there is one barrier at most and that the one a caller waits for is
last in the queue: when it is answered, every earlier copy has landed. A barrier whose caller gave up keeps the permit,
so that no later caller can be answered by it.

Only model-checked: everything in the other modules, all liveness (fairness and `ENABLED` are out of the prover's
reach), and what the folds of `MembershipChain` and `Authorization` compute (induction over data is out of its reach).

## Findings

Each has a run that TLC refutes, and a comment or document of the repository that says otherwise.

1. `intake_lost`: a parked announcement that a flush left behind for budget is acknowledged to the relay, uncommitted,
   when it is delivered again (`intake/mod.rs:346` against the comment at 435).
2. `outbox_gap`: a statement listing the transition of epoch 3 retires the obligation for that of epoch 2, which the
   recipient may lack (`respond.rs:401` against 376 and `docs/sync-and-peers.md:154`).
3. `write_lost`: a pass that commits a fold and fails before it installs the projection leaves a handle whose capture
   is older than its base; its next commit drops acknowledged bytes (`fold.rs:125` against the comment at 110).
4. `stream_lost`: a tick takes the saturation flag while the drainer is still parked; what the broadcast drops of the
   replay was never flagged, and no replay follows (`supervision.rs:364` against 112 and 558).
5. `demand_lost`: a reader registers between the gate that takes a snapshot of the registry and the peek of admission;
   its want is marked admitted and nothing durable asks for it (`live/pass.rs:300` against 311 and `want.rs:62`).
6. `resolution_reopened`: a third sibling that is observed after the conflict of two was resolved leaves the recognized
   resolution incomplete; it turns void and the chain is frozen again (`chain.rs:395` against `docs/epochs.md:208`,
   "nothing that arrives later reopens that conflict").

## Observations made while modelling

Read in the code or met by TLC in an instance that is not kept here as a run. They are leads to check, not results.

Membership, authorization, intake:

- Two contradictory resolutions freeze the drive (`chain.rs:474`) "pending a further resolution", as
  `docs/epochs.md:192` puts it; but no resolution of the same siblings is preferred to another, so that a further one
  ends nothing. Only a sibling that was not there before, and a resolution naming it too, does.
- A transition without a derived state is called terminal (`membership/mod.rs:257`, "can never become derivable"), but a
  resolution that stands alone is one only until the conflict it resolves is observed.
- `Engine::resync` rebuilds the seen set and keeps the volatile pending queue (`runtime/engine/mod.rs:1063`): an owner's
  device can commit the same announcement twice. `ReceiverCommitsOnce` is therefore about receivers; `CommitOnce` of
  `Intake`, which says it of everybody, is refuted in the owner's situation.
- A rotation commit that lands but reports an error leaves the device without the granted control keys until it
  reopens (`intake/mod.rs:1099` against 496); a retried authoring call after such an error makes a second successor
  (`author/common.rs:142` against 79), since authoring does not resync.
- Stranded work can become live again (`classify.rs:363` against `docs/epochs.md:451`), and whether a snapshot is
  undecided or dead can depend on which bad parent is listed first.

Outbox and write path:

- A restart under a new route, a change of role or a refused redelivery leaves pairs that `announce_eligible_for` would
  send again, but `announce_pending` is behind the idle gate (`live/pass.rs:489`), `has_pending_outbound`
  (`engine/outbox.rs:93`) does not count delivered pairs, and `into_live` composes the node with the revision it opened
  at as published (`node.rs:386`). On a drive that commits nothing else they are never sent: `RedeliveryQuenches`
  without its premise is refuted by a trace of 12 states with one restart. `tests_restart_redelivery.rs:1` names the
  dependence, and says at 50 that "the fresh publication state (revision 0 served against durable current) keeps the
  pass non-idle". The node of that test, too, is composed at the current revision; it runs over an empty object store,
  where the scrub commits and publication waits for content, and this is what keeps its gate open.
- The pending half of `announce_eligible_for` ignores reconciled pairs (`state/announcements.rs:204` against 373); an
  envelope that a relay accepted and then dropped is never resent, a limit `docs/sync-and-peers.md` states.
- A fold member whose trees are not local gets `NeedContent` as its own cause, so the forcing call answers EIO
  (`apply.rs:970` against 792 and the comment in `kind.rs`).
- The deadline clock of a held mutation starts at its first deferral, not at admission.

Demand:

- The admission of a reader's want commits `Cached` over the `Pinned` policy of content that is not local
  (`engine/materialization.rs:218` compares only with `Cached`), so a pin ends without an unpin; `docs/cli.md:686` says
  that no action "silently reinterprets another". `PinHeld` of `Demand` states it and is refuted by a trace of 13
  states.
- `register_unowned` does not mark an identity that a reader already has pending, so the vault's share of it goes with
  the reader.

Serving:

- `recorded_entry` names a recorded mapping again when its vault file reads back, and imports nothing
  (`author/snapshot.rs:539`). A root whose import was refused by a full queue, or failed its directory fsync, or was
  renamed by a process that died, can so be named and announced while the mirror does not hold it until a restart, or
  while its entry can be lost with the power. `mirror.rs:21` says that "announcements never discharge over
  representations the mirror has not served", and `durable.rs:21` that "the first use of an existing object re-syncs
  its directory". These roots are the `borrowed` ones of the two serving properties.
- The import of a held root whose file rotted returns Ok without healing it, which the code leaves to a scrub.
- When the worker's task is lost, the bytes of what it had queued stay reserved, and a queued barrier's permit is never
  freed: the device reports not ready until it restarts.

Mailbox:

- An append that fails half way and a later one that succeeds leave a glued line, and the next start refuses the ledger
  (`seen_store.rs:135`); a torn final line is the only case the comment at 15 treats as benign.
- Opening the ledger syncs no directory (`seen_store.rs:106`): a power loss before the first compaction may take the
  file with every acknowledged wrap in it, and the relay's redelivery is then accepted again.
- The order of lines at load can evict an id the live set had retained; a directory sync that fails after a compaction
  can bring the replaced file back; a line that was written and not synced counts as seen after a kill.
- A tick that is due while a saturation replay is on its way takes the flag away, and a recovered stream is called alive
  even if its replacement drainer is dead (`supervision.rs:774`). No liveness is claimed of the stream.

Update:

- A rollback cut short after it moved the copy back and before it removed the record leaves a `swapped` record without a
  copy, from which every later run refuses to recover (`RecoveryConverges` of `Update` is refuted; `docs/update.md:167`,
  "No third outcome."). `RefusalIsFalseAlarm` shows that nothing is lost by it: the verified build is in place, and the
  record has to be removed by hand.
- The bytes of the staged binary are never synced (`state.rs:364`), although `state.rs:152` says that the executable
  swaps get the treatment "temp + fsync + rename + fsync-dir". A power loss soon after a run committed and removed the
  old copy can leave a torn executable and no other; the properties of `Update` name this case (`spoilt`).
- After a crash between the two renames nothing is left under the name of the executable to run the recovery; two runs
  at a time are not excluded.

## Not modelled, and why

The modules stand for about 11,700 source lines. That is a fourteenth of all Rust lines of the repository, tests
included, and covers the parts in which steps interleave, fail or are retried. What is left out:

- Pure code and codecs: `wyrd-format`'s manifests, trees, snapshots and records, the sealing of objects, the key
  schedule. Well-formedness, signatures and decryption are flags of a message, a transition or a snapshot.
- Sequential algorithms over whole trees: the merge, the manifest walk, closure verification, export, public read. They
  have no state between calls; what they import, name and commit is part of `Serving`.
- The object store: one file at a time through the durability layer that `Serving` models for the vault. What follows
  from a missing or rejected object is part of `Demand`. `ensure_dir` and the creation of the drive's directories are
  left out with it.
- Keyring, escrow and custody files; bootstrap and join: linear set-ups with one writer. Which grants a device honours
  is part of `Intake`.
- Bulk transport, Nostr and iroh: third-party network code, whose results are inputs of `Demand`, `Serving`, `Mailbox`
  and `MailboxStream`.
- The command line, status reports, metrics and logs: presentation of state that is modelled elsewhere.

Inside the modelled parts, `WritePath` leaves out creates and directories with their parent tokens, truncating opens,
the write budget, the inode table and reads; `Outbox` leaves out a frozen drive, the oversize check, relays that drop
what they accepted and passes whose heads are all still being fetched (they send, and leave the gate open); `Intake`
takes `resync` to succeed; `Demand` leaves out wants of the mutation path, generation numbers, the caps of a pass's
queues and the withdrawal of the vault role; `Serving` leaves out temp files, an orderly shutdown (it ends the process
as a kill does) and poisoned locks, and has one loop thread.
