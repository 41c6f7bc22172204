------------------------------ MODULE Serving ------------------------------
(***************************************************************************)
(* What a device serves to its peers: the vault of sealed representations, *)
(* the serving mirror that answers fetches, and the barrier that keeps an   *)
(* announcement back until the mirror holds what it names.                  *)
(*                                                                         *)
(* The live loop is one thread: it fetches or authors, importing each       *)
(* representation into the vault, commits the records that name them, and   *)
(* discharges announcements once the mirror reports ready.  An import       *)
(* publishes a file (temp, fsync, rename, fsync of the directory) and hands *)
(* a copy to the bounded mirror queue, which a worker on another thread     *)
(* drains.  The mirror is derived: every start rebuilds it from the vault.  *)
(***************************************************************************)
EXTENDS ServingState, Integers, Sequences

CONSTANTS Size,          \* the length of each representation
          Mapped,        \* those a peer's manifest maps: fetched, not sealed here
          MaxItems,      \* MAX_MIRROR_QUEUE_ITEMS
          MaxBytes,      \* MAX_MIRROR_QUEUE_BYTES
          MaxImports,    \* calls of Vault::import to come
          MaxFaults      \* failing calls, crashes and damage to come

VARIABLES unsynced, verified,            \* Durability: pending, verified
          queue, reserved, working, drain, failed, permit,   \* the mirror's worker
          current, walk,                 \* the loop
          owed,                          \* announcements to come
          vouched,                       \* ghost: imported Ok
          imports, faults

vault == <<held, rotten, unsynced, verified>>
serving == <<mirror, queue, reserved, working, drain, failed, permit>>
loop == <<call, current, walk>>
records == <<named, owed, announced>>
ghosts == <<vouched, borrowed>>
bounds == <<imports, faults>>
vars == <<vault, serving, loop, records, ghosts, bounds>>

Fault == faults < MaxFaults /\ faults' = faults + 1
NoFault == UNCHANGED faults

Present(r) == held[r] # "none"

\* Vault::sealed: a file whose bytes no longer hash to its name is absent.
Readable(r) == Present(r) /\ r \notin rotten

Init ==
    /\ held = [r \in Roots |-> "none"] /\ rotten = {}
    /\ unsynced = FALSE /\ verified = FALSE
    /\ mirror = {} /\ queue = <<>> /\ reserved = 0 /\ working = None
    /\ drain = "up" /\ failed = FALSE /\ permit = FALSE
    /\ call = "idle" /\ current = None /\ walk = [kind |-> "none", roots |-> {}]
    /\ named = {} /\ owed = {} /\ announced = {}
    /\ vouched = {} /\ borrowed = {}
    /\ imports = 0 /\ faults = 0

-----------------------------------------------------------------------------
(* Durability: the vault's one directory and the fsync it is owed.          *)

\* The directory's fsync reaches every entry installed so far.
SyncDir ==
    /\ held' = [r \in Roots |-> IF Present(r) THEN "durable" ELSE "none"]
    /\ verified' = TRUE
    /\ unsynced' = FALSE
    /\ NoFault

NoSync == NoFault /\ UNCHANGED <<held, verified, unsynced>>

\* Mutant: a failed fsync is reported and not remembered.
SyncFailsForgotten == Fault /\ UNCHANGED <<held, verified, unsynced>>

\* A failed one is remembered, and what was verified before stays so.
SyncFails ==
    /\ Fault
    /\ unsynced' = TRUE
    /\ UNCHANGED <<held, verified>>

-----------------------------------------------------------------------------
(* Vault::import, called by the loop for the root `current`.               *)

\* An import that fails ends the authoring walk; a fetch pass counts it and
\* goes on, or stops on a full disk and drops its batch.
Refused ==
    /\ call' = "idle" /\ current' = None
    /\ \/ walk' = [kind |-> "none", roots |-> {}]
       \/ walk.kind = "fetch" /\ UNCHANGED walk

\* One that returns the root lets the caller name it.
Accepted ==
    /\ call' = "idle" /\ current' = None
    /\ walk' = [walk EXCEPT !.roots = @ \cup {current}]
    /\ vouched' = vouched \cup {current}

\* Directories owed an fsync come first; then a held root is confirmed and a
\* new one is written beside its name.
Import(r) ==
    /\ imports < MaxImports /\ imports' = imports + 1
    /\ call = "idle" /\ walk.kind = (IF r \in Mapped THEN "fetch" ELSE "author")
    /\ \/ /\ IF unsynced THEN SyncDir ELSE NoSync
          /\ current' = r
          /\ call' = IF Present(r) THEN "confirm" ELSE "publish"
          /\ UNCHANGED walk
       \/ unsynced /\ SyncFails /\ Refused
    /\ UNCHANGED <<rotten, serving, records, ghosts>>

\* write_temp and the rename.  The name appears whole or not at all.
Rename ==
    /\ call = "publish"
    /\ \/ /\ held' = [held EXCEPT ![current] = "linked"]
          /\ call' = "sync"
          /\ NoFault /\ UNCHANGED <<current, walk>>
       \/ Fault /\ Refused /\ UNCHANGED held
    /\ UNCHANGED <<rotten, unsynced, verified, serving, records, ghosts, imports>>

\* publish_temp's fsync.  The mirror is told even when it fails.
SyncPublished ==
    /\ call = "sync"
    /\ \/ SyncDir /\ call' = "notify"
       \/ SyncFails /\ call' = "notify_and_refuse"
    /\ UNCHANGED <<rotten, current, walk, serving, records, ghosts, imports>>

\* reconcile_held: verify_dir trusts an fsync of this process.
Confirm ==
    /\ call = "confirm"
    /\ \/ /\ IF verified THEN NoSync ELSE SyncDir
          /\ call' = "notify"
          /\ UNCHANGED <<current, walk>>
       \/ ~verified /\ SyncFails /\ Refused
    /\ UNCHANGED <<rotten, serving, records, ghosts, imports>>

\* MirrorSender::send_import reserves the bytes before it takes a slot.  The
\* worker gives an item's bytes back just after it took the item, so a copy may
\* be turned away for bytes that are no longer waiting.
Fits(r, bytes) == bytes + Size[r] <= MaxBytes
InHand == IF working \in Roots THEN Size[working] ELSE 0

MirrorFull(r) ==
    \/ ~Fits(r, reserved + InHand)
    \/ drain = "up" /\ Len(queue) = MaxItems

\* notify_mirror.  Without room the import is MirrorFull; a queue whose worker
\* is gone takes the copy silently.
NotifyMirror ==
    /\ call \in {"notify", "notify_and_refuse"}
    /\ \/ /\ Fits(current, reserved)
          /\ IF drain = "gone" THEN UNCHANGED <<queue, reserved>>
             ELSE /\ Len(queue) < MaxItems
                  /\ queue' = Append(queue, current)
                  /\ reserved' = reserved + Size[current]
          /\ IF call = "notify" THEN Accepted ELSE Refused /\ UNCHANGED vouched
       \/ /\ MirrorFull(current)
          /\ Refused
          /\ UNCHANGED <<vouched, queue, reserved>>
    /\ UNCHANGED <<vault, mirror, working, drain, failed, permit, records, borrowed,
                   bounds>>

-----------------------------------------------------------------------------
(* The loop's passes.                                                       *)

\* A fetch pass or an authoring walk begins.
Begin(kind) ==
    /\ call = "idle" /\ walk.kind = "none"
    /\ walk' = [kind |-> kind, roots |-> {}]
    /\ UNCHANGED <<call, current, vault, serving, records, ghosts, bounds>>

\* ManifestAuthor::recorded_entry: a recorded mapping whose vault copy reads
\* back is named again; nothing is imported.
Reuse(r) ==
    /\ call = "idle" /\ walk.kind = "author"
    /\ r \in Mapped \cup named /\ r \notin walk.roots
    /\ Readable(r)
    /\ walk' = [walk EXCEPT !.roots = @ \cup {r}]
    /\ UNCHANGED <<call, current, vault, serving, records, ghosts, bounds>>

\* Residency precedes the record: the facts commit after their imports.  An
\* authored snapshot commits whole, its announcements with it, or not at all; a
\* fetched batch over a ceiling is split, and what landed of it stays.
Commit ==
    /\ call = "idle" /\ walk.kind # "none"
    /\ \E landed \in SUBSET walk.roots :
          /\ walk.kind = "author" => landed \in {{}, walk.roots}
          /\ named' = named \cup landed
          /\ owed' = IF walk.kind = "author" THEN owed \cup landed ELSE owed
          /\ borrowed' = borrowed \cup (landed \ vouched)
    /\ walk' = [kind |-> "none", roots |-> {}]
    /\ UNCHANGED <<call, current, vault, serving, announced, vouched, bounds>>

\* flush_bounded: one barrier at a time.  An outstanding one, a full queue or a
\* gone worker is not ready, and the pass ends without a discharge.
Flush ==
    /\ call = "idle" /\ walk.kind = "none" /\ owed # {}
    /\ ~permit /\ drain = "up" /\ Len(queue) < MaxItems
    /\ permit' = TRUE
    /\ queue' = Append(queue, Barrier)
    /\ call' = "waiting"
    /\ UNCHANGED <<vault, mirror, reserved, working, drain, failed, current, walk,
                   records, ghosts, bounds>>

\* The budget runs out, or the worker went away with the barrier.  A barrier
\* still queued keeps its permit.
GiveUp ==
    /\ call = "waiting"
    /\ call' = "idle"
    /\ UNCHANGED <<current, walk, vault, serving, records, ghosts, bounds>>

\* announce_pending sends what the mailbox takes of it.
Announce ==
    /\ call = "ready"
    /\ \E S \in SUBSET owed :
          /\ announced' = announced \cup S
          /\ owed' = owed \ S
    /\ call' = "idle"
    /\ UNCHANGED <<current, walk, vault, serving, named, ghosts, bounds>>

-----------------------------------------------------------------------------
(* drain_mirror, on the endpoint's own runtime.                            *)

Take ==
    /\ drain = "up" /\ working = None /\ queue # <<>>
    /\ working' = Head(queue)
    /\ queue' = Tail(queue)
    /\ reserved' = reserved - IF Head(queue) = Barrier THEN 0 ELSE Size[Head(queue)]
    /\ UNCHANGED <<vault, mirror, drain, failed, permit, loop, records, ghosts,
                   bounds>>

\* The first failure is remembered until a restart.
Land ==
    /\ working \in Roots
    /\ \/ mirror' = mirror \cup {working} /\ NoFault /\ UNCHANGED failed
       \/ Fault /\ failed' = TRUE /\ UNCHANGED mirror
    /\ working' = None
    /\ UNCHANGED <<vault, queue, reserved, drain, permit, loop, records, ghosts, imports>>

\* Mutant: a barrier that reported the failure clears it.
AnswerClears ==
    /\ working = Barrier
    /\ call' = IF call = "waiting" THEN IF failed THEN "idle" ELSE "ready" ELSE call
    /\ failed' = FALSE
    /\ permit' = FALSE
    /\ working' = None
    /\ UNCHANGED <<vault, mirror, queue, reserved, drain, current, walk, records,
                   ghosts, bounds>>

\* A barrier is answered with what happened so far, whether or not its caller
\* still waits, and frees the permit.
Answer ==
    /\ working = Barrier
    /\ call' = IF call = "waiting" THEN IF failed THEN "idle" ELSE "ready" ELSE call
    /\ permit' = FALSE
    /\ working' = None
    /\ UNCHANGED <<vault, mirror, queue, reserved, drain, failed, current, walk,
                   records, ghosts, bounds>>

\* The worker's task is lost: the channel closes with what it holds.
DrainEnds ==
    /\ drain = "up" /\ call # "down"
    /\ Fault
    /\ drain' = "gone" /\ queue' = <<>> /\ working' = None
    /\ UNCHANGED <<vault, mirror, reserved, failed, permit, loop, records, ghosts,
                   imports>>

-----------------------------------------------------------------------------
(* Crashes, damage and the next start.                                     *)

Halt ==
    /\ call # "down" /\ Fault
    /\ call' = "down" /\ current' = None /\ walk' = [kind |-> "none", roots |-> {}]
    /\ unsynced' = FALSE /\ verified' = FALSE
    /\ queue' = <<>> /\ reserved' = 0 /\ working' = None
    /\ drain' = "gone" /\ failed' = FALSE /\ permit' = FALSE
    /\ UNCHANGED <<records, ghosts, imports>>

Kill == Halt /\ UNCHANGED <<held, rotten, mirror>>

\* An entry the directory was not synced for may be gone; so may anything of
\* the mirror, which no code here syncs.
PowerLoss ==
    /\ Halt
    /\ \E lost \in SUBSET {r \in Roots : held[r] = "linked"} :
          /\ held' = [r \in Roots |-> IF r \in lost THEN "none" ELSE held[r]]
          /\ rotten' = rotten \ lost
    /\ mirror' = {}

\* A vault file's bytes change under it.
Rot(r) ==
    /\ Readable(r) /\ Fault
    /\ rotten' = rotten \cup {r}
    /\ UNCHANGED <<held, unsynced, verified, serving, loop, records, ghosts, imports>>

\* ServingEndpoint::open: every root that reads back becomes servable, then the
\* vault gets a fresh queue.
Open ==
    /\ call = "down"
    /\ call' = "idle"
    /\ mirror' = mirror \cup {r \in Roots : Readable(r)}
    /\ drain' = "up"
    /\ UNCHANGED <<vault, queue, reserved, working, failed, permit, current, walk,
                   records, ghosts, bounds>>

Next ==
    \/ \E r \in Roots : Import(r) \/ Reuse(r) \/ Rot(r)
    \/ Rename \/ SyncPublished \/ Confirm \/ NotifyMirror
    \/ \E kind \in {"fetch", "author"} : Begin(kind)
    \/ Commit \/ Flush \/ GiveUp \/ Announce
    \/ Take \/ Land \/ Answer \/ DrainEnds
    \/ Kill \/ PowerLoss \/ Open

Spec == Init /\ [][Next]_vars

-----------------------------------------------------------------------------
(* properties                                                              *)

Importing == {"confirm", "publish", "sync", "notify", "notify_and_refuse"}

TypeOK ==
    /\ held \in [Roots -> {"none", "linked", "durable"}]
    /\ rotten \subseteq Roots /\ mirror \subseteq Roots
    /\ unsynced \in BOOLEAN /\ verified \in BOOLEAN
    /\ failed \in BOOLEAN /\ permit \in BOOLEAN
    /\ queue \in Seq(Roots \cup {Barrier})
    /\ working \in Roots \cup {Barrier, None}
    /\ drain \in {"up", "gone"}
    /\ call \in Importing \cup {"idle", "waiting", "ready", "down"}
    /\ current \in Roots \cup {None}
    /\ call \in Importing => current \in Roots
    /\ walk \in [kind : {"none", "fetch", "author"}, roots : SUBSET Roots]
    /\ named \subseteq Roots /\ owed \subseteq named /\ announced \subseteq named
    /\ vouched \subseteq Roots /\ borrowed \subseteq Roots

-----------------------------------------------------------------------------
(* What holds in between: the two properties rest on it.                    *)

\* An fsync this process vouches for leaves no entry behind, the one of an
\* import between its rename and its own fsync apart; an import is answered Ok
\* only over a durable entry.
EntriesKnown ==
    /\ verified /\ ~unsynced =>
          \A r \in Roots : held[r] = "linked" => call = "sync" /\ r = current
    /\ call = "confirm" => ~unsynced
    /\ call = "publish" => held[current] = "none"
    /\ call \in {"confirm", "sync"} => held[current] # "none"
    /\ call = "notify" => held[current] = "durable"
    /\ \A r \in vouched : held[r] = "durable"
    /\ named \ borrowed \subseteq vouched

InQueue(x) == \E i \in 1..Len(queue) : queue[i] = x

\* Whatever was answered Ok is served, damaged, on its way to the mirror, or
\* stands behind a barrier that will not report ready.
CopiesKnown ==
    /\ call # "down" =>
          \A r \in vouched : \/ r \in mirror \cup rotten \/ failed \/ drain = "gone"
                             \/ working = r \/ InQueue(r)
    /\ call = "ready" => vouched \subseteq mirror \cup rotten

\* There is one barrier at most, its permit is out while it is queued, and the
\* one a caller waits for is the last item.
BarrierKnown ==
    /\ drain = "gone" => queue = <<>> /\ working = None
    /\ ~permit => ~InQueue(Barrier) /\ working # Barrier
    /\ working = Barrier => ~InQueue(Barrier)
    /\ \A i, j \in 1..Len(queue) : queue[i] = Barrier /\ queue[j] = Barrier => i = j
    /\ call = "waiting" /\ drain = "up" =>
          \/ queue # <<>> /\ queue[Len(queue)] = Barrier
          \/ queue = <<>> /\ working = Barrier

ServingInv ==
    TypeOK /\ EntriesKnown /\ CopiesKnown /\ BarrierKnown /\ AnnouncedServed
=============================================================================
