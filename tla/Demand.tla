------------------------------- MODULE Demand -------------------------------
(***************************************************************************)
(* Fetch on open: how a reader of the mount gets content that is not local. *)
(*                                                                         *)
(* Readers register a want in the WantRegistry and poll the published view  *)
(* until it serves, turns terminal or their deadline passes.  The loop's    *)
(* sync_pass reopens terminal generations, clears the claims of rejected    *)
(* bytes, sweeps for a vault, admits pending wants as durable Cached        *)
(* policy, clears the claims of lost bytes, fetches what policy wants and   *)
(* publishes the next view.  The registry, the store and the view have      *)
(* locks of their own, so readers move between any two phases of a pass.    *)
(* `wyrd policy` runs while no daemon holds the drive.                      *)
(*                                                                         *)
(* Readers are counted, not named.  A content has one representation.       *)
(***************************************************************************)
EXTENDS Integers, FiniteSets, FiniteSetsExt

CONSTANTS Contents,     \* content identities, numbers: the registry is a BTreeSet
          Situations    \* what a behaviour starts from and how far it goes

\* A situation gives
\*   contents   the identities the served namespace names,
\*   own        those this device authored: bytes and claim are local while
\*              the policy is still RemoteOnly,
\*   limit      WantRegistry::limit,
\*   admit      budgets.max_admit_per_pass,
\* and bounds:
\*   readers    readers inside the mount at once,
\*   faults     commits and discards that may still fail,
\*   damage     how often bytes may still rot or vanish,
\*   commands   `wyrd policy` commands still to come.

VARIABLES up, policy, claim, bytes,
          pending, admitted, waiting, unowned, notes,
          rejected, missing, recent,
          registering, blocked,
          phase, batch, committed, snapshot,
          attempted, terminal, view,
          promised, lost, skipped, room

durable == <<policy, claim, bytes>>
registry == <<pending, admitted, waiting, unowned>>
repairs == <<rejected, missing, recent>>
readers == <<registering, blocked>>
engine == <<attempted, terminal>>
loop == <<phase, batch, committed, snapshot>>
ghosts == <<promised, lost, skipped>>
vars == <<up, durable, registry, notes, repairs, readers, engine, loop, view,
          ghosts, room>>

Verdicts == {"Unavailable", "Corrupt"}
Nobody == [c \in Contents |-> 0]

\* RuntimeState::status under the overlay of a terminal verdict: what a view
\* published now would say of c.
Status(c, verdict) ==
    IF claim[c] THEN "Available"
    ELSE IF verdict # "none" THEN verdict
    ELSE IF policy[c] = "RemoteOnly" THEN "RemoteOnly" ELSE "Fetching"

\* The first n identities of a BTreeSet.
FirstOf(S, n) == {c \in S : Cardinality({d \in S : d < c}) < n}

Demanded == {c \in Contents : policy[c] # "RemoteOnly" /\ ~claim[c]}

\* A started daemon: an empty registry, empty queues, no verdicts.
Started ==
    /\ pending = {} /\ admitted = {} /\ waiting = Nobody /\ unowned = {}
    /\ notes = {} /\ rejected = {} /\ missing = {} /\ recent = {}
    /\ registering = Nobody /\ blocked = Nobody
    /\ phase = "idle" /\ batch = {} /\ committed = {} /\ snapshot = FALSE
    /\ attempted = {}
    /\ terminal = [c \in Contents |-> "none"]
    /\ view = [c \in Contents |-> Status(c, terminal[c])]

\* Nothing is promised yet.
Init ==
    /\ room \in Situations
    /\ up = TRUE
    /\ policy = [c \in Contents |-> "RemoteOnly"]
    /\ claim = [c \in Contents |-> c \in room.own]
    /\ bytes = [c \in Contents |-> IF c \in room.own THEN "good" ELSE "none"]
    /\ promised = {} /\ lost = {} /\ skipped = {}
    /\ Started

-----------------------------------------------------------------------------
(* Readers: with_demand and wait_for_materialization.                      *)

ReaderFrame == UNCHANGED <<up, durable, engine, loop, view, ghosts, room>>

Inside == MapThenSumSet(LAMBDA c : registering[c] + blocked[c], Contents)

\* WantRegistry::note_reopen_demand: overflow drops the note.
Noted(c) == IF Cardinality(notes) >= room.limit THEN notes ELSE notes \cup {c}

\* What a read of c meets: bytes in the store are served once they verify and
\* rejected otherwise, whatever the view says; absent bytes are classified by
\* the view's status.
Served(c) == bytes[c] = "good"
Rejected(c) == bytes[c] = "bad"
Absent(c, statuses) == bytes[c] = "none" /\ view[c] \in statuses
Broken(c) == Rejected(c) \/ Absent(c, {"Available"})

\* Verification-failed bytes are reported to quarantine, claimed but absent
\* ones to scrub.
Reports(c) ==
    /\ rejected' = IF Rejected(c) THEN rejected \cup {c} ELSE rejected
    /\ missing' = IF Rejected(c) THEN missing ELSE missing \cup {c}
    /\ recent' = recent \cup {c}

\* First touch of c.  A read that is served, or that meets a Corrupt
\* verdict, changes nothing here.
Touch(c) ==
    /\ up /\ c \in room.contents /\ Inside < room.readers
    /\ \/ /\ Broken(c)
          /\ Reports(c)
          /\ registering' = [registering EXCEPT ![c] = @ + 1]
          /\ UNCHANGED notes
       \/ /\ \/ Absent(c, {"RemoteOnly", "Fetching"})
             \/ Absent(c, {"Unavailable"}) /\ c \in recent
          /\ registering' = [registering EXCEPT ![c] = @ + 1]
          /\ UNCHANGED <<notes, rejected, missing, recent>>
       \/ /\ Absent(c, {"Unavailable"}) /\ c \notin recent
          /\ notes' = Noted(c)
          /\ UNCHANGED <<registering, rejected, missing, recent>>
    /\ UNCHANGED <<registry, blocked>> /\ ReaderFrame

\* WantRegistry::register: an outstanding identity only gains a waiter; a
\* new one past the bound is refused and the reader leaves with EIO.
Register(c) ==
    /\ registering[c] > 0
    /\ registering' = [registering EXCEPT ![c] = @ - 1]
    /\ IF c \notin pending \cup admitted
          /\ Cardinality(pending) + Cardinality(admitted) >= room.limit
       THEN UNCHANGED <<registry, blocked>>
       ELSE /\ pending' = IF c \in admitted THEN pending ELSE pending \cup {c}
            /\ waiting' = [waiting EXCEPT ![c] = @ + 1]
            /\ blocked' = [blocked EXCEPT ![c] = @ + 1]
            /\ UNCHANGED <<admitted, unowned>>
    /\ UNCHANGED <<notes, repairs>> /\ ReaderFrame

\* WantRegistry::release: the last waiter out retires a pending demand the
\* loop does not own.
Release(c) ==
    /\ waiting' = [waiting EXCEPT ![c] = @ - 1]
    /\ pending' = IF waiting[c] = 1 /\ c \notin unowned
                  THEN pending \ {c} ELSE pending
    /\ UNCHANGED <<admitted, unowned>>

Leave(c) == blocked' = [blocked EXCEPT ![c] = @ - 1] /\ Release(c)

\* One poll of a blocked reader that completes it: served, a Corrupt
\* verdict, or an Unavailable one with no repair in flight.
Complete(c) ==
    /\ blocked[c] > 0
    /\ \/ Served(c) /\ UNCHANGED notes
       \/ Absent(c, {"Corrupt"}) /\ UNCHANGED notes
       \/ Absent(c, {"Unavailable"}) /\ c \notin recent /\ notes' = Noted(c)
    /\ Leave(c)
    /\ UNCHANGED <<registering, repairs>> /\ ReaderFrame

\* One poll that keeps waiting and has something to report.
Poll(c) ==
    /\ blocked[c] > 0
    /\ \/ Broken(c) /\ Reports(c) /\ UNCHANGED notes
       \/ /\ Absent(c, {"Unavailable"}) /\ c \in recent
          /\ notes' = Noted(c) /\ UNCHANGED repairs
    /\ UNCHANGED <<registry, readers>> /\ ReaderFrame

\* The reader's deadline.
TimeOut(c) ==
    /\ blocked[c] > 0
    /\ Leave(c)
    /\ UNCHANGED <<registering, notes, repairs>> /\ ReaderFrame

\* The window of recent rejections and losses passes.
RecencyEnds(c) ==
    /\ c \in recent
    /\ recent' = recent \ {c}
    /\ UNCHANGED <<registry, notes, rejected, missing, readers>> /\ ReaderFrame

-----------------------------------------------------------------------------
(* The loop: sync_pass, one action per phase.                              *)

At(p) == up /\ phase = p
PassFrame ==
    UNCHANGED <<up, readers, recent, promised, skipped>>

\* An error ends the pass; the daemon is dirty and the view stands.
PassFails ==
    /\ room.faults > 0 /\ room' = [room EXCEPT !.faults = @ - 1]
    /\ phase' = "idle" /\ batch' = {} /\ committed' = {} /\ snapshot' = FALSE

\* take_reopen_notes and reopen_generation.
Reopen ==
    /\ At("idle")
    /\ phase' = "quarantine"
    /\ notes' = {}
    /\ LET reopened == {c \in notes : terminal[c] # "none"}
       IN  /\ terminal' = [c \in Contents |->
                              IF c \in reopened THEN "none" ELSE terminal[c]]
           /\ attempted' = attempted \ reopened
    /\ PassFrame
    /\ UNCHANGED <<durable, registry, rejected, missing, batch,
                   committed, snapshot, view, lost, room>>

Unclaimed(S) == [c \in Contents |-> claim[c] /\ c \notin S]

\* Mutation of ClearRejected: the bytes go first, the claim after them.
DiscardThenClear ==
    /\ At("quarantine")
    /\ rejected' = {}
    /\ \/ /\ phase' = "discard" /\ batch' = rejected
          /\ bytes' = [c \in Contents |->
                 IF c \in rejected /\ bytes[c] = "bad" THEN "none" ELSE bytes[c]]
          /\ claim' = Unclaimed(rejected)
          /\ UNCHANGED <<room, committed, snapshot>>
       \/ /\ rejected # {} /\ PassFails
          /\ bytes' = [c \in Contents |->
                 IF c \in rejected /\ bytes[c] = "bad" THEN "none" ELSE bytes[c]]
          /\ UNCHANGED claim
    /\ PassFrame
    /\ UNCHANGED <<policy, registry, notes, missing, engine, view, lost>>

\* drain_quarantine up to its commit: the queue is popped, then one commit
\* clears the claims.  A failed commit may have landed; the popped
\* observations are gone either way.
ClearRejected ==
    /\ At("quarantine")
    /\ rejected' = {}
    /\ \/ /\ phase' = "discard" /\ batch' = rejected
          /\ claim' = Unclaimed(rejected)
          /\ UNCHANGED <<room, committed, snapshot>>
       \/ /\ rejected # {} /\ PassFails
          /\ claim' \in {claim, Unclaimed(rejected)}
    /\ PassFrame
    /\ UNCHANGED <<policy, bytes, registry, notes, missing, engine, view, lost>>

\* discard_rejected_representation, verify then delete: only bytes that are
\* still bad go.  A discard that fails keeps the bytes and the pass goes on.
DiscardRejected ==
    /\ At("discard")
    /\ phase' = "sweep" /\ batch' = {}
    /\ LET bad == {c \in batch : bytes[c] = "bad"}
       IN  \/ /\ bytes' = [c \in Contents |->
                              IF c \in bad THEN "none" ELSE bytes[c]]
              /\ UNCHANGED room
           \/ /\ \E kept \in bad :
                    bytes' = [c \in Contents |->
                                IF c \in bad \ {kept} THEN "none" ELSE bytes[c]]
              /\ room.faults > 0 /\ room' = [room EXCEPT !.faults = @ - 1]
    /\ PassFrame
    /\ UNCHANGED <<policy, claim, registry, notes, rejected, missing, engine,
                   committed, snapshot, view, lost>>

\* WantRegistry::register_unowned over a set of candidates, in order, until
\* the bound: an outstanding candidate is left as it is.
UnownedOf(C) ==
    LET fresh == C \ (pending \cup admitted)
        free == room.limit - Cardinality(pending) - Cardinality(admitted)
    IN  FirstOf(fresh, IF free > 0 THEN free ELSE 0)

\* unheld_want_candidates: pinned and local identities are none.
VaultCandidates ==
    FirstOf({c \in room.contents : policy[c] # "Pinned" /\ ~claim[c]}, room.admit)

\* register_vault_wants.  The role file is read afresh in every pass and the
\* sweep is skipped below an effective vault or when it covered the revision.
VaultSweep ==
    /\ At("sweep")
    /\ phase' = "gate"
    /\ LET unheld == UnownedOf(VaultCandidates)
       IN  \/ UNCHANGED registry
           \/ /\ unheld # {}
              /\ pending' = pending \cup unheld
              /\ unowned' = unowned \cup unheld
              /\ UNCHANGED <<admitted, waiting>>
    /\ PassFrame
    /\ UNCHANGED <<durable, notes, rejected, missing, engine, batch, committed,
                   snapshot, view, lost, room>>

\* The gate ahead of admission: a snapshot of the durable state is taken
\* exactly when something is pending.
Gate ==
    /\ At("gate")
    /\ phase' = "peek"
    /\ snapshot' = (pending # {})
    /\ PassFrame
    /\ UNCHANGED <<durable, registry, notes, rejected, missing, engine, batch,
                   committed, view, lost, room>>

\* admit_wants: peek_pending again, under the per-pass cap.
Peek ==
    /\ At("peek")
    /\ phase' = "admit"
    /\ batch' = FirstOf(pending, room.admit)
    /\ PassFrame
    /\ UNCHANGED <<durable, registry, notes, rejected, missing, engine,
                   committed, snapshot, view, lost, room>>

\* Mutation of Admitted: an admitted identity stays in unowned.
AdmittedKeepsUnowned(S) ==
    /\ pending' = pending \ S
    /\ admitted' = admitted \cup (S \cap pending)
    /\ UNCHANGED <<waiting, unowned>>

\* WantRegistry::mark_admitted: only what is still pending.
Admitted(S) ==
    /\ pending' = pending \ S
    /\ admitted' = admitted \cup (S \cap pending)
    /\ unowned' = unowned \ S
    /\ UNCHANGED waiting

\* set_materialization_from for the next identity of the batch.  Without a
\* snapshot the closure answers Ok and commits nothing.  A failing commit,
\* landed or not, marks the committed prefix and ends the pass.
Admit ==
    /\ At("admit")
    /\ \E c \in FirstOf(batch, 1) :
          LET cached == [policy EXCEPT ![c] = "Cached"]
          IN  \/ /\ policy' = IF snapshot THEN cached ELSE policy
                 /\ batch' = batch \ {c} /\ committed' = committed \cup {c}
                 /\ UNCHANGED <<phase, snapshot, registry, room>>
              \/ /\ snapshot /\ policy[c] # "Cached"
                 /\ policy' \in {policy, cached}
                 /\ Admitted(committed)
                 /\ PassFails
    /\ PassFrame
    /\ UNCHANGED <<claim, bytes, notes, rejected, missing, engine, view, lost>>

\* The mark at the end of admit_wants.
MarkAdmitted ==
    /\ At("admit") /\ batch = {}
    /\ phase' = "scrub"
    /\ Admitted(committed)
    /\ committed' = {} /\ snapshot' = FALSE
    /\ skipped' = IF snapshot THEN skipped ELSE skipped \cup (committed \cap pending)
    /\ UNCHANGED <<up, durable, notes, repairs, readers, engine, batch, view,
                   promised, lost, room>>

\* probe_presence, then drain_scrub: the walk's misses join the readers',
\* presence is verified again and one commit clears the claims still missing.
Scrub ==
    /\ At("scrub")
    /\ missing' = {}
    /\ LET walked == {c \in Contents : claim[c] /\ bytes[c] = "none"}
           gone == {c \in missing \cup walked : bytes[c] = "none"}
       IN  \/ /\ phase' = "fetch"
              /\ claim' = Unclaimed(gone)
              /\ UNCHANGED <<batch, committed, snapshot, room>>
           \/ /\ gone # {} /\ PassFails
              /\ claim' \in {claim, Unclaimed(gone)}
    /\ lost' = {c \in lost : claim'[c]}
    /\ PassFrame
    /\ UNCHANGED <<policy, bytes, registry, notes, rejected, engine, view>>

\* execute_plan_sliced.  The backoff ledgers decide which of the demanded
\* identities are attempted in this run: here any of them.  Verified bytes of
\* some of those land in the store, then one commit claims them.
Fetch ==
    /\ At("fetch")
    /\ \E tried \in SUBSET Demanded : \E landed \in SUBSET tried :
          LET claimed == [c \in Contents |-> claim[c] \/ c \in landed]
          IN  /\ attempted' = attempted \cup tried
              /\ bytes' = [c \in Contents |->
                             IF c \in landed THEN "good" ELSE bytes[c]]
              /\ lost' = lost \ landed
              /\ \/ /\ phase' = "settle" /\ claim' = claimed
                    /\ UNCHANGED <<batch, committed, snapshot, room>>
                 \/ /\ landed # {} /\ PassFails
                    /\ claim' \in {claim, claimed}
    /\ PassFrame
    /\ UNCHANGED <<policy, registry, notes, rejected, missing, terminal, view>>

\* evaluate_terminal, retire_where against its verdicts, and publication.  An
\* attempted generation is exhausted when every representation cools on fault
\* evidence, which the ledgers decide: here it may be.  A verdict stands until
\* it is reopened or the identity is no longer demanded.  The next view is
\* installed, or the pass fails and the previous one keeps serving.
Settle ==
    /\ At("settle")
    /\ \E exhausted \in SUBSET (attempted \cap Demanded), v \in Verdicts :
          terminal' = [c \in Contents |->
              IF c \notin Demanded THEN "none"
              ELSE IF terminal[c] = "none" /\ c \in exhausted THEN v
              ELSE terminal[c]]
    /\ attempted' = attempted \cap Demanded
    /\ admitted' = {c \in admitted :
                       ~claim[c] /\ terminal'[c] = "none" /\ waiting[c] > 0}
    /\ \/ /\ phase' = "idle"
          /\ view' = [c \in Contents |-> Status(c, terminal'[c])]
          /\ UNCHANGED <<batch, committed, snapshot, room>>
       \/ PassFails /\ UNCHANGED view
    /\ skipped' = {c \in skipped : blocked[c] > 0}
    /\ UNCHANGED <<up, durable, pending, waiting, unowned, notes, repairs,
                   readers, promised, lost>>

\* Between its commits a pass reads: the role file, the durable state, the
\* store.  A read that fails ends it with nothing changed.
ReadFails ==
    /\ up /\ phase \in {"sweep", "gate", "scrub", "fetch"}
    /\ PassFails
    /\ PassFrame
    /\ UNCHANGED <<durable, registry, notes, rejected, missing, engine, view, lost>>

-----------------------------------------------------------------------------
(* The daemon stops or dies; `wyrd policy`; damage to the store.           *)

\* Everything but the fact log and the object store is memory.
Down ==
    /\ up
    /\ up' = FALSE
    /\ skipped' = {}
    /\ UNCHANGED <<durable, promised, lost, room>>
    /\ pending' = {} /\ admitted' = {} /\ waiting' = Nobody /\ unowned' = {}
    /\ notes' = {} /\ rejected' = {} /\ missing' = {} /\ recent' = {}
    /\ registering' = Nobody /\ blocked' = Nobody
    /\ phase' = "idle" /\ batch' = {} /\ committed' = {} /\ snapshot' = FALSE
    /\ attempted' = {}
    /\ terminal' = [c \in Contents |-> "none"]
    /\ view' = [c \in Contents |-> "RemoteOnly"]

\* Composition projects the durable state before it serves.
Up ==
    /\ ~up
    /\ up' = TRUE
    /\ view' = [c \in Contents |-> Status(c, terminal[c])]
    /\ UNCHANGED <<durable, registry, notes, repairs, readers, engine, loop,
                   ghosts, room>>

\* pin_subtree, unpin_subtree and evict_subtree over the chunks S of a path:
\* each one durable commit, under the drive's lock.
Command(S, before, after, promises) ==
    /\ ~up /\ room.commands > 0 /\ room' = [room EXCEPT !.commands = @ - 1]
    /\ policy' = [c \in Contents |->
                    IF c \in S /\ policy[c] \in before THEN after ELSE policy[c]]
    /\ promised' = promises
    /\ UNCHANGED <<up, claim, bytes, registry, notes, repairs, readers, engine,
                   loop, view, lost, skipped>>

Pin(S) == Command(S, {"RemoteOnly", "Cached"}, "Pinned", promised \cup S)
Unpin(S) == Command(S, {"Pinned"}, "Cached", promised \ S)
Evict(S) ==
    /\ \A c \in S : policy[c] # "Pinned"
    /\ Command(S, {"Cached"}, "RemoteOnly", promised)

\* Bytes rot or vanish behind the drive's back.
Damage(c) ==
    /\ room.damage > 0 /\ room' = [room EXCEPT !.damage = @ - 1]
    /\ bytes[c] = "good"
    /\ \E b \in {"bad", "none"} :
          /\ bytes' = [bytes EXCEPT ![c] = b]
          /\ lost' = IF b = "none" THEN lost \cup {c} ELSE lost
    /\ UNCHANGED <<up, policy, claim, registry, notes, repairs, readers, engine,
                   loop, view, promised, skipped>>

Next ==
    \/ \E c \in Contents :
          \/ Touch(c) \/ Register(c) \/ Complete(c) \/ Poll(c) \/ TimeOut(c)
          \/ RecencyEnds(c) \/ Damage(c)
    \/ Reopen \/ ClearRejected \/ DiscardRejected \/ VaultSweep \/ Gate
    \/ Peek \/ Admit \/ MarkAdmitted \/ Scrub \/ Fetch \/ Settle \/ ReadFails
    \/ Down \/ Up
    \/ \E S \in SUBSET room.contents \ {{}} : Pin(S) \/ Unpin(S) \/ Evict(S)

Spec == Init /\ [][Next]_vars

-----------------------------------------------------------------------------
(* Properties.                                                             *)

\* Demand is neither lost nor leaked, whatever leaves, fails or coalesces
\* between a peek, its commits and its mark: the registry counts exactly the
\* blocked readers; every pending identity has a blocked reader or belongs to
\* the loop's sweep; the loop's share is pending; a blocked reader's identity
\* is outstanding, wanted by durable policy or claimed local; and the bound
\* on outstanding identities holds (want.rs RegistryState, register,
\* register_unowned, release, mark_admitted, retire_where).
DemandAccounted ==
    /\ waiting = blocked
    /\ \A c \in pending : blocked[c] > 0 \/ c \in unowned
    /\ unowned \subseteq pending
    /\ pending \cap admitted = {}
    /\ Cardinality(pending) + Cardinality(admitted) <= room.limit
    /\ \A c \in Contents :
          blocked[c] > 0 =>
             c \in pending \/ policy[c] # "RemoteOnly" \/ c \in skipped

\* Claims before bytes: the drive never removes the bytes of an identity it
\* still claims, through failed commits and kills between the phases of the
\* repair drains (quarantine.rs drain_quarantine, phases 2 and 3).  A claim
\* without bytes is a loss from outside that scrub has not cleared yet.
ClaimsBacked ==
    \A c \in Contents : claim[c] /\ bytes[c] = "none" => c \in lost

\* An admitted identity is wanted by durable policy: no waiter coalesces onto
\* a fetch the engine does not know of (want.rs: RegistryState::admitted, "the
\* demand is durably `Cached`").
AdmittedIsWanted == \A c \in admitted : policy[c] # "RemoteOnly"

\* A pin ends only by unpin (policy.rs, unpin_subtree).
PinHeld == \A c \in promised : policy[c] = "Pinned"
=============================================================================
