------------------------------- MODULE Outbox -------------------------------
(***************************************************************************)
(* The outbox of one device and the reconciliation statements that retire  *)
(* what it owes (crates/wyrd-sync/src/runtime: author/delivery.rs,         *)
(* author/rotation.rs, author/announce.rs, respond.rs, reconcile.rs and    *)
(* state/announcements.rs).  The sender owes each recipient transitions,   *)
(* capabilities and announcements.  An obligation is a durable fact; it is *)
(* discharged by a relay's acceptance or retired by a statement in which   *)
(* the recipient lists what it durably holds.                              *)
(*                                                                         *)
(* The membership chain is linear here: the transition of epoch e follows  *)
(* that of e - 1, and the sender is its owner throughout.  The live loop   *)
(* (crates/wyrd-core/src/live/pass.rs) reaches the outbox only past its    *)
(* idle gate and then answers, delivers and announces in that order; each  *)
(* of the three is a job whose sends are separate steps, so a crash or an  *)
(* error falls between any two.  A pass whose heads are all still being    *)
(* fetched, which sends and leaves the gate open, is left out.  The        *)
(* warn-once set and the stall gauge, which only reports read, are left    *)
(* out, and so are the oversize check of a sealed message, a frozen drive  *)
(* (it answers and asks nothing) and a relay that drops what it accepted.  *)
(***************************************************************************)
EXTENDS Naturals, Sequences, FiniteSets, FiniteSetsExt, SequencesExt

CONSTANTS Recipients,      \* the other devices
          Epochs,          \* 1 .. the newest epoch
          Own,             \* snapshots this device authors
          Foreign,         \* snapshots of others whose announcement it holds
          SnapEpoch,       \* the epoch each snapshot is sealed under
          Scope,           \* live heads and their closure: redelivery scope
          Routes,          \* serving endpoints this device may bind
          InitialRoutes,   \* what it may be bound to at the start
          Secrets,         \* epochs whose secret the sender holds
          Admitted,        \* the epoch at which a recipient joins
          Invited,         \* epochs whose key its invitation carried
          InitialHeld,     \* what each recipient durably holds at the start
          InitialOwed,     \* obligations queued by the authoring calls
          Outdated,        \* capability pairs sealed in a superseded framing
          Cap,             \* MAX_RESPONSE_SENDS_PER_STATEMENT
          MaxFaults        \* bound on refusals, errors, crashes, reconnects

ASSUME OutboxAssumption ==
    /\ Epochs = 1 .. Cardinality(Epochs)
    /\ Secrets \subseteq Epochs
    /\ InitialRoutes \subseteq Routes \cup {"withdrawn"}
    /\ Cap \in Nat \ {0}
    /\ MaxFaults \in Nat

VARIABLES queued, delivered, reconciled,  \* the three durable marker sets
          sealed,       \* durable sealed bytes, by what they seal
          sentRoute,    \* route recorded with the last delivery of a pair
          bodies,       \* own snapshots authored so far
          route,        \* the live serving route, or Withdrawn
          statements,   \* received statements, in commit order
          answered,     \* answered_upto, volatile
          job,          \* the running step of the pass
          fresh,        \* the log moved past published_revision, or dirty
          mints,        \* seals made so far of each message: the nonce
          wire, gone,   \* envelopes accepted by a relay, and those consumed
          held,         \* what each recipient durably holds
          requests,     \* statements at the relay
          latched, asked,  \* each recipient's reconnect edge and last stated view
          faults

durables == <<queued, delivered, reconciled, sealed, sentRoute, bodies, statements>>
network == <<wire, gone, requests>>
peers == <<held, latched, asked>>
vars == <<durables, route, answered, job, fresh, mints, network, peers, faults>>

Withdrawn == "withdrawn"       \* WITHDRAWN_ROUTE: no live serving route
Author == "author"             \* the route a foreign announcement carries
Nobody == "none"
Idle == [kind |-> "idle"]

Snaps == Own \cup Foreign
Obligation(kind, key, to) == [kind |-> kind, key |-> key, to |-> to]
Obligations ==
    [kind : {"transition", "capability"}, key : Epochs, to : Recipients]
    \cup [kind : {"announcement"}, key : Snaps, to : Recipients]

EpochOf(o) == IF o.kind = "announcement" THEN SnapEpoch[o.key] ELSE o.key

(* pending_transitions, pending_capabilities, pending_announcements. *)
Pending == queued \ (delivered \cup reconciled)
Covered(o) == o \in queued \cup delivered \cup reconciled

Fault == faults < MaxFaults /\ faults' = faults + 1

---------------------------------------------------------------------------
(* What a send uses: sealed bytes found in the outbox or made now. *)

SealKeys ==
    {"transition"} \X Epochs
    \cup {"capability"} \X Epochs \X Recipients
    \cup {"announcement"} \X Snaps
    \cup {"route"} \X Own \X (Routes \cup {Withdrawn})

SealKey(o) ==
    CASE o.kind = "transition" -> <<"transition", o.key>>
      [] o.kind = "capability" -> <<"capability", o.key, o.to>>
      [] OTHER ->
           LET first == <<"announcement", o.key>>
           IN IF \/ o.key \in Foreign
                 \/ first \notin DOMAIN sealed
                 \/ sealed[first].route = route
              THEN first
              ELSE <<"route", o.key, route>>

(* First seal wins, except a capability sealed in an older framing or for  *)
(* an older registration, which the send path replaces.                    *)
NeedsSeal(o) ==
    \/ SealKey(o) \notin DOMAIN sealed
    \/ sealed[SealKey(o)].outdated

CarriedRoute(o) ==
    IF o.kind # "announcement" THEN Nobody
    ELSE IF o.key \in Foreign THEN Author ELSE route

FreshBytes(o) ==
    [route |-> CarriedRoute(o), outdated |-> FALSE, nonce |-> mints[SealKey(o)] + 1]

BytesFor(o) == IF NeedsSeal(o) THEN FreshBytes(o) ELSE sealed[SealKey(o)]

(* A send needs the epoch's control key; a capability that is to be minted *)
(* needs the recipient in that epoch's state and every secret up to it.    *)
Sealable(o) ==
    IF o.kind = "capability"
    THEN NeedsSeal(o) => /\ Admitted[o.to] =< o.key
                         /\ 1 .. o.key \subseteq Secrets
    ELSE EpochOf(o) \in Secrets

(* announce_eligible_for: undelivered pairs, and delivered pairs in scope  *)
(* whose recorded route is not the live one.  A foreign announcement is    *)
(* judged as with no route, whatever the live route is.                    *)
Eligible(o) ==
    LET live == IF o.key \in Foreign THEN Withdrawn ELSE route
    IN  \/ o \in queued \ delivered
        \/ /\ o \in delivered
           /\ o.key \in Scope
           /\ IF live = Withdrawn
              THEN sentRoute[o] \notin {Nobody, Withdrawn}
              ELSE sentRoute[o] # live

ToAnnounce ==
    {o \in Obligations : /\ o.kind = "announcement"
                         /\ o.key \in bodies \cup Foreign
                         /\ Eligible(o)
                         /\ Sealable(o)}

(* What the running pass may send next.  Transitions go before             *)
(* capabilities; ids are hashes, so any order among transitions may occur. *)
(* A scoped pass stays with one recipient and below its newest install.    *)
Untried(kind) ==
    {o \in Pending \ job.tried : o.kind = kind /\ o.to \in job.to /\ Sealable(o)}

Candidates ==
    IF job.kind = "announce" THEN ToAnnounce \ job.tried
    ELSE IF job.left = 0 THEN {}
    ELSE LET ts == {o \in Untried("transition") : o.key =< job.limit}
             cs == Untried("capability")
         IN IF ts # {} THEN ts
            ELSE {o \in cs : \A p \in cs : o.key =< p.key}

---------------------------------------------------------------------------
(* The sender's passes. *)

StartPass(kind) ==
    [kind |-> kind, to |-> Recipients, limit |-> Cardinality(Epochs),
     left |-> Cardinality(Obligations), tried |-> {}, at |-> 0, upto |-> 0]

(* publish: the answers, then the control messages, then announcements.  A *)
(* mailbox error ends a step and the pass goes on with the next one.       *)
StartAnswer ==
    IF answered < Len(statements)
    THEN [kind |-> "compare", to |-> {}, limit |-> 0, left |-> 0, tried |-> {},
          at |-> answered + 1, upto |-> Len(statements)]
    ELSE StartPass("deliver")

StepAfter(kind) ==
    CASE kind = "deliver" -> StartPass("announce")
      [] kind = "announce" -> Idle
      [] OTHER -> StartPass("deliver")

HasPendingTransitions == \E o \in Pending : o.kind = "transition"

(* has_pending_outbound: strictly pending obligations; a delivered pair    *)
(* with a stale route is not one.                                          *)
HasPendingOutbound == Pending # {}

(* The idle gate.  What is published is the revision read here, so the     *)
(* pass's own commits open the gate once more.                             *)
OpenPass ==
    /\ job = Idle
    /\ fresh \/ HasPendingOutbound
    /\ job' = StartAnswer
    /\ fresh' = FALSE
    /\ UNCHANGED <<durables, route, answered, mints, network, peers, faults>>

(* The serving barrier is asked only while announcements are pending; one  *)
(* that is not ready in time skips this pass's announcements.              *)
BarrierNotReady ==
    /\ job = StartPass("announce")
    /\ \E o \in Pending : o.kind = "announcement"
    /\ Fault
    /\ job' = Idle
    /\ UNCHANGED <<durables, route, answered, fresh, mints, network, peers>>

(* The first seal of an own announcement also queues every device of its   *)
(* epoch that is not covered yet, in the same batch.                       *)
TopUp(o) ==
    IF /\ o.kind = "announcement"
       /\ o.key \in Own
       /\ <<"announcement", o.key>> \notin DOMAIN sealed
    THEN {p \in Obligations : /\ p.kind = "announcement" /\ p.key = o.key
                              /\ Admitted[p.to] =< SnapEpoch[p.key]
                              /\ ~Covered(p)}
    ELSE {}

Minted(o) ==
    IF NeedsSeal(o) THEN [mints EXCEPT ![SealKey(o)] = @ + 1] ELSE mints

CommitSealLost(o) ==
    /\ sealed' = sealed
    /\ queued' = queued \cup TopUp(o)
    /\ mints' = Minted(o)

CommitSeal(o) ==
    /\ sealed' = [k \in DOMAIN sealed \cup {SealKey(o)} |->
                     IF k = SealKey(o) THEN BytesFor(o) ELSE sealed[k]]
    /\ queued' = queued \cup TopUp(o)
    /\ mints' = Minted(o)

Envelope(o) == [o |-> o, bytes |-> BytesFor(o)]

HandOver(o) ==
    /\ wire' = wire \cup {Envelope(o)}
    /\ gone' = gone \ {Envelope(o)}

Attempted(o) == [job EXCEPT !.tried = @ \cup {o}, !.left = @ - 1]

MarkWithoutRoute(o) ==
    /\ delivered' = delivered \cup {o}
    /\ sentRoute' = sentRoute

MarkDelivered(o) ==
    /\ delivered' = delivered \cup {o}
    /\ sentRoute' = IF o.kind # "announcement" THEN sentRoute
                    ELSE [sentRoute EXCEPT ![o] =
                            IF o.key \in Foreign THEN Withdrawn ELSE route]

(* send_sealed_to for one obligation: the seal is durable before a byte    *)
(* leaves, the marker only after a relay accepted.                         *)
SendAccepted(o) ==
    /\ CommitSeal(o)
    /\ HandOver(o)
    /\ MarkDelivered(o)
    /\ job' = Attempted(o)
    /\ fresh' = TRUE
    /\ UNCHANGED faults

SendRefusedCounts(o) ==
    /\ Fault
    /\ CommitSeal(o)
    /\ job' = Attempted(o)
    /\ fresh' = TRUE
    /\ MarkDelivered(o)
    /\ UNCHANGED <<wire, gone>>

SendRefused(o) ==
    /\ Fault
    /\ CommitSeal(o)
    /\ job' = Attempted(o)
    /\ fresh' = (fresh \/ NeedsSeal(o))
    /\ UNCHANGED <<wire, gone, delivered, sentRoute>>

(* A commit that fails, of the seal or of the marker after a relay         *)
(* accepted, ends the pass and marks it dirty; a mailbox error between the *)
(* two ends the step.                                                      *)
SendFails(o) ==
    /\ Fault
    /\ UNCHANGED <<delivered, sentRoute>>
    /\ \/ /\ mints' = Minted(o)
          /\ job' = Idle
          /\ fresh' = TRUE
          /\ UNCHANGED <<sealed, queued, wire, gone>>
       \/ /\ CommitSeal(o)
          /\ job' = StepAfter(job.kind)
          /\ fresh' = (fresh \/ NeedsSeal(o))
          /\ UNCHANGED <<wire, gone>>
       \/ /\ CommitSeal(o)
          /\ HandOver(o)
          /\ job' = Idle
          /\ fresh' = TRUE

Send ==
    /\ job.kind \in {"deliver", "announce", "scoped"}
    /\ \E o \in Candidates : SendAccepted(o) \/ SendRefused(o) \/ SendFails(o)
    /\ UNCHANGED <<reconciled, bodies, statements, route, answered, requests, peers>>

EndStep ==
    /\ job.kind \in {"deliver", "announce"}
    /\ Candidates = {}
    /\ job' = StepAfter(job.kind)
    /\ UNCHANGED <<durables, route, answered, fresh, mints, network, peers, faults>>

---------------------------------------------------------------------------
(* Answering statements. *)

(* covered_transitions: the evidenced transitions and every ancestor of    *)
(* one of them.                                                            *)
CoveredTransitions(evidence) ==
    {e \in Epochs : \E f \in evidence.transitions : e =< f}

CoveredByKnowledge(to, evidence) ==
    {o \in Pending :
        /\ o.to = to
        /\ \/ o.kind # "announcement" /\ o.key \in CoveredTransitions(evidence)
           \/ o.kind = "announcement" /\ o.key \in evidence.snapshots}

CoveredBy(to, evidence) ==
    {o \in Pending :
        /\ o.to = to
        /\ \/ o.kind = "transition" /\ o.key \in CoveredTransitions(evidence)
           \/ o.kind = "capability" /\ o.key \in evidence.capabilities
           \/ o.kind = "announcement" /\ o.key \in evidence.snapshots}

(* missing_announcements: recorded announcements the requester holds the   *)
(* epoch's install for, does not hold and is not owed.  Own snapshots are  *)
(* recorded as bodies, not as announcements.                               *)
MissingFor(to, evidence) ==
    {o \in Obligations :
        /\ o.kind = "announcement" /\ o.to = to
        /\ o.key \in Foreign \ evidence.snapshots
        /\ SnapEpoch[o.key] \in evidence.capabilities
        /\ ~Covered(o)}

NewestHeld(evidence) == Max(evidence.capabilities \cup {0})

(* The next statement of the suffix, or the end of the step, where alone   *)
(* the suffix is marked answered.                                          *)
Advance ==
    IF job.at = job.upto
    THEN job' = StepAfter(job.kind) /\ answered' = job.upto
    ELSE /\ job' = [job EXCEPT !.kind = "compare", !.at = @ + 1]
         /\ UNCHANGED answered

(* One statement: retire what it covers, then queue what it lacks, then    *)
(* send to the requester.  Nothing owed and nothing missing skips it.      *)
Compare ==
    /\ job.kind = "compare"
    /\ LET from == statements[job.at].from
           evidence == statements[job.at].evidence
           owed == {o \in Pending : o.to = from}
           missing == MissingFor(from, evidence)
       IN IF owed = {} /\ missing = {}
          THEN Advance /\ UNCHANGED <<reconciled, queued, fresh>>
          ELSE /\ reconciled' = reconciled \cup CoveredBy(from, evidence)
               /\ queued' = queued \cup missing
               /\ job' = [job EXCEPT !.kind = "scoped", !.to = {from}, !.left = Cap,
                                     !.limit = NewestHeld(evidence), !.tried = {}]
               /\ fresh' = (fresh \/ CoveredBy(from, evidence) # {} \/ missing # {})
               /\ UNCHANGED answered
    /\ UNCHANGED <<delivered, sealed, sentRoute, bodies, statements, route,
                   mints, network, peers, faults>>

(* A failed commit leaves the batches already committed, of the retired    *)
(* and after them of the queued, and marks nothing.                        *)
CompareFails ==
    /\ job.kind = "compare"
    /\ Fault
    /\ LET from == statements[job.at].from
           evidence == statements[job.at].evidence
           covered == CoveredBy(from, evidence)
       IN \/ /\ \E part \in SUBSET covered : reconciled' = reconciled \cup part
             /\ UNCHANGED queued
          \/ /\ reconciled' = reconciled \cup covered
             /\ \E part \in SUBSET MissingFor(from, evidence) : queued' = queued \cup part
    /\ job' = Idle
    /\ fresh' = TRUE
    /\ UNCHANGED <<delivered, sealed, sentRoute, bodies, statements, route,
                   answered, mints, network, peers>>

EndScoped ==
    /\ job.kind = "scoped"
    /\ Candidates = {}
    /\ Advance
    /\ UNCHANGED <<durables, route, fresh, mints, network, peers, faults>>

(* A restart loses the volatile state and binds a fresh endpoint or none.  *)
(* The recomposed node counts the revision it opened at as published.      *)
Restart ==
    /\ Fault
    /\ job' = Idle
    /\ fresh' = FALSE
    /\ answered' = 0
    /\ route' \in Routes \cup {Withdrawn}
    /\ UNCHANGED <<durables, mints, network, peers>>

(* The role file is read on every pass: a narrowed device serves no route. *)
ChangeRole ==
    /\ job = Idle
    /\ Fault
    /\ route' \in (Routes \cup {Withdrawn}) \ {route}
    /\ UNCHANGED <<durables, answered, job, fresh, mints, network, peers>>

(* Authoring commits the body with an obligation per device of the epoch.  *)
AuthorSnapshot ==
    /\ job = Idle
    /\ \E s \in Own \ bodies :
         /\ bodies' = bodies \cup {s}
         /\ queued' = queued \cup {Obligation("announcement", s, r) :
                                     r \in {x \in Recipients : Admitted[x] =< SnapEpoch[s]}}
    /\ fresh' = TRUE
    /\ UNCHANGED <<delivered, reconciled, sealed, sentRoute, statements, route,
                   answered, job, mints, network, peers, faults>>

(* Any other commit of the device, or a terminal verdict, before the gate. *)
OtherCommit ==
    /\ job = Idle
    /\ ~fresh
    /\ fresh' = TRUE
    /\ UNCHANGED <<durables, route, answered, job, mints, network, peers, faults>>

---------------------------------------------------------------------------
(* The relay and the recipients.  Intake is modelled in full by module     *)
(* Intake; here it is what it makes durable.                               *)

InFlight == wire \ gone

KeysOf(r) == Invited[r] \cup held[r].capabilities
Chained(r, e) == 1 .. e \subseteq held[r].transitions

(* A transition is recorded whether or not its predecessor is known; a     *)
(* capability and an announcement wait until the chain reaches them.       *)
Accepts(r, o) ==
    CASE o.kind = "transition" -> o.key \in KeysOf(r)
      [] o.kind = "capability" -> Chained(r, o.key - 1)
      [] OTHER -> EpochOf(o) \in KeysOf(r) /\ Chained(r, EpochOf(o))

Gains(h, o) ==
    CASE o.kind = "transition" -> [h EXCEPT !.transitions = @ \cup {o.key}]
      [] o.kind = "capability" -> [h EXCEPT !.transitions = @ \cup {o.key},
                                            !.capabilities = @ \cup 1 .. o.key]
      [] OTHER -> [h EXCEPT !.snapshots = @ \cup {o.key}]

Receive ==
    \E env \in InFlight :
       /\ Accepts(env.o.to, env.o)
       /\ held' = [held EXCEPT ![env.o.to] = Gains(@, env.o)]
       /\ gone' = gone \cup {env}
       /\ UNCHANGED <<durables, route, answered, job, fresh, mints, wire, requests,
                      latched, asked, faults>>

(* The gap signal: an envelope parked on a transition not yet recorded. *)
Gap(r) ==
    \E env \in InFlight : /\ env.o.to = r /\ env.o.kind = "announcement"
                          /\ EpochOf(env.o) \in KeysOf(r)
                          /\ ~Chained(r, EpochOf(env.o))

(* maybe_request_reconciliation: a gap or a latched edge, once per view.   *)
(* The statement is sealed under the newest key and goes to the members of *)
(* the states it can derive.  A device that joined has a key and the       *)
(* genesis state from its invitation, so neither is ever lacking.          *)
Armed(r) == latched[r] \/ (Gap(r) /\ asked[r] # <<held[r]>>)

Ask ==
    \E r \in Recipients :
       /\ Armed(r)
       /\ latched' = [latched EXCEPT ![r] = FALSE]
       /\ \/ /\ requests' = requests \cup
                  {[from |-> r, evidence |-> held[r], epoch |-> Max(KeysOf(r))]}
             /\ asked' = [asked EXCEPT ![r] = <<held[r]>>]
             /\ UNCHANGED faults
          \/ Fault /\ UNCHANGED <<requests, asked>>
       /\ UNCHANGED <<durables, route, answered, job, fresh, mints, wire, gone, held>>

(* A new session of a recipient latches an edge; a restart of it also      *)
(* forgets the digest it last stated.                                      *)
Reconnect ==
    \E r \in Recipients :
       /\ Fault
       /\ ~latched[r]
       /\ latched' = [latched EXCEPT ![r] = TRUE]
       /\ asked' \in {asked, [asked EXCEPT ![r] = <<>>]}
       /\ UNCHANGED <<durables, route, answered, job, fresh, mints, network, held>>

(* The sender's intake records a statement once per requester and digest.  *)
Hear ==
    \E q \in requests :
       /\ job = Idle
       /\ q.epoch \in Secrets
       /\ requests' = requests \ {q}
       /\ LET s == [from |-> q.from, evidence |-> q.evidence]
          IN IF s \in Range(statements)
             THEN UNCHANGED <<statements, fresh>>
             ELSE statements' = Append(statements, s) /\ fresh' = TRUE
       /\ UNCHANGED <<queued, delivered, reconciled, sealed, sentRoute, bodies,
                      route, answered, job, mints, wire, gone, peers, faults>>

---------------------------------------------------------------------------
OutdatedSeals ==
    [k \in {<<"capability", o.key, o.to>> : o \in Outdated} |->
        [route |-> Nobody, outdated |-> TRUE, nonce |-> 0]]

Init ==
    /\ queued = InitialOwed
    /\ delivered = {} /\ reconciled = {}
    /\ sealed = OutdatedSeals
    /\ sentRoute = [o \in [kind : {"announcement"}, key : Snaps, to : Recipients] |-> Nobody]
    /\ bodies = {o.key : o \in {x \in InitialOwed : x.kind = "announcement" /\ x.key \in Own}}
    /\ route \in InitialRoutes
    /\ statements = <<>> /\ answered = 0
    /\ job = Idle /\ fresh = FALSE
    /\ mints = [k \in SealKeys |-> 0]
    /\ wire = {} /\ gone = {} /\ requests = {}
    /\ held = InitialHeld
    /\ latched = [r \in Recipients |-> TRUE]
    /\ asked = [r \in Recipients |-> <<>>]
    /\ faults = 0

Pass == OpenPass \/ Send \/ EndStep \/ Compare \/ EndScoped

Next ==
    \/ Pass \/ Hear \/ AuthorSnapshot \/ OtherCommit
    \/ CompareFails \/ BarrierNotReady \/ Restart \/ ChangeRole
    \/ Receive \/ Ask \/ Reconnect

(* The live loop runs pass after pass and every pass drains the mailbox    *)
(* before its gate, however busy it is; the recipients run loops of their  *)
(* own.  Nothing makes a device commit anything else.                      *)
Fairness ==
    /\ WF_vars(Pass) /\ SF_vars(Hear)
    /\ WF_vars(Receive) /\ WF_vars(Ask)

Spec == Init /\ [][Next]_vars /\ Fairness

---------------------------------------------------------------------------
TypeOK ==
    /\ queued \subseteq Obligations
    /\ delivered \subseteq queued /\ reconciled \subseteq queued
    /\ \A o \in DOMAIN sentRoute : sentRoute[o] \in Routes \cup {Withdrawn, Nobody}
    /\ bodies \subseteq Own
    /\ route \in Routes \cup {Withdrawn}
    /\ answered \in 0 .. Len(statements)
    /\ fresh \in BOOLEAN
    /\ gone \subseteq wire
    /\ \A r \in Recipients : /\ held[r].transitions \subseteq Epochs
                             /\ held[r].capabilities \subseteq Epochs
                             /\ held[r].snapshots \subseteq Snaps
    /\ faults \in 0 .. MaxFaults

Holds(o) ==
    CASE o.kind = "transition" -> o.key \in held[o.to].transitions
      [] o.kind = "capability" -> o.key \in held[o.to].capabilities
      [] OTHER -> o.key \in held[o.to].snapshots

(* A statement retires only what its sender durably holds: an obligation   *)
(* marked reconciled (retire_covered) is in the recipient's own log, also  *)
(* when the statement is old, repeated, or answered again after a restart. *)
RetiredOnlyIfHeld == \A o \in reconciled : Holds(o)

(* No obligation falls between the passes: whatever was queued is still    *)
(* pending, held by its recipient, or on a relay that accepted it, however *)
(* sends, errors, restarts and answers interleave (send_sealed_to marks    *)
(* delivery after acceptance, retire_covered after the evidence).          *)
NothingForgotten ==
    \A o \in queued : \/ o \in Pending
                      \/ Holds(o)
                      \/ \E env \in InFlight : env.o = o

(* Every copy of a message under one route is the same bytes, for every    *)
(* recipient and over restarts and changes of route: the seal is durable   *)
(* before the first send and reused after it, so a receiver's message id   *)
(* collapses the retries.  A capability is sealed per recipient.           *)
ByteIdenticalRetries ==
    \A x, y \in wire :
       /\ x.o.kind = y.o.kind
       /\ x.o.key = y.o.key
       /\ x.o.kind = "capability" => x.o.to = y.o.to
       /\ x.bytes.route = y.bytes.route
       => x.bytes = y.bytes

(* Everything owed is eventually held by its recipient, however often a    *)
(* relay refused, a pass failed, the serving barrier was not ready or      *)
(* either side restarted before, and though the device may commit nothing  *)
(* else: has_pending_outbound alone keeps the gate of the pass open.       *)
EveryObligationLands == <>[](\A o \in queued : Holds(o))

(* Redelivery for a changed route reaches every pair and then quenches, on *)
(* a device that keeps committing: once restarts stop, no announcement     *)
(* stays eligible (announce_eligible_for, record_announcement_delivered_   *)
(* route).  On a device that commits nothing the gate of the pass stays    *)
(* shut and a stale pair may never be sent again.                          *)
RedeliveryQuenches == []<>fresh => <>[](ToAnnounce = {})
=============================================================================
