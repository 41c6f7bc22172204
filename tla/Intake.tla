------------------------------- MODULE Intake -------------------------------
(***************************************************************************)
(* Control-plane intake of one device (crates/wyrd-sync/src/runtime/intake *)
(* with engine/pending.rs, engine::resync and control::ControlInbox): the  *)
(* relay hands messages over, each is ingested, judged against the         *)
(* membership log, then committed as durable facts, parked on the          *)
(* transition it waits for, suppressed, or left with the relay.  Commits   *)
(* can fail and the process can crash.                                     *)
(*                                                                         *)
(* A message is a record with fields id, kind, seal (the epoch of its      *)
(* control key), sender, ok (every check that reads only its own bytes:    *)
(* decoding, limits, field agreement, signature, owner proof) and, by kind *)
(*   transition: t        announcement: tr, author, snap, core, route      *)
(*   capability: tr, value            request: value                       *)
(*   rotation:   t, value, minter     keyRotation, garbage: none           *)
(* The fact log is the sequence of what was committed; DurableStore models *)
(* how a commit reaches the disk.                                          *)
(***************************************************************************)
EXTENDS MembershipChain

CONSTANTS Situations      \* name -> the situation a device is in: a record of
                          \*   messages, authored   what may reach it, what it may author
                          \*   device, facts, keys  who it is, what it starts with
                          \*   passBudget, senderBudget  facts a pass, a sender may commit
                          \*   maxPending, maxFaults     parked messages, faults
CONSTANTS MaxSuppressed   \* remembered suppression verdicts

VARIABLES situation,    \* the name of this device's situation; it never changes
          relay,        \* message id -> "unsent", "held", "settled"
          offered,      \* ids handed over in this pass
          used,         \* [total, by] facts charged in this pass
          durable,      \* sequence of committed facts
          log,          \* observed transitions
          announcements,\* snapshot -> the announcement in force
          capabilities, \* transition -> the capability value in force
          seen,         \* ids the inbox reports as duplicates
          suppressed,   \* ids with a remembered verdict, oldest first
          keys,         \* epochs whose control key is held
          pending,      \* parked messages in arrival order: [msg, wait, on]
          faults

views == <<log, announcements, capabilities>>
vars  == <<situation, relay, offered, used, durable, views, seen, suppressed, keys, pending, faults>>

Here           == Situations[situation]
Messages       == Here.messages      \* messages that exist
Device         == Here.device        \* this device
Authored       == Here.authored      \* transitions this device may author
InitialFacts   == Here.facts         \* the fact log it starts with
InitialKeys    == Here.keys          \* epochs whose control key the invitation carried
PassBudget     == Here.passBudget
SenderBudget   == Here.senderBudget
MaxPending     == Here.maxPending
MaxFaults      == Here.maxFaults     \* failed commits, cut passes, second deliveries and crashes

-----------------------------------------------------------------------------
(* the membership log, whose analysis is cached by the code as well        *)

TransitionsOf(w) ==
    w.authored \cup {m.t : m \in {x \in w.messages : x.kind \in {"transition", "rotation"}}}
               \cup {f.value : f \in {x \in ToSet(w.facts) : x.kind = "transition"}}

ObservableSets == UNION {SUBSET TransitionsOf(Situations[n]) : n \in DOMAIN Situations}

\* @@ <<>> changes nothing; TLC tabulates what it is given.
Tabulated(f) == f @@ <<>>

TabulatedAnalysis(a) == [a EXCEPT !.status = Tabulated(@), !.states = Tabulated(@)]

Analyses == Tabulated([obs \in ObservableSets |-> TabulatedAnalysis(Analyse(obs))])

-----------------------------------------------------------------------------
(* facts, and the views a restart rebuilds from them                       *)

Fact(kind, value) == [kind |-> kind, value |-> value]
SeenFact(m)       == Fact("seen", m.id)
Values(facts, kind) == {f.value : f \in {x \in ToSet(facts) : x.kind = kind}}

Content(m) == [tr |-> m.tr, author |-> m.author, snap |-> m.snap, core |-> m.core, route |-> m.route]
Grant(m, tr) == [tr |-> tr, value |-> m.value]

\* The last fact of a kind for each key wins.
Latest(facts, kind, Key(_)) ==
    [k \in {Key(v) : v \in Values(facts, kind)} |->
        LET mine == SelectSeq(facts, LAMBDA f : f.kind = kind /\ Key(f.value) = k)
        IN  Last(mine).value]

LogOf(facts)           == Values(facts, "transition")
AnnouncementsOf(facts) == Latest(facts, "announcement", LAMBDA a : a.snap)
CapabilitiesOf(facts)  == Latest(facts, "capability", LAMBDA c : c.tr)
SeenOf(facts)          == Values(facts, "seen")

\* A capability for epoch N carries the secrets of epochs 1..N.
Covered(obs, tr) == 1..Get(obs, tr).epoch
KeysOf(facts) ==
    UNION {Covered(LogOf(facts), c.tr) : c \in Values(facts, "capability")}

-----------------------------------------------------------------------------
(* the pass budget                                                         *)

Fresh == [total |-> 0, by |-> [s \in {m.sender : m \in Messages} |-> 0]]

WouldAdmit(u, sender, n) == u.total + n <= PassBudget /\ u.by[sender] + n <= SenderBudget
Charge(u, sender, n)     == [total |-> u.total + n, by |-> [u.by EXCEPT ![sender] = @ + n]]

-----------------------------------------------------------------------------
(* message_action: what one message deserves now                           *)

Verdict(act)     == [act |-> act, facts |-> <<>>, wait |-> "none", on |-> NoPrev]
Defer(wait, on)  == [act |-> "defer", facts |-> <<>>, wait |-> wait, on |-> on]
Commit(facts)    == [act |-> "commit", facts |-> facts, wait |-> "none", on |-> NoPrev]

\* Two facts, if the budget has room for them.
CommitWithin(u, sender, m, f) ==
    IF WouldAdmit(u, sender, 2) THEN Commit(<<f, SeenFact(m)>>) ELSE Verdict("shed")

TransitionAction(m, u, sender) ==
    IF ~m.ok THEN Verdict("suppress")
    ELSE IF m.t \in log THEN Verdict("duplicate")
    ELSE CommitWithin(u, sender, m, Fact("transition", m.t))

\* Mutation: an announcement staged by the same flush is not consulted.
KnownCommittedOnly(staged, snap) ==
    IF snap \in DOMAIN announcements THEN {announcements[snap]} ELSE {}

\* The announcement already known for the snapshot: the projection first, then
\* what this batch has staged.
KnownFor(staged, snap) ==
    IF snap \in DOMAIN announcements THEN {announcements[snap]}
    ELSE IF snap \in DOMAIN staged THEN {staged[snap]} ELSE {}

SameStatement(a, b) == [a EXCEPT !.route = b.route] = b

JudgeAnnouncement(m, a, known, u, sender) ==
    CASE a.status[m.tr] = "invalid" -> Verdict("suppress")
      [] a.status[m.tr] \in {"contested", "voided", "orphaned", "pending"} -> Defer("status", m.tr)
      [] a.status[m.tr] = "canonical" ->
            IF m.author \in a.states[m.tr].readers THEN Verdict("suppress")
            ELSE IF Content(m) \in known THEN Verdict("duplicate")
            ELSE IF ~WouldAdmit(u, sender, 2) THEN Verdict("shed")
            ELSE IF ~m.ok \/ \E x \in known : ~SameStatement(x, Content(m)) THEN Verdict("suppress")
            ELSE Commit(<<Fact("announcement", Content(m)), SeenFact(m)>>)

AnnouncementAction(m, obs, staged, u, sender) ==
    IF m.tr \notin Ids(obs) THEN Defer("unseen", m.tr)
    ELSE IF m.epoch # Get(obs, m.tr).epoch THEN Verdict("suppress")
    ELSE JudgeAnnouncement(m, Analyses[obs], KnownFor(staged, m.snap), u, sender)

\* authorize_against the transition named: unseen or pending history may still
\* come, terminal history never does.
AuthorizeAgainst(a, tr) ==
    IF tr \in DOMAIN a.states
    THEN IF Device \in a.states[tr].keys THEN "authorized" ELSE "refused"
    ELSE IF a.status[tr] = "pending" THEN "unknown" ELSE "refused"

Authorize(obs, tr) ==
    IF tr \notin Ids(obs) THEN "unknown" ELSE AuthorizeAgainst(Analyses[obs], tr)

JudgeCapability(m, auth, obs, caps, u, sender) ==
    CASE auth = "unknown" -> Defer(IF m.tr \in Ids(obs) THEN "status" ELSE "unseen", m.tr)
      [] auth = "refused" -> Verdict("suppress")
      [] auth = "authorized" ->
            IF m.tr \in DOMAIN caps /\ caps[m.tr] = Grant(m, m.tr) THEN Verdict("duplicate")
            ELSE CommitWithin(u, sender, m, Fact("capability", Grant(m, m.tr)))

CapabilityAction(m, obs, caps, u, sender) ==
    IF ~m.ok THEN Verdict("suppress")
    ELSE JudgeCapability(m, Authorize(obs, m.tr), obs, caps, u, sender)

RequestAction(m, u, sender) ==
    IF ~m.ok THEN Verdict("suppress")
    ELSE IF <<m.sender, m.value>> \in Values(durable, "request") THEN Verdict("duplicate")
    ELSE CommitWithin(u, sender, m, Fact("request", <<m.sender, m.value>>))

MessageAction(m, obs, staged, caps, u, sender) ==
    CASE m.kind = "transition"   -> TransitionAction(m, u, sender)
      [] m.kind = "announcement" -> AnnouncementAction(m, obs, staged, u, sender)
      [] m.kind = "capability"   -> CapabilityAction(m, obs, caps, u, sender)
      [] m.kind = "request"      -> RequestAction(m, u, sender)
      [] m.kind = "keyRotation"  -> Verdict("suppress")

-----------------------------------------------------------------------------
(* flush_pending                                                           *)

Woken(e, tr) == e.wait = "status" \/ (e.wait = "unseen" /\ e.on = tr)

\* Remember a verdict, forgetting the oldest past the bound.
Remember(sup, id) ==
    IF id \in ToSet(sup) THEN sup
    ELSE LET s == Append(sup, id)
         IN  IF Len(s) > MaxSuppressed THEN Tail(s) ELSE s

StagedBy(m) == IF m.kind = "announcement" THEN m.snap :> Content(m) ELSE <<>>

\* What the verdict on a woken message does to the flush.
Resolve(f, e, v, sender) ==
    CASE v.act = "commit"    -> [f EXCEPT !.facts = @ \o v.facts, !.staged = StagedBy(e.msg) @@ @,
                                          !.used = Charge(@, sender, Len(v.facts))]
      [] v.act = "shed"      -> [f EXCEPT !.stop = TRUE, !.kept = Append(@, e)]
      [] v.act = "suppress"  -> [f EXCEPT !.verdicts = Append(@, e.msg.id)]
      [] v.act = "duplicate" -> f
      [] v.act = "defer"     ->
            [f EXCEPT !.kept = Append(@, [e EXCEPT !.wait = v.wait, !.on = v.on])]

\* An entry the transition does not wake, and every entry after the budget
\* stopped the flush, stays where it is.
FlushEntry(f, e, obs, caps, sender, tr) ==
    IF f.stop \/ ~Woken(e, tr) THEN [f EXCEPT !.kept = Append(@, e)]
    ELSE Resolve(f, e, MessageAction(e.msg, obs, f.staged, caps, f.used, sender), sender)

NoFlush(pend, u, facts) ==
    [kept |-> pend, used |-> u, facts |-> facts, staged |-> <<>>, verdicts |-> <<>>, stop |-> FALSE]

FlushPending(u, facts, obs, caps, sender, tr) ==
    LET F[n \in Nat] ==
            IF n = 0 THEN [NoFlush(pending, u, facts) EXCEPT !.kept = <<>>]
            ELSE FlushEntry(F[n - 1], pending[n], obs, caps, sender, tr)
    IN  F[Len(pending)]

-----------------------------------------------------------------------------
(* settling, committing, recovering                                        *)

Ack(m)   == relay' = [relay EXCEPT ![m.id] = "settled"]
Retry    == UNCHANGED relay
Handed(m) == offered' = offered \cup {m.id}
Quiet    == UNCHANGED <<situation, durable, views, keys, used, faults>>

\* Mutation: the inbox is not rebuilt.
ResyncKeepsSeen(facts) ==
    /\ log' = LogOf(facts)
    /\ announcements' = AnnouncementsOf(facts)
    /\ capabilities' = CapabilitiesOf(facts)
    /\ UNCHANGED <<seen, suppressed>>

\* Mutation: the inbox is emptied.
ResyncForgetsSeen(facts) ==
    /\ log' = LogOf(facts)
    /\ announcements' = AnnouncementsOf(facts)
    /\ capabilities' = CapabilitiesOf(facts)
    /\ seen' = {} /\ suppressed' = <<>>

\* Resync: the inbox and the views are rebuilt from the facts; parked messages
\* and held keys stay.
ResyncFrom(facts) ==
    /\ log' = LogOf(facts)
    /\ announcements' = AnnouncementsOf(facts)
    /\ capabilities' = CapabilitiesOf(facts)
    /\ seen' = SeenOf(facts)
    /\ suppressed' = <<>>

\* Mutation: a failed commit keeps the views it was judged with.
CommitFailedUnsynced(f, obs, landed) ==
    /\ faults < MaxFaults /\ faults' = faults + 1
    /\ durable' = IF landed THEN durable \o f.facts ELSE durable
    /\ log' = obs /\ UNCHANGED <<announcements, capabilities, suppressed>>
    /\ seen' = SeenOf(durable')
    /\ pending' = f.kept
    /\ offered' = {} /\ used' = Fresh
    /\ UNCHANGED <<situation, relay, keys>>

\* The commit reports an error, whether or not the facts landed: resync and
\* give the pass up with the handover unsettled.
CommitFailed(f, obs, landed) ==
    /\ faults < MaxFaults /\ faults' = faults + 1
    /\ durable' = IF landed THEN durable \o f.facts ELSE durable
    /\ ResyncFrom(durable')
    /\ pending' = f.kept
    /\ offered' = {} /\ used' = Fresh
    /\ UNCHANGED <<situation, relay, keys>>

\* Commit the batch, then let the views follow.
CommitOk(m, f, obs) ==
    /\ durable' = durable \o f.facts
    /\ log' = obs
    /\ announcements' = AnnouncementsOf(f.facts) @@ announcements
    /\ capabilities' = CapabilitiesOf(f.facts) @@ capabilities
    /\ seen' = (seen \cup {m.id} \cup SeenOf(f.facts)) \ ToSet(f.verdicts)
    /\ suppressed' = FoldLeft(Remember, suppressed, f.verdicts)
    /\ keys' = keys \cup UNION {Covered(obs, c.tr) : c \in Values(f.facts, "capability")}
    /\ pending' = f.kept
    /\ used' = f.used
    /\ Ack(m) /\ Handed(m)
    /\ UNCHANGED <<situation, faults>>

CommitFacts(m, f, obs) ==
    CommitOk(m, f, obs) \/ (\E landed \in BOOLEAN : CommitFailed(f, obs, landed))

-----------------------------------------------------------------------------
(* commit_action                                                           *)

Without(pend, id) == SelectSeq(pend, LAMBDA e : e.msg.id # id)

\* Hold: a known id is replaced in place, a new one goes last.
Hold(pend, m, v) ==
    LET e == [msg |-> m, wait |-> v.wait, on |-> v.on]
    IN  IF \E x \in ToSet(pend) : x.msg.id = m.id
        THEN [i \in DOMAIN pend |-> IF pend[i].msg.id = m.id THEN e ELSE pend[i]]
        ELSE Append(pend, e)

\* Mutation: a message shed past the pending bound stays marked as seen.
ShedKeepsSeen(m, pend) ==
    /\ Handed(m) /\ Retry /\ Quiet
    /\ pending' = pend
    /\ seen' = seen \cup {m.id}
    /\ UNCHANGED suppressed

\* Left with the relay; the inbox forgets it, so that it comes back as new.
Shed(m, pend) ==
    /\ Handed(m) /\ Retry /\ Quiet
    /\ pending' = pend
    /\ seen' = seen \ {m.id}
    /\ UNCHANGED suppressed

\* What ingest leaves: a new id is marked, a suppressed one is not.
Marked(m) == IF m.id \in ToSet(suppressed) THEN seen ELSE seen \cup {m.id}

Duplicate(m, pend) ==
    /\ Handed(m) /\ Ack(m) /\ Quiet
    /\ pending' = pend
    /\ seen' = Marked(m)
    /\ UNCHANGED suppressed

Suppress(m, pend) ==
    /\ Handed(m) /\ Ack(m) /\ Quiet
    /\ pending' = pend
    /\ seen' = seen \ {m.id}
    /\ suppressed' = Remember(suppressed, m.id)

Park(m, pend, v) ==
    /\ Handed(m) /\ Retry /\ Quiet
    /\ pending' = Hold(pend, m, v)
    /\ seen' = Marked(m)
    /\ UNCHANGED suppressed

\* Only a transition wakes what is parked.
CommitMessage(m, facts, u) ==
    \/ /\ m.kind # "transition"
       /\ CommitFacts(m, NoFlush(pending, u, facts), log)
    \/ /\ m.kind = "transition"
       /\ \E f \in {FlushPending(u, facts, log \cup {m.t}, capabilities, m.sender, m.t.id)} :
              CommitFacts(m, f, log \cup {m.t})

\* A message taken back from the queue by its redelivery is judged again and
\* acknowledged, never committed.
CommitAction(m, isNew, pend) ==
    \E v \in {MessageAction(m, log, <<>>, capabilities, used, m.sender)} :
        \/ v.act = "duplicate" /\ Duplicate(m, pend)
        \/ v.act = "shed" /\ Shed(m, pend)
        \/ v.act = "suppress" /\ Suppress(m, pend)
        \/ v.act = "defer" /\ Len(pend) >= MaxPending /\ Shed(m, pend)
        \/ v.act = "defer" /\ Len(pend) < MaxPending /\ Park(m, pend, v)
        \/ v.act = "commit" /\ ~isNew /\ Duplicate(m, pend)
        \/ v.act = "commit" /\ isNew /\ CommitMessage(m, v.facts, Charge(used, m.sender, Len(v.facts)))

-----------------------------------------------------------------------------
(* rotation deliveries: a transition and this device's capability for it   *)

\* Owners of the state the transition extends; a genesis names its own.
MintAuthority(a, t) == a.states[IF t.prev = NoPrev THEN t.id ELSE t.prev].owners

\* Mutation: whoever sends a grant may mint it.
MayDeliverAny(m, a) == m.sender \in a.states[m.t.id].members

MayDeliver(m, a) == m.minter \in MintAuthority(a, m.t) /\ m.sender \in a.states[m.t.id].members

\* The transition, the capability and the message in one batch, with the flush.
RotationAccept(m, obs, cap) ==
    IF ~WouldAdmit(used, m.sender, 3) THEN Shed(m, pending)
    ELSE \E f \in {FlushPending(Charge(used, m.sender, 3),
                                <<Fact("transition", m.t), Fact("capability", cap), SeenFact(m)>>,
                                obs, (m.t.id :> cap) @@ capabilities, m.sender, m.t.id)} :
             CommitFacts(m, f, obs)

\* The transition is observed first, on trial: every refusal takes it back.
RotationCommit(m, obs) ==
    \E auth \in {Authorize(obs, m.t.id)} :
        \/ (~m.ok \/ auth = "refused") /\ Suppress(m, pending)
        \/ m.ok /\ auth = "unknown" /\ Shed(m, pending)
        \/ /\ m.ok /\ auth = "authorized"
           /\ IF MayDeliver(m, Analyses[obs]) THEN RotationAccept(m, obs, Grant(m, m.t.id))
              ELSE Suppress(m, pending)

-----------------------------------------------------------------------------

Init ==
    /\ situation \in DOMAIN Situations
    /\ relay = [id \in {m.id : m \in Messages} |-> "unsent"]
    /\ offered = {} /\ used = Fresh
    /\ durable = InitialFacts
    /\ log = LogOf(InitialFacts)
    /\ announcements = AnnouncementsOf(InitialFacts)
    /\ capabilities = CapabilitiesOf(InitialFacts)
    /\ seen = SeenOf(InitialFacts) /\ suppressed = <<>> /\ pending = <<>>
    /\ keys = InitialKeys \cup KeysOf(InitialFacts)
    /\ faults = 0

Send(m) ==
    /\ relay[m.id] = "unsent"
    /\ relay' = [relay EXCEPT ![m.id] = "held"]
    /\ UNCHANGED <<situation, offered, used, durable, views, seen, suppressed, keys, pending, faults>>

\* A message that was settled comes again: another relay, a lost settlement.
SendAgain(m) ==
    /\ relay[m.id] = "settled" /\ m.id \notin offered
    /\ faults < MaxFaults /\ faults' = faults + 1
    /\ relay' = [relay EXCEPT ![m.id] = "held"]
    /\ UNCHANGED <<situation, offered, used, durable, views, seen, suppressed, keys, pending>>

\* recv: each held envelope once per pass.
Recv(m) == relay[m.id] = "held" /\ m.id \notin offered

\* Bytes that can never become a message.
Discard(m) ==
    /\ Recv(m) /\ m.kind = "garbage"
    /\ Handed(m) /\ Ack(m) /\ Quiet
    /\ UNCHANGED <<seen, suppressed, pending>>

\* No control key for the epoch yet.
Skip(m) ==
    /\ Recv(m) /\ m.kind \notin {"garbage", "rotation"} /\ m.seal \notin keys
    /\ Handed(m) /\ Retry /\ Quiet
    /\ UNCHANGED <<seen, suppressed, pending>>

IsDuplicate(m) == m.id \in seen \/ m.id \in ToSet(suppressed)

AcceptNew(m) ==
    /\ Recv(m) /\ m.kind \notin {"garbage", "rotation"} /\ m.seal \in keys
    /\ ~IsDuplicate(m)
    /\ CommitAction(m, TRUE, pending)

\* A redelivery resolves the parked copy if there is one.
AcceptRedelivery(m) ==
    /\ Recv(m) /\ m.kind \notin {"garbage", "rotation"} /\ m.seal \in keys
    /\ IsDuplicate(m)
    /\ IF \E e \in ToSet(pending) : e.msg.id = m.id
       THEN CommitAction(m, FALSE, Without(pending, m.id))
       ELSE /\ Handed(m) /\ Ack(m) /\ Quiet
            /\ UNCHANGED <<seen, suppressed, pending>>

AcceptRotation(m) ==
    /\ Recv(m) /\ m.kind = "rotation"
    /\ IF IsDuplicate(m)
       THEN Handed(m) /\ Ack(m) /\ Quiet /\ UNCHANGED <<seen, suppressed, pending>>
       ELSE RotationCommit(m, log \cup {m.t})

\* Mutation: what a pass was offered is remembered by the next.
EndPassKeepsOffered ==
    /\ offered # {} /\ \A m \in Messages : ~Recv(m)
    /\ used' = Fresh
    /\ UNCHANGED <<situation, offered, relay, durable, views, seen, suppressed, keys, pending, faults>>

\* Everything held was offered: the next pass starts with a fresh budget.
EndPass ==
    /\ offered # {} /\ \A m \in Messages : ~Recv(m)
    /\ offered' = {} /\ used' = Fresh
    /\ UNCHANGED <<situation, relay, durable, views, seen, suppressed, keys, pending, faults>>

\* The mailbox fails: the pass is over, what was not offered waits.
CutPass ==
    /\ offered # {} /\ faults < MaxFaults /\ faults' = faults + 1
    /\ offered' = {} /\ used' = Fresh
    /\ UNCHANGED <<situation, relay, durable, views, seen, suppressed, keys, pending>>

\* Restart: volatile state is gone, the rest is rebuilt from the facts.
Crash ==
    /\ faults < MaxFaults /\ faults' = faults + 1
    /\ ResyncFrom(durable)
    /\ keys' = InitialKeys \cup KeysOf(durable)
    /\ pending' = <<>> /\ offered' = {} /\ used' = Fresh
    /\ UNCHANGED <<situation, relay, durable>>

\* commit_new_epoch: stage the transition on a copy of the log, commit it with
\* the author's own capability, resync.  A commit that reports an error leaves
\* the engine as it was, whether or not the facts landed.
Author(t) ==
    /\ t \notin log
    /\ \E a \in {Analyses[log \cup {t}]} : a.frozen = 0 /\ t.id = Last(a.canonical)
    /\ 1..(t.epoch - 1) \subseteq KeysOf(durable)
    /\ UNCHANGED <<situation, relay, offered, used, pending>>
    /\ \E landed \in {durable \o <<Fact("transition", t),
                                   Fact("capability", [tr |-> t.id, value |-> t.id])>>} :
          \/ /\ durable' = landed
             /\ ResyncFrom(landed)
             /\ keys' = keys \cup {t.epoch}
             /\ UNCHANGED faults
          \/ /\ faults < MaxFaults /\ faults' = faults + 1
             /\ durable' \in {durable, landed}
             /\ UNCHANGED <<views, seen, suppressed, keys>>

Drain == \/ \E m \in Messages : Discard(m) \/ Skip(m) \/ AcceptNew(m) \/ AcceptRedelivery(m) \/ AcceptRotation(m)
         \/ EndPass

Next == \/ Drain \/ CutPass \/ Crash
        \/ \E m \in Messages : Send(m) \/ SendAgain(m)
        \/ \E t \in Authored : Author(t)

\* The live loop drains again and again; faults are finitely many.
Spec == Init /\ [][Next]_vars /\ WF_vars(Drain)

-----------------------------------------------------------------------------
(* properties                                                              *)

PendingIds == {e.msg.id : e \in ToSet(pending)}

TypeOK ==
    /\ relay \in [{m.id : m \in Messages} -> {"unsent", "held", "settled"}]
    /\ offered \subseteq DOMAIN relay /\ seen \subseteq DOMAIN relay
    /\ ToSet(suppressed) \subseteq DOMAIN relay /\ Len(suppressed) <= MaxSuppressed
    /\ Len(pending) <= MaxPending /\ Cardinality(PendingIds) = Len(pending)
    /\ \A e \in ToSet(pending) : e.wait \in {"unseen", "status"}
    /\ faults \in 0..MaxFaults

\* What the message says is in the fact log.
Recorded(m) ==
    CASE m.kind = "transition"   -> m.t \in LogOf(durable)
      [] m.kind = "announcement" -> Content(m) \in Values(durable, "announcement")
      [] m.kind = "capability"   -> Grant(m, m.tr) \in Values(durable, "capability")
      [] m.kind = "request"      -> <<m.sender, m.value>> \in Values(durable, "request")
      [] m.kind = "rotation"     -> Grant(m, m.t.id) \in Values(durable, "capability")
      [] OTHER                   -> FALSE

\* The message can never be committed: bad bytes, an epoch that is not its
\* transition's, a rotation its minter had no right to, or a fork of the
\* statement on record.
Hopeless(m) ==
    \/ ~m.ok \/ m.kind \in {"garbage", "keyRotation"}
    \/ m.kind = "rotation" /\ ~MayDeliver(m, Analyses[TransitionsOf(Here)])
    \/ m.kind = "announcement" /\ m.epoch # Get(TransitionsOf(Here), m.tr).epoch
    \/ /\ m.kind = "announcement"
       /\ \E x \in Values(durable, "announcement") : x.snap = m.snap /\ ~SameStatement(x, Content(m))

\* The live views are the views of the fact log on every path: commits, failed
\* commits that landed or not, flushes, rotations, restarts.  They trail it only
\* by a transition this device authored whose commit reported an error and
\* landed all the same: authoring, unlike intake, does not resync after an error.
ViewsMatchStore ==
    LET missed == LogOf(durable) \ log
        known  == SelectSeq(durable, LAMBDA f :
                      /\ ~(f.kind = "transition" /\ f.value \in missed)
                      /\ ~(f.kind = "capability" /\ f.value.tr \in {t.id : t \in missed}))
    IN  /\ missed \subseteq Authored
        /\ log = LogOf(known)
        /\ announcements = AnnouncementsOf(known)
        /\ capabilities = CapabilitiesOf(known)
        /\ SeenOf(known) \subseteq seen

\* The inbox never reports a message as a duplicate that is neither recorded
\* nor parked: shedding, skipping and failing forget the ingest mark.
NoFalseDuplicate ==
    \A m \in Messages : m.id \in seen => Recorded(m) \/ m.id \in PendingIds

\* The relay is told to drop a message only when its content is recorded or it
\* can never be committed.
NoSilentLoss ==
    \A m \in Messages : relay[m.id] = "settled" => Recorded(m) \/ Hopeless(m)

\* One snapshot, one statement: announcements of a snapshot in the fact log
\* differ only in their route, even when parked ones flush together, so replay
\* never meets a fork.
NoForkCommitted ==
    \A x, y \in Values(durable, "announcement") : x.snap = y.snap => SameStatement(x, y)

\* No message is committed twice: "without this, redelivery would report fresh
\* and commit the same facts twice", says note_committed_facts.
CommitOnce ==
    \A i, j \in DOMAIN durable :
        durable[i].kind = "seen" /\ durable[j] = durable[i] => i = j

\* A device that authored no transition commits no message twice: redelivery,
\* failed commits, resync and restart included.
ReceiverCommitsOnce == Authored \cap LogOf(durable) = {} => CommitOnce

\* A grant on record follows its transition, names this device in the state it
\* derives, and was minted by an owner of the state before it (or by this device
\* as the author).
GrantsBacked ==
    \A i \in DOMAIN durable : durable[i].kind = "capability" =>
        \A c \in {durable[i].value} :
            /\ \E j \in 1..i : durable[j].kind = "transition" /\ durable[j].value.id = c.tr
            /\ Device \in Analyses[LogOf(durable)].states[c.tr].keys
            /\ \/ c.value = c.tr
               \/ \E m \in Messages : m.kind = "capability" /\ Grant(m, m.tr) = c

\* The announcement's transition lost a conflict, or waits for the owner to
\* resolve one.
Unsettled(m) ==
    /\ m.kind = "announcement" /\ m.tr \in {t.id : t \in log}
    /\ Analyses[log].status[m.tr] # "canonical"

\* The grant of the message's epoch landed with an error: the key it carries is
\* on record, and installed by the next start only.
Keyless(m) == m.seal \in KeysOf(durable) \ keys

\* Once everything was sent, every message that can be committed is, unless the
\* transition it is bound to is itself in question or its key waits for a restart.
Converges ==
    (\A m \in Messages : relay[m.id] # "unsent")
        ~> (\A m \in Messages : Recorded(m) \/ Hopeless(m) \/ Unsettled(m) \/ Keyless(m))
==============================================================================
