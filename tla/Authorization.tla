---------------------------- MODULE Authorization ----------------------------
(***************************************************************************)
(* Snapshot classification (crates/wyrd-sync/src/authorization): which     *)
(* snapshots of the observed DAG may advance the live view, given the      *)
(* observed membership transitions.  Composes the membership log: both     *)
(* sets grow in any order, and verdicts are read from the memoized analysis. *)
(*                                                                         *)
(* A snapshot is a record                                                  *)
(*   [id, parents, membership, epoch, author, recovery, sigOk]             *)
(* with parents a sequence of ids.  The reasons of a rejection or a        *)
(* pendency are left out.  Ids are hashes, so their ascending order is any *)
(* order: it is the parameter ord wherever the code iterates in id order.  *)
(***************************************************************************)
EXTENDS Membership

CONSTANT Order \* the snapshot ids in ascending order

VARIABLE dag   \* observed snapshots

vars == <<network, observed, analysis, dag>>

KnownEpoch(a) == Len(a.canonical)

-----------------------------------------------------------------------------
(* phase 1                                                                 *)

\* preverdict: signature, binding, epoch, membership, recovery ownership.
Preverdict(a, obs, s) ==
    IF ~s.sigOk THEN "rejected"
    ELSE IF s.membership \notin Ids(obs) THEN "pending"
    ELSE CASE a.status[s.membership] \in {"pending", "orphaned", "contested"} -> "pending"
           [] a.status[s.membership] = "voided"    -> "voided"
           [] a.status[s.membership] = "invalid"   -> "rejected"
           [] a.status[s.membership] = "canonical" ->
                IF /\ s.epoch = Get(obs, s.membership).epoch
                   /\ s.author \in a.states[s.membership].members
                   /\ s.recovery => a.states[Last(a.canonical)].owners = {s.author}
                THEN "authorized" ELSE "rejected"

-----------------------------------------------------------------------------
(* phase 2: the liveness fixed point                                       *)

Children(ss, id) == {c \in ss : id \in ToSet(c.parents)}

\* The first parent that is not authorized decides.
ParentFate(ss, pre, s) ==
    LET bad == SelectSeq(s.parents, LAMBDA q : q \notin Ids(ss) \/ pre[q] # "authorized")
    IN  CASE bad = <<>> -> "live"
          [] bad # <<>> -> IF bad[1] \notin Ids(ss) \/ pre[bad[1]] = "pending"
                           THEN "undecided" ELSE "dead"

SeedLive(ss, pre) ==
    [id \in Ids(ss) |-> CASE pre[id] = "authorized" -> ParentFate(ss, pre, Get(ss, id))
                          [] pre[id] = "pending"    -> "undecided"
                          [] OTHER                  -> "dead"]

\* Mutation: an old snapshot stays live without current work on top of it.
RederiveForever(ss, k, pre, live, s) ==
    LET bad == SelectSeq(s.parents, LAMBDA q : live[q] # "live" \/ Get(ss, q).epoch > s.epoch)
    IN  CASE pre[s.id] # "authorized" -> IF pre[s.id] = "pending" THEN "undecided" ELSE "dead"
          [] pre[s.id] = "authorized" /\ bad # <<>> ->
                IF live[bad[1]] = "undecided" THEN "undecided" ELSE "dead"
          [] pre[s.id] = "authorized" /\ bad = <<>> -> "live"

\* Mutation: a parent from a later epoch is accepted.
RederiveAnyEpoch(ss, k, pre, live, s) ==
    LET bad == SelectSeq(s.parents, LAMBDA q : live[q] # "live")
    IN  CASE pre[s.id] # "authorized" -> IF pre[s.id] = "pending" THEN "undecided" ELSE "dead"
          [] pre[s.id] = "authorized" /\ bad # <<>> ->
                IF live[bad[1]] = "undecided" THEN "undecided" ELSE "dead"
          [] pre[s.id] = "authorized" /\ bad = <<>> ->
                IF s.epoch = k \/ \E c \in Children(ss, s.id) : live[c.id] = "live"
                THEN "live" ELSE "dead"

\* Mutation: one dead fork on top of an old snapshot takes it down.
RederiveAllChildren(ss, k, pre, live, s) ==
    LET bad == SelectSeq(s.parents, LAMBDA q : live[q] # "live" \/ Get(ss, q).epoch > s.epoch)
    IN  CASE pre[s.id] # "authorized" -> "dead"
          [] pre[s.id] = "authorized" /\ bad # <<>> ->
                IF live[bad[1]] = "undecided" THEN "undecided" ELSE "dead"
          [] pre[s.id] = "authorized" /\ bad = <<>> ->
                IF s.epoch = k \/ \A c \in Children(ss, s.id) : live[c.id] = "live"
                THEN "live" ELSE "dead"

\* rederive: parents live and not from a later epoch (the first that is not
\* decides), and a snapshot below the current epoch needs a live child.
Rederive(ss, k, pre, live, s) ==
    LET bad == SelectSeq(s.parents, LAMBDA q : live[q] # "live" \/ Get(ss, q).epoch > s.epoch)
    IN  CASE pre[s.id] # "authorized" -> IF pre[s.id] = "pending" THEN "undecided" ELSE "dead"
          [] pre[s.id] = "authorized" /\ bad # <<>> ->
                IF live[bad[1]] = "undecided" THEN "undecided" ELSE "dead"
          [] pre[s.id] = "authorized" /\ bad = <<>> ->
                IF s.epoch = k \/ \E c \in Children(ss, s.id) : live[c.id] = "live"
                THEN "live" ELSE "dead"

\* Rounds visit the observed ids in order and update in place, until a round
\* changes nothing: at most one round per snapshot.
LiveFixedPoint(ss, k, pre, seed, ord) ==
    LET ids == SelectSeq(ord, LAMBDA id : id \in Ids(ss))
        Visit[n \in Nat] ==
            IF n = 0 THEN seed
            ELSE LET live == Visit[n - 1]
                     id   == ids[((n - 1) % Len(ids)) + 1]
                 IN  IF live[id] # "live" THEN live
                     ELSE [live EXCEPT ![id] = Rederive(ss, k, pre, live, Get(ss, id))]
    IN  Visit[Len(ids) * Len(ids)]

\* Every parent of a recovery is a current head when the recovery is set aside.
RecoveryParentsEligible(ss, k, live, s) ==
    \A q \in ToSet(s.parents) :
        /\ q \in Ids(ss)
        /\ Children(ss, q) \subseteq {s}
        /\ Get(ss, q).epoch = k
        /\ live[q] = "live"

-----------------------------------------------------------------------------
(* phase 3                                                                 *)

Heads(ss) == {s.id : s \in {x \in ss : Children(ss, x.id) = {}}}

PreverdictAll(a, obs, ss) == [id \in Ids(ss) |-> Preverdict(a, obs, Get(ss, id))]

\* Recoveries are checked once, against the first fixed point.
RejectRecoveries(ss, k, pre, live) ==
    [id \in Ids(ss) |->
        IF /\ Get(ss, id).recovery /\ pre[id] = "authorized"
           /\ ~RecoveryParentsEligible(ss, k, live, Get(ss, id))
        THEN "rejected" ELSE pre[id]]

Verdict(ss, k, pre, live, s) ==
    CASE pre[s.id] # "authorized"   -> pre[s.id]
      [] pre[s.id] = "authorized" /\ live[s.id] = "undecided" -> "pending"
      [] pre[s.id] = "authorized" /\ live[s.id] = "dead" ->
            IF s.epoch < k THEN "superseded" ELSE IF s.epoch > k THEN "pending" ELSE "stranded"
      [] pre[s.id] = "authorized" /\ live[s.id] = "live" ->
            IF s.id \in Heads(ss) /\ s.epoch = k THEN "eligible" ELSE "history"

VerdictAll(ss, k, pre, live) == [id \in Ids(ss) |-> Verdict(ss, k, pre, live, Get(ss, id))]

\* A rejected recovery takes its descendants down in a second fixed point.
AfterRecoveries(ss, k, ord, pre1, live1, pre2) ==
    VerdictAll(ss, k, pre2, IF pre2 = pre1 THEN live1 ELSE LiveFixedPoint(ss, k, pre2, live1, ord))

AfterLiveness(ss, k, ord, pre, live) ==
    AfterRecoveries(ss, k, ord, pre, live, RejectRecoveries(ss, k, pre, live))

AfterPreverdict(ss, k, ord, pre) ==
    AfterLiveness(ss, k, ord, pre, LiveFixedPoint(ss, k, pre, SeedLive(ss, pre), ord))

\* Mutation: the horizon is always the tip of the log.
ClassifyAtEpochTip(a, obs, ss, k, ord) ==
    AfterPreverdict(ss, KnownEpoch(a), ord, PreverdictAll(a, obs, ss))

\* The liveness horizon is pinned to epoch k; everything else follows the log.
ClassifyAtEpoch(a, obs, ss, k, ord) == AfterPreverdict(ss, k, ord, PreverdictAll(a, obs, ss))

ClassifyAtTip(a, obs, ss, ord) == ClassifyAtEpoch(a, obs, ss, KnownEpoch(a), ord)

EligibleHeads(c) == {id \in DOMAIN c : c[id] = "eligible"}

-----------------------------------------------------------------------------

Init == LogInit /\ dag = {}

ObserveTransition(t) == Observe(t) /\ UNCHANGED dag

Read == WithAnalysis /\ UNCHANGED dag

ObserveSnapshot(s) == dag' = dag \cup {s} /\ UNCHANGED logVars

Next == \/ Read
        \/ \E t \in network.transitions : ObserveTransition(t)
        \/ \E s \in network.snapshots : ObserveSnapshot(s)

Spec == Init /\ [][Next]_vars

-----------------------------------------------------------------------------
(* properties                                                              *)

Statuses == {"canonical", "contested", "voided", "orphaned", "pending", "invalid"}
Classes == {"rejected", "pending", "voided", "eligible", "history", "superseded", "stranded"}
LiveClasses == {"eligible", "history"}

\* Statements about the classification a reader is served.
Now(P(_)) == Served(LAMBDA a : \A c \in {ClassifyAtTip(a, observed, dag, Order)} : P(c))

\* What is observed comes from the network, an analysis gives every observed
\* transition one verdict, and every observed snapshot has one class.
TypeOK ==
    /\ observed \subseteq network.transitions /\ dag \subseteq network.snapshots
    /\ Served(LAMBDA a : a.status \in [Ids(observed) -> Statuses])
    /\ Now(LAMBDA c : c \in [Ids(dag) -> Classes])

\* An eligible head is current work of a current member, and everything below a
\* live snapshot is itself live: observed, signed, bound to a canonical
\* transition by one of its members, and no newer than what builds on it.  A
\* removed device never leads the view again.
LiveLineageAuthorized ==
    \A a \in {analysis} :
    Now(LAMBDA c :
        \A s \in dag : c[s.id] \in LiveClasses =>
            /\ s.sigOk
            /\ s.membership \in ToSet(a.canonical)
            /\ s.author \in a.states[s.membership].members
            /\ \A q \in ToSet(s.parents) :
                  q \in Ids(dag) /\ c[q] \in LiveClasses /\ Get(dag, q).epoch <= s.epoch
            /\ c[s.id] = "eligible" =>
                  s.membership = Last(a.canonical) /\ Children(dag, s.id) = {})

\* The lineage of the reference definition (docs/epochs.md): a set of authorized
\* snapshots closed under the parent rule and the child rule.
Consistent(L, k) ==
    \A s \in L :
        /\ \A q \in ToSet(s.parents) : \E x \in L : x.id = q /\ x.epoch <= s.epoch
        /\ s.epoch = k \/ \E x \in L : x \in Children(dag, s.id)

\* The in-place iteration computes the greatest consistent lineage: the live
\* snapshots are consistent, and no larger set of authorized ones is.
LiveIsGreatest ==
    \A a \in {analysis} :
    Now(LAMBDA c :
        \A authorized \in {{s \in dag : Preverdict(a, observed, s) = "authorized"}},
           live \in {{s \in dag : c[s.id] \in LiveClasses}} :
            /\ Consistent(live, KnownEpoch(a))
            /\ \A L \in SUBSET {s \in authorized : c[s.id] # "rejected"} :
                  Consistent(L, KnownEpoch(a)) => L \subseteq live)

\* While membership stands still, more snapshots never take live work away,
\* unless a recovery is invalidated by it: a rival child of the head a recovery
\* adopts takes the recovery and what rests on it down.
LiveOnlyGrows ==
    [][dag' # dag /\ analysis # NoAnalysis =>
        \A c \in {ClassifyAtTip(analysis, observed, dag, Order)},
           d \in {ClassifyAtTip(analysis, observed, dag', Order)} :
            \A s \in dag : c[s.id] \in LiveClasses =>
                \/ d[s.id] \in LiveClasses
                \/ \E r \in dag : r.recovery /\ c[r.id] \in LiveClasses /\ d[r.id] = "rejected"]_vars

\* classify.rs on admission resume: once the admission moved the tip, the fixed
\* point pinned to the epoch before it yields the very heads the admission had
\* started from, as long as the new transitions extend the chain and keep the
\* owner.
ResumeSeesOldHeads ==
    [][observed' # observed /\ analysis # NoAnalysis =>
        \A a \in {analysis}, n \in {Analyse(observed')} :
            /\ Len(a.canonical) > 0 /\ IsStrictPrefix(a.canonical, n.canonical)
            /\ n.states[Last(n.canonical)].owners = a.states[Last(a.canonical)].owners
            => EligibleHeads(ClassifyAtEpoch(n, observed', dag, KnownEpoch(a), Order))
                  = EligibleHeads(ClassifyAtTip(a, observed, dag, Order))]_vars

==============================================================================
