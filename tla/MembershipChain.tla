--------------------------- MODULE MembershipChain ---------------------------
(***************************************************************************)
(* The canonicality analysis of the membership log                         *)
(* (crates/wyrd-sync/src/membership), a function of the set of observed    *)
(* transitions: validate every link against its predecessor, walk the      *)
(* chain from genesis, resolve conflicts by explicit resolutions only, and *)
(* classify the rest by ancestry.                                          *)
(*                                                                         *)
(* A transition is a record                                                *)
(*   [id, epoch, prev, resolves, author, changes, sigOk, keysOk, rootsOk]  *)
(* with prev an id or NoPrev, resolves a sequence of ids and changes a     *)
(* sequence of [op, devs].  sigOk, keysOk and rootsOk say whether the      *)
(* signature verifies, the admitted encryption keys are curve points and   *)
(* the declared set roots are those of the derived state.  The reason of   *)
(* an Invalid verdict is left out.                                         *)
(***************************************************************************)
EXTENDS Naturals, FiniteSets, Sequences, SequencesExt

CONSTANTS NoPrev,    \* a genesis names no predecessor
          Stop       \* the walk has ended

Ids(obs)       == {t.id : t \in obs}
Get(obs, id)   == CHOOSE t \in obs : t.id = id
Entries(t)     == ToSet(t.resolves)

-----------------------------------------------------------------------------
(* state.rs: applying changes                                              *)

EmptyState == [members |-> {}, owners |-> {}, readers |-> {}, keys |-> {}, ok |-> TRUE]
Failed(s)  == [s EXCEPT !.ok = FALSE]
Known(s)   == s.members \cup s.readers

\* Remove evicts from both sets; an owner leaves this way only as sole owner.
RemoveDevice(s, d) ==
    IF d \notin Known(s) \/ (d \in s.owners /\ Cardinality(s.owners) > 1) THEN Failed(s)
    ELSE [s EXCEPT !.members = @ \ {d}, !.readers = @ \ {d},
                   !.keys = @ \ {d}, !.owners = @ \ {d}]

AdmitMember(s, d) ==
    IF d \in Known(s) THEN Failed(s)
    ELSE [s EXCEPT !.members = @ \cup {d}, !.keys = @ \cup {d}]

AdmitReader(s, d) ==
    IF d \in Known(s) THEN Failed(s)
    ELSE [s EXCEPT !.readers = @ \cup {d}, !.keys = @ \cup {d}]

SetOwners(s, ds) ==
    IF Cardinality(ds) # 1 THEN Failed(s) ELSE [s EXCEPT !.owners = ds]

\* The device of a single-device change.
Dev(c) == CHOOSE d \in c.devs : TRUE

ApplyChange(s, c) ==
    IF ~s.ok THEN s
    ELSE CASE c.op = "admit"       -> AdmitMember(s, Dev(c))
           [] c.op = "admitReader" -> AdmitReader(s, Dev(c))
           [] c.op = "remove"      -> RemoveDevice(s, Dev(c))
           [] c.op = "setOwners"   -> SetOwners(s, c.devs)
           [] c.op = "rotate"      -> s

Named(t, ops) == UNION {c.devs : c \in {x \in ToSet(t.changes) : x.op \in ops}}
Admits(t)     == Named(t, {"admit", "admitReader"})

\* No device is removed and admitted by one transition, changes apply in order,
\* and no owner may be left who is not a member.
Coherent(s, t, next) ==
    IF Admits(t) \cap Named(t, {"remove"}) # {} \/ ~(next.owners \subseteq next.members)
    THEN Failed(s) ELSE next

Apply(s, t) == Coherent(s, t, FoldLeft(ApplyChange, s, t.changes))

-----------------------------------------------------------------------------
(* validate.rs and chain.rs: one link                                      *)

Invalid  == [kind |-> "invalid"]
Pending  == [kind |-> "pending"]
Orphaned == [kind |-> "orphaned"]
Valid(s, a) == [kind |-> "valid", state |-> s, admitted |-> a]

CheckIntrinsic(t) ==
    /\ t.epoch # 0
    /\ (t.epoch = 1) <=> (t.prev = NoPrev)
    /\ t.prev = NoPrev => t.resolves = <<>>
    /\ t.changes # <<>>
    /\ t.keysOk

\* A genesis leaves exactly one member, the owner, and no reader.
GenesisState(t, s) ==
    IF s.ok /\ t.rootsOk /\ Cardinality(s.members) = 1 /\ s.owners = s.members /\ s.readers = {}
    THEN Valid(s, Admits(t)) ELSE Invalid

GenesisLink(t) == GenesisState(t, Apply(EmptyState, t))

\* The first entry of resolves that is not a valid transition of the epoch
\* before decides: unobserved or pending ones may still heal, others may not.
EntryVerdict(obs, L, t, id) ==
    IF id \notin Ids(obs) THEN Pending
    ELSE IF Get(obs, id).epoch + 1 # t.epoch THEN Invalid
    ELSE IF L[id].kind \in {"valid", "pending"} THEN L[id] ELSE Invalid

ResolvesLink(obs, L, t, ok) ==
    LET bad == SelectSeq(t.resolves, LAMBDA id : EntryVerdict(obs, L, t, id).kind # "valid")
    IN  IF Cardinality(Entries(t)) # Len(t.resolves) THEN Invalid
        ELSE IF bad = <<>> THEN ok ELSE EntryVerdict(obs, L, t, bad[1])

\* Mutation: retirement is checked against the current sets only.
ChildStateForgetsRetired(obs, L, t, p, s) ==
    IF t.author \notin p.state.owners \/ ~s.ok \/ ~t.rootsOk THEN Invalid
    ELSE ResolvesLink(obs, L, t, Valid(s, p.admitted \cup Admits(t)))

\* A link over the valid predecessor link p, deriving the state s: owner
\* authority in the state before, derived roots, single-use identities, then the
\* resolution shape.
ChildState(obs, L, t, p, s) ==
    IF t.author \notin p.state.owners \/ ~s.ok \/ ~t.rootsOk \/ Admits(t) \cap p.admitted # {}
    THEN Invalid
    ELSE ResolvesLink(obs, L, t, Valid(s, p.admitted \cup Admits(t)))

ChildLink(obs, L, t, p) == ChildState(obs, L, t, p, Apply(p.state, t))

ValidateLink(obs, L, t) ==
    IF ~CheckIntrinsic(t) \/ ~t.sigOk THEN Invalid
    ELSE IF t.prev = NoPrev THEN GenesisLink(t)
    ELSE IF t.prev \notin Ids(obs) THEN Pending
    ELSE IF Get(obs, t.prev).epoch + 1 # t.epoch THEN Invalid
    ELSE IF L[t.prev].kind \in {"invalid", "orphaned"} THEN Orphaned
    ELSE IF L[t.prev].kind = "pending" THEN Pending
    ELSE ChildLink(obs, L, t, L[t.prev])

\* Links in ascending epoch order: every dependency sits one epoch below.
Links(obs) ==
    LET UpTo(e) == {t.id : t \in {x \in obs : x.epoch <= e}}
        L[e \in Nat] ==
            IF e = 0 THEN [id \in UpTo(0) |-> Invalid]
            ELSE LET below == L[e - 1]
                 IN  [id \in UpTo(e) |-> IF id \in DOMAIN below THEN below[id]
                                         ELSE ValidateLink(obs, below, Get(obs, id))]
        top == CHOOSE e \in {0} \cup {t.epoch : t \in obs} : \A t \in obs : t.epoch <= e
    IN  L[top]

-----------------------------------------------------------------------------
(* chain.rs: the walk                                                      *)

\* Valid children of a transition; the valid geneses are those of NoPrev.
Kids(obs, L, id) == {t.id : t \in {x \in obs : x.prev = id /\ L[x.id].kind = "valid"}}

\* Mutation: a resolution may name only some of the voided siblings.
CandidatesPartial(obs, L, contenders) ==
    {t.id : t \in {x \in obs : /\ x.prev \in contenders
                               /\ L[x.id].kind = "valid"
                               /\ x.resolves # <<>>
                               /\ Entries(x) \subseteq contenders \ {x.prev}}}

\* A resolution is a valid child of a contender that names exactly the others.
Candidates(obs, L, contenders) ==
    {t.id : t \in {x \in obs : /\ x.prev \in contenders
                               /\ L[x.id].kind = "valid"
                               /\ x.resolves # <<>>
                               /\ Entries(x) = contenders \ {x.prev}}}

Mark(a, ids, s) == [a EXCEPT !.status = [id \in DOMAIN @ |-> IF id \in ids THEN s ELSE @[id]]]

Extend(a, id) ==
    [Mark(a, {id}, "canonical") EXCEPT !.canonical = Append(@, id), !.at = id]

\* Mutation: the losers of a resolved conflict become bad evidence.
HandleConflictRejectsLosers(obs, L, a, contenders) ==
    LET cands == Candidates(obs, L, contenders)
        r     == CHOOSE c \in cands : TRUE
        w     == Get(obs, r).prev
    IN  IF Cardinality(cands) = 1
        THEN Mark(Extend(Extend(a, w), r), contenders \ {w}, "invalid")
        ELSE [Mark(a, contenders, "contested") EXCEPT
                 !.frozen = Get(obs, CHOOSE c \in contenders : TRUE).epoch, !.at = Stop]

\* Mutation: an unresolved conflict goes to the first contender.
HandleConflictTieBreak(obs, L, a, contenders) ==
    LET cands == Candidates(obs, L, contenders)
        r     == CHOOSE c \in cands : TRUE
        w     == Get(obs, r).prev
        first == CHOOSE c \in contenders : TRUE
    IN  IF Cardinality(cands) = 1
        THEN Mark(Extend(Extend(a, w), r), contenders \ {w}, "voided")
        ELSE Mark(Extend(a, first), contenders \ {first}, "voided")

\* The unresolved, the resolved and the contradictory outcome of a conflict.
HandleConflict(obs, L, a, contenders) ==
    LET cands == Candidates(obs, L, contenders)
        epoch == Get(obs, CHOOSE c \in contenders : TRUE).epoch
        Freeze(ids, e) == [Mark(a, ids, "contested") EXCEPT !.frozen = e, !.at = Stop]
    IN  CASE cands = {} -> Freeze(contenders, epoch)
          [] Cardinality(cands) = 1 ->
                LET r == CHOOSE c \in cands : TRUE
                    w == Get(obs, r).prev
                IN  Mark(Extend(Extend(a, w), r), contenders \ {w}, "voided")
          [] OTHER -> Freeze(contenders \cup cands, epoch + 1)

\* One turn of the walk at a.at, with the genesis selection as its first turn.
WalkStep(obs, L, a) ==
    LET kids == Kids(obs, L, a.at)
        kid  == CHOOSE k \in kids : TRUE
    IN  CASE a.at = Stop \/ kids = {} -> [a EXCEPT !.at = Stop]
          [] a.at # Stop /\ Cardinality(kids) = 1 ->
                IF Get(obs, kid).resolves # <<>>
                THEN [Mark(a, {kid}, "invalid") EXCEPT !.at = Stop]
                ELSE Extend(a, kid)
          [] a.at # Stop /\ Cardinality(kids) > 1 -> HandleConflict(obs, L, a, kids)

\* What the walk did not reach: valid links are voided by ancestry.
ClassifyRemaining(L, a) ==
    [a EXCEPT !.status = [id \in DOMAIN @ |->
        IF @[id] # "none" THEN @[id] ELSE IF L[id].kind = "valid" THEN "voided" ELSE L[id].kind]]

Walk(obs, L) ==
    LET W[n \in Nat] ==
            IF n = 0 THEN [status |-> [id \in Ids(obs) |-> "none"], canonical |-> <<>>,
                           frozen |-> 0, at |-> NoPrev]
            ELSE WalkStep(obs, L, W[n - 1])
    IN  W[Cardinality(obs) + 1]

Analysis(obs, L, a) ==
    [status    |-> a.status,
     canonical |-> a.canonical,
     frozen    |-> a.frozen,
     states    |-> [id \in {i \in Ids(obs) : L[i].kind = "valid" /\ a.status[i] # "invalid"}
                      |-> L[id].state]]

AnalyseLinks(obs, L) == Analysis(obs, L, ClassifyRemaining(L, Walk(obs, L)))

Analyse(obs) == AnalyseLinks(obs, Links(obs))

\* is_retired: some transition on the chain to the tip admitted the device.
IsRetired(obs, a, d) == \E id \in ToSet(a.canonical) : d \in Admits(Get(obs, id))
==============================================================================
