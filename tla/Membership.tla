----------------------------- MODULE Membership -----------------------------
(***************************************************************************)
(* The MembershipLog machine (crates/wyrd-sync/src/membership/mod.rs): a   *)
(* grow-only set of observed transitions, arriving in any order, and the   *)
(* memoized analysis every verdict is read from.  Authorization completes  *)
(* it with the snapshots that are judged by those verdicts.                *)
(***************************************************************************)
EXTENDS MembershipChain

CONSTANTS Universes, \* what may exist together: records of transitions and snapshots
          NoAnalysis \* the cache is empty

VARIABLES network,   \* what exists; it never changes
          observed,  \* the observed set
          analysis   \* the memoized classification, or NoAnalysis

logVars == <<network, observed, analysis>>

LogInit == network \in Universes /\ observed = {} /\ analysis = NoAnalysis

\* Observing drops the cache; observing again changes nothing else.
Observe(t) ==
    /\ observed' = observed \cup {t}
    /\ analysis' = NoAnalysis
    /\ UNCHANGED network

\* Any read classifies the current set once and keeps the result.
WithAnalysis ==
    /\ analysis = NoAnalysis
    /\ analysis' = Analyse(observed)
    /\ UNCHANGED <<network, observed>>

-----------------------------------------------------------------------------
(* properties                                                              *)

\* Statements about the verdicts a reader is served.
Served(P(_)) == analysis # NoAnalysis => P(analysis)

\* The canonical chain is one path: it starts at a genesis, each transition
\* names its predecessor as prev, epochs count from 1, and nothing outside it
\* is canonical, whatever forks, resolutions and gaps were observed.
SingleChain ==
    Served(LAMBDA a :
        LET c == a.canonical
        IN  /\ \A i \in 1..Len(c) :
                  /\ Get(observed, c[i]).epoch = i
                  /\ Get(observed, c[i]).prev = IF i = 1 THEN NoPrev ELSE c[i - 1]
            /\ {id \in Ids(observed) : a.status[id] = "canonical"} = ToSet(c))

\* Every canonical transition is signed by an owner of the state before it, and
\* the state keeps owners among members, readers apart from members, at most
\* one owner, and an encryption key for exactly the admitted devices.
AuthorityAndRoles ==
    Served(LAMBDA a :
        /\ \A i \in 2..Len(a.canonical) :
              Get(observed, a.canonical[i]).author \in a.states[a.canonical[i - 1]].owners
        /\ \A id \in DOMAIN a.states :
              LET s == a.states[id]
              IN  /\ s.owners \subseteq s.members
                  /\ s.readers \cap s.members = {}
                  /\ Cardinality(s.owners) <= 1
                  /\ s.keys = Known(s))

\* Device identity is single use on a chain: no two canonical transitions admit
\* the same device, so a removed device never comes back.
SingleUseIdentity ==
    Served(LAMBDA a :
        \A i, j \in 1..Len(a.canonical) :
            i # j => Admits(Get(observed, a.canonical[i]))
                        \cap Admits(Get(observed, a.canonical[j])) = {})

\* analyse: the verdicts a reader is served describe one chain, each step of it
\* authorized by the one before, on which no identity is used twice, in whatever
\* order forks, resolutions, gaps, removals and readmissions were observed.
OneAuthorizedChain == SingleChain /\ AuthorityAndRoles /\ SingleUseIdentity

\* Evaluation is frozen exactly when some transition is contested, the freeze
\* is just past the canonical tip (one further for contradictory resolutions),
\* and no fork is ever decided without a resolution that names every loser.
FrozenIffContested ==
    Served(LAMBDA a :
        LET contested == {id \in Ids(observed) : a.status[id] = "contested"}
        IN  /\ (a.frozen # 0) <=> (contested # {})
            /\ a.frozen # 0 => a.frozen \in {Len(a.canonical) + 1, Len(a.canonical) + 2}
            /\ \A i \in 1..Len(a.canonical) :
                  LET siblings == {t \in observed : /\ t.id \in DOMAIN a.states
                                                    /\ t.prev = Get(observed, a.canonical[i]).prev
                                                    /\ t.id # a.canonical[i]}
                  IN  \/ siblings = {}
                      \/ Get(observed, a.canonical[i]).resolves # <<>>
                      \/ /\ i < Len(a.canonical)
                         /\ {t.id : t \in siblings} \subseteq Entries(Get(observed, a.canonical[i + 1])))

\* The contenders of the conflict a resolution settles.
Parties(r) == {r.prev} \cup Entries(r)

\* Arrival order never decides (handle_conflict): where a late observation moves
\* the canonical chain, the first transition to lose its place is contested, or a
\* resolution on the new chain names it as a loser, or a resolution of its
\* predecessor's conflict succeeds that predecessor in its stead.
NeverSwitchesSides ==
    [][analysis # NoAnalysis => \A a \in {analysis}, b \in {Analyse(observed')} :
          \A k \in 1..Len(a.canonical) :
              LET id == a.canonical[k]
                  Resolution(r) == Get(observed', r).resolves # <<>>
              IN  /\ k > Len(b.canonical) \/ b.canonical[k] # id
                  /\ \A i \in 1..(k - 1) : i <= Len(b.canonical) /\ b.canonical[i] = a.canonical[i]
                  => \/ b.status[id] = "contested"
                     \/ \E r \in ToSet(b.canonical) : id \in Entries(Get(observed', r))
                     \/ k <= Len(b.canonical) /\ Resolution(b.canonical[k])]_observed

\* "Once a valid resolution is recognized, it is the designated successor of the
\* winning tip, the named siblings are voided permanently, and nothing that
\* arrives later reopens that conflict" (docs/epochs.md): a canonical resolution
\* stays canonical, unless a second, contradictory resolution of its conflict is
\* observed, which re-freezes evaluation.  Refuted: the run resolution_reopened.
ResolutionFinal ==
    [][analysis # NoAnalysis => \A a \in {analysis}, b \in {Analyse(observed')} :
          \A r \in {t \in observed : t.id \in ToSet(a.canonical) /\ t.resolves # <<>>} :
              \/ r.id \in ToSet(b.canonical)
              \/ \E t \in observed' \ {r} : t.id \in DOMAIN b.states /\ Parties(t) = Parties(r)]_observed

\* The transition and those it builds on resolve nothing.
RECURSIVE Plain(_, _)
Plain(obs, id) ==
    id = NoPrev \/ (id \in Ids(obs) => Get(obs, id).resolves = <<>> /\ Plain(obs, Get(obs, id).prev))

\* What authorizes once authorizes always: a transition with a derived state
\* keeps that state whatever is observed later (capabilities are validated again
\* against it on every rebuild).  And what authoritative calls Terminal, "a
\* classification without a derived state can never become derivable", stays
\* bad evidence, resolutions and what rests on them apart.
AuthorityIsFinal ==
    [][analysis # NoAnalysis => \A a \in {analysis}, b \in {Analyse(observed')} :
          /\ \A id \in DOMAIN a.states : id \in DOMAIN b.states /\ b.states[id] = a.states[id]
          /\ \A id \in Ids(observed) :
                a.status[id] \in {"invalid", "orphaned"} /\ Plain(observed, id) =>
                    b.status[id] \in {"invalid", "orphaned"}]_observed
==============================================================================
