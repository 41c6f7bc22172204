--------------------------- MODULE MCAuthorization ---------------------------
(* Three universes for TLC: transitions full of conflicts and resolutions;    *)
(* admissions, removals and bad evidence; and a drive whose member is removed *)
(* by the resolution of a conflict, with snapshots on every side of it.       *)
EXTENDS Authorization

CONSTANTS o, p, b, rd \* devices: the founder, a rival founder, a member, a reader

T(id, epoch, prev, resolves, author, changes) ==
    [id |-> id, epoch |-> epoch, prev |-> prev, resolves |-> resolves, author |-> author,
     changes |-> changes, sigOk |-> TRUE, keysOk |-> TRUE, rootsOk |-> TRUE]

C(op, d) == [op |-> op, devs |-> {d}]
Rotate   == <<[op |-> "rotate", devs |-> {}]>>
Found(d) == <<C("admit", d), C("setOwners", d)>>

Genesis == T("G", 1, NoPrev, <<>>, o, Found(o))

\* Three siblings, every way of resolving them, and work on top of both sides.
ConflictUniverse ==
    {Genesis,
     T("A", 2, "G", <<>>, o, <<C("admit", b)>>),
     T("B", 2, "G", <<>>, o, Rotate),
     T("C", 2, "G", <<>>, o, <<C("admitReader", rd)>>),
     T("RA", 3, "A", <<"B">>, o, Rotate),
     T("RB", 3, "B", <<"A">>, o, Rotate),
     T("RABC", 3, "A", <<"B", "C">>, o, Rotate),
     T("F", 4, "RA", <<"RB">>, o, Rotate),
     T("X", 3, "A", <<>>, o, <<C("remove", b)>>),
     T("Y", 3, "B", <<>>, o, Rotate),
     T("W", 4, "RA", <<"Y">>, o, Rotate),
     T("V", 4, "RA", <<>>, o, Rotate)}

\* Two geneses, an ownership handover against a removal, a last-owner removal,
\* retired and double identities, and each kind of bad evidence.
IdentityUniverse ==
    {Genesis,
     T("H", 1, NoPrev, <<>>, p, Found(p)),
     T("RG", 2, "G", <<"H">>, o, <<C("admit", b)>>),
     T("J", 2, "G", <<>>, o, <<C("admit", b)>>),
     T("K", 3, "J", <<>>, o, <<C("admitReader", rd), C("remove", b)>>),
     T("L", 4, "K", <<>>, o, <<C("admit", b)>>),
     T("M", 4, "K", <<"N">>, o, <<C("remove", rd)>>),
     T("N", 3, "J", <<>>, o, <<C("setOwners", b)>>),
     T("P", 4, "N", <<>>, o, Rotate),
     T("Q", 4, "N", <<"K">>, b, <<C("remove", b)>>),
     T("Z", 5, "Q", <<>>, b, Rotate),
     T("D", 4, "K", <<"N", "N">>, o, Rotate),
     [T("S", 2, "G", <<>>, o, Rotate) EXCEPT !.sigOk = FALSE],
     T("SS", 3, "S", <<>>, o, Rotate)}

S(id, epoch, membership, author, parents) ==
    [id |-> id, epoch |-> epoch, membership |-> membership, author |-> author,
     parents |-> parents, recovery |-> FALSE, sigOk |-> TRUE]
Recovery(s) == [s EXCEPT !.recovery = TRUE]

\* b is admitted by A, A is contested by B, and RA resolves the conflict and
\* removes b.  Work of b on both sides of the removal, work bound to the loser,
\* a snapshot older than its parent, a recovery and its rival.
RemovalTransitions ==
    {Genesis,
     T("A", 2, "G", <<>>, o, <<C("admit", b)>>),
     T("B", 2, "G", <<>>, o, Rotate),
     T("RA", 3, "A", <<"B">>, o, <<C("remove", b)>>)}

RemovalSnapshots ==
    {S("s1", 1, "G", o, <<>>),
     S("byB", 2, "A", b, <<"s1">>),
     S("lost", 2, "B", o, <<"s1">>),
     S("late", 3, "RA", b, <<"byB">>),
     S("next", 3, "RA", o, <<"s1">>),
     S("back", 2, "A", b, <<"next">>),
     S("onBack", 3, "RA", o, <<"back">>),
     S("adopt", 3, "RA", o, <<"next", "byB">>),
     Recovery(S("rec", 3, "RA", o, <<"next">>))}

RemovalOrder == <<"adopt", "back", "byB", "late", "lost", "next", "onBack", "rec", "s1">>

MCUniverses ==
    {[transitions |-> ConflictUniverse,   snapshots |-> {}],
     [transitions |-> IdentityUniverse,   snapshots |-> {}],
     [transitions |-> RemovalTransitions, snapshots |-> RemovalSnapshots]}
==============================================================================
