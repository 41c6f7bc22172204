------------------------------ MODULE MCIntake ------------------------------
(* Message universes for TLC: announcements that wait for their transition,   *)
(* the deliveries of a rotation, an owner who resolves a conflict while       *)
(* announcements are parked on it, and messages that come to nothing.         *)
EXTENDS Intake

CONSTANTS o, d \* the owner and the device that joined

T(id, epoch, prev, resolves, changes) ==
    [id |-> id, epoch |-> epoch, prev |-> prev, resolves |-> resolves, author |-> o,
     changes |-> changes, sigOk |-> TRUE, keysOk |-> TRUE, rootsOk |-> TRUE]

C(op, x) == [op |-> op, devs |-> {x}]
Rotate   == <<[op |-> "rotate", devs |-> {}]>>

G  == T("G", 1, NoPrev, <<>>, <<C("admit", o), C("setOwners", o)>>)
A  == T("A", 2, "G", <<>>, <<C("admit", d)>>)
B  == T("B", 2, "G", <<>>, Rotate)
N  == T("N", 3, "A", <<>>, Rotate)
RA == T("RA", 3, "A", <<"B">>, Rotate)

M(id, kind, seal, sender) == [id |-> id, kind |-> kind, seal |-> seal, sender |-> sender, ok |-> TRUE]

TMsg(id, seal, t) == M(id, "transition", seal, o) @@ [t |-> t]
Ann(id, seal, t, snap, core, route) ==
    M(id, "announcement", seal, o)
        @@ [tr |-> t.id, epoch |-> t.epoch, author |-> o, snap |-> snap, core |-> core, route |-> route]
Rot(id, t) == M(id, "rotation", 0, o) @@ [t |-> t, value |-> t.id, minter |-> o]
Cap(id, seal, t) == M(id, "capability", seal, o) @@ [tr |-> t.id, value |-> t.id]

\* A route update and a fork of an announcement, all before their transition.
FlushMessages ==
    {TMsg("tG", 1, G), TMsg("tA", 1, A),
     Ann("x1", 2, A, "s", "core", "r1"), Ann("x2", 2, A, "s", "core", "r2"),
     Ann("xf", 2, A, "s", "fork", "r1")}

\* A rotation to epoch 3, one that its minter had no right to, an announcement
\* under the new key, a capability and a reconciliation request.
RotationMessages ==
    {TMsg("tA", 1, A), Rot("rot", N), [Rot("fake", N) EXCEPT !.minter = d, !.value = "x"],
     Ann("y", 3, N, "s", "core", "r1"), Cap("cap", 2, A),
     M("req", "request", 1, o) @@ [value |-> "v"]}

\* More announcements parked on one transition than a pass may commit.
BurstMessages ==
    {TMsg("tG", 1, G), TMsg("tA", 1, A),
     Ann("x1", 2, A, "s", "core", "r1"), Ann("y1", 2, A, "z", "core", "r1")}

\* The owner's own drive, at A, under conflict once B arrives, and a message
\* that comes to nothing.
OwnerMessages ==
    {TMsg("tB", 1, B), TMsg("tN", 1, T("N", 4, "RA", <<>>, Rotate)),
     Ann("x1", 2, A, "s", "core", "r1"), Ann("x2", 2, A, "s", "core", "r2"),
     M("kr", "keyRotation", 1, o)}

\* Bytes that do not open, a transition that fails its own checks and the one
\* that is meant.
NoiseMessages ==
    {M("junk", "garbage", 0, o), [TMsg("bad", 1, B) EXCEPT !.ok = FALSE], TMsg("tA", 1, A)}

AtA == <<Fact("transition", G), Fact("capability", [tr |-> "G", value |-> "G"]),
         Fact("transition", A), Fact("capability", [tr |-> "A", value |-> "A"])>>
AtG == <<Fact("transition", G)>>

Joined(messages, facts, budget, maxFaults) ==
    [messages |-> messages, authored |-> {}, device |-> d, facts |-> facts, keys |-> 1..2,
     passBudget |-> budget, senderBudget |-> budget - 1, maxPending |-> 2, maxFaults |-> maxFaults]

OwnDrive == [Joined(OwnerMessages, AtA, 11, 1) EXCEPT
                !.device = o, !.authored = {RA}, !.maxPending = 1]

\* Budgets that no pass of these messages exhausts before its last commits.
MCSituations ==
    [flush    |-> Joined(FlushMessages, <<>>, 9, 2),
     rotation |-> Joined(RotationMessages, AtG, 11, 1),
     owner    |-> OwnDrive,
     noise    |-> Joined(NoiseMessages, AtG, 9, 2)]

MCBurst == [burst |-> Joined(BurstMessages, AtG, 5, 0)]
==============================================================================
