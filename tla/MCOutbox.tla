------------------------------ MODULE MCOutbox ------------------------------
(* Two instances of Outbox.  A joiner has the genesis transition and the   *)
(* keys up to its epoch from its invitation, and is owed the rest of the   *)
(* chain and its capability: "b" joined at epoch 2, "j" at epoch 3.        *)
EXTENDS Outbox

MCEpochs == 1 .. 2
MCSnapEpoch == [s1 |-> 2, f1 |-> 1]
MCAdmitted == [b |-> 2]
MCInvited == [b |-> MCEpochs]
MCHeld == [b |-> [transitions |-> {1}, capabilities |-> {}, snapshots |-> {}]]
MCOwed == {Obligation("transition", 2, "b"), Obligation("capability", 2, "b")}
MCOutdated == {Obligation("capability", 2, "b")}

ChainEpochs == 1 .. 3
ChainAdmitted == [j |-> 3]
ChainInvited == [j |-> ChainEpochs]
ChainHeld == [j |-> [transitions |-> {1}, capabilities |-> {}, snapshots |-> {}]]
ChainOwed == {Obligation("transition", 2, "j"), Obligation("transition", 3, "j"),
              Obligation("capability", 3, "j")}
=============================================================================
