------------------------------ MODULE AtomicLog ------------------------------
(***************************************************************************)
(* What the durable store promises its callers, with no files in it: an    *)
(* append-only log of fact batches of which a crash may take away a suffix *)
(* nobody was told about, and nothing else.                                *)
(***************************************************************************)
EXTENDS Naturals, Sequences

CONSTANT Batch       \* fact batches a caller may commit

VARIABLES
    log,             \* the batches a load would replay, in commit order
    acked            \* how many of them some commit call has returned Ok for

vars == <<log, acked>>

Init == log = <<>> /\ acked = 0

\* The commit point of one batch: all of it becomes visible, or nothing.
Append1(b) == log' = Append(log, b) /\ UNCHANGED acked

\* The commit call returns Ok: everything visible is now promised.
Ack == acked' = Len(log) /\ UNCHANGED log

\* A power loss truncates the log, never below what was acknowledged.
Truncate(n) ==
    /\ n \in acked..Len(log)
    /\ log' = SubSeq(log, 1, n)
    /\ UNCHANGED acked

Next ==
    \/ \E b \in Batch : Append1(b)
    \/ Ack
    \/ \E n \in 0..Len(log) : Truncate(n)

Spec == Init /\ [][Next]_vars
=============================================================================
