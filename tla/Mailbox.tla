------------------------------- MODULE Mailbox -------------------------------
(***************************************************************************)
(* The receiving half of the live mailbox                                  *)
(* (crates/wyrd-core/src/mailbox/mod.rs and seen_store.rs): gift wraps the *)
(* relay replays without a cursor become held deliveries, the engine       *)
(* settles them, and acknowledged wrap ids go to an append-only ledger     *)
(* that is compacted past its bound, survives crashes and power losses,    *)
(* and refuses to open when it is corrupt.                                 *)
(*                                                                         *)
(* A wrap is its event id; Garbage wraps do not open as envelopes.  What   *)
(* the relay stream hands over next is any wrap at any time: replay,       *)
(* reordering and duplication are the relay's right.  A ledger file is a   *)
(* record of complete lines and the state of what follows the last         *)
(* newline.                                                                *)
(***************************************************************************)
EXTENDS Integers, Sequences, SequencesExt

CONSTANTS Wraps,         \* wrap ids
          Garbage,       \* those that are not envelopes for this device
          Corrupt,       \* a ledger line that is no wrap id
          MaxUnacked,    \* MAX_UNACKED_DELIVERIES
          MaxSeen,       \* MAX_SEEN_ENTRIES
          MaxPoison,     \* MAX_POISON_ENTRIES
          MaxDelivery,   \* deliveries minted in one session
          MaxFaults      \* failed system calls, kills and power losses

VARIABLES unacked,       \* held deliveries [id, wrap], next to re-offer first
          settledBelow, outstanding, \* consumed delivery ids: low-water mark and rest
          nextDelivery,  \* the id the next delivery gets
          poison,        \* wraps discarded this session, oldest first
          seen,          \* acknowledged wraps, oldest first
          appended,      \* lines appended since the last compaction
          handleOk,      \* the append handle is the file at the path
          file,          \* the ledger as the running system reads it: [lines, tail]
          synced,        \* how many of its lines reached the disk
          shadows,       \* what an unsynced directory may bring back instead
          status,        \* "up", or "refused" by a corrupt ledger
          acked,         \* wraps whose Ack returned Ok since they were last handed over
          marred,        \* an append failed half way since the file was last whole
          faults

session == <<unacked, settledBelow, outstanding, nextDelivery, poison>>
ledger  == <<seen, appended, handleOk, file, synced, shadows>>
vars    == <<session, ledger, status, acked, marred, faults>>

-----------------------------------------------------------------------------
(* ids                                                                     *)

\* BoundedIds::insert: the oldest id makes room.
Insert(ids, id, cap) ==
    IF id \in ToSet(ids) THEN ids
    ELSE Append(IF Len(ids) >= cap THEN Tail(ids) ELSE ids, id)

HeldWraps == {d.wrap : d \in ToSet(unacked)}
HeldIds   == {d.id : d \in ToSet(unacked)}

\* An id settle answers with Ok although it is not held.
Consumed(id) == id <= settledBelow \/ id \in outstanding

-----------------------------------------------------------------------------
(* what a crash leaves of the ledger, and opening it                       *)

\* Lines past the last sync may be lost or torn.
PrefixOutcomes ==
    {[lines |-> SubSeq(file.lines, 1, n), tail |-> t] :
        n \in synced..(Len(file.lines) - 1), t \in {"none", "torn"}}
    \cup {[lines |-> file.lines, tail |-> t] : t \in {"none", file.tail}}

PowerLossOutcomes == PrefixOutcomes \cup shadows

\* No ledger: it loads as an empty one.  open creates the file and syncs no
\* directory; the first to do so is a compaction.
Blank == [lines |-> <<>>, tail |-> "none"]

\* open refuses a line that is no id, and a tail longer than any line.
Refused(f) == Corrupt \in ToSet(f.lines) \/ f.tail = "long"

Load(f) == FoldLeft(LAMBDA ids, id : Insert(ids, id, MaxSeen), <<>>, f.lines)

\* Mutation: the torn tail is left in place.
OpenKeepsTail(f) ==
    /\ seen' = Load(f) /\ file' = f
    /\ appended' = 0 /\ handleOk' = TRUE

\* open: a torn tail is truncated away.
Open(f) ==
    /\ seen' = Load(f) /\ file' = [f EXCEPT !.tail = "none"]
    /\ appended' = 0 /\ handleOk' = TRUE

\* connect starts a session: nothing held, ids from 1.
FreshSession ==
    /\ unacked' = <<>> /\ settledBelow' = 0 /\ outstanding' = {}
    /\ nextDelivery' = 1 /\ poison' = <<>>

Connect(f) ==
    \/ Refused(f) /\ status' = "refused" /\ file' = f
       /\ UNCHANGED <<session, seen, appended, handleOk, marred>>
    \/ ~Refused(f) /\ Open(f) /\ FreshSession /\ UNCHANGED status
       /\ marred' = (marred /\ shadows' \ {Blank} # {})

Fault == faults < MaxFaults /\ faults' = faults + 1

Init ==
    /\ unacked = <<>> /\ settledBelow = 0 /\ outstanding = {}
    /\ nextDelivery = 1 /\ poison = <<>>
    /\ seen = <<>> /\ appended = 0 /\ handleOk = TRUE
    /\ file = Blank /\ synced = 0 /\ shadows = {Blank}
    /\ status = "up" /\ acked = {} /\ marred = FALSE /\ faults = 0

\* The process dies and starts again: the file is as it was written.
Kill ==
    /\ status = "up" /\ Fault
    /\ UNCHANGED <<synced, shadows, acked>>
    /\ Connect(file)

PowerLoss ==
    /\ status = "up" /\ Fault
    /\ UNCHANGED acked
    /\ \E f \in PowerLossOutcomes :
          /\ shadows' = shadows \cap {Blank} \cap {f}
          /\ synced' = Len(f.lines)
          /\ Connect(f)

-----------------------------------------------------------------------------
(* recv                                                                    *)

\* One wrap from the channel, while there is room: known ones are dropped,
\* garbage is remembered, the others become deliveries.
Recv(w) ==
    /\ status = "up" /\ Len(unacked) < MaxUnacked
    /\ w \notin ToSet(seen) \cup ToSet(poison) \cup HeldWraps
    /\ \/ /\ w \in Garbage
          /\ poison' = Insert(poison, w, MaxPoison)
          /\ UNCHANGED <<unacked, nextDelivery, acked>>
       \/ /\ w \notin Garbage /\ nextDelivery <= MaxDelivery
          /\ unacked' = Append(unacked, [id |-> nextDelivery, wrap |-> w])
          /\ nextDelivery' = nextDelivery + 1
          /\ acked' = acked \ {w}
          /\ UNCHANGED poison
    /\ UNCHANGED <<settledBelow, outstanding, ledger, status, marred, faults>>

\* Nothing new, or no room: the oldest held delivery is offered again.
Rotate ==
    /\ status = "up" /\ Len(unacked) > 1
    /\ unacked' = Append(Tail(unacked), Head(unacked))
    /\ UNCHANGED <<settledBelow, outstanding, nextDelivery, poison, ledger, status, acked, marred, faults>>

-----------------------------------------------------------------------------
(* settle                                                                  *)

\* Mutation: the low-water mark jumps to the settled id.
ForgetHeldJumps(d) ==
    /\ unacked' = SelectSeq(unacked, LAMBDA h : h # d)
    /\ settledBelow' = d.id /\ outstanding' = outstanding \ 1..d.id
    /\ UNCHANGED nextDelivery

\* forget_held: a run of consumed ids collapses into the low-water mark.
ForgetHeld(d) ==
    LET consumed == outstanding \cup {d.id}
        low == CHOOSE k \in settledBelow..nextDelivery :
                  (settledBelow + 1)..k \subseteq consumed /\ k + 1 \notin consumed
    IN  /\ unacked' = SelectSeq(unacked, LAMBDA h : h # d)
        /\ settledBelow' = low /\ outstanding' = consumed \ 1..low
        /\ UNCHANGED nextDelivery

\* A line written after the last newline: glued to a torn tail if there is one.
Written(f, w) ==
    [lines |-> Append(f.lines, IF f.tail = "none" THEN w ELSE Corrupt), tail |-> "none"]

\* What a failed write or sync leaves: nothing, a part of the line, or all of it.
HalfWritten(f, w) ==
    {f, [f EXCEPT !.tail = IF @ = "none" THEN "torn" ELSE "long"], Written(f, w)}

\* Mutation: record answers before the line is synced.
AppendLineUnsynced(w) ==
    /\ file' = Written(file, w)
    /\ seen' = Insert(seen, w, MaxSeen) /\ UNCHANGED synced

\* record up to the sync, with the handle repaired first.
AppendLine(w) ==
    /\ file' = Written(file, w)
    /\ synced' = Len(file'.lines) /\ seen' = Insert(seen, w, MaxSeen)

\* record fails: the handle cannot be repaired, or the append does not go
\* through.  The delivery stays held.
RecordFails(w) ==
    /\ Fault
    /\ \/ ~handleOk /\ UNCHANGED <<file, handleOk, marred>>
       \/ /\ file' \in HalfWritten(file, w)
          /\ handleOk' = TRUE
          /\ marred' = (marred \/ file'.tail # "none")
    /\ UNCHANGED <<session, seen, appended, synced, shadows>>

\* compact: the log is rewritten from the retained set.  It may fail before
\* the rename, at the reopening of the handle, or at the directory's sync.
Compact(w, outcome) ==
    LET old == Written(file, w)
        new == [lines |-> Insert(seen, w, MaxSeen), tail |-> "none"]
    IN  /\ seen' = new.lines
        /\ file' = IF outcome = "unrenamed" THEN old ELSE new
        /\ synced' = Len(file'.lines)
        /\ handleOk' = (outcome # "unopened")
        /\ appended' = IF outcome = "done" THEN 0 ELSE appended + 1
        /\ shadows' = CASE outcome = "done"      -> {}
                        [] outcome = "unrenamed" -> shadows
                        [] OTHER                 -> shadows \cup {old}
        /\ marred' = (marred /\ outcome # "done")

\* settle(id, Ack): the wrap is on disk before the delivery is forgotten.
Acknowledge(d) == ForgetHeld(d) /\ acked' = acked \cup {d.wrap} /\ UNCHANGED poison

Ack(d) ==
    /\ status = "up"
    /\ \/ d.wrap \in ToSet(seen) /\ Acknowledge(d) /\ UNCHANGED <<ledger, marred, faults>>
       \/ /\ d.wrap \notin ToSet(seen) /\ appended + 1 < MaxSeen
          /\ AppendLine(d.wrap) /\ handleOk' = TRUE /\ appended' = appended + 1
          /\ Acknowledge(d) /\ UNCHANGED <<shadows, marred, faults>>
       \/ /\ d.wrap \notin ToSet(seen) /\ appended + 1 >= MaxSeen
          /\ Compact(d.wrap, "done")
          /\ Acknowledge(d) /\ UNCHANGED faults
       \/ d.wrap \notin ToSet(seen) /\ RecordFails(d.wrap) /\ UNCHANGED acked
       \/ /\ d.wrap \notin ToSet(seen) /\ appended + 1 >= MaxSeen /\ Fault
          /\ \E o \in {"unrenamed", "unopened", "unsynced"} : Compact(d.wrap, o)
          /\ UNCHANGED <<session, acked>>
    /\ UNCHANGED status

\* settle(id, Poison): remembered for the session only.
Poison(d) ==
    /\ status = "up"
    /\ ForgetHeld(d) /\ poison' = Insert(poison, d.wrap, MaxPoison)
    /\ UNCHANGED <<ledger, status, acked, marred, faults>>

Next ==
    \/ \E w \in Wraps : Recv(w)
    \/ Rotate
    \/ \E d \in ToSet(unacked) : Ack(d) \/ Poison(d)
    \/ Kill
    \/ PowerLoss

Spec == Init /\ [][Next]_vars

-----------------------------------------------------------------------------
(* properties                                                              *)

\* Whatever a crash leaves of the ledger, a file that opens still has the
\* line of every wrap whose acknowledgement returned and that the running
\* session retains: only the load's own bound may forget it.  What a directory
\* that was not synced brings back is excepted (shadows): the file a compaction
\* replaced, when it could not sync the directory and said so, and no file at
\* all as long as no compaction has synced the directory entry open made.
AckSurvives ==
    status = "up" =>
        \A f \in PrefixOutcomes :
            Refused(f) \/ acked \cap ToSet(seen) \subseteq ToSet(f.lines)

\* settle is idempotent exactly on what this session consumed: a minted
\* delivery id is held or answered Ok, never both, never "unknown delivery".
SettledExactly ==
    /\ \A i, j \in DOMAIN unacked : unacked[i].id = unacked[j].id => i = j
    /\ \A id \in 1..(nextDelivery - 1) : (id \in HeldIds) # Consumed(id)
    /\ \A id \in HeldIds \cup outstanding : id \in settledBelow + 1..nextDelivery - 1

\* A ledger no append has failed half way on since it was last whole opens
\* after any crash: truncation at open and compaction leave nothing behind
\* for a later append to be glued to.
LedgerReopens == ~marred => \A f \in PowerLossOutcomes : ~Refused(f)

==============================================================================
