---------------------------- MODULE ServingProof ----------------------------
(***************************************************************************)
(* For every set of representations, of any lengths, and every bound on    *)
(* the mirror queue: an import that was answered Ok is durable, and a      *)
(* barrier that reports ready speaks for all of them.                       *)
(***************************************************************************)
EXTENDS Serving, TLAPS

\* Facts about queues.
LEMMA InAppend ==
  ASSUME NEW S, NEW q \in Seq(S), NEW e \in S
  PROVE  /\ Append(q, e) \in Seq(S)
         /\ Len(Append(q, e)) = Len(q) + 1
         /\ Append(q, e) # <<>>
         /\ \A i \in 1..Len(q) : Append(q, e)[i] = q[i]
         /\ Append(q, e)[Len(q) + 1] = e
OBVIOUS

LEMMA InTail ==
  ASSUME NEW S, NEW q \in Seq(S), q # <<>>
  PROVE  /\ Tail(q) \in Seq(S) /\ Head(q) \in S /\ Head(q) = q[1]
         /\ Len(Tail(q)) = Len(q) - 1 /\ Len(q) \in Nat /\ Len(q) >= 1
         /\ \A i \in 1..Len(Tail(q)) : Tail(q)[i] = q[i + 1]
OBVIOUS

LEMMA InEmpty == Len(<<>>) = 0 /\ \A q : \A S : q \in Seq(S) /\ Len(q) = 0 => q = <<>>
OBVIOUS

\* A loop that is in no pass, and one whose import failed.
LEMMA NoWalk == [kind |-> "none", roots |-> {}] \in [kind : {"none", "fetch", "author"}, roots : SUBSET Roots]
OBVIOUS

LEMMA RefusedIdles ==
  ASSUME TypeOK, Refused
  PROVE  /\ call' = "idle" /\ current' = None
         /\ walk' \in [kind : {"none", "fetch", "author"}, roots : SUBSET Roots]
BY NoWalk DEF TypeOK, Refused

\* An fsync that succeeds and one that fails.
LEMMA SyncTypes ==
  ASSUME TypeOK, SyncDir \/ SyncFails \/ NoSync
  PROVE  /\ held' \in [Roots -> {"none", "linked", "durable"}]
         /\ unsynced' \in BOOLEAN /\ verified' \in BOOLEAN
BY DEF TypeOK, SyncDir, SyncFails, NoSync

\* What a crash leaves of the process.
LEMMA HaltTypes ==
  ASSUME TypeOK, Halt
  PROVE  /\ unsynced' \in BOOLEAN /\ verified' \in BOOLEAN
         /\ failed' \in BOOLEAN /\ permit' \in BOOLEAN
         /\ queue' \in Seq(Roots \cup {Barrier}) /\ working' = None
         /\ drain' = "gone" /\ call' = "down" /\ current' = None
         /\ walk' \in [kind : {"none", "fetch", "author"}, roots : SUBSET Roots]
         /\ UNCHANGED <<named, owed, announced, vouched, borrowed>>
<1>1. walk' \in [kind : {"none", "fetch", "author"}, roots : SUBSET Roots]
  BY NoWalk DEF Halt
<1>2. queue' \in Seq(Roots \cup {Barrier})
  <2>1. queue' = <<>>
    BY DEF Halt
  <2> QED BY <2>1
<1>3. /\ unsynced' = FALSE /\ verified' = FALSE /\ failed' = FALSE /\ permit' = FALSE
      /\ working' = None /\ drain' = "gone" /\ call' = "down" /\ current' = None
      /\ UNCHANGED <<named, owed, announced, vouched, borrowed>>
  BY DEF Halt, records, ghosts
<1> QED BY <1>1, <1>2, <1>3

\* A device that starts has imported nothing.
LEMMA InitEstablishes == Init => ServingInv
<1> SUFFICES ASSUME Init PROVE ServingInv
  OBVIOUS
<1>1. TypeOK
  <2>1. walk \in [kind : {"none", "fetch", "author"}, roots : SUBSET Roots]
    BY NoWalk DEF Init
  <2>2. held \in [Roots -> {"none", "linked", "durable"}]
    BY DEF Init
  <2>3. queue \in Seq(Roots \cup {Barrier})
    <3>1. queue = <<>>
      BY DEF Init
    <3> QED BY <3>1
  <2>4. /\ rotten = {} /\ mirror = {} /\ unsynced = FALSE /\ verified = FALSE
        /\ failed = FALSE /\ permit = FALSE /\ working = None /\ drain = "up"
        /\ call = "idle" /\ current = None /\ named = {} /\ owed = {}
        /\ announced = {} /\ vouched = {} /\ borrowed = {}
    BY DEF Init
  <2> QED BY <2>1, <2>2, <2>3, <2>4 DEF TypeOK, Importing
<1>2. EntriesKnown
  BY DEF Init, EntriesKnown
<1>3. CopiesKnown /\ AnnouncedServed
  BY DEF Init, CopiesKnown, AnnouncedServed
<1>4. BarrierKnown
  BY ItemsDiffer, InEmpty DEF Init, BarrierKnown, InQueue
<1> QED BY <1>1, <1>2, <1>3, <1>4 DEF ServingInv

\* Every step keeps the state within its types.
LEMMA TypePreserves == ServingInv /\ [Next]_vars => TypeOK'
<1> SUFFICES ASSUME TypeOK, [Next]_vars PROVE TypeOK'
  BY DEF ServingInv
<1> USE ItemsDiffer DEF TypeOK, Importing, vault, serving, loop, records, ghosts, bounds
<1>1. ASSUME NEW r \in Roots, Import(r) PROVE TypeOK'
  BY <1>1, RefusedIdles, SyncTypes DEF Import
<1>2. ASSUME NEW r \in Roots, Reuse(r) PROVE TypeOK'
  BY <1>2 DEF Reuse
<1>3. ASSUME NEW r \in Roots, Rot(r) PROVE TypeOK'
  BY <1>3 DEF Rot
<1>4. CASE Rename
  BY <1>4 DEF Rename, Refused
<1>5. CASE SyncPublished
  BY <1>5 DEF SyncPublished, SyncDir, SyncFails, Present
<1>6. CASE Confirm
  BY <1>6, RefusedIdles, SyncTypes DEF Confirm
<1>7. CASE NotifyMirror
  <2>1. queue' \in Seq(Roots \cup {Barrier})
    BY <1>7, InAppend DEF NotifyMirror
  <2> QED BY <1>7, <2>1 DEF NotifyMirror, Accepted, Refused
<1>8. ASSUME NEW kind \in {"fetch", "author"}, Begin(kind) PROVE TypeOK'
  BY <1>8 DEF Begin
<1>9. CASE Commit
  BY <1>9 DEF Commit
<1>10. CASE Flush
  <2>1. queue' \in Seq(Roots \cup {Barrier})
    BY <1>10, InAppend DEF Flush
  <2> QED BY <1>10, <2>1 DEF Flush
<1>11. CASE GiveUp
  BY <1>11 DEF GiveUp
<1>12. CASE Announce
  BY <1>12 DEF Announce
<1>13. CASE Take
  <2>1. queue' \in Seq(Roots \cup {Barrier}) /\ Head(queue) \in Roots \cup {Barrier}
    BY <1>13, InTail DEF Take
  <2> QED BY <1>13, <2>1 DEF Take
<1>14. CASE Land
  <2>1. mirror' \subseteq Roots /\ failed' \in BOOLEAN /\ working' = None
    BY <1>14 DEF Land
  <2>2. UNCHANGED <<held, rotten, unsynced, verified, queue, drain, permit, call,
                    current, walk, named, owed, announced, vouched, borrowed>>
    BY <1>14 DEF Land
  <2> QED BY <2>1, <2>2
<1>15. CASE Answer
  BY <1>15 DEF Answer
<1>16. CASE DrainEnds
  BY <1>16 DEF DrainEnds
<1>17. CASE Kill
  BY <1>17, HaltTypes DEF Kill
<1>18. CASE PowerLoss
  <2>1. held' \in [Roots -> {"none", "linked", "durable"}] /\ rotten' \subseteq Roots
    BY <1>18 DEF PowerLoss
  <2> QED BY <1>18, <2>1, HaltTypes DEF PowerLoss
<1>19. CASE Open
  BY <1>19 DEF Open
<1>20. CASE UNCHANGED vars
  BY <1>20 DEF vars
<1> QED
  BY <1>1, <1>2, <1>3, <1>4, <1>5, <1>6, <1>7, <1>8, <1>9, <1>10, <1>11, <1>12,
     <1>13, <1>14, <1>15, <1>16, <1>17, <1>18, <1>19, <1>20
  DEF Next

\* The fsync bookkeeping stays right: no crash, failed fsync or retry makes the
\* directory look synced over an entry that is not.
LEMMA EntriesPreserves == ServingInv /\ [Next]_vars => EntriesKnown'
<1> SUFFICES ASSUME TypeOK, EntriesKnown, [Next]_vars PROVE EntriesKnown'
  BY DEF ServingInv
<1> USE ItemsDiffer DEF TypeOK, EntriesKnown, Importing, vault, serving, loop, records, ghosts
<1>1. ASSUME NEW r \in Roots, Import(r) PROVE EntriesKnown'
  BY <1>1 DEF Import, SyncDir, SyncFails, NoSync, Refused, Present
<1>2. ASSUME NEW r \in Roots, Reuse(r) PROVE EntriesKnown'
  BY <1>2 DEF Reuse
<1>3. ASSUME NEW r \in Roots, Rot(r) PROVE EntriesKnown'
  BY <1>3 DEF Rot
<1>4. CASE Rename
  BY <1>4 DEF Rename, Refused
<1>5. CASE SyncPublished
  BY <1>5 DEF SyncPublished, SyncDir, SyncFails, Present
<1>6. CASE Confirm
  BY <1>6 DEF Confirm, SyncDir, SyncFails, NoSync, Refused, Present
<1>7. CASE NotifyMirror
  BY <1>7 DEF NotifyMirror, Accepted, Refused
<1>8. ASSUME NEW kind \in {"fetch", "author"}, Begin(kind) PROVE EntriesKnown'
  BY <1>8 DEF Begin
<1>9. CASE Commit
  BY <1>9 DEF Commit
<1>10. CASE Flush
  BY <1>10 DEF Flush
<1>11. CASE GiveUp
  BY <1>11 DEF GiveUp
<1>12. CASE Announce
  BY <1>12 DEF Announce
<1>13. CASE Take
  BY <1>13 DEF Take
<1>14. CASE Land
  BY <1>14 DEF Land
<1>15. CASE Answer
  BY <1>15 DEF Answer
<1>16. CASE DrainEnds
  BY <1>16 DEF DrainEnds
<1>17. CASE Kill
  BY <1>17 DEF Kill, Halt
<1>18. CASE PowerLoss
  BY <1>18 DEF PowerLoss, Halt
<1>19. CASE Open
  BY <1>19 DEF Open
<1>20. CASE UNCHANGED vars
  BY <1>20 DEF vars
<1> QED
  BY <1>1, <1>2, <1>3, <1>4, <1>5, <1>6, <1>7, <1>8, <1>9, <1>10, <1>11, <1>12,
     <1>13, <1>14, <1>15, <1>16, <1>17, <1>18, <1>19, <1>20
  DEF Next

\* One barrier at a time, last in the queue while its caller waits.
LEMMA BarrierPreserves == ServingInv /\ [Next]_vars => BarrierKnown'
<1> SUFFICES ASSUME TypeOK, BarrierKnown, [Next]_vars PROVE BarrierKnown'
  BY DEF ServingInv
<1> USE ItemsDiffer DEF BarrierKnown, InQueue
<1>1. CASE NotifyMirror
  <2>1. call' = "idle" /\ UNCHANGED <<working, drain, permit>> /\ current \in Roots
    BY <1>1 DEF NotifyMirror, Accepted, Refused, TypeOK, Importing
  <2>2. CASE UNCHANGED queue
    BY <2>1, <2>2
  <2>3. CASE queue' = Append(queue, current) /\ drain # "gone"
    BY <2>1, <2>3, InAppend DEF TypeOK
  <2> QED BY <1>1, <2>2, <2>3 DEF NotifyMirror
<1>2. CASE Flush
  BY <1>2, InAppend DEF Flush, TypeOK
<1>3. CASE Take
  <2>1. /\ drain = "up" /\ queue # <<>> /\ working' = Head(queue) /\ queue' = Tail(queue)
        /\ working = None /\ UNCHANGED <<call, drain, permit>>
    BY <1>3 DEF Take, loop
  <2> DEFINE n == Len(queue)
  <2>2. /\ n \in Nat /\ n >= 1 /\ Head(queue) = queue[1] /\ Len(queue') = n - 1
        /\ \A i \in 1..n - 1 : queue'[i] = queue[i + 1]
    BY <2>1, InTail DEF TypeOK
  <2>3. \A i \in 1..n - 1 : i + 1 \in 1..n /\ i + 1 # 1
    BY <2>2
  <2>4. queue' \in Seq(Roots \cup {Barrier})
    BY <2>1, InTail DEF TypeOK
  <2>5. ~permit' => ~InQueue(Barrier)' /\ working' # Barrier
    BY <2>1, <2>2, <2>3
  <2>6. working' = Barrier => ~InQueue(Barrier)'
    BY <2>1, <2>2, <2>3
  <2>7. \A i, j \in 1..Len(queue') : queue'[i] = Barrier /\ queue'[j] = Barrier => i = j
    BY <2>2, <2>3
  <2>8. call' = "waiting" /\ drain' = "up" =>
          \/ queue' # <<>> /\ queue'[Len(queue')] = Barrier
          \/ queue' = <<>> /\ working' = Barrier
    <3> SUFFICES ASSUME call = "waiting"
                 PROVE  \/ queue' # <<>> /\ queue'[Len(queue')] = Barrier
                        \/ queue' = <<>> /\ working' = Barrier
      BY <2>1
    <3>1. queue[n] = Barrier
      BY <2>1
    <3>2. CASE n = 1
      BY <2>1, <2>2, <2>4, <3>1, <3>2, InEmpty
    <3>3. CASE n # 1
      <4>1. n - 1 \in 1..n - 1 /\ queue'[n - 1] = queue[n] /\ Len(queue') # 0
        BY <2>2, <3>3
      <4> QED BY <2>2, <3>1, <4>1, InEmpty
    <3> QED BY <3>2, <3>3
  <2> QED BY <2>1, <2>5, <2>6, <2>7, <2>8
<1>4. CASE Land
  BY <1>4 DEF Land, loop
<1>5. CASE Answer
  BY <1>5 DEF Answer
<1>6. CASE DrainEnds
  BY <1>6, InEmpty DEF DrainEnds, loop
<1>7. CASE Kill \/ PowerLoss
  BY <1>7, InEmpty DEF Kill, PowerLoss, Halt
<1>8. CASE Open
  BY <1>8 DEF Open
<1>9. CASE /\ UNCHANGED <<queue, working, drain, permit>>
           /\ call' = "waiting" => call = "waiting"
  BY <1>9
<1>10. ASSUME NEW r \in Roots, Import(r) \/ Reuse(r) \/ Rot(r) PROVE BarrierKnown'
  BY <1>9, <1>10 DEF Import, Reuse, Rot, Refused, serving, loop
<1>11. CASE Rename \/ SyncPublished \/ Confirm
  BY <1>9, <1>11 DEF Rename, SyncPublished, Confirm, Refused, serving
<1>12. ASSUME NEW kind \in {"fetch", "author"}, Begin(kind) PROVE BarrierKnown'
  BY <1>9, <1>12 DEF Begin, serving
<1>13. CASE Commit \/ GiveUp \/ Announce
  BY <1>9, <1>13 DEF Commit, GiveUp, Announce, serving
<1>14. CASE UNCHANGED vars
  BY <1>9, <1>14 DEF vars, serving, loop
<1> QED
  BY <1>1, <1>2, <1>3, <1>4, <1>5, <1>6, <1>7, <1>8, <1>10, <1>11, <1>12, <1>13, <1>14
  DEF Next

\* A copy leaves the queue only for the mirror or for a sticky failure, and a
\* barrier answered ready found nothing ahead of it or in hand.
LEMMA CopiesPreserves == ServingInv /\ [Next]_vars => CopiesKnown'
<1> SUFFICES ASSUME ServingInv, [Next]_vars PROVE CopiesKnown'
  OBVIOUS
<1>0. TypeOK /\ EntriesKnown /\ CopiesKnown /\ BarrierKnown
  BY DEF ServingInv
<1> USE ItemsDiffer, <1>0 DEF CopiesKnown, InQueue
<1>1. CASE NotifyMirror
  <2>1. /\ call # "down" /\ call' = "idle" /\ current \in Roots
        /\ UNCHANGED <<mirror, rotten, working, drain, failed>>
        /\ vouched' = vouched \/ vouched' = vouched \cup {current}
    BY <1>1 DEF NotifyMirror, Accepted, Refused, TypeOK, Importing, vault
  <2>2. CASE queue' = Append(queue, current)
    <3>1. /\ \A i \in 1..Len(queue) : i \in 1..Len(queue') /\ queue'[i] = queue[i]
          /\ Len(queue') \in 1..Len(queue') /\ queue'[Len(queue')] = current
      BY <2>1, <2>2, InAppend DEF TypeOK
    <3> QED BY <2>1, <3>1
  <2>3. CASE UNCHANGED queue /\ (vouched' = vouched \/ drain = "gone")
    BY <2>1, <2>3
  <2> QED BY <1>1, <2>2, <2>3 DEF NotifyMirror
<1>2. CASE Flush
  <2>1. \A i \in 1..Len(queue) : i \in 1..Len(queue') /\ queue'[i] = queue[i]
    BY <1>2, InAppend DEF Flush, TypeOK
  <2> QED BY <1>2, <2>1 DEF Flush, vault, ghosts
<1>3. CASE Take
  <2>1. \A i \in 1..Len(queue) : queue[i] = working' \/ \E j \in 1..Len(queue') : queue'[j] = queue[i]
    <3>1. /\ Len(queue) \in Nat /\ working' = queue[1] /\ Len(queue') = Len(queue) - 1
          /\ \A j \in 1..Len(queue') : queue'[j] = queue[j + 1]
      <4>1. queue # <<>> /\ working' = Head(queue) /\ queue' = Tail(queue)
        BY <1>3 DEF Take
      <4> QED BY <4>1, InTail DEF TypeOK
    <3>2. ASSUME NEW i \in 1..Len(queue), i # 1
          PROVE  i - 1 \in 1..Len(queue') /\ queue'[i - 1] = queue[i]
      BY <3>1, <3>2
    <3> QED BY <3>1, <3>2
  <2>2. working = None /\ UNCHANGED <<mirror, rotten, drain, failed, call, vouched>>
    BY <1>3 DEF Take, vault, loop, ghosts
  <2>3. \A r \in vouched : r # None
    BY DEF TypeOK
  <2> QED BY <2>1, <2>2, <2>3
<1>4. CASE Land
  BY <1>4 DEF Land, vault, loop, ghosts, TypeOK
<1>5. CASE Answer
  <2>1. /\ working = Barrier /\ UNCHANGED <<mirror, rotten, queue, drain, failed, vouched>>
        /\ call' = "ready" => call = "ready" \/ (call = "waiting" /\ ~failed)
        /\ call' # "down" => call # "down"
    BY <1>5 DEF Answer, vault, ghosts
  <2>2. drain = "up" /\ \A r \in vouched : r # Barrier
    BY <2>1 DEF BarrierKnown, TypeOK
  <2>3. call = "waiting" => queue = <<>>
    <3> SUFFICES ASSUME queue # <<>>, queue[Len(queue)] = Barrier PROVE FALSE
      BY <2>1, <2>2 DEF BarrierKnown
    <3>1. Len(queue) \in 1..Len(queue)
      BY InTail DEF TypeOK
    <3> QED BY <2>1, <3>1 DEF BarrierKnown
  <2> QED BY <2>1, <2>2, <2>3, InEmpty
<1>6. CASE DrainEnds
  BY <1>6 DEF DrainEnds, vault, loop, ghosts
<1>7. CASE Kill \/ PowerLoss
  BY <1>7 DEF Kill, PowerLoss, Halt
<1>8. CASE Open
  BY <1>8 DEF Open, Readable, Present, EntriesKnown, TypeOK, vault, ghosts
<1>9. CASE /\ UNCHANGED <<mirror, queue, working, drain, failed, vouched>>
           /\ rotten \subseteq rotten'
           /\ call' = "ready" => call = "ready"
           /\ call' # "down" => call # "down"
  BY <1>9
<1>10. ASSUME NEW r \in Roots, Import(r) \/ Reuse(r) \/ Rot(r) PROVE CopiesKnown'
  BY <1>9, <1>10 DEF Import, Reuse, Rot, Refused, vault, serving, loop, ghosts
<1>11. CASE Rename \/ SyncPublished \/ Confirm
  BY <1>9, <1>11 DEF Rename, SyncPublished, Confirm, Refused, serving, ghosts
<1>12. ASSUME NEW kind \in {"fetch", "author"}, Begin(kind) PROVE CopiesKnown'
  BY <1>9, <1>12 DEF Begin, vault, serving, ghosts
<1>13. CASE Commit \/ GiveUp \/ Announce
  BY <1>9, <1>13 DEF Commit, GiveUp, Announce, vault, serving, ghosts
<1>14. CASE UNCHANGED vars
  BY <1>9, <1>14 DEF vars, vault, serving, loop, ghosts
<1> QED
  BY <1>1, <1>2, <1>3, <1>4, <1>5, <1>6, <1>7, <1>8, <1>10, <1>11, <1>12, <1>13, <1>14
  DEF Next

\* An announcement goes out from a ready barrier only, and a start serves what
\* the vault still holds.
LEMMA AnnouncedPreserves == ServingInv /\ [Next]_vars => AnnouncedServed'
<1> SUFFICES ASSUME ServingInv, [Next]_vars PROVE AnnouncedServed'
  OBVIOUS
<1>0. TypeOK /\ EntriesKnown /\ CopiesKnown /\ AnnouncedServed
  BY DEF ServingInv
<1> USE <1>0 DEF AnnouncedServed
<1>1. CASE Announce
  BY <1>1 DEF Announce, vault, serving, ghosts, CopiesKnown, EntriesKnown, TypeOK
<1>2. CASE Open
  BY <1>2 DEF Open, Readable, Present, EntriesKnown, TypeOK, vault, records, ghosts
<1>3. CASE Kill \/ PowerLoss
  BY <1>3 DEF Kill, PowerLoss, Halt
<1>4. CASE /\ UNCHANGED announced
           /\ mirror \subseteq mirror' /\ rotten \subseteq rotten' /\ borrowed \subseteq borrowed'
           /\ call' # "down" => call # "down"
  BY <1>4
<1>5. ASSUME NEW r \in Roots, Import(r) \/ Reuse(r) \/ Rot(r) PROVE AnnouncedServed'
  BY <1>4, <1>5 DEF Import, Reuse, Rot, Refused, vault, serving, loop, records, ghosts
<1>6. CASE Rename \/ SyncPublished \/ Confirm \/ NotifyMirror
  BY <1>4, <1>6 DEF Rename, SyncPublished, Confirm, NotifyMirror, Accepted, Refused,
                    vault, serving, records, ghosts
<1>7. ASSUME NEW kind \in {"fetch", "author"}, Begin(kind) PROVE AnnouncedServed'
  BY <1>4, <1>7 DEF Begin, vault, serving, records, ghosts
<1>8. CASE Commit \/ Flush \/ GiveUp
  BY <1>4, <1>8 DEF Commit, Flush, GiveUp, vault, serving, records, ghosts
<1>9. CASE Take \/ Land \/ Answer \/ DrainEnds
  BY <1>4, <1>9 DEF Take, Land, Answer, DrainEnds, vault, loop, records, ghosts
<1>10. CASE UNCHANGED vars
  BY <1>4, <1>10 DEF vars, vault, serving, loop, records, ghosts
<1> QED
  BY <1>1, <1>2, <1>3, <1>5, <1>6, <1>7, <1>8, <1>9, <1>10 DEF Next

\* The vault, the mirror and the barrier agree in every reachable state.
THEOREM ServingInvariant == Spec => []ServingInv
<1>1. Init => ServingInv
  BY InitEstablishes
<1>2. ServingInv /\ [Next]_vars => ServingInv'
  BY TypePreserves, EntriesPreserves, CopiesPreserves, BarrierPreserves, AnnouncedPreserves
  DEF ServingInv
<1> QED BY <1>1, <1>2, PTL DEF Spec

\* A peer can fetch what was announced to it, damaged vault files and roots
\* named without an import apart.
THEOREM AnnouncedAlwaysServed == Spec => []AnnouncedServed
<1>1. ServingInv => AnnouncedServed
  BY DEF ServingInv
<1> QED BY <1>1, ServingInvariant, PTL

\* What a record names after its import returned Ok survives a power loss.
THEOREM RecordedAlwaysResident == Spec => []RecordedResident
<1>1. ServingInv => RecordedResident
  BY DEF ServingInv, TypeOK, EntriesKnown, RecordedResident
<1> QED BY <1>1, ServingInvariant, PTL
=============================================================================
