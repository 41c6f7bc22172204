----------------------------- MODULE WritePath -----------------------------
(***************************************************************************)
(* The mounted write path: buffered write handles and the folds they       *)
(* submit (wyrd-daemon/src/fuse/backend), the mutation queue and its batch *)
(* guard (wyrd-core/src/mutation), the live pass that applies, publishes   *)
(* and answers (wyrd-core/src/live), and the supervised teardown           *)
(* (wyrd-daemon/src/lifecycle.rs, wyrd-cli/src/commands/mount.rs).         *)
(*                                                                         *)
(* A file's content is the set of the writes it holds, and stands for its  *)
(* identity as well; <<>> is an absent path and <<c>> a file of content c. *)
(* The namespace is flat.                                                  *)
(***************************************************************************)
EXTENDS Integers, FiniteSets, Sequences, SequencesExt

CONSTANTS
    Threads,    \* system calls the session dispatches at a time
    Session,    \* the session thread's destroy callback
    Handles,    \* writable handles, each opened once
    Paths,
    InitTree,   \* the tree of the first head: Paths -> option of content
    Nobody,     \* no thread, and the writer of a remote edit
    Limit,      \* the queue's admission bound
    MaxWait,    \* requeues an entry waits before its deadline expires
    MaxWrites,  \* buffered writes and remote edits, over a behaviour
    MaxEvents   \* operations, remote heads, faults and signals, over a behaviour

VARIABLES
    head,     \* the live heads as mutations see them
    proj,     \* the installed projection
    hnd,      \* write handles
    thr,      \* system calls in progress
    queue,    \* the mutation queue
    batch,    \* the batch the loop thread holds
    loop,     \* what the loop thread is doing
    comp,     \* what the composer is doing
    want,     \* waiters registered for missing content
    spent,    \* what was used of each bound
    \* history:
    writer,   \* write -> the handle it went through
    acked,    \* writes whose commit was reported to a system call
    lost,     \* <<w, h>>: a commit of h dropped w from a file
    commits   \* authored folds: admission id, pinned head, head they built on

vars == <<head, proj, hnd, thr, queue, batch, loop, comp, want, spent,
          writer, acked, lost, commits>>
history == <<writer, acked, lost, commits>>

Agents == Threads \cup {Session}
Contents == SUBSET (1 .. MaxWrites)
Files == {<<>>} \cup {<<c>> : c \in Contents}
Lacks == {"none", "chunks", "trees"}
Ops == {[kind |-> k, path |-> p, to |-> p] : k \in {"truncate", "unlink"}, p \in Paths}
         \cup {[kind |-> "rename", path |-> p, to |-> q] : p \in Paths, q \in Paths}

Idle == [pc |-> "idle", own |-> {}, op |-> <<>>, taken |-> {}, clean |-> {},
         members |-> <<>>, reply |-> <<>>]
Closed == [st |-> "new", path |-> CHOOSE p \in Paths : TRUE, append |-> FALSE,
           base |-> {}, cap |-> {}, img |-> <<>>, dirty |-> FALSE, seq |-> 0,
           inflight |-> Nobody, failed |-> FALSE]

Init ==
    /\ \E lack \in {"none", "chunks"} :   \* the content of what is served may be remote
         head = [ver |-> 1, tree |-> InitTree, forked |-> {}, lack |-> lack]
    /\ proj = [ver |-> 1, tree |-> InitTree, forked |-> {}]
    /\ hnd = [h \in Handles |-> Closed]
    /\ thr = [t \in Agents |-> Idle]
    /\ queue = [pending |-> <<>>, deferred |-> <<>>, outstanding |-> 0,
                closed |-> FALSE, next |-> 1]
    /\ batch = <<>>
    /\ loop = [pc |-> "wait", at |-> 0, dirty |-> FALSE, stop |-> FALSE, closed |-> FALSE]
    /\ comp = "mounted"
    /\ want = 0
    /\ spent = [writes |-> 0, events |-> 0, seq |-> 0]
    /\ writer = <<>>
    /\ acked = {}
    /\ lost = {}
    /\ commits = <<>>

Event == /\ spent.events < MaxEvents
         /\ spent' = [spent EXCEPT !.events = @ + 1]

(***************************************************************************)
(* Handles.                                                                *)
(***************************************************************************)
\* A system call may start: the kernel dispatches until the mount is gone.
Dispatch(t) == /\ thr[t].pc = "idle"
               /\ comp \in {"mounted", "unmounting"}

Resolves(p) == p \notin proj.forked /\ proj.tree[p] # <<>>

\* A handle a call may use: in the table, not failed, no fold holds its image.
Usable(h) == hnd[h].st = "open" /\ ~hnd[h].failed /\ hnd[h].inflight = Nobody

\* open_write: base and capture are the served file.
Open(t, h, p, append) ==
    /\ Dispatch(t)
    /\ hnd[h].st = "new" /\ Resolves(p)
    /\ hnd' = [hnd EXCEPT ![h] = [@ EXCEPT !.st = "open", !.path = p, !.append = append,
                                           !.base = proj.tree[p][1], !.cap = proj.tree[p][1]]]
    /\ UNCHANGED <<head, proj, thr, queue, batch, loop, comp, want, spent>>
    /\ UNCHANGED history

\* write: the first one of a clean handle reads the base through the capture.
Materialized(h) == IF hnd[h].img # <<>> THEN hnd[h].img[1]
                   ELSE IF hnd[h].append THEN {} ELSE hnd[h].cap

Write(t, h) ==
    LET w == spent.writes + 1 IN
    /\ Dispatch(t)
    /\ Usable(h)
    /\ w <= MaxWrites
    /\ hnd' = [hnd EXCEPT ![h].img = <<Materialized(h) \cup {w}>>,
                          ![h].dirty = TRUE,
                          ![h].seq = IF hnd[h].dirty THEN @ ELSE spent.seq + 1]
    /\ spent' = [spent EXCEPT !.writes = w, !.seq = IF hnd[h].dirty THEN @ ELSE @ + 1]
    /\ writer' = Append(writer, h)
    /\ UNCHANGED <<head, proj, thr, queue, batch, loop, comp, want, acked, lost, commits>>

(***************************************************************************)
(* Folds: a system call gathers the dirty handles and submits them as one  *)
(* request, with itself as the forcer.                                     *)
(***************************************************************************)
\* gather_taken, in one step: it locks one handle at a time and marks what it takes, so
\* two gathers take disjoint sets in any interleaving.
Gathered(own, table, skip, excludeAbsent) ==
    {h \in Handles :
        /\ h \in own \/ hnd[h].st = "open" \/ h \in table
        /\ hnd[h].dirty /\ ~hnd[h].failed /\ hnd[h].inflight = Nobody
        /\ h \in own \/ /\ hnd[h].path \notin skip
                        /\ excludeAbsent => proj.tree[hnd[h].path] # <<>> \/ hnd[h].path \in proj.forked}

\* run_fold: a member per taken buffer, by buffering order; the appends of a path are
\* one member, at the place of the first. An operation comes last.
Members(own, op, taken) ==
    LET order == SetToSortSeq(taken, LAMBDA g, h : hnd[g].seq < hnd[h].seq)
        run(h) == IF hnd[h].append THEN {g \in taken : hnd[g].append /\ hnd[g].path = hnd[h].path}
                  ELSE {h}
        leads(h) == \A g \in run(h) : hnd[h].seq <= hnd[g].seq
        member(h) == [hs |-> run(h), path |-> hnd[h].path, from |-> hnd[h].path,
                      kind |-> IF hnd[h].append THEN "append" ELSE "commit",
                      base |-> hnd[h].base, img |-> UNION {hnd[g].img[1] : g \in run(h)},
                      forcer |-> own \cap run(h) # {}]
        leaders == SelectSeq(order, leads)
    IN  [i \in 1 .. Len(leaders) |-> member(leaders[i])]
          \o [i \in 1 .. Len(op) |->
                [hs |-> {}, path |-> op[i].to, from |-> op[i].path, kind |-> op[i].kind,
                 base |-> {}, img |-> {}, forcer |-> TRUE]]

Gather(t, own, op, taken, clean) ==
    thr' = [thr EXCEPT ![t] = [Idle EXCEPT !.pc = "gathered", !.own = own, !.op = op,
                               !.taken = taken, !.clean = clean, !.members = Members(own, op, taken)]]

\* force_handle: flush, fsync (of any handle of the path) and an O_SYNC write. A clean
\* handle has nothing to commit.
Force(t, h) ==
    LET taken == Gathered({h}, {}, {}, TRUE) IN
    /\ Dispatch(t)
    /\ Usable(h) /\ hnd[h].dirty
    /\ Gather(t, {h}, <<>>, taken, {})
    /\ hnd' = [g \in Handles |-> IF g \in taken THEN [hnd[g] EXCEPT !.inflight = t] ELSE hnd[g]]
    /\ UNCHANGED <<head, proj, queue, batch, loop, comp, want, spent>>
    /\ UNCHANGED history

\* release_handle: out of the table, then forced if dirty.
Release(t, h) ==
    LET taken == Gathered({h}, {}, {}, TRUE)
        gone == [hnd EXCEPT ![h].st = "gone"] IN
    /\ Dispatch(t)
    /\ hnd[h].st = "open" /\ hnd[h].inflight = Nobody
    /\ \/ /\ ~hnd[h].dirty
          /\ hnd' = [hnd EXCEPT ![h] = [Closed EXCEPT !.st = "gone"]]
          /\ thr' = thr
       \/ /\ hnd[h].dirty
          /\ Gather(t, {h}, <<>>, taken, {})
          /\ hnd' = [g \in Handles |-> IF g \in taken THEN [gone[g] EXCEPT !.inflight = t] ELSE gone[g]]
    /\ UNCHANGED <<head, proj, queue, batch, loop, comp, want, spent>>
    /\ UNCHANGED history

\* What an operation asks before it submits, and the paths it rebinds.
Admits(op) ==
    \/ /\ op.kind = "truncate"
       /\ Resolves(op.path) /\ proj.tree[op.path] # <<{}>>
       /\ ~\E h \in Handles : hnd[h].st = "open" /\ hnd[h].append /\ hnd[h].path = op.path
    \/ op.kind = "unlink"
    \/ op.kind = "rename" /\ op.to # op.path

SkipPaths(op) == IF op.kind = "truncate" THEN {} ELSE {op.path, op.to}

\* force_op: set_size_at, unlink_at, rename_at. A truncate remembers the clean handles
\* of its path, to re-pin them.
ForceOp(t, op) ==
    LET taken == Gathered({}, {}, SkipPaths(op), TRUE)
        clean == {h \in Handles : /\ op.kind = "truncate" /\ hnd[h].st = "open"
                                  /\ ~hnd[h].dirty /\ ~hnd[h].failed /\ hnd[h].path = op.path} IN
    /\ Dispatch(t)
    /\ Event
    /\ Admits(op)
    /\ Gather(t, {}, <<op>>, taken, clean)
    /\ hnd' = [g \in Handles |-> IF g \in taken THEN [hnd[g] EXCEPT !.inflight = t] ELSE hnd[g]]
    /\ UNCHANGED <<head, proj, queue, batch, loop, comp, want>>
    /\ UNCHANGED history

\* settle_restored
Restored(h) == [hnd[h] EXCEPT !.inflight = Nobody]

\* settle_failed: the image is discarded and the handle is terminal.
Failed(h) == [hnd[h] EXCEPT !.failed = TRUE, !.dirty = FALSE, !.img = <<>>, !.inflight = Nobody]

\* settle_applied: the base is what was committed, the capture what is served now.
Applied(h, content) ==
    IF Resolves(hnd[h].path)
    THEN [hnd[h] EXCEPT !.base = content, !.cap = proj.tree[hnd[h].path][1],
                        !.dirty = FALSE, !.img = <<>>, !.inflight = Nobody]
    ELSE Failed(h)

\* lease_fold refuses: every taken image goes back.
LeaseRefused(t) ==
    /\ thr[t].pc = "gathered"
    /\ Event
    /\ hnd' = [h \in Handles |-> IF h \in thr[t].taken THEN Restored(h) ELSE hnd[h]]
    /\ thr' = [thr EXCEPT ![t] = Idle]
    /\ UNCHANGED <<head, proj, queue, batch, loop, comp, want>>
    /\ UNCHANGED history

(***************************************************************************)
(* The mutation queue.                                                     *)
(***************************************************************************)
Refusal(e) == <<[ok |-> FALSE, error |-> e, disp |-> <<>>]>>

Entry(t) == [id |-> queue.next, thr |-> t, pin |-> 0, deferred |-> FALSE, waited |-> 0, wanted |-> FALSE]

\* MutationQueue::submit
Submit(t) ==
    /\ thr[t].pc = "gathered"
    /\ \/ /\ queue.closed
          /\ thr' = [thr EXCEPT ![t].pc = "answered", ![t].reply = Refusal("shutdown")]
          /\ queue' = queue
       \/ /\ ~queue.closed /\ queue.outstanding >= Limit
          /\ thr' = [thr EXCEPT ![t].pc = "answered", ![t].reply = Refusal("saturated")]
          /\ queue' = queue
       \/ /\ ~queue.closed /\ queue.outstanding < Limit
          /\ thr' = [thr EXCEPT ![t].pc = "blocked"]
          /\ queue' = [queue EXCEPT !.pending = Append(@, Entry(t)), !.outstanding = @ + 1, !.next = @ + 1]
    /\ UNCHANGED <<head, proj, hnd, batch, loop, comp, want, spent>>
    /\ UNCHANGED history

\* Mutant: new admissions are taken ahead of the held entries.
QueuedNewFirst == queue.pending \o queue.deferred

\* take_batch: the held entries keep the front.
Queued == queue.deferred \o queue.pending

\* MutationBatch::finish over a batch of [entry, result] and the queue q left behind:
\* an entry without a result is answered Engine.
Answered(b) ==
    [t \in Agents |->
        LET mine == {i \in 1 .. Len(b) : b[i].entry.thr = t} IN
        IF mine = {} THEN thr[t]
        ELSE LET r == b[CHOOSE i \in mine : TRUE].result IN
             [thr[t] EXCEPT !.pc = "answered", !.reply = IF r = <<>> THEN Refusal("engine") ELSE r]]

Finish(b, q) ==
    /\ thr' = Answered(b)
    /\ queue' = [q EXCEPT !.outstanding = @ - Len(b)]
    /\ want' = want - Cardinality({i \in 1 .. Len(b) : b[i].entry.wanted})
    /\ batch' = <<>>

\* settle_fold: every taken handle from its member's disposition, the forcer's from the
\* forcer's outcome; then what the system call itself does with the outcome.
Disposition(t, h) ==
    LET i == CHOOSE j \in 1 .. Len(thr[t].members) : h \in thr[t].members[j].hs IN thr[t].reply[1].disp[i]

Settled(t, h) ==
    IF ~thr[t].reply[1].ok THEN Failed(h)
    ELSE LET d == Disposition(t, h) IN
         CASE d.how = "applied"  -> Applied(h, d.content)
           [] d.how = "failed"   -> Failed(h)
           [] d.how = "restored" -> Restored(h)

\* repin_handle
Repinned(h) ==
    IF hnd[h].dirty \/ hnd[h].failed \/ ~Resolves(hnd[h].path) THEN hnd[h]
    ELSE [hnd[h] EXCEPT !.base = proj.tree[hnd[h].path][1], !.cap = proj.tree[hnd[h].path][1]]

OpApplied(t) == /\ thr[t].op # <<>> /\ thr[t].reply[1].ok
                /\ Last(thr[t].reply[1].disp).how = "applied"

Settle(t) ==
    LET settled == [h \in Handles |-> IF h \in thr[t].taken THEN Settled(t, h)
                                      ELSE IF h \in thr[t].clean /\ OpApplied(t) THEN Repinned(h)
                                      ELSE hnd[h]] IN
    /\ thr[t].pc = "answered"
    /\ hnd' = settled
    /\ acked' = acked \cup UNION {hnd[h].img[1] : h \in {g \in thr[t].taken : ~settled[g].failed /\ ~settled[g].dirty}}
    /\ thr' = [thr EXCEPT ![t] = Idle]
    /\ UNCHANGED <<head, proj, queue, batch, loop, comp, want, spent, writer, lost, commits>>

(***************************************************************************)
(* Applying a fold (LiveNode::apply_fold).                                 *)
(***************************************************************************)
\* Outcomes of an evaluation: "answer" with a reply and the tree to author (<<>> when
\* nothing changed), or "defer" for content that is not local.
Answer(reply, tree) == [how |-> "answer", reply |-> reply, tree |-> tree]
Defer == [how |-> "defer", reply |-> <<>>, tree |-> <<>>]
Err(e) == Answer(Refusal(e), <<>>)

\* abort_fold: the forcer fails, the others keep their images.
Abort(ms, cause) ==
    Answer(<<[ok |-> TRUE, error |-> cause,
              disp |-> [i \in DOMAIN ms |-> [how |-> IF ms[i].forcer THEN "failed" ELSE "restored", content |-> {}]]]>>, <<>>)

Forcers(ms) == {i \in DOMAIN ms : ms[i].forcer}

\* A refusal of the whole fold: restores under a forcer, terminal without one.
RefuseFold(ms, cause) == IF Forcers(ms) = {} THEN Err(cause) ELSE Abort(ms, cause)

\* Mutant: a commit is not checked against the identity its handle was opened on.
SurvivesAnyBase(m) ==
    CASE m.kind \in {"unlink", "rename"} -> "ok"
      [] m.kind \notin {"unlink", "rename"} /\ head.lack = "trees" -> "content"
      [] m.kind \in {"commit", "append"} /\ head.lack # "trees" -> IF head.tree[m.path] # <<>> THEN "ok" ELSE "stale"
      [] m.kind = "truncate" /\ head.lack # "trees" -> IF head.tree[m.path] # <<>> THEN "ok" ELSE "absent"

\* member_survives: "ok" or the cause against the durable head. Unlink and rename are
\* decided when they apply.
Survives(m) ==
    CASE m.kind \in {"unlink", "rename"} -> "ok"
      [] m.kind \notin {"unlink", "rename"} /\ head.lack = "trees" -> "content"
      [] m.kind = "commit" /\ head.lack # "trees" -> IF head.tree[m.path] = <<m.base>> THEN "ok" ELSE "stale"
      [] m.kind = "append" /\ head.lack # "trees" -> IF head.tree[m.path] # <<>> THEN "ok" ELSE "stale"
      [] m.kind = "truncate" /\ head.lack # "trees" -> IF head.tree[m.path] # <<>> THEN "ok" ELSE "absent"

\* The candidate that wins its path: the forcer, else the first buffered.
Wins(ms, i) ==
    LET rivals == {j \in DOMAIN ms : ms[j].path = ms[i].path /\ Survives(ms[j]) = "ok"} IN
    /\ i \in rivals
    /\ IF rivals \cap Forcers(ms) # {} THEN ms[i].forcer ELSE \A j \in rivals : i <= j

\* build_root for a content member: the file it leaves.
Content(m) == IF m.kind = "append" THEN head.tree[m.path][1] \cup m.img ELSE m.img

\* ... and for an operation, over the tree the content members left; <<>> when it fails.
OpTree(m, tree) ==
    CASE m.kind = "truncate" -> <<[tree EXCEPT ![m.path] = <<{}>>]>>
      [] m.kind = "unlink" -> IF head.tree[m.path] = <<>> THEN <<>> ELSE <<[tree EXCEPT ![m.path] = <<>>]>>
      [] m.kind = "rename" -> IF tree[m.from] = <<>> THEN <<>>
                              ELSE <<[tree EXCEPT ![m.path] = tree[m.from], ![m.from] = <<>>]>>

Contentful(ms) == {i \in DOMAIN ms : ms[i].kind \in {"commit", "append"}}

ApplyFold(ms, pin) ==
    LET dead(i)    == Survives(ms[i]) # "ok"
        winners    == {i \in Contentful(ms) : Wins(ms, i)}
        winner(p)  == {i \in winners : ms[i].path = p}
        filled     == [p \in Paths |-> IF winner(p) = {} THEN head.tree[p]
                                       ELSE <<Content(ms[CHOOSE i \in winner(p) : TRUE])>>]
        ops        == DOMAIN ms \ Contentful(ms)
        final      == IF ops = {} THEN <<filled>> ELSE OpTree(ms[Len(ms)], filled)
        how(i)     == IF Wins(ms, i) THEN "applied" ELSE "failed"
        outcome(i) == [how |-> how(i), content |-> IF i \in winners THEN Content(ms[i]) ELSE {}]
        done       == Answer(<<[ok |-> TRUE, error |-> "none", disp |-> [i \in DOMAIN ms |-> outcome(i)]]>>,
                             IF final = <<head.tree>> THEN <<>> ELSE final)
    IN  IF pin # 0 /\ (head.ver # pin \/ head.forked # {}) THEN Err("stale")
        ELSE IF head.forked # {} THEN RefuseFold(ms, "conflicted")
        ELSE IF \E i \in Forcers(ms) : dead(i)
             THEN Abort(ms, Survives(ms[CHOOSE i \in Forcers(ms) : TRUE]))
        ELSE IF head.lack = "trees" /\ ops # {} THEN Defer
        ELSE IF head.lack = "chunks" /\ \E i \in winners : ms[i].kind = "append" THEN Defer
        ELSE IF final = <<>> THEN Abort(ms, "absent")
        ELSE IF head.lack = "chunks" /\ final # <<head.tree>> THEN Defer
        ELSE done

\* Writes a fold's content members drop from the files they replace.
Dropped(ms, reply) ==
    {<<w, h>> \in (1 .. MaxWrites) \X Handles :
        \E i \in Contentful(ms) :
            /\ reply[1].ok /\ reply[1].disp[i].how = "applied" /\ h \in ms[i].hs
            /\ w \in head.tree[ms[i].path][1] \ reply[1].disp[i].content}

\* Recording an outcome for the entry at loop.at, and authoring its tree.
Record(e, out) ==
    LET ms == thr[e.thr].members IN
    /\ batch' = [batch EXCEPT ![loop.at].result = out.reply]
    /\ loop' = [loop EXCEPT !.at = @ + 1]
    /\ \/ /\ out.tree = <<>>
          /\ UNCHANGED <<head, lost, commits>>
       \/ /\ out.tree # <<>>
          /\ head' = [ver |-> head.ver + 1, tree |-> out.tree[1], forked |-> {}, lack |-> "none"]
          /\ lost' = lost \cup Dropped(ms, out.reply)
          /\ commits' = Append(commits, [id |-> e.id, pin |-> e.pin, on |-> head.ver])
    /\ UNCHANGED <<queue, want>>

\* Mutant: every defer restarts the deadline and takes the head of the day.
DeferredAfresh(e) == [e EXCEPT !.pin = head.ver, !.waited = 0, !.deferred = TRUE, !.wanted = TRUE]

\* MutationBatch::defer: the first pin and the first defer stay.
Deferred(e) == [e EXCEPT !.pin = IF @ = 0 THEN head.ver ELSE @,
                         !.waited = IF e.deferred THEN @ + 1 ELSE 0,
                         !.deferred = TRUE, !.wanted = TRUE]
Requeued(e) == [e EXCEPT !.waited = IF @ < MaxWait THEN @ + 1 ELSE @]

\* Mutant: the entries behind a held one are dropped with the batch.
HoldDropsRest(e) ==
    /\ want' = want + IF e.wanted THEN 0 ELSE 1
    /\ queue' = [queue EXCEPT !.deferred = @ \o <<Deferred(e)>>]
    /\ batch' = SubSeq(batch, 1, loop.at - 1)
    /\ loop' = [loop EXCEPT !.at = Len(batch) + 1]
    /\ UNCHANGED <<head, lost, commits>>

\* register_demand and defer_and_release_rest: one waiter per entry, and the entries
\* behind it go back untouched.
Hold(e) ==
    LET rest == SubSeq(batch, loop.at + 1, Len(batch)) IN
    /\ want' = want + IF e.wanted THEN 0 ELSE 1
    /\ queue' = [queue EXCEPT !.deferred = @ \o <<Deferred(e)>> \o [i \in DOMAIN rest |-> Requeued(rest[i].entry)]]
    /\ batch' = SubSeq(batch, 1, loop.at - 1)
    /\ loop' = [loop EXCEPT !.at = Len(batch) + 1]
    /\ UNCHANGED <<head, lost, commits>>

Applying == loop.pc \in {"pass", "drain"} /\ loop.at \in 1 .. Len(batch)

\* apply_entry: the deadline first, then the fold; the teardown drain never holds.
ApplyEntry ==
    LET e == batch[loop.at].entry
        out == ApplyFold(thr[e.thr].members, e.pin) IN
    /\ Applying
    /\ \/ /\ e.waited = MaxWait
          /\ Record(e, Err("timedout"))
       \/ /\ e.waited < MaxWait /\ out.how = "answer"
          /\ Record(e, out)
       \/ /\ e.waited < MaxWait /\ out.how = "defer" /\ loop.pc = "pass"
          /\ Hold(e)
       \/ /\ e.waited < MaxWait /\ out.how = "defer" /\ loop.pc = "drain"
          /\ Record(e, Err("engine"))
    /\ UNCHANGED <<proj, hnd, thr, comp, spent, writer, acked>>

\* An entry that fails by itself: a store or authoring error, an expired deadline, or
\* the retention quota.
EntryFails ==
    LET e == batch[loop.at].entry
        ms == thr[e.thr].members IN
    /\ Applying
    /\ Event
    /\ \E out \in {Err("store"), Err("timedout"), RefuseFold(ms, "quota")} : Record(e, out)
    /\ UNCHANGED <<proj, hnd, thr, comp, writer, acked>>

(***************************************************************************)
(* The live pass (LiveNode::sync_once and run_loop).                       *)
(***************************************************************************)
Batch(entries) == [i \in DOMAIN entries |-> [entry |-> entries[i], result |-> <<>>]]

\* Intake: the head set stays, a remote head on top of it is adopted (its closure not
\* yet here, or here), a concurrent one forks a path, or a merge of the fork arrives.
Intake ==
    \/ /\ UNCHANGED <<head, writer>>
       /\ spent' = spent
    \/ /\ spent.events < MaxEvents /\ spent.writes < MaxWrites
       /\ spent' = [spent EXCEPT !.events = @ + 1, !.writes = @ + 1]
       /\ writer' = Append(writer, Nobody)
       /\ \E p \in Paths :
            /\ head.tree[p] # <<>>
            /\ \/ /\ \E lack \in Lacks :
                       head' = [ver |-> head.ver + 1, forked |-> {}, lack |-> lack,
                                tree |-> [head.tree EXCEPT ![p] = <<@[1] \cup {spent.writes + 1}>>]]
               \/ /\ head.forked = {} /\ head.lack = "none"
                  /\ head' = [head EXCEPT !.ver = @ + 1, !.forked = {p}]

\* Fetch: the trees come first, then the chunks that folds and readers wait for.
FetchStep ==
    CASE head.lack = "trees" -> {"chunks", "none"}
      [] head.lack = "chunks" -> {"none"}
      [] head.lack = "none" -> {}

\* The pass up to take_batch.
BeginPass ==
    /\ loop.pc = "wait" /\ ~loop.stop
    /\ \/ Intake
       \/ /\ \E lack \in FetchStep : head' = [head EXCEPT !.lack = lack]
          /\ UNCHANGED <<spent, writer>>
    /\ batch' = Batch(Queued)
    /\ queue' = [queue EXCEPT !.pending = <<>>, !.deferred = <<>>]
    /\ loop' = [loop EXCEPT !.pc = "pass", !.at = 1]
    /\ UNCHANGED <<proj, hnd, thr, comp, want, acked, lost, commits>>

Evaluated == loop.pc = "pass" /\ loop.at > Len(batch)

\* Mutant: the gate trusts the dirty mark alone.
UnpublishedDirtyOnly == loop.dirty

Unpublished == loop.dirty \/ proj.ver # head.ver

\* A head whose trees are not all here is pending; missing chunks do not hold it back.
Publishes == Unpublished /\ head.lack # "trees"

Served == IF Publishes THEN [ver |-> head.ver, tree |-> head.tree, forked |-> head.forked] ELSE proj

\* Nothing to publish, every head still mid-fetch, or a new projection; the batch is
\* answered after it.
EndPass ==
    /\ Evaluated
    /\ proj' = Served
    /\ loop' = [loop EXCEPT !.pc = "wait", !.at = 0, !.dirty = @ /\ ~Publishes]
    /\ Finish(batch, queue)
    /\ UNCHANGED <<head, hnd, comp, spent>>
    /\ UNCHANGED history

\* sync_once and run_loop on an error: before the batch is taken, between the batch and
\* the publication, or in the outbound send after it. A class over its cap ends the loop.
PassFails ==
    /\ Event
    /\ \/ /\ loop.pc = "wait" /\ ~loop.stop
          /\ UNCHANGED <<proj, thr, queue, want, batch>>
       \/ /\ Evaluated
          /\ proj' \in {proj, Served}
          /\ Finish(batch, queue)
    /\ \E over \in BOOLEAN :
         loop' = [loop EXCEPT !.pc = IF over THEN "drain" ELSE "wait", !.at = 0, !.dirty = TRUE,
                              !.stop = @ \/ over]
    /\ UNCHANGED <<head, hnd, comp>>
    /\ UNCHANGED history

(***************************************************************************)
(* Teardown.                                                               *)
(***************************************************************************)
\* A signal trips the latch.
Stop ==
    /\ ~loop.stop
    /\ Event
    /\ loop' = [loop EXCEPT !.stop = TRUE]
    /\ UNCHANGED <<head, proj, hnd, thr, queue, batch, comp, want>>
    /\ UNCHANGED history

\* run_loop returns on the latch; the thread goes on to drain_until_closed.
LoopReturns ==
    /\ loop.pc = "wait" /\ loop.stop
    /\ loop' = [loop EXCEPT !.pc = "drain"]
    /\ UNCHANGED <<head, proj, hnd, thr, queue, batch, comp, want, spent>>
    /\ UNCHANGED history

\* One sweep: take what is queued; an empty sweep after the close is the last.
Sweep ==
    /\ loop.pc = "drain" /\ loop.at = 0
    /\ Queued # <<>> \/ queue.closed
    /\ batch' = Batch(Queued)
    /\ queue' = [queue EXCEPT !.pending = <<>>, !.deferred = <<>>]
    /\ loop' = [loop EXCEPT !.pc = IF Queued = <<>> THEN "returned" ELSE "drain",
                            !.at = IF Queued = <<>> THEN 0 ELSE 1, !.closed = queue.closed]
    /\ UNCHANGED <<head, proj, hnd, thr, comp, want, spent>>
    /\ UNCHANGED history

EndSweep ==
    /\ loop.pc = "drain" /\ loop.at > 0 /\ loop.at > Len(batch)
    /\ Finish(batch, queue)
    /\ loop' = [loop EXCEPT !.pc = IF loop.closed THEN "returned" ELSE "drain", !.at = 0]
    /\ UNCHANGED <<head, proj, hnd, comp, spent>>
    /\ UNCHANGED history

\* MutationQueue::shutdown without a want registry: what is still queued is refused.
Refused == [i \in DOMAIN Queued |-> [entry |-> [Queued[i] EXCEPT !.wanted = FALSE], result |-> Refusal("shutdown")]]

ShutQueue ==
    [queue EXCEPT !.closed = TRUE, !.pending = <<>>, !.deferred = <<>>]

\* A panic of the loop thread: the batch guard answers, and the supervisor closes
\* admission on the spot.
Panic ==
    /\ loop.pc \in {"wait", "pass", "drain"}
    /\ Event
    /\ thr' = Answered(batch \o Refused)
    /\ queue' = [ShutQueue EXCEPT !.outstanding = @ - Len(batch \o Refused)]
    /\ want' = want - Cardinality({i \in DOMAIN batch : batch[i].entry.wanted})
    /\ batch' = <<>>
    /\ loop' = [loop EXCEPT !.pc = "returned", !.at = 0, !.stop = TRUE]
    /\ UNCHANGED <<head, proj, hnd, comp>>
    /\ UNCHANGED history

\* The composer unmounts on the latch; the user may unmount at any time. Calls go on
\* until the kernel lets go.
Unmount ==
    /\ comp = "mounted"
    /\ comp' = "unmounting"
    /\ UNCHANGED <<head, proj, hnd, thr, queue, batch, loop, want, spent>>
    /\ UNCHANGED history

\* destroy, once the calls are done: the table is dropped and its dirty handles fold
\* without a forcer.
Destroy ==
    LET table == {h \in Handles : hnd[h].st = "open"}
        taken == Gathered({}, table, {}, FALSE)
        gone(h) == IF h \in table THEN [hnd[h] EXCEPT !.st = "gone"] ELSE hnd[h] IN
    /\ comp = "unmounting"
    /\ \A t \in Threads : thr[t].pc = "idle"
    /\ comp' = "destroying"
    /\ \/ /\ taken = {}
          /\ thr' = thr
       \/ /\ taken # {}
          /\ Gather(Session, {}, <<>>, taken, {})
    /\ hnd' = [h \in Handles |-> IF h \in taken THEN [gone(h) EXCEPT !.inflight = Session] ELSE gone(h)]
    /\ UNCHANGED <<head, proj, queue, batch, loop, want, spent>>
    /\ UNCHANGED history

\* The session is joined: the latch, then close_admission, first the flag ...
Close ==
    /\ comp = "destroying" /\ thr[Session].pc = "idle"
    /\ comp' = "closing"
    /\ loop' = [loop EXCEPT !.stop = TRUE]
    /\ queue' = [queue EXCEPT !.closed = TRUE]
    /\ UNCHANGED <<head, proj, hnd, thr, batch, want, spent>>
    /\ UNCHANGED history

\* ... then what is still queued.
MopUp ==
    /\ comp = "closing"
    /\ comp' = "closed"
    /\ thr' = Answered(Refused)
    /\ queue' = [ShutQueue EXCEPT !.outstanding = @ - Len(Refused)]
    /\ UNCHANGED <<head, proj, hnd, batch, loop, want, spent>>
    /\ UNCHANGED history

Calls == \E t \in Threads :
    \/ \E h \in Handles, p \in Paths, a \in BOOLEAN : Open(t, h, p, a)
    \/ \E h \in Handles : Write(t, h) \/ Force(t, h) \/ Release(t, h)
    \/ \E op \in Ops : ForceOp(t, op)

Faults == EntryFails \/ PassFails \/ Panic \/ \E t \in Agents : LeaseRefused(t)

LoopSteps == BeginPass \/ ApplyEntry \/ EndPass \/ LoopReturns \/ Sweep \/ EndSweep
CallSteps == (\E t \in Agents : Submit(t) \/ Settle(t)) \/ (loop.stop /\ Unmount) \/ Destroy \/ Close \/ MopUp

\* The process ends only here; a state where anything else waits for good is a deadlock.
Exits == comp = "closed" /\ loop.pc = "returned" /\ UNCHANGED vars

Next == Calls \/ Faults \/ LoopSteps \/ CallSteps \/ Stop \/ Unmount \/ Exits

\* The loop thread keeps running passes and sweeps; a call that was dispatched runs, and
\* the composer acts on the latch.
Fairness == WF_vars(LoopSteps) /\ WF_vars(CallSteps)

Spec == Init /\ [][Next]_vars /\ Fairness

(***************************************************************************)
(* Properties.                                                             *)
(***************************************************************************)
EntryType == [id : Nat \ {0}, thr : Agents, pin : Nat, deferred : BOOLEAN, waited : 0 .. MaxWait, wanted : BOOLEAN]

TypeOK ==
    /\ head \in [ver : Nat, tree : [Paths -> Files], forked : SUBSET Paths, lack : Lacks]
    /\ proj \in [ver : Nat, tree : [Paths -> Files], forked : SUBSET Paths]
    /\ hnd \in [Handles -> [st : {"new", "open", "gone"}, path : Paths, append : BOOLEAN, base : Contents,
                            cap : Contents, img : Files, dirty : BOOLEAN, seq : Nat,
                            inflight : Agents \cup {Nobody}, failed : BOOLEAN]]
    /\ \A t \in Agents : /\ thr[t].pc \in {"idle", "gathered", "blocked", "answered"}
                         /\ (thr[t].pc = "answered") = (thr[t].reply # <<>>)
    /\ queue.outstanding \in 0 .. Limit
    /\ \A i \in DOMAIN Queued : Queued[i] \in EntryType
    /\ \A i \in DOMAIN batch : batch[i].entry \in EntryType
    /\ loop.pc \in {"wait", "pass", "drain", "returned"} /\ loop.at \in 0 .. Limit + 1
    /\ comp \in {"mounted", "unmounting", "destroying", "closing", "closed"}
    /\ want \in 0 .. Limit

\* No write is overwritten unseen: when a commit replaces a file, the only bytes it may
\* drop are ones written through the same handle. The identity pinned at open decides
\* it at the durable head, however old the served state was when the handle opened.
NoLostUpdate == \A p \in lost : writer[p[1]] = p[2]

\* Nobody is forgotten: a submitter that blocks is in exactly one of the pending list,
\* the held list and the batch (whatever deferred, requeued, failed or panicked), the
\* admission count is the number of them, and a handle waits only for a live fold.
NobodyForgotten ==
    LET entries == [i \in DOMAIN batch |-> batch[i].entry] \o Queued
        blocked == {t \in Agents : thr[t].pc = "blocked"} IN
    /\ Len(entries) = Cardinality(blocked)
    /\ {entries[i].thr : i \in DOMAIN entries} = blocked
    /\ queue.outstanding = Len(entries)
    /\ \A h \in Handles : hnd[h].inflight # Nobody =>
           LET t == hnd[h].inflight IN thr[t].pc # "idle" /\ h \in thr[t].taken
    /\ \A t \in Agents : \A h \in thr[t].taken : hnd[h].inflight = t

\* Mutations run in admission order, and a retry runs only on the head its first
\* evaluation saw: what is queued stays in order through every defer and requeue,
\* snapshots are authored in that order, and a pinned one only on its pin.
AdmissionOrder ==
    LET entries == [i \in DOMAIN batch |-> batch[i].entry] \o Queued IN
    /\ \A i, j \in DOMAIN entries : i < j => entries[i].id < entries[j].id
    /\ \A i, j \in DOMAIN commits : i < j => commits[i].id < commits[j].id
    /\ \A i \in DOMAIN commits : commits[i].pin \in {0, commits[i].on}

\* Every system call returns: a held fold is applied, refused or timed out, and no
\* order of stop, unmount, destroy, close and panic leaves its caller blocked.
EverySyscallReturns == \A t \in Agents : thr[t].pc # "idle" ~> thr[t].pc = "idle"

\* While the loop runs, a head that is structurally here is served in the end, after
\* failed passes too.
EventuallyServed == proj.ver # head.ver ~> (proj.ver = head.ver \/ head.lack = "trees" \/ loop.stop)

\* A write whose commit was reported stays: no later commit of the handle drops it
\* (settle_applied: the capture a clean handle reads next is the committed state).
AckedNotLost == \A p \in lost : p[1] \notin acked
=============================================================================
