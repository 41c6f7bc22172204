---------------------------- MODULE ServingState ----------------------------
(* What a device stores, records, serves and announces, and what it promises *)
(* about them.                                                              *)

CONSTANTS
    Roots,      \* transport roots of sealed representations
    Barrier,    \* MirrorItem::Flush
    None        \* nothing in hand

ASSUME ItemsDiffer == Barrier \notin Roots /\ None \notin Roots /\ Barrier # None

VARIABLES
    held, rotten,        \* the vault directory
    mirror,              \* the store that answers fetches
    call,                \* what the loop is doing
    named, announced,    \* the fact log, the peers
    borrowed             \* ghost: named though no import had returned Ok

\* flush_serving_barrier and announce_pending: what a peer was told of can be
\* fetched.  An announced root is in the mirror of a running device through full
\* queues, late barriers, failed mirror imports, a lost worker and crashes.  Two
\* kinds of root are apart: one whose vault file rotted, and one that was named
\* though no import had returned Ok for it, because its file was there
\* (recorded_entry asks the vault, not the mirror).
AnnouncedServed ==
    call # "down" => announced \subseteq mirror \cup rotten \cup borrowed

\* Vault::import: residency precedes the record.  A root that a durable record
\* names after an import returned Ok keeps its directory entry through a power
\* loss, whichever fsync failed before and in whichever process it was retried.
RecordedResident == \A r \in named \ borrowed : held[r] = "durable"
=============================================================================
