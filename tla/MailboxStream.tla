---------------------------- MODULE MailboxStream ----------------------------
(***************************************************************************)
(* The relay stream under the live mailbox                                 *)
(* (crates/wyrd-core/src/mailbox/supervision.rs): the drainer that moves   *)
(* events from the SDK's broadcast to the bounded handover channel, and    *)
(* the supervisor whose tick starts the three recovery episodes            *)
(* (saturation, dead stream, relay outage), each a task of its own.        *)
(*                                                                         *)
(* The relay keeps every event and has no cursor: a REQ replays all of     *)
(* them, so an event that is dropped anywhere on the way reaches the       *)
(* mailbox only if some later REQ is still owed.                           *)
(***************************************************************************)
EXTENDS Integers, Sequences, SequencesExt

CONSTANTS Events, Free, Gone,  \* Free, Gone: states of a drainer that is not parked
          MaxBroadcast,        \* the SDK's broadcast buffer
          Capacity,            \* INCOMING_CAPACITY
          Grace,               \* OUTAGE_GRACE_TICKS
          MaxFaults            \* outages, failed transactions and stream deaths

VARIABLES retained,            \* what the relay holds for this device
          link, registered,    \* relay connected; the subscription exists in the client
          inflight,            \* sent by the relay, not yet in the broadcast
          broadcast, drainer,  \* the drainer: Free, Gone, or parked on an event
          channel, spare,      \* the mailbox's channel; the replacement drainer's
          received,            \* what recv took out of the channel
          saturated, due,      \* the replay flag; its cooldown has passed
          satEpisode, streamEpisode, relayEpisode,
          streamAlive, attached, downTicks,
          unflagged,           \* since the last REQ: dropped with the flag down, or the flag
                               \* taken with no REQ to follow
          faults

pipe     == <<broadcast, drainer, channel, spare>>
relay    == <<retained, link, registered, inflight>>
episodes == <<satEpisode, streamEpisode, relayEpisode>>
health   == <<saturated, due, streamAlive, attached, downTicks, unflagged>>
vars     == <<relay, pipe, received, episodes, health, faults>>

Init ==
    /\ retained = {} /\ link = TRUE /\ registered = TRUE /\ inflight = {}
    /\ broadcast = <<>> /\ drainer = Free /\ channel = <<>> /\ spare = <<>>
    /\ received = {}
    /\ saturated = FALSE /\ due = TRUE
    /\ satEpisode = "idle" /\ streamEpisode = "idle" /\ relayEpisode = "idle"
    /\ streamAlive = TRUE /\ attached = FALSE /\ downTicks = 0
    /\ unflagged = FALSE /\ faults = 0

Fault == faults < MaxFaults /\ faults' = faults + 1

-----------------------------------------------------------------------------
(* the relay and the SDK                                                   *)

Publish(e) ==
    /\ e \notin retained
    /\ retained' = retained \cup {e}
    /\ inflight' = IF link /\ registered THEN inflight \cup {e} ELSE inflight
    /\ UNCHANGED <<link, registered, pipe, received, episodes, health, faults>>

\* A replacement drainer fills the replacement channel until the swap.
Replacing == streamEpisode \in {"listening", "sent"}
Target    == IF Replacing THEN spare ELSE channel

\* A drainer falls behind only while it is parked on a full channel.
Lagging == drainer \notin {Free, Gone} /\ Len(Target) = Capacity /\ Len(broadcast) = MaxBroadcast

\* An event frame reaches the client: the broadcast drops its oldest for a
\* receiver that lags.
Deliver(e) ==
    /\ e \in inflight /\ inflight' = inflight \ {e}
    /\ \/ drainer = Gone /\ UNCHANGED broadcast
       \/ drainer # Gone /\ Len(broadcast) < MaxBroadcast /\ broadcast' = Append(broadcast, e)
       \/ Lagging /\ broadcast' = Append(Tail(broadcast), e)
    /\ unflagged' = (unflagged \/ (Lagging /\ ~saturated))
    /\ UNCHANGED <<retained, link, registered, drainer, channel, spare, received, episodes, saturated,
                   due, streamAlive, attached, downTicks, faults>>

Disconnect ==
    /\ link /\ Fault
    /\ link' = FALSE /\ inflight' = {}
    /\ UNCHANGED <<retained, registered, pipe, received, episodes, health>>

\* The SDK reconnects by itself and repeats the REQ it has registered.
Reconnect ==
    /\ ~link /\ link' = TRUE
    /\ inflight' = IF registered THEN retained ELSE {}
    /\ UNCHANGED <<retained, registered, pipe, received, episodes, health, faults>>

\* resubscribe: CLOSE and REQ under the lock; the relay replays everything.
Resubscribed ==
    /\ registered' = TRUE /\ unflagged' = FALSE
    /\ inflight' = IF link THEN retained ELSE {}
    /\ UNCHANGED <<retained, link, faults>>

\* The transaction fails or times out, with the CLOSE already done.
ResubscribeFails ==
    /\ Fault /\ registered' = FALSE /\ inflight' = {}
    /\ UNCHANGED <<retained, link, unflagged>>

-----------------------------------------------------------------------------
(* the drainer and recv                                                    *)

Forward(e) ==
    /\ Len(Target) < Capacity
    /\ IF Replacing THEN spare' = Append(spare, e) /\ UNCHANGED channel
       ELSE channel' = Append(channel, e) /\ UNCHANGED spare

\* One turn of drain_notifications: try_send, or flag a replay and park.
Drain ==
    /\ drainer = Free /\ broadcast # <<>>
    /\ broadcast' = Tail(broadcast)
    /\ \/ Forward(Head(broadcast)) /\ UNCHANGED <<drainer, saturated>>
       \/ /\ Len(Target) = Capacity
          /\ drainer' = Head(broadcast) /\ saturated' = TRUE /\ UNCHANGED <<channel, spare>>
    /\ UNCHANGED <<relay, received, episodes, due, streamAlive, attached, downTicks, unflagged, faults>>

\* send().await returns: there is room again.
Unpark ==
    /\ drainer \notin {Free, Gone} /\ Forward(drainer)
    /\ drainer' = Free
    /\ UNCHANGED <<broadcast, relay, received, episodes, health, faults>>

\* The notification stream ends under the drainer.
StreamEnds ==
    /\ drainer = Free /\ Fault
    /\ drainer' = Gone /\ broadcast' = <<>> /\ streamAlive' = FALSE
    /\ UNCHANGED <<relay, channel, spare, received, episodes, saturated, due, attached, downTicks, unflagged>>

\* recv takes one event when it has room to hold it (next_wrap).
Recv ==
    /\ channel # <<>>
    /\ received' = received \cup {Head(channel)} /\ channel' = Tail(channel)
    /\ UNCHANGED <<relay, broadcast, drainer, spare, episodes, health, faults>>

-----------------------------------------------------------------------------
(* the supervisor's tick                                                   *)

\* The saturation claim: the flag is taken first, the episode second.
ClaimSaturation ==
    IF due /\ saturated
    THEN /\ saturated' = FALSE
         /\ satEpisode' = IF satEpisode = "idle" THEN "claimed" ELSE satEpisode
         /\ unflagged' = (unflagged \/ satEpisode = "sent")
    ELSE UNCHANGED <<saturated, satEpisode, unflagged>>

StreamTriggered == ~streamAlive /\ attached' /\ streamEpisode = "idle"

OutageGrace ==
    LET down == IF link THEN 0
                ELSE (IF StreamTriggered THEN 0 ELSE downTicks) + IF attached' THEN 1 ELSE 0
    IN  /\ downTicks' = IF down >= Grace THEN 0 ELSE down
        /\ relayEpisode' = IF down >= Grace THEN "trying" ELSE relayEpisode

\* One turn of supervise: every episode it starts is spawned, never awaited,
\* and none is started twice.
Tick ==
    /\ attached' = (attached \/ link)
    /\ ClaimSaturation
    /\ streamEpisode' = IF StreamTriggered THEN "claimed" ELSE streamEpisode
    /\ OutageGrace
    /\ UNCHANGED <<relay, pipe, received, due, streamAlive, faults>>

-----------------------------------------------------------------------------
(* the episodes                                                            *)

\* Mutation: a replay that failed is not tried again.
SaturationReplayGivesUp ==
    /\ satEpisode = "claimed"
    /\ \/ Resubscribed /\ satEpisode' = "sent"
       \/ ResubscribeFails /\ satEpisode' = "idle"
    /\ UNCHANGED <<pipe, received, saturated, streamEpisode, relayEpisode, due, streamAlive, attached, downTicks>>

\* The replay's REQ goes out; if it fails the flag is raised again.
SaturationReplay ==
    /\ satEpisode = "claimed"
    /\ \/ Resubscribed /\ satEpisode' = "sent" /\ UNCHANGED saturated
       \/ ResubscribeFails /\ satEpisode' = "idle" /\ saturated' = TRUE
    /\ UNCHANGED <<pipe, received, streamEpisode, relayEpisode, due, streamAlive, attached, downTicks>>

\* saturation_replay_at is set and the claim released.
SaturationDone ==
    /\ satEpisode = "sent" /\ satEpisode' = "idle" /\ due' = FALSE
    /\ UNCHANGED <<relay, pipe, received, streamEpisode, relayEpisode, saturated, streamAlive,
                   attached, downTicks, unflagged, faults>>

CooldownPasses ==
    /\ ~due /\ due' = TRUE
    /\ UNCHANGED <<relay, pipe, received, episodes, saturated, streamAlive, attached, downTicks, unflagged, faults>>

\* establish_drainer: the replacement listens before anything is asked for.
\* One that never does ends the episode; a later tick starts another.
EstablishDrainer ==
    /\ streamEpisode = "claimed"
    /\ \/ /\ streamEpisode' = "listening"
          /\ drainer' = Free /\ broadcast' = <<>> /\ spare' = <<>>
          /\ UNCHANGED faults
       \/ Fault /\ streamEpisode' = "idle" /\ UNCHANGED <<drainer, broadcast, spare>>
    /\ UNCHANGED <<relay, channel, received, satEpisode, relayEpisode, health>>

\* recover_stream: connect and resubscribe until it succeeds.
StreamResubscribe ==
    /\ streamEpisode = "listening"
    /\ \/ Resubscribed /\ streamEpisode' = "sent"
       \/ ResubscribeFails /\ UNCHANGED streamEpisode
    /\ UNCHANGED <<pipe, received, satEpisode, relayEpisode, saturated, due, streamAlive, attached, downTicks>>

\* The mailbox gets the replacement channel; what the old one held is dropped.
SwapChannel ==
    /\ streamEpisode = "sent" /\ streamEpisode' = "idle"
    /\ channel' = spare /\ spare' = <<>> /\ streamAlive' = TRUE
    /\ UNCHANGED <<relay, broadcast, drainer, received, satEpisode, relayEpisode, saturated, due,
                   attached, downTicks, unflagged, faults>>

\* One turn of recover_relays that finds a connected relay.
RelayResubscribe ==
    /\ relayEpisode = "trying" /\ link
    /\ \/ Resubscribed /\ relayEpisode' = "idle"
       \/ ResubscribeFails /\ UNCHANGED relayEpisode
    /\ UNCHANGED <<pipe, received, satEpisode, streamEpisode, saturated, due, streamAlive, attached, downTicks>>

Next ==
    \/ \E e \in Events : Publish(e) \/ Deliver(e)
    \/ Disconnect \/ Reconnect
    \/ Drain \/ Unpark \/ StreamEnds \/ Recv
    \/ Tick
    \/ SaturationReplay \/ SaturationDone \/ CooldownPasses
    \/ EstablishDrainer \/ StreamResubscribe \/ SwapChannel
    \/ RelayResubscribe

Spec == Init /\ [][Next]_vars

-----------------------------------------------------------------------------
(* properties                                                              *)

\* Some REQ that will replay the whole history is still to come: by the
\* saturation flag or its claimed replay, by a stream episode that has not
\* resubscribed, or by the reconnection of the relay.
ReplayOwed ==
    \/ saturated \/ satEpisode = "claimed"
    \/ ~streamAlive /\ streamEpisode # "sent"
    \/ ~link /\ registered
    \/ relayEpisode = "trying"

OnTheWay == inflight \cup ToSet(broadcast) \cup ({drainer} \ {Free, Gone}) \cup ToSet(channel) \cup ToSet(spare)

\* The saturation flag's promise: once nothing is on the way and no replay is
\* owed, recv has had every event the relay retains.
NoMailForgotten == OnTheWay = {} /\ ~ReplayOwed => retained \subseteq received

\* The replacement drainer died before recover_stream called the stream alive.
DeadReplacement == drainer = Gone /\ (streamAlive \/ streamEpisode = "sent")

\* No mail is silently forgotten between the relay and recv: at every moment
\* a retained event was received, is on the way, or a replay is still owed,
\* whatever the order of saturation, outages, stream deaths, channel swaps
\* and failed transactions.  Three gaps are left out: what is dropped while
\* the flag is down (the drainer is still parked when the replay it asked for
\* arrives), a flag taken by a tick while the replay that raised it has yet
\* to finish, and a replacement drainer that dies.
FlaggedIsOwed ==
    \/ retained \subseteq received \cup OnTheWay
    \/ ReplayOwed \/ unflagged \/ DeadReplacement

==============================================================================
