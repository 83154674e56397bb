----------------------------- MODULE NodeTasks ------------------------------
(***************************************************************************)
(* The background tasks of a native device and the bounded channels        *)
(* between them (CoreHandle::init and the loops it spawns, api/mod.rs).    *)
(*                                                                         *)
(* The swarm task polls the network, the outbound and the dial channel in  *)
(* one select; a message it received goes into the inbound channel with    *)
(* send().await, which suspends the whole task while that channel is full. *)
(* The drain loop, or an application's own process_inbound_messages, takes *)
(* messages from the inbound channel under an async lock and routes them;  *)
(* routing may answer (a durability receipt) or enqueue gossip (a          *)
(* revocation).  The scheduler loop and writes fill the outbound channel.  *)
(* Messages are numbered in the order gossipsub delivers them; payloads    *)
(* are only counted.                                                       *)
(***************************************************************************)
EXTENDS Naturals, Sequences

CONSTANTS InCap, OutCap, DialCap,   \* channel capacities: 1024, 4096, 64
          MaxMessages, MaxPayloads, MaxDials

VARIABLES arrived,   \* messages gossipsub has delivered
          swarm,     \* the message the swarm task is suspended on, 0 if it polls
          inbound,   \* inbound_tx / inbound_rx
          drainer,   \* "idle" or who holds the inbound_rx lock
          routing,   \* the message receive_inbound works on, 0 if none
          fate,      \* what becomes of it: one of Fates
          done,      \* messages routed or given up, in order
          outbound,  \* payloads in the outbound channel
          scheduled, \* deltas in the DRR queues and the retry queue
          payloads,  \* payloads ever made, a bound
          dialing,   \* dial_peer calls suspended on the dial channel
          dials,     \* addresses in the dial channel
          dialed     \* dial_peer calls made

vars == <<arrived, swarm, inbound, drainer, routing, fate, done, outbound, scheduled, payloads, dialing, dials, dialed>>

outgoing == <<outbound, scheduled, payloads>>

Init ==
    /\ arrived = 0 /\ swarm = 0 /\ inbound = <<>> /\ drainer = "idle" /\ routing = 0 /\ fate = "other" /\ done = <<>>
    /\ outbound = 0 /\ scheduled = 0 /\ payloads = 0
    /\ dialing = 0 /\ dials = 0 /\ dialed = 0

\* The swarm task's select takes a gossipsub message.  (One it cannot parse,
\* or a fragment of an incomplete delta, goes no further and has no number.)
swarm_message ==
    /\ swarm = 0 /\ arrived < MaxMessages
    /\ arrived' = arrived + 1 /\ swarm' = arrived'
    /\ UNCHANGED <<inbound, drainer, routing, fate, done, dialing, dials, dialed>> /\ UNCHANGED outgoing

\* inbound_tx.send(msg).await.
inbound_send ==
    /\ swarm # 0 /\ Len(inbound) < InCap
    /\ inbound' = Append(inbound, swarm) /\ swarm' = 0
    /\ UNCHANGED <<arrived, drainer, routing, fate, done, dialing, dials, dialed>> /\ UNCHANGED outgoing

\* The select takes a payload and publishes it; with no subscribers it is
\* logged and gone.
publish_outbound ==
    /\ swarm = 0 /\ outbound > 0 /\ outbound' = outbound - 1
    /\ UNCHANGED <<arrived, swarm, inbound, drainer, routing, fate, done, scheduled, payloads, dialing, dials, dialed>>

\* The select takes an address and dials it.
swarm_dial ==
    /\ swarm = 0 /\ dials > 0 /\ dials' = dials - 1
    /\ UNCHANGED <<arrived, swarm, inbound, drainer, routing, fate, done, dialing, dialed>> /\ UNCHANGED outgoing

\* dial_peer: send(addr).await suspends the caller while the channel is full.
dial_peer ==
    /\ dialed < MaxDials
    /\ dialed' = dialed + 1 /\ dialing' = dialing + 1
    /\ UNCHANGED <<arrived, swarm, inbound, drainer, routing, fate, done, dials>> /\ UNCHANGED outgoing

dial_send ==
    /\ dialing > 0 /\ dials < DialCap
    /\ dialing' = dialing - 1 /\ dials' = dials + 1
    /\ UNCHANGED <<arrived, swarm, inbound, drainer, routing, fate, done, dialed>> /\ UNCHANGED outgoing

-----------------------------------------------------------------------------
\* process_inbound_messages takes the lock of inbound_rx ...
drain_begin(who) ==
    /\ drainer = "idle" /\ drainer' = who
    /\ UNCHANGED <<arrived, swarm, inbound, routing, fate, done, dialing, dials, dialed>> /\ UNCHANGED outgoing

\* What routing a message comes to: it is answered, gossiped on, neither, or
\* receive_inbound returns an error.
Fates == {"answer", "gossip", "other", "error"}

\* ... try_recv gives a message ...
try_recv ==
    /\ drainer # "idle" /\ routing = 0 /\ inbound # <<>>
    /\ routing' = Head(inbound) /\ inbound' = Tail(inbound)
    /\ fate' \in IF payloads < MaxPayloads THEN Fates ELSE {"other", "error"}
    /\ UNCHANGED <<arrived, swarm, drainer, done, dialing, dials, dialed>> /\ UNCHANGED outgoing

\* ... or none, and the drain is over.
drain_end ==
    /\ drainer # "idle" /\ routing = 0 /\ inbound = <<>>
    /\ drainer' = "idle"
    /\ UNCHANGED <<arrived, swarm, inbound, routing, fate, done, dialing, dials, dialed>> /\ UNCHANGED outgoing

\* Mutant: the answer waits for room in the outbound channel.
answer_awaits ==
    /\ payloads' = payloads + 1
    /\ outbound < OutCap /\ outbound' = outbound + 1
    /\ UNCHANGED scheduled

\* A receipt: try_send, dropped when the channel is full.
answer ==
    /\ payloads' = payloads + 1
    /\ outbound' = IF outbound < OutCap THEN outbound + 1 ELSE outbound
    /\ UNCHANGED scheduled

\* enqueue_revocation_gossip: into the scheduler's queues.
enqueue_outbound ==
    /\ payloads' = payloads + 1
    /\ scheduled' = scheduled + 1
    /\ UNCHANGED outbound

\* receive_inbound; after an error the message is lost and the drain gives
\* up, the rest waits for the next tick.
receive_inbound ==
    /\ routing # 0 /\ routing' = 0 /\ done' = Append(done, routing)
    /\ \/ fate = "answer" /\ answer /\ UNCHANGED drainer
       \/ fate = "gossip" /\ enqueue_outbound /\ UNCHANGED drainer
       \/ fate = "other" /\ UNCHANGED outgoing /\ UNCHANGED drainer
       \/ fate = "error" /\ UNCHANGED outgoing /\ drainer' = "idle"
    /\ UNCHANGED <<arrived, swarm, inbound, fate, dialing, dials, dialed>>

-----------------------------------------------------------------------------
\* CoreHandle::write and its send_delta: try_send, an error when it is full.
write ==
    /\ payloads < MaxPayloads /\ answer
    /\ UNCHANGED <<arrived, swarm, inbound, drainer, routing, fate, done, dialing, dials, dialed>>

\* One epoch of the scheduler loop: due retries, then the DRR queues, each
\* forwarded with try_send.
scheduler_tick ==
    /\ scheduled > 0
    /\ scheduled' \in 0..(scheduled - 1)
    /\ LET room == OutCap - outbound
           n == scheduled - scheduled'
       IN  outbound' = outbound + (IF n <= room THEN n ELSE room)
    /\ UNCHANGED <<arrived, swarm, inbound, drainer, routing, fate, done, payloads, dialing, dials, dialed>>

Drain == drain_begin("loop") \/ try_recv \/ drain_end

Next ==
    \/ swarm_message \/ inbound_send \/ publish_outbound \/ swarm_dial
    \/ dial_peer \/ dial_send
    \/ \E who \in {"loop", "application"} : drain_begin(who)
    \/ try_recv \/ drain_end
    \/ receive_inbound \/ write \/ scheduler_tick

-----------------------------------------------------------------------------
One(m) == IF m = 0 THEN <<>> ELSE <<m>>

TypeOK ==
    /\ arrived \in 0..MaxMessages /\ swarm \in 0..arrived /\ routing \in 0..arrived
    /\ Len(inbound) <= InCap /\ outbound \in 0..OutCap /\ dials \in 0..DialCap
    /\ drainer \in {"idle", "loop", "application"}

\* Back-pressure loses and reorders nothing: every message gossipsub delivered
\* is in exactly one place, and all of them, read from the routed ones to the
\* one the swarm task holds, are in the order of their arrival.
InOrderOnce == done \o One(routing) \o inbound \o One(swarm) = [i \in 1..arrived |-> i]

\* Nobody waits for ever: a full inbound channel suspends the swarm task,
\* which alone empties the outbound and the dial channel, and yet, once the
\* network falls silent, every message has been routed and every dial has
\* reached the swarm.
NobodyIsStuck == []<>(swarm = 0 /\ Len(done) = arrived /\ dialing + dials = 0)

\* Back-pressure is safe: it neither loses nor reorders a message, and it
\* leaves nobody waiting (channels of CoreHandle::init).
ChannelsDeliver == []InOrderOnce /\ NobodyIsStuck
=============================================================================
