---------------------------- MODULE MCDelivery ------------------------------
(***************************************************************************)
(* How a delta, a receipt and a revocation get through, in four machines   *)
(* of which each behaviour runs one (`machine`): the quorum of one delta   *)
(* under beacons and squads (the instance the cfg describes), the way of   *)
(* every write to Tier-2, the channels between the node's tasks, and a     *)
(* revocation's way through a mesh.                                        *)
(***************************************************************************)
EXTENDS Durability

CONSTANTS d1, d2, w1, w2, p1, p2, p3, p4, b1, b2, Idle

VARIABLES machine,
          liveDag, liveParents, liveSchema, liveCurrent, livePc, liveMine,
          liveCompacts, liveReturned, liveStates, liveTier, livePermitted,
          liveCounted, liveAchieved, liveQueue, liveTicket, livePushed,
          liveEntry, livePublished, liveHeld, liveCommitted, liveMerged,
          liveBatches, liveMode, liveSeen, liveOverdue, liveRestarts,
          arrived, swarm, inbound, drainer, routing, fate, done, outbound, scheduled,
          payloads, dialing, dials, dialed,
          signed, store, revoked, gate, trust, job, net, writing, meshDag, tagged, deviceRestarts

liveVars == <<liveDag, liveParents, liveSchema, liveCurrent, livePc, liveMine,
              liveCompacts, liveReturned, liveStates, liveTier, livePermitted,
              liveCounted, liveAchieved, liveQueue, liveTicket, livePushed,
              liveEntry, livePublished, liveHeld, liveCommitted, liveMerged,
              liveBatches, liveMode, liveSeen, liveOverdue, liveRestarts>>
taskVars == <<arrived, swarm, inbound, drainer, routing, fate, done, outbound, scheduled,
              payloads, dialing, dials, dialed>>
spreadVars == <<signed, store, revoked, gate, trust, job, net, writing, meshDag, tagged, deviceRestarts>>
allVars == <<machine, vars, liveVars, taskVars, spreadVars>>

SquadTags    == {"alpha", "bravo", "north", "south"}
\* Three peers of one squad and one of another.
MCSquadTag   == [p \in Peers |-> IF p \in {p4} THEN "bravo" ELSE "alpha"]
MCBeaconSite == [b \in Beacons |-> IF b = b1 THEN "north" ELSE "south"]

\* Two overlapping writes of which any may compact.
Live == INSTANCE Durability WITH
    Deltas <- {d1, d2}, Writers <- {w1, w2}, Peers <- {p1}, SquadTag <- [p \in {p1} |-> NoTag],
    Beacons <- {}, BeaconSite <- [b \in {} |-> "north"], AnchorEnabled <- FALSE,
    K <- 1, Compaction <- TRUE, MaxMigrations <- 0,
    dag <- liveDag, parents <- liveParents, schema <- liveSchema, current <-
    liveCurrent, pc <- livePc, mine <- liveMine, compacts <- liveCompacts,
    returned <- liveReturned, states <- liveStates, tier <- liveTier,
    permitted <- livePermitted, counted <- liveCounted, achieved <-
    liveAchieved, queue <- liveQueue, ticket <- liveTicket, pushed <-
    livePushed, entry <- liveEntry, published <- livePublished, held <-
    liveHeld, committed <- liveCommitted, merged <- liveMerged, batches <-
    liveBatches, mode <- liveMode, seen <- liveSeen, overdue <- liveOverdue,
    restarts <- liveRestarts

\* Every channel holds one message.
Tasks == INSTANCE NodeTasks WITH
    InCap <- 1, OutCap <- 1, DialCap <- 1, MaxMessages <- 4, MaxPayloads <- 3, MaxDials <- 2

\* One manager, its target and a device that has to hear of it.
Spread == INSTANCE Revocation WITH
    Devices <- {p1, p2, p3}, Signers <- {p1}, Targets <- {p3}, Deltas <- {}, Author <- [x \in {} |-> p1],
    M <- 1, MaxRestarts <- 0, dag <- meshDag, restarts <- deviceRestarts

MCInit ==
    /\ machine \in {"quorum", "live", "tasks", "spread"}
    /\ Init /\ Live!Init /\ Tasks!Init /\ Spread!Init

QuorumStep == machine = "quorum" /\ Next /\ UNCHANGED <<machine, liveVars, taskVars, spreadVars>>
LiveStep   == machine = "live" /\ Live!Next /\ UNCHANGED <<machine, vars, taskVars, spreadVars>>
TaskStep   == machine = "tasks" /\ Tasks!Next /\ UNCHANGED <<machine, vars, liveVars, spreadVars>>
SpreadStep == machine = "spread" /\ Spread!Next /\ UNCHANGED <<machine, vars, liveVars, taskVars>>

MCNext == QuorumStep \/ LiveStep \/ TaskStep \/ SpreadStep

\* A write call runs to its end, and the sync loop's ticker never stops, so
\* cycles in which no transient I/O fault occurs recur.
LiveFairness ==
    /\ \A w \in {w1, w2} :
          /\ WF_liveVars(machine = "live" /\ Live!Register(w))
          /\ WF_liveVars(machine = "live" /\ Live!MarkCompacted(w))
          /\ WF_liveVars(machine = "live" /\ \E b \in BOOLEAN : Live!Publish(w, b))
    /\ WF_liveVars(machine = "live" /\ Live!run_cloud_sync_cycle(Live!Stranded, {}))

\* tokio polls every ready task, and a drain that began ends.  Nothing forces
\* the network to deliver, the application to write or an epoch to forward.
TaskFairness ==
    /\ WF_taskVars(machine = "tasks" /\ Tasks!inbound_send)
    /\ WF_taskVars(machine = "tasks" /\ Tasks!publish_outbound)
    /\ WF_taskVars(machine = "tasks" /\ Tasks!swarm_dial)
    /\ WF_taskVars(machine = "tasks" /\ Tasks!dial_send)
    /\ WF_taskVars(machine = "tasks" /\ Tasks!Drain)
    /\ WF_taskVars(machine = "tasks" /\ Tasks!receive_inbound)

\* Handlers run to their end, peers keep being discovered, and a complete
\* RevocationDelta sent again and again eventually arrives.
SpreadFairness ==
    \A d \in {p1, p2, p3} :
        /\ \A h \in Spread!Threads : WF_spreadVars(machine = "spread" /\ Spread!HandlerStep(d, h))
        /\ WF_spreadVars(machine = "spread" /\ Spread!Reannounce(d))
        /\ SF_spreadVars(machine = "spread" /\ Spread!DeliverComplete(d, p3))

MCSpec ==
    /\ MCInit /\ [][MCNext]_allVars
    /\ LiveFairness /\ TaskFairness /\ SpreadFairness

-----------------------------------------------------------------------------
\* Req 14.4, 16.3: every write that returned Ok becomes Tier-2, whatever the
\* other writes and the sync cycles in between do (write calls end, the sync
\* loop's ticker goes on).
WritesReachTier2 ==
    (\E d \in {d1, d2} : liveReturned[d] = "ok" /\ liveTier[d] # "Tier2")
        ~> (\A d \in {d1, d2} : liveReturned[d] = "ok" => liveTier[d] = "Tier2")

\* Back-pressure between the swarm task, the drain task and the callers loses
\* and reorders no message, and full channels never leave the tasks waiting for
\* each other: every message is routed and every dial reaches the swarm
\* (api/mod.rs channels).
ChannelsDeliver == Tasks!ChannelsDeliver

\* Req 9.2: a revocation known to one device reaches every device although
\* deltas get lost, because it is announced again to discovered peers.
Spreads == Spread!Spreads
=============================================================================
