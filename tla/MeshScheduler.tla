--------------------------- MODULE MeshScheduler ----------------------------
(***************************************************************************)
(* Outbound scheduling of a device: the DRR scheduler (scheduler.rs), the  *)
(* Saturate_Mode lease (saturate.rs), the retry queue (discovery.rs), and  *)
(* the loop that drives them once per epoch under the transport lock       *)
(* (api/mod.rs spawn_scheduler_tick_loop).                                 *)
(*                                                                         *)
(* A delta is its priority class and its serialised length.  Time is what  *)
(* is left of the lease and of a retry interval: 0 is "now or past".  The  *)
(* loop runs only while an outbound channel is installed, so the           *)
(* not-started error of tick_scheduler cannot occur in it.                 *)
(***************************************************************************)
EXTENDS Integers, FiniteSets, Sequences, SequencesExt, Subsequences

CONSTANTS Deltas,          \* what may be handed to enqueue_outbound / enqueue_retry
          priority,        \* Deltas -> Classes (Delta.priority)
          serialized_len,  \* Deltas -> Nat, of the whole link capacity
          LinkCapacity,    \* DEFAULT_LINK_CAPACITY_BYTES
          ChannelCapacity, \* slots of the outbound publish channel
          MaxRetryQueue, RetryInterval,
          LeaseDuration, Managers, TerminationThreshold,
          MaxGrants,       \* bound: activations and renewals
          MaxQueue         \* bound: deltas waiting in one class

Classes == {"High", "Medium", "Low"}

VARIABLES
    queue,          \* DrrScheduler.{high,medium,low}_queue
    deficit,        \* DrrScheduler.{high,medium,low}_deficit
    saturate_mode,  \* DrrScheduler.saturate_mode, the mirror
    lease,          \* SaturateModeStateMachine: seconds left, or NoLease in NORMAL
    retries,        \* PeerDiscovery.retry_queue: how long until each entry is due
    channel,        \* payloads waiting in the outbound publish channel
    elapsed,        \* the loop's interval has elapsed
    grants,         \* history: leases granted or renewed
    drained         \* history: what the last epoch took from the queues, in order

vars == <<queue, deficit, saturate_mode, lease, retries, channel, elapsed, grants, drained>>

NoLease == -1
Saturated == lease # NoLease

\* 70 / 20 / 10 per cent of the epoch capacity, rounded down.
quantum == [High   |-> (LinkCapacity * 70) \div 100,
            Medium |-> (LinkCapacity * 20) \div 100,
            Low    |-> (LinkCapacity * 10) \div 100]

bytes(s) ==
    LET upTo[n \in 0 .. Len(s)] == IF n = 0 THEN 0 ELSE upTo[n - 1] + serialized_len[s[n]]
    IN  upTo[Len(s)]

DrrNew ==
    /\ queue = [c \in Classes |-> <<>>]
    /\ deficit = [c \in Classes |-> 0]
    /\ saturate_mode = FALSE

Init ==
    /\ DrrNew
    /\ lease = NoLease
    /\ retries = <<>> /\ channel = 0 /\ elapsed = FALSE /\ grants = 0 /\ drained = <<>>

-----------------------------------------------------------------------------
\* The longest prefix of q that fits in the budget.
drain_queue(q, budget) ==
    LET fits == {n \in 0 .. Len(q) : bytes(SubSeq(q, 1, n)) <= budget}
    IN  IF fits = {} THEN <<>> ELSE SubSeq(q, 1, CHOOSE n \in fits : \A k \in fits : k <= n)

rest(q, sent) == SubSeq(q, Len(sent) + 1, Len(q))

\* Mutant: LOW waits for spare capacity.
FloorShare_no_low(q, def) ==
    [High   |-> drain_queue(q.High, def.High + quantum.High),
     Medium |-> drain_queue(q.Medium, def.Medium + quantum.Medium),
     Low    |-> <<>>]

\* One normal-mode epoch: each class up to its floor (its deficit) ...
FloorShare(q, def) ==
    [High   |-> drain_queue(q.High, def.High + quantum.High),
     Medium |-> drain_queue(q.Medium, def.Medium + quantum.Medium),
     Low    |-> drain_queue(q.Low, def.Low + quantum.Low)]

\* ... then the spare capacity in priority order, on top of the floors.
SpareShare(q, floor) ==
    LET spare0 == LinkCapacity - bytes(floor.High) - bytes(floor.Medium) - bytes(floor.Low)
        hi     == drain_queue(rest(q.High, floor.High), spare0)
        spare1 == spare0 - bytes(hi)
        med    == drain_queue(rest(q.Medium, floor.Medium), spare1)
        low    == drain_queue(rest(q.Low, floor.Low), spare1 - bytes(med))
    IN  [High |-> floor.High \o hi, Medium |-> floor.Medium \o med, Low |-> floor.Low \o low]

\* DrrScheduler::tick: what each class sends; in Saturate_Mode only HIGH does.
DrrShares(q, def, saturated) ==
    IF saturated
    THEN [High |-> drain_queue(q.High, LinkCapacity), Medium |-> <<>>, Low |-> <<>>]
    ELSE SpareShare(q, FloorShare(q, def))

DrrDeficits(def, shares, saturated) ==
    [c \in Classes |-> def[c] - bytes(shares[c]) + (IF saturated THEN 0 ELSE quantum[c])]

\* DrrScheduler::enqueue
Enqueued(q, d) == [q EXCEPT ![priority[d]] = Append(@, d)]

\* set_saturate_mode: leaving (or staying out of) Saturate_Mode clears the
\* deficit counters.
DeficitsOnMode(def, active) == IF active THEN def ELSE [c \in Classes |-> 0]

\* reconcile_scheduler_saturate_mode, given the state the lease is in now.
reconcile_scheduler_saturate_mode(newLease) ==
    /\ saturate_mode' = (newLease # NoLease)
    /\ deficit' = DeficitsOnMode(deficit, newLease # NoLease)

-----------------------------------------------------------------------------
\* A token verifies when it is signed by the root CA, is not expired and
\* carries the disaster-alert caveat; any other token changes nothing.
verify_disaster_alert_token(token) == token.signed /\ token.current /\ token.disasterAlert

\* The lease state machine (a token that fails to verify changes nothing) ...
activate(token) ==
    /\ verify_disaster_alert_token(token)
    /\ grants < MaxGrants /\ grants' = grants + 1
    /\ lease' = LeaseDuration

\* ... with no renewal window and no expiry check: an overrun lease that no
\* epoch has noticed yet is extended like any other.
renew(token) == Saturated /\ activate(token)

\* Signatures are (signer, valid) pairs.
verify_did_signature(s) == s.valid
count_valid_distinct_signatures(sigs) == Cardinality({s.signer : s \in {x \in sigs : verify_did_signature(x)}})

\* In NORMAL the call succeeds without changing anything.
terminate(sigs) ==
    /\ Saturated => count_valid_distinct_signatures(sigs) >= TerminationThreshold
    /\ lease' = NoLease

\* The transport's operations: the lease, then the scheduler's mirror of it.
activate_saturate_mode(token) ==
    /\ activate(token)
    /\ reconcile_scheduler_saturate_mode(lease')
    /\ UNCHANGED <<queue, retries, channel, elapsed, drained>>

renew_saturate_mode(token) ==
    /\ renew(token)
    /\ reconcile_scheduler_saturate_mode(lease')
    /\ UNCHANGED <<queue, retries, channel, elapsed, drained>>

terminate_saturate_mode(sigs) ==
    /\ terminate(sigs)
    /\ reconcile_scheduler_saturate_mode(lease')
    /\ UNCHANGED <<queue, retries, channel, elapsed, grants, drained>>

\* SaturateModeStateMachine::tick
SaturateTick(l) == IF l = 0 THEN NoLease ELSE l

enqueue_outbound(d) ==
    /\ Len(queue[priority[d]]) < MaxQueue
    /\ queue' = Enqueued(queue, d)
    /\ UNCHANGED <<deficit, saturate_mode, lease, retries, channel, elapsed, grants, drained>>

\* A full retry queue drops the new entry and reports success.
WithRetry(rs) == IF Len(rs) >= MaxRetryQueue THEN rs ELSE Append(rs, RetryInterval)

enqueue_retry ==
    /\ retries' = WithRetry(retries)
    /\ UNCHANGED <<queue, deficit, saturate_mode, lease, channel, elapsed, grants, drained>>

\* drain_due_retries: the places, of the queue's MaxRetryQueue, whose entry is
\* due, and the entries that stay.
DueRetries(rs) == {i \in 1 .. MaxRetryQueue : i \in DOMAIN rs /\ rs[i] = 0}
RemainingRetries(rs) == Kept(rs, {i \in DOMAIN rs : rs[i] > 0})

\* try_send: how many of n payloads the channel takes before it refuses one.
Accepted(n, ch) == IF n < ChannelCapacity - ch THEN n ELSE ChannelCapacity - ch

\* tick_scheduler forwards the drained deltas until the channel refuses one;
\* that one goes to the back of its queue, and the ones drained behind it are
\* in no queue any more.  Without a low MTU a delta is one payload; with one,
\* see Fragments.
AfterForward(left, sent, taken) ==
    IF taken = Len(sent) THEN left ELSE Enqueued(left, sent[taken + 1])

\* Mutant: the epoch is served before the lease is looked at.
SchedulerEpoch_lease_last ==
    LET ch       == channel + Accepted(Cardinality(DueRetries(retries)), channel)
        newLease == SaturateTick(lease)
        shares   == DrrShares(queue, deficit, saturate_mode)
        sent     == shares.High \o shares.Medium \o shares.Low
        taken    == Accepted(Len(sent), ch)
    IN  /\ elapsed /\ elapsed' = FALSE
        /\ retries' = RemainingRetries(retries)
        /\ lease' = newLease
        /\ saturate_mode' = (newLease # NoLease)
        /\ deficit' = DeficitsOnMode(DrrDeficits(deficit, shares, saturate_mode), saturate_mode')
        /\ channel' = ch + taken
        /\ queue' = AfterForward([c \in Classes |-> rest(queue[c], shares[c])], sent, taken)
        /\ drained' = sent
        /\ UNCHANGED grants

\* One epoch of the loop: retries (one the channel refuses is only logged),
\* then the lease, then one DRR epoch, all under one hold of the lock.
SchedulerEpoch ==
    LET ch       == channel + Accepted(Cardinality(DueRetries(retries)), channel)
        newLease == SaturateTick(lease)
        active   == newLease # NoLease
        def      == DeficitsOnMode(deficit, active)
        shares   == DrrShares(queue, def, active)
        sent     == shares.High \o shares.Medium \o shares.Low
        taken    == Accepted(Len(sent), ch)
    IN  /\ elapsed /\ elapsed' = FALSE
        /\ retries' = RemainingRetries(retries)
        /\ lease' = newLease
        /\ saturate_mode' = active
        /\ deficit' = DrrDeficits(def, shares, active)
        /\ channel' = ch + taken
        /\ queue' = AfterForward([c \in Classes |-> rest(queue[c], shares[c])], sent, taken)
        /\ drained' = sent
        /\ UNCHANGED grants

\* External: the swarm task takes a payload from the channel and publishes it.
SwarmPublish ==
    /\ channel > 0 /\ channel' = channel - 1
    /\ UNCHANGED <<queue, deficit, saturate_mode, lease, retries, elapsed, grants, drained>>

\* External: a second passes.
ClockTick ==
    /\ elapsed' = TRUE
    /\ lease' = IF lease > 0 THEN lease - 1 ELSE lease
    /\ retries' = [i \in DOMAIN retries |-> IF retries[i] > 0 THEN retries[i] - 1 ELSE 0]
    /\ UNCHANGED <<queue, deficit, saturate_mode, channel, grants, drained>>

-----------------------------------------------------------------------------
\* Tokens and signature sets a caller may present.
Tokens == [signed : BOOLEAN, current : BOOLEAN, disasterAlert : BOOLEAN]
Signatures == SUBSET [signer : Managers, valid : BOOLEAN]

Next ==
    \/ \E t \in Tokens : activate_saturate_mode(t) \/ renew_saturate_mode(t)
    \/ \E s \in Signatures : terminate_saturate_mode(s)
    \/ \E d \in Deltas : enqueue_outbound(d)
    \/ enqueue_retry
    \/ SchedulerEpoch
    \/ SwarmPublish
    \/ ClockTick

-----------------------------------------------------------------------------
TypeOK ==
    /\ queue \in [Classes -> Seq(Deltas)] /\ deficit \in [Classes -> Int]
    /\ saturate_mode \in BOOLEAN /\ lease \in NoLease .. LeaseDuration
    /\ retries \in Seq(0 .. RetryInterval) /\ Len(retries) <= MaxRetryQueue
    /\ channel \in 0 .. ChannelCapacity
    /\ elapsed \in BOOLEAN /\ grants \in 0 .. MaxGrants /\ drained \in Seq(Deltas)

\* scheduler.rs tick, with the unconditional reconcile of tick_saturate: no
\* epoch drains more than the link carries, however long a class was idle
\* (its unused deficit must not turn into a burst).
EpochWithinCapacity == bytes(drained) <= LinkCapacity

\* "The boolean can never drift from the lease" (mod.rs
\* reconcile_scheduler_saturate_mode): after every lifecycle event, in any
\* order, the scheduler serves in Saturate_Mode exactly while a lease is held.
MirrorFollowsLease == saturate_mode <=> Saturated

\* "A just-expired lease cannot keep scheduling everything at HIGH priority
\* for even one extra epoch" (api/mod.rs tick loop): an epoch that finds the
\* lease overrun already serves the MEDIUM and LOW floors.
NoExtraSaturateEpoch ==
    [][SchedulerEpoch /\ lease = 0 =>
          \A c \in Classes : queue[c] # <<>> /\ serialized_len[queue[c][1]] <= quantum[c]
                               => queue[c][1] \in ToSet(drained')]_vars

\* Req 12: a delta of a class whose deltas all fit the class's quantum is
\* drained eventually, whatever traffic and however many leases the other
\* classes see.
FitsFloor(c) == \A d \in Deltas : priority[d] = c => serialized_len[d] <= quantum[c]
FloorServed ==
    \A d \in Deltas : FitsFloor(priority[d]) =>
        (d \in ToSet(queue[priority[d]]) ~> d \in ToSet(drained))

\* Req 13.5 (invariant d): a device leaves Saturate_Mode unless managers keep
\* renewing, even if no event ever arrives again.
LeaseEnds == Saturated ~> ~Saturated

\* An epoch never overruns the link and serves by the lease as it is, not as
\* it was (scheduler.rs tick, mod.rs tick_saturate).
EpochIsFair == []EpochWithinCapacity /\ []MirrorFollowsLease /\ NoExtraSaturateEpoch
=============================================================================
