----------------------------- MODULE NodeProofs -----------------------------
(***************************************************************************)
(* Proofs about the machines of a running node: the sandbox that migration *)
(* transforms run in, the peers' backoff, the fragments and BLE chunks,    *)
(* the DRR scheduler and the trust level, for all sets of runs, rows,      *)
(* peers, deltas and root CA keys and all sizes and bounds.                *)
(***************************************************************************)
EXTENDS NodeMachines, OrderLemmas, FiniteSetTheorems, SequenceTheorems, TLAPS

-----------------------------------------------------------------------------
(* The sandbox: interrupts and exits.                                       *)

SandboxSpec == Sandbox!Init /\ [][Sandbox!Next]_(Sandbox!vars)

\* A run can be found only once its deadline is set, and no increment of its
\* epoch comes before that: what interrupts it reaches the deadline.  The guest
\* passes no check after that, so it writes at most the row it was at.
RunInv(r) ==
    /\ phase[r] = "armed" => deadline[r] = epoch[r] + 1
    /\ phase[r] \in {"ready", "check", "body"} => deadline[r] = 1
    /\ r \in executions <=> phase[r] \in {"ready", "check", "body"}
    /\ missed[r] \in {"never", "idle", "parsed", "armed", "ended"}
    /\ r \in timer => phase[r] \in {"check", "body", "ended"}
    /\ r \in revoker \cup interrupted => phase[r] \in {"ready", "check", "body", "ended"}
    /\ late[r] \in {0, 1} /\ (late[r] = 1 => r \in interrupted /\ phase[r] \in {"check", "ended"})

\* The epoch counts the interrupt and the timeout, each at most once.
EpochInv(r) ==
    /\ r \in interrupted => epoch[r] >= 1 /\ r \notin revoker
    /\ epoch[r] <= (IF r \in interrupted THEN 1 ELSE 0)
                   + (IF phase[r] \in {"check", "body", "ended"} /\ r \notin timer THEN 1 ELSE 0)

SandboxInv ==
    /\ Sandbox!TypeOK
    /\ epoch \in [Runs -> Nat] /\ deadline \in [Runs -> Nat] /\ late \in [Runs -> Nat]
    /\ written \in [Runs -> SUBSET Rows]
    /\ \A r \in Runs : RunInv(r) /\ EpochInv(r)
    /\ Sandbox!HandleComesBack

\* No run has started.
LEMMA SandboxInitInv == Sandbox!Init => SandboxInv
  BY DEF Sandbox!Init, SandboxInv, RunInv, EpochInv, Sandbox!TypeOK, Sandbox!Ended, Sandbox!HandleComesBack

\* Every step of a run, of its timeout thread and of a revocation keeps the
\* sandbox's invariant.
LEMMA SandboxStepInv == SandboxInv /\ [Sandbox!Next]_(Sandbox!vars) => SandboxInv'
<1> SUFFICES ASSUME SandboxInv, [Sandbox!Next]_(Sandbox!vars) PROVE SandboxInv'
  OBVIOUS
<1> USE DEF SandboxInv, RunInv, EpochInv, Sandbox!TypeOK, Sandbox!Ended, Sandbox!HandleComesBack
<1>0. /\ DOMAIN Sandbox!Preparation = {"parsed", "armed"}
      /\ Sandbox!Preparation["parsed"] = "arm" /\ Sandbox!Preparation["armed"] = "register"
  BY DEF Sandbox!Preparation
<1>1. ASSUME NEW r \in Runs, Sandbox!ParseModule(r) PROVE SandboxInv'
  BY <1>1 DEF Sandbox!ParseModule, Sandbox!Exit
<1>2. ASSUME NEW r \in Runs, Sandbox!set_epoch_deadline(r) PROVE SandboxInv'
  BY <1>0, <1>2 DEF Sandbox!set_epoch_deadline
<1>3. ASSUME NEW r \in Runs, Sandbox!register(r) PROVE SandboxInv'
  BY <1>0, <1>3 DEF Sandbox!register
<1>4. ASSUME NEW r \in Runs, Sandbox!InstantiateAndCall(r) PROVE SandboxInv'
  BY <1>4 DEF Sandbox!InstantiateAndCall, Sandbox!Exit, Sandbox!Timers
<1>5. ASSUME NEW r \in Runs, Sandbox!EpochCheck(r) PROVE SandboxInv'
  BY <1>5 DEF Sandbox!EpochCheck, Sandbox!Exit
<1>6. ASSUME NEW r \in Runs, Sandbox!RewriteRow(r) PROVE SandboxInv'
  BY <1>6 DEF Sandbox!RewriteRow
<1>7. ASSUME NEW r \in Runs, Sandbox!Spin(r) PROVE SandboxInv'
  BY <1>7 DEF Sandbox!Spin
<1>8. ASSUME NEW r \in Runs, Sandbox!Return(r) PROVE SandboxInv'
  BY <1>8 DEF Sandbox!Return, Sandbox!Exit
<1>9. ASSUME NEW r \in Runs, Sandbox!TimeoutThread(r) PROVE SandboxInv'
  BY <1>9 DEF Sandbox!TimeoutThread
<1>10. ASSUME NEW r \in Runs, Sandbox!interrupt_lookup(r) PROVE SandboxInv'
  BY <1>10 DEF Sandbox!interrupt_lookup
<1>11. ASSUME NEW r \in Runs, Sandbox!interrupt_increment(r) PROVE SandboxInv'
  BY <1>11 DEF Sandbox!interrupt_increment
<1>12. CASE Sandbox!execute_migration_wasm
  <2>0. PICK module \in Sandbox!Modules, S \in SUBSET Rows :
            /\ module = "rewrites" \/ S = {}
            /\ handle' = Sandbox!HandleAfter(module, S) /\ kept' = kept \cup S
    BY <1>12 DEF Sandbox!execute_migration_wasm
  <2>1. handle' = kept'
    BY <2>0 DEF Sandbox!Modules, Sandbox!HandleAfter, Sandbox!consume_fuel
  <2>2. UNCHANGED <<transform, phase, epoch, deadline, executions, timer, revoker, interrupted, missed, late, written, result>>
    BY <1>12 DEF Sandbox!execute_migration_wasm
  <2> QED BY <2>1, <2>2
<1>13. CASE UNCHANGED Sandbox!vars
  BY <1>13 DEF Sandbox!vars
<1> QED BY <1>1, <1>2, <1>3, <1>4, <1>5, <1>6, <1>7, <1>8, <1>9, <1>10, <1>11, <1>12, <1>13 DEF Sandbox!Next

\* The inductive invariant of the sandbox: deadlines, epochs and the registry of
\* runs that can be interrupted.
THEOREM SandboxInvariant == SandboxSpec => []SandboxInv
  BY SandboxInitInv, SandboxStepInv, PTL DEF SandboxSpec

\* The node runs the sandbox or leaves it alone.
LEMMA SandboxRuns == NodeSpec => SandboxSpec
<1>1. NodeInit => Sandbox!Init
  BY DEF NodeInit
<1>2. [NodeNext]_allVars => [Sandbox!Next]_(Sandbox!vars)
  BY DEF NodeNext, allVars, sandboxVars, Sandbox!vars, TrustStep, SchedulerStep, FragmentStep, BleStep, PeerStep,
         MigrationStep, SandboxStep
<1> QED BY <1>1, <1>2, PTL DEF NodeSpec, SandboxSpec

\* execute_native and MigrationExecutionRegistry::interrupt: for every set of
\* runs and every order of lookups, increments and timeouts, a run that a
\* revocation found writes at most the row it was at.
THEOREM InterruptsStick == NodeSpec => []InterruptIsNotForgiven
<1>1. SandboxInv => InterruptIsNotForgiven
  BY DEF SandboxInv, RunInv, InterruptIsNotForgiven, Sandbox!InterruptIsNotForgiven
<1> QED BY SandboxRuns, SandboxInvariant, <1>1, PTL

\* For all runs and interleavings: an interrupt misses a run only before it may
\* write or after it ended (execute_native, interrupt), and the browser build's
\* caller has its rows back (execute_migration_wasm).
THEOREM NothingGetsAway == NodeSpec => []NothingEscapes
<1>1. SandboxInv => NothingEscapes
  BY DEF SandboxInv, RunInv, NothingEscapes, Sandbox!NothingEscapes, Sandbox!MissedAtAnEdge
<1> QED BY SandboxRuns, SandboxInvariant, <1>1, PTL

-----------------------------------------------------------------------------
(* Peers: the backoff after a failed handshake. *)

\* The epoch ticker's flag is shared with the scheduler and left out.
PeerSpec == Peer!Init /\ [][Peer!Next]_peerVars

FailureRecord == [peer : Peers, age : 0 .. RetryBackoff + MaxDelay]

\* Each peer whose backoff lasts has a record as old as its last failure.
Backed(records, history) ==
    /\ records \subseteq FailureRecord /\ history \in [Peers -> Nat]
    /\ \A p \in Peers : history[p] < RetryBackoff => [peer |-> p, age |-> history[p]] \in records

\* The record of a peer's last failure is still there while the backoff lasts,
\* although each new failure of any peer prunes the list.
BackoffInv == handshakes \subseteq Peer!Attempts /\ Backed(failures, sinceFailure)

BackoffTypes == RetryBackoff \in Nat /\ MaxDelay \in Nat /\ MaxExchange \in Nat

\* Ages are counted up to their limit.
LEMMA OlderTypes ==
  ASSUME NEW limit \in Nat, NEW a \in Nat, NEW d \in Nat
  PROVE  Peer!Older(a, d, limit) \in 0..limit
         /\ (Peer!Older(a, d, limit) < limit => Peer!Older(a, d, limit) = a + d)
         /\ (a + d < limit => Peer!Older(a, d, limit) = a + d)
  BY DEF Peer!Older

\* Counting up a failure record changes its age only.
LEMMA OlderRecord ==
  ASSUME NEW r \in FailureRecord, NEW d, NEW limit
  PROVE  [r EXCEPT !.age = Peer!Older(@, d, limit)] = [peer |-> r.peer, age |-> Peer!Older(r.age, d, limit)]
  BY DEF FailureRecord

\* Time that passes counts the records and the history up alike.
LEMMA TimeKeepsBackoff ==
  ASSUME BackoffTypes, NEW d \in Nat, NEW cache, NEW records, NEW table, NEW history, NEW waiting \in SUBSET Peer!Attempts,
         Backed(records, history), Peer!PassTime(d, cache, records, table, history, waiting)
  PROVE  BackoffInv'
<1> DEFINE limit == RetryBackoff + MaxDelay
<1>0. RetryBackoff \in Nat /\ MaxDelay \in Nat /\ limit \in Nat /\ RetryBackoff <= limit
  BY DEF BackoffTypes
<1>1. /\ failures' = {[r EXCEPT !.age = Peer!Older(@, d, limit)] : r \in records}
      /\ sinceFailure' = [p \in Peers |-> Peer!Older(history[p], d, RetryBackoff)]
      /\ handshakes' = {[h EXCEPT !.age = @ + d] : h \in waiting}
      /\ \A h \in waiting : h.age + d <= MaxDelay
  BY DEF Peer!PassTime
<1>2. handshakes' \subseteq Peer!Attempts
  <2>1. ASSUME NEW h \in waiting PROVE [h EXCEPT !.age = @ + d] \in Peer!Attempts
    <3>1. h \in Peer!Attempts /\ h.age + d <= MaxDelay
      BY <1>1
    <3>2. h.age + d \in 0..MaxDelay
      BY <1>0, <3>1 DEF Peer!Attempts
    <3> QED BY <3>1, <3>2 DEF Peer!Attempts
  <2> QED BY <1>1, <2>1
<1> HIDE DEF limit
<1>3. failures' = {[peer |-> r.peer, age |-> Peer!Older(r.age, d, limit)] : r \in records}
  <2>1. \A r \in records : [r EXCEPT !.age = Peer!Older(@, d, limit)] = [peer |-> r.peer, age |-> Peer!Older(r.age, d, limit)]
    BY OlderRecord DEF Backed
  <2> QED BY <1>1, <2>1
<1>4. \A r \in records : r.peer \in Peers /\ r.age \in Nat
  BY <1>0 DEF Backed, FailureRecord, limit
<1>5. failures' \subseteq FailureRecord
  <2>1. \A r \in records : Peer!Older(r.age, d, limit) \in 0..limit
    BY <1>0, <1>4, OlderTypes
  <2> QED BY <1>3, <1>4, <2>1 DEF FailureRecord, limit
<1>6. \A p \in Peers : history[p] \in Nat /\ sinceFailure'[p] = Peer!Older(history[p], d, RetryBackoff)
  BY <1>1 DEF Backed
<1>7. sinceFailure' \in [Peers -> Nat]
  <2>1. ASSUME NEW p \in Peers PROVE Peer!Older(history[p], d, RetryBackoff) \in Nat
    <3>1. history[p] \in Nat
      BY <1>6
    <3>2. Peer!Older(history[p], d, RetryBackoff) \in 0..RetryBackoff
      BY <1>0, <3>1, OlderTypes
    <3> QED BY <1>0, <3>2
  <2> QED BY <1>1, <2>1
<1>8. ASSUME NEW q \in Peers, sinceFailure'[q] < RetryBackoff
      PROVE  [peer |-> q, age |-> sinceFailure'[q]] \in failures'
  <2>1. sinceFailure'[q] = history[q] + d
    BY <1>0, <1>6, <1>8, OlderTypes
  <2>2. history[q] < RetryBackoff /\ history[q] + d < limit
    BY <1>0, <1>6, <1>8, <2>1
  <2>3. [peer |-> q, age |-> history[q]] \in records
    BY <2>2 DEF Backed
  <2>4. Peer!Older(history[q], d, limit) = history[q] + d
    BY <1>0, <1>6, <2>2, OlderTypes
  <2> QED BY <1>3, <2>1, <2>3, <2>4
<1> QED BY <1>2, <1>5, <1>7, <1>8 DEF BackoffInv, Backed

\* A failure drops only records whose backoff is over, and adds its own.
LEMMA RecordedFailure ==
  ASSUME BackoffTypes, BackoffInv, NEW x \in Peer!Attempts
  PROVE  Backed(Peer!record_failure(x), [sinceFailure EXCEPT ![x.peer] = x.age])
<1> DEFINE history == [sinceFailure EXCEPT ![x.peer] = x.age]
           records == Peer!record_failure(x)
<1>1. x.peer \in Peers /\ x.age \in 0..MaxDelay /\ RetryBackoff \in Nat /\ MaxDelay \in Nat
  BY DEF Peer!Attempts, BackoffTypes
<1>2. /\ failures \subseteq FailureRecord /\ sinceFailure \in [Peers -> Nat]
      /\ \A p \in Peers : sinceFailure[p] < RetryBackoff => [peer |-> p, age |-> sinceFailure[p]] \in failures
  BY DEF BackoffInv, Backed
<1>3. records = {r \in failures : r.age - x.age < RetryBackoff} \cup {[peer |-> x.peer, age |-> x.age]}
  BY DEF Peer!record_failure
<1>4. records \subseteq FailureRecord
  BY <1>1, <1>2, <1>3 DEF FailureRecord
<1>5. history \in [Peers -> Nat]
  BY <1>1, <1>2
<1>6. ASSUME NEW q \in Peers, history[q] < RetryBackoff PROVE [peer |-> q, age |-> history[q]] \in records
  <2>1. CASE q = x.peer
    BY <1>1, <1>2, <1>3, <2>1
  <2>2. CASE q # x.peer
    <3>1. history[q] = sinceFailure[q] /\ sinceFailure[q] \in Nat
      BY <1>2, <2>2
    <3>2. [peer |-> q, age |-> sinceFailure[q]] \in failures
      BY <1>2, <1>6, <3>1
    <3>3. sinceFailure[q] - x.age < RetryBackoff
      BY <1>1, <1>6, <3>1
    <3> QED BY <1>3, <3>1, <3>2, <3>3
  <2> QED BY <2>1, <2>2
<1> QED BY <1>4, <1>5, <1>6 DEF Backed

\* A call of initiate_session, however it ends.
LEMMA SessionBackoff ==
  ASSUME BackoffTypes, BackoffInv, NEW x \in Peer!Attempts, NEW waiting \in SUBSET Peer!Attempts,
         Peer!initiate_session(x, waiting)
  PROVE  BackoffInv'
<1>0. Backed(failures, sinceFailure) /\ (\A d \in 0..MaxExchange : d \in Nat) /\ 0 \in Nat
  BY DEF BackoffInv, BackoffTypes
<1>1. CASE Peer!register_session(x, waiting)
  BY <1>0, <1>1, TimeKeepsBackoff DEF Peer!register_session
<1>2. CASE Peer!Refused(x, waiting)
  BY <1>0, <1>2, TimeKeepsBackoff DEF Peer!Refused
<1>3. CASE Peer!HandshakeUnrecorded(x, waiting)
  BY <1>0, <1>3, TimeKeepsBackoff DEF Peer!HandshakeUnrecorded
<1>4. ASSUME NEW d \in 0..MaxExchange, Peer!HandshakeFails(x, d, waiting) PROVE BackoffInv'
  BY <1>0, <1>4, RecordedFailure, TimeKeepsBackoff DEF Peer!HandshakeFails
<1>5. ASSUME NEW d \in 0..MaxExchange, Peer!HandshakeSucceeds(x, d, waiting) PROVE BackoffInv'
  BY <1>0, <1>5, TimeKeepsBackoff DEF Peer!HandshakeSucceeds
<1> QED BY <1>1, <1>2, <1>3, <1>4, <1>5 DEF Peer!initiate_session, Peer!full_ik_handshake

\* Every step of the peers keeps the last failures' records.
LEMMA BackoffStep ==
  ASSUME BackoffTypes, BackoffInv, [Peer!Next]_peerVars
  PROVE  BackoffInv'
<1>0. handshakes \subseteq Peer!Attempts
  BY DEF BackoffInv
<1>1. CASE UNCHANGED <<failures, sinceFailure>> /\ handshakes' \subseteq Peer!Attempts
  BY <1>1 DEF BackoffInv, Backed
<1>2. ASSUME NEW x \in Peer!Attempts, Peer!initiate_noise_session(x) \/ Peer!DirectConnect(x) PROVE BackoffInv'
  BY <1>0, <1>2, SessionBackoff DEF Peer!initiate_noise_session, Peer!DirectConnect
<1>3. CASE Peer!ClockTick
  BY <1>0, <1>3, TimeKeepsBackoff DEF Peer!ClockTick, BackoffInv
<1>4. ASSUME NEW p \in Peers,
             \/ \E h \in {0, MaxHopCount + 1} : Peer!on_peer_discovered(p, h)
             \/ Peer!dial_ble_bridge(p) \/ Peer!touch_peer(p) \/ Peer!remove_peer(p)
      PROVE  UNCHANGED <<failures, sinceFailure>> /\ handshakes' \subseteq Peer!Attempts
  BY <1>0, <1>4 DEF Peer!on_peer_discovered, Peer!dial_ble_bridge, Peer!touch_peer, Peer!remove_peer
<1>5. ASSUME NEW p \in Peers, Peer!ConnectionEstablished(p)
      PROVE  UNCHANGED <<failures, sinceFailure>> /\ handshakes' \subseteq Peer!Attempts
  <2>1. [peer |-> p, age |-> 0, revoked |-> FALSE, keyed |-> FALSE] \in Peer!Attempts
    BY DEF Peer!Attempts, BackoffTypes
  <2> QED BY <1>0, <1>5, <2>1 DEF Peer!ConnectionEstablished
<1>6. ASSUME Peer!PeerEpoch \/ UNCHANGED peerVars
      PROVE  UNCHANGED <<failures, sinceFailure>> /\ handshakes' \subseteq Peer!Attempts
  BY <1>0, <1>6 DEF Peer!PeerEpoch, peerVars
<1> QED BY <1>1, <1>2, <1>3, <1>4, <1>5, <1>6 DEF Peer!Next

\* The node takes the peer machine's steps and leaves its variables alone
\* otherwise.
LEMMA PeerRuns == NodeSpec => PeerSpec
<1>1. NodeInit => Peer!Init
  BY DEF NodeInit
<1>2. [NodeNext]_allVars => [Peer!Next]_peerVars
  BY DEF NodeNext, allVars, transportVars, peerVars, TrustStep, SchedulerStep, FragmentStep, BleStep, PeerStep,
         MigrationStep, SandboxStep
<1> QED BY <1>1, <1>2, PTL DEF NodeSpec, PeerSpec

\* Req 6.6: for every set of peers, every backoff and every delay between an
\* attempt's clock reading, its start and its failure, no handshake starts
\* within the backoff of the peer's last recorded failure, although
\* record_failure prunes the records of all peers (session.rs initiate).
THEOREM BackoffIsKept ==
  ASSUME BackoffTypes
  PROVE  NodeSpec => NoAttemptInBackoff
<1> DEFINE Attempt == \A p \in Peers : sinceFailure[p] < RetryBackoff =>
                        \A x \in Peer!Attempts, waiting \in SUBSET handshakes :
                            x.peer = p => ~Peer!full_ik_handshake(x, waiting)
<1>1. Peer!Init => BackoffInv
  BY DEF Peer!Init, BackoffInv, Backed, BackoffTypes
<1>2. BackoffInv /\ [Peer!Next]_peerVars => BackoffInv'
  BY BackoffStep
<1>3. BackoffInv => [Attempt]_(Peer!vars)
  <2> SUFFICES ASSUME BackoffInv, NEW x \in Peer!Attempts, sinceFailure[x.peer] < RetryBackoff PROVE Peer!in_backoff(x)
    BY DEF Peer!full_ik_handshake, Peer!MayHandshake
  <2>1. x.peer \in Peers /\ x.age \in Nat /\ RetryBackoff \in Nat
    BY DEF Peer!Attempts, BackoffTypes
  <2>2. [peer |-> x.peer, age |-> sinceFailure[x.peer]] \in failures /\ sinceFailure[x.peer] \in Nat
    BY <2>1 DEF BackoffInv, Backed
  <2>3. sinceFailure[x.peer] - x.age < RetryBackoff
    BY <2>1, <2>2
  <2> QED BY <2>2, <2>3 DEF Peer!in_backoff
<1> QED BY <1>1, <1>2, <1>3, PeerRuns, PTL DEF PeerSpec, NoAttemptInBackoff, Peer!NoAttemptInBackoff

-----------------------------------------------------------------------------
\* Products of naturals.
LEMMA TimesMonotone ==
  ASSUME NEW a \in Nat, NEW b \in Nat, NEW m \in Nat, a <= b
  PROVE  a * m <= b * m /\ a * m \in Nat /\ b * m \in Nat
  OBVIOUS

\* A factor that is not zero cancels.
LEMMA TimesCancel ==
  ASSUME NEW a \in Nat \ {0}, NEW m \in Nat, NEW n \in Nat, a * m = a * n
  PROVE  m = n
  OBVIOUS

\* The pieces of a delta are as many as it takes to cover its size.
LEMMA PiecesCover ==
  ASSUME NEW d, NEW mtu \in Nat \ {0}, size[d] \in Nat
  PROVE  /\ Frag!Pieces(d, mtu) \in Nat
         /\ Frag!Pieces(d, mtu) * mtu <= size[d] + mtu - 1
         /\ size[d] <= Frag!Pieces(d, mtu) * mtu
  BY DEF Frag!Pieces

\* Every piece but the last is full.
LEMMA InnerPiece ==
  ASSUME NEW d, NEW mtu \in Nat \ {0}, size[d] \in Nat, NEW i \in Nat, i + 1 < Frag!Pieces(d, mtu)
  PROVE  (i + 1) * mtu < size[d] /\ Frag!Piece(d, mtu, i) = <<i * mtu + 1, (i + 1) * mtu>>
<1> DEFINE q == Frag!Pieces(d, mtu)
<1>1. q \in Nat /\ q * mtu <= size[d] + mtu - 1
  BY PiecesCover
<1>2. i + 2 <= q
  BY <1>1
<1>3. (i + 2) * mtu <= q * mtu
  BY <1>1, <1>2, TimesMonotone
<1>4. (i + 2) * mtu = (i + 1) * mtu + mtu
  OBVIOUS
<1>5. (i + 1) * mtu < size[d]
  BY <1>1, <1>3, <1>4
<1> QED BY <1>5 DEF Frag!Piece

\* The last piece is what is left.
LEMMA LastPiece ==
  ASSUME NEW d, NEW mtu \in Nat \ {0}, size[d] \in Nat, NEW i \in Nat, i + 1 = Frag!Pieces(d, mtu)
  PROVE  Frag!Piece(d, mtu, i) = <<i * mtu + 1, size[d]>>
<1>1. size[d] <= (i + 1) * mtu
  BY PiecesCover
<1> QED BY <1>1 DEF Frag!Piece

-----------------------------------------------------------------------------
(* Fragments. *)

FragSpec == Frag!Init /\ [][Frag!Next]_(Frag!vars)

\* The transmissions over the mesh, and the sizes of what is sent.
FragTypes ==
    /\ Sends \subseteq FragDeltas \X Nat /\ size \in [FragDeltas -> Nat]
    /\ (\A r \in Relayed : r[1] \in FragDeltas) /\ MtuLimit \in Nat

Cut(mtu) == 0 < mtu /\ mtu < MtuLimit

FragmentOf(d, mtu, i) ==
    [delta_id |-> d, fragment_index |-> i, total_fragments |-> Frag!Pieces(d, mtu), payload |-> Frag!Piece(d, mtu, i)]

\* A message of a transmission is the whole delta or one of its fragments.
SentBy(m, d, mtu) ==
    \/ ~Cut(mtu) /\ m = Frag!Whole(d)
    \/ Cut(mtu) /\ \E i \in 0 .. Frag!Pieces(d, mtu) - 1 : m = FragmentOf(d, mtu, i)

\* What prepare_outbound sends: the whole delta, or its fragments in order.
LEMMA Outbound ==
  ASSUME FragTypes, NEW d \in FragDeltas, NEW mtu \in Nat
  PROVE  \A m : m \in Frag!Sent(d, mtu) <=> SentBy(m, d, mtu)
<1> USE DEF Frag!Sent
<1>1. CASE ~Cut(mtu)
  <2>1. Frag!prepare_outbound(d, mtu) = <<Frag!Whole(d)>>
    BY <1>1 DEF Frag!prepare_outbound, Frag!Fragmented, Cut
  <2> QED BY <1>1, <2>1 DEF Frag!ToSet, SentBy
<1>2. CASE Cut(mtu)
  <2>0. mtu \in Nat \ {0} /\ size[d] \in Nat
    BY <1>2 DEF Cut, FragTypes
  <2>1. Frag!Pieces(d, mtu) \in Nat
    BY <2>0, PiecesCover
  <2>2. Frag!prepare_outbound(d, mtu) = [n \in 1 .. Frag!Pieces(d, mtu) |-> FragmentOf(d, mtu, n - 1)]
    BY <1>2 DEF Frag!prepare_outbound, Frag!Fragmented, Cut, Frag!fragment, FragmentOf
  <2>3. Frag!ToSet(Frag!prepare_outbound(d, mtu)) = {FragmentOf(d, mtu, n - 1) : n \in 1 .. Frag!Pieces(d, mtu)}
    BY <2>2 DEF Frag!ToSet
  <2>4. ASSUME NEW i \in 0 .. Frag!Pieces(d, mtu) - 1
        PROVE  i + 1 \in 1 .. Frag!Pieces(d, mtu) /\ (i + 1) - 1 = i
    BY <2>1
  <2>5. ASSUME NEW n \in 1 .. Frag!Pieces(d, mtu) PROVE n - 1 \in 0 .. Frag!Pieces(d, mtu) - 1
    BY <2>1
  <2> HIDE DEF FragmentOf
  <2> QED BY <1>2, <2>3, <2>4, <2>5 DEF SentBy
<1> QED BY <1>1, <1>2

\* The kinds of messages are told apart.
LEMMA Kinds ==
  ASSUME NEW d, NEW x, NEW i
  PROVE  /\ ~Frag!IsFragment(Frag!Whole(d)) /\ ~Frag!IsRelayed(Frag!Whole(d)) /\ Frag!Whole(d).delta_id = d
         /\ Frag!IsFragment(FragmentOf(d, x, i)) /\ ~Frag!IsRelayed(FragmentOf(d, x, i))
         /\ ~Frag!IsFragment(Frag!RelayDelta(d, x)) /\ Frag!IsRelayed(Frag!RelayDelta(d, x))
         /\ Frag!RelayDelta(d, x).delta_id = d /\ Frag!RelayDelta(d, x).target_did = x
         /\ FragmentOf(d, x, i).delta_id = d /\ FragmentOf(d, x, i).fragment_index = i
         /\ FragmentOf(d, x, i).total_fragments = Frag!Pieces(d, x)
         /\ FragmentOf(d, x, i).payload = Frag!Piece(d, x, i)
  BY DEF Frag!IsFragment, Frag!IsRelayed, Frag!Whole, Frag!RelayDelta, FragmentOf

\* Each slot is the piece that its own MTU gives.
CutWith(d, slots, total, mtuOf) ==
    \A i \in 0 .. total - 1 : /\ mtuOf[i] \in Nat \ {0} /\ Frag!Pieces(d, mtuOf[i]) = total
                              /\ slots[i] = Frag!Piece(d, mtuOf[i], i)

\* All slots of one fragmentation make the delta.
LEMMA Reassembles ==
  ASSUME NEW d, NEW mtu \in Nat \ {0}, size[d] \in Nat, NEW total \in Nat \ {0}, total = Frag!Pieces(d, mtu), NEW slots,
         DOMAIN slots = 0 .. total - 1, \A i \in 0 .. total - 1 : slots[i] = Frag!Piece(d, mtu, i)
  PROVE  Frag!DeltaBytes(d, slots, total)
<1>1. slots[0][1] = 1
  <2>1. slots[0] = Frag!Piece(d, mtu, 0)
    OBVIOUS
  <2>2. Frag!Piece(d, mtu, 0)[1] = 0 * mtu + 1
    BY DEF Frag!Piece
  <2> QED BY <2>1, <2>2
<1>2. slots[total - 1][2] = size[d]
  <2>1. total - 1 \in Nat /\ (total - 1) + 1 = Frag!Pieces(d, mtu) /\ slots[total - 1] = Frag!Piece(d, mtu, total - 1)
    OBVIOUS
  <2>2. Frag!Piece(d, mtu, total - 1) = <<(total - 1) * mtu + 1, size[d]>>
    BY <2>1, LastPiece
  <2> QED BY <2>1, <2>2
<1>3. ASSUME NEW i \in 0 .. total - 2 PROVE slots[i + 1][1] = slots[i][2] + 1
  <2>1. i \in Nat /\ i + 1 < Frag!Pieces(d, mtu) /\ slots[i] = Frag!Piece(d, mtu, i) /\ slots[i + 1] = Frag!Piece(d, mtu, i + 1)
    OBVIOUS
  <2>2. Frag!Piece(d, mtu, i) = <<i * mtu + 1, (i + 1) * mtu>>
    BY <2>1, InnerPiece
  <2>3. Frag!Piece(d, mtu, i + 1)[1] = (i + 1) * mtu + 1
    BY DEF Frag!Piece
  <2> QED BY <2>1, <2>2, <2>3
<1> QED BY <1>1, <1>2, <1>3 DEF Frag!DeltaBytes

\* Slots whose pieces continue one another are all cut with the MTU of the
\* first one: pieces of two fragmentations never fit together.
LEMMA OneCut ==
  ASSUME NEW d, size[d] \in Nat, NEW total \in Nat \ {0}, NEW slots, NEW mtuOf,
         CutWith(d, slots, total, mtuOf), Frag!DeltaBytes(d, slots, total)
  PROVE  \A i \in 0 .. total - 1 : mtuOf[i] = mtuOf[0]
<1> DEFINE P == {n \in Nat : n <= total - 1 => mtuOf[n] = mtuOf[0]}
<1>1. 0 \in P
  OBVIOUS
<1>2. ASSUME NEW n \in P PROVE n + 1 \in P
  <2> SUFFICES ASSUME n + 1 <= total - 1 PROVE mtuOf[n + 1] = mtuOf[0]
    OBVIOUS
  <2>1. n \in 0 .. total - 2 /\ n \in 0 .. total - 1 /\ n + 1 \in 0 .. total - 1 /\ n \in Nat /\ mtuOf[n] = mtuOf[0]
    OBVIOUS
  <2>2. slots[n + 1][1] = slots[n][2] + 1
    BY <2>1 DEF Frag!DeltaBytes
  <2>3. mtuOf[n] \in Nat \ {0} /\ n + 1 < Frag!Pieces(d, mtuOf[n]) /\ slots[n] = Frag!Piece(d, mtuOf[n], n)
    BY <2>1 DEF CutWith
  <2>4. slots[n] = <<n * mtuOf[n] + 1, (n + 1) * mtuOf[n]>>
    BY <2>1, <2>3, InnerPiece
  <2>5. slots[n + 1][1] = (n + 1) * mtuOf[n + 1] + 1
    BY <2>1 DEF Frag!Piece, CutWith
  <2>6. mtuOf[n + 1] \in Nat
    BY <2>1 DEF CutWith
  <2>7. (n + 1) * mtuOf[n + 1] \in Nat /\ (n + 1) * mtuOf[n] \in Nat
    BY <2>1, <2>3, <2>6, TimesMonotone
  <2>8. (n + 1) * mtuOf[n + 1] = (n + 1) * mtuOf[n]
    BY <2>2, <2>4, <2>5, <2>7
  <2> QED BY <2>1, <2>3, <2>6, <2>8, TimesCancel
<1> HIDE DEF P
<1>3. P = Nat
  <2>1. P \in SUBSET Nat
    BY DEF P
  <2> QED BY <1>1, <1>2, <2>1, SetInduction
<1> QED BY <1>3 DEF P

\* A slot holds the payload of a fragment that arrived.
Holds(A, d, total, i, p) ==
    \E mtu \in Nat : /\ <<d, mtu>> \in Sends /\ Cut(mtu) /\ Frag!Pieces(d, mtu) = total
                     /\ FragmentOf(d, mtu, i) \in A /\ p = Frag!Piece(d, mtu, i)

\* The slots of a delta, full or not.
Slots(A, d, e) ==
    /\ d \in FragDeltas /\ e = [total |-> e.total, slots |-> e.slots] /\ e.total \in Nat \ {0}
    /\ DOMAIN e.slots \subseteq 0 .. e.total - 1
    /\ \A i \in DOMAIN e.slots : Holds(A, d, e.total, i, e.slots[i])

\* What is pending is begun and not complete.
Partial(A, d, e) == Slots(A, d, e) /\ DOMAIN e.slots \notin {{}, 0 .. e.total - 1}

\* What may be under way.
Sendable(m) ==
    (\E s \in Sends : SentBy(m, s[1], s[2])) \/ (\E r \in Relayed : m = Frag!RelayDelta(r[1], r[2]))

FragInv ==
    /\ arrived \subseteq network
    /\ \A m \in network : Sendable(m)
    /\ gathered \in [FragDeltas -> SUBSET arrived]
    /\ \A d \in DOMAIN pending : Partial(gathered[d], d, pending[d])
    /\ Frag!OnlyWholeDeltas

\* What add_fragment finds, once the evicted delta is gone.
KeptBy(gone) == Frag!RestrictTo(pending, DOMAIN pending \ gone)
EntryFor(f, gone) ==
    IF f.delta_id \in DOMAIN KeptBy(gone) THEN KeptBy(gone)[f.delta_id]
    ELSE [total |-> f.total_fragments, slots |-> <<>>]
SlotsWith(f, gone) == Frag!Put(EntryFor(f, gone).slots, f.fragment_index, f.payload)
Entered(f, gone) == [total |-> EntryFor(f, gone).total, slots |-> SlotsWith(f, gone)]

\* The ways add_fragment ends: refused, complete, stored.
AddRefused(f, gone) ==
    EntryFor(f, gone).total # f.total_fragments /\ pending' = KeptBy(gone) /\ UNCHANGED <<inbound, garbled>>
AddComplete(f, gone) ==
    /\ EntryFor(f, gone).total = f.total_fragments
    /\ DOMAIN SlotsWith(f, gone) = 0 .. EntryFor(f, gone).total - 1
    /\ pending' = Frag!RestrictTo(KeptBy(gone), DOMAIN KeptBy(gone) \ {f.delta_id})
    /\ Frag!HandIn(f.delta_id, SlotsWith(f, gone), EntryFor(f, gone).total)
AddStored(f, gone) ==
    /\ EntryFor(f, gone).total = f.total_fragments
    /\ DOMAIN SlotsWith(f, gone) # 0 .. EntryFor(f, gone).total - 1
    /\ pending' = Frag!Put(KeptBy(gone), f.delta_id, Entered(f, gone))
    /\ UNCHANGED <<inbound, garbled>>

\* The arrivals that count: those of an evicted delta are forgotten.
Gathered(f, gone) ==
    gathered' = [k \in FragDeltas |->
                IF k \in gone THEN {} ELSE IF k = f.delta_id THEN gathered[k] \cup {f} ELSE gathered[k]]

\* What add_fragment does with a fragment, by cases.
LEMMA AddCases ==
  ASSUME FragInv, NEW f, NEW gone, Frag!add_fragment(f, gone)
  PROVE  /\ Gathered(f, gone)
         /\ AddRefused(f, gone) \/ AddComplete(f, gone) \/ AddStored(f, gone)
<1> DEFINE e == EntryFor(f, gone)
<1>1. e = [total |-> e.total, slots |-> e.slots]
  <2>1. CASE f.delta_id \in DOMAIN KeptBy(gone)
    <3>1. f.delta_id \in DOMAIN pending /\ e = pending[f.delta_id]
      BY <2>1 DEF KeptBy, Frag!RestrictTo, EntryFor
    <3> QED BY <3>1 DEF FragInv, Partial, Slots
  <2>2. CASE f.delta_id \notin DOMAIN KeptBy(gone)
    BY <2>2 DEF EntryFor
  <2> QED BY <2>1, <2>2
<1>2. [e EXCEPT !.slots = SlotsWith(f, gone)] = Entered(f, gone)
  <2> HIDE DEF e
  <2>1. [e EXCEPT !.slots = SlotsWith(f, gone)] = [total |-> e.total, slots |-> SlotsWith(f, gone)]
    BY <1>1
  <2> QED BY <2>1 DEF Entered, e
<1>3. Gathered(f, gone)
  BY DEF Frag!add_fragment, Gathered
<1>4. \/ ~Frag!Consistent(e, f) /\ pending' = KeptBy(gone) /\ UNCHANGED <<inbound, garbled>>
      \/ /\ Frag!Consistent(e, f) /\ DOMAIN SlotsWith(f, gone) = 0 .. e.total - 1
         /\ pending' = Frag!RestrictTo(KeptBy(gone), DOMAIN KeptBy(gone) \ {f.delta_id})
         /\ Frag!HandIn(f.delta_id, SlotsWith(f, gone), e.total)
      \/ /\ Frag!Consistent(e, f) /\ DOMAIN SlotsWith(f, gone) # 0 .. e.total - 1
         /\ pending' = Frag!Put(KeptBy(gone), f.delta_id, [e EXCEPT !.slots = SlotsWith(f, gone)])
         /\ UNCHANGED <<inbound, garbled>>
  BY Zenon DEF Frag!add_fragment, EntryFor, KeptBy, SlotsWith
<1>5. Frag!Consistent(e, f) <=> e.total = f.total_fragments
  BY DEF Frag!Consistent
<1> HIDE DEF e
<1>6. AddRefused(f, gone) \/ AddComplete(f, gone) \/ AddStored(f, gone)
  BY <1>2, <1>4, <1>5 DEF AddRefused, AddComplete, AddStored, e
<1> QED BY <1>3, <1>6

\* Arrivals are never taken back.
LEMMA HoldsOn ==
  ASSUME NEW A, NEW B, A \subseteq B, NEW d, NEW e
  PROVE  (Slots(A, d, e) => Slots(B, d, e)) /\ (Partial(A, d, e) => Partial(B, d, e))
  BY DEF Slots, Partial, Holds

\* A fragment that arrived may be put into its slot.
LEMMA EnteredSlots ==
  ASSUME FragTypes, FragInv, NEW d \in FragDeltas, NEW A, gathered[d] \subseteq A, NEW gone,
         NEW mtu \in Nat, <<d, mtu>> \in Sends, Cut(mtu), NEW i \in 0 .. Frag!Pieces(d, mtu) - 1,
         FragmentOf(d, mtu, i) \in A, EntryFor(FragmentOf(d, mtu, i), gone).total = Frag!Pieces(d, mtu)
  PROVE  /\ Slots(A, d, Entered(FragmentOf(d, mtu, i), gone))
         /\ i \in DOMAIN Entered(FragmentOf(d, mtu, i), gone).slots
<1> DEFINE f == FragmentOf(d, mtu, i)
           e == EntryFor(f, gone)
           s == SlotsWith(f, gone)
           total == Frag!Pieces(d, mtu)
<1>0. f.delta_id = d /\ f.fragment_index = i /\ f.total_fragments = total /\ f.payload = Frag!Piece(d, mtu, i)
  BY Kinds
<1>1. total \in Nat \ {0}
  <2>1. total \in Nat
    BY PiecesCover DEF FragTypes, Cut
  <2> QED BY <2>1
<1>2. /\ DOMAIN e.slots \subseteq 0 .. total - 1
      /\ \A k \in DOMAIN e.slots : Holds(A, d, total, k, e.slots[k])
  <2>1. CASE d \in DOMAIN KeptBy(gone)
    <3>1. d \in DOMAIN pending /\ e = pending[d]
      BY <1>0, <2>1 DEF KeptBy, Frag!RestrictTo, EntryFor
    <3>2. Slots(gathered[d], d, e)
      BY <3>1 DEF FragInv, Partial
    <3>3. Slots(A, d, e)
      BY <3>2, HoldsOn
    <3> QED BY <3>3 DEF Slots
  <2>2. CASE d \notin DOMAIN KeptBy(gone)
    <3>1. e.slots = <<>>
      BY <1>0, <2>2 DEF EntryFor
    <3> QED BY <3>1
  <2> QED BY <2>1, <2>2
<1> HIDE DEF e, total
<1>3. s = [k \in DOMAIN e.slots \cup {i} |-> IF k = i THEN Frag!Piece(d, mtu, i) ELSE e.slots[k]]
  BY <1>0 DEF SlotsWith, Frag!Put, e
<1>4. DOMAIN s \subseteq 0 .. total - 1
  BY <1>2, <1>3 DEF total
<1>5. ASSUME NEW k \in DOMAIN s PROVE Holds(A, d, total, k, s[k])
  <2>1. CASE k = i
    <3>1. s[k] = Frag!Piece(d, mtu, k)
      BY <1>3, <2>1
    <3> QED BY <2>1, <3>1 DEF Holds, total
  <2>2. CASE k # i
    <3>1. k \in DOMAIN e.slots /\ s[k] = e.slots[k]
      BY <1>3, <2>2
    <3> QED BY <1>2, <3>1
  <2> QED BY <2>1, <2>2
<1>6. Entered(f, gone) = [total |-> total, slots |-> s]
  BY DEF Entered, total, e
<1> HIDE DEF s, f
<1>7. Entered(f, gone).total = total /\ Entered(f, gone).slots = s
  BY <1>6
<1>8. i \in DOMAIN s
  BY <1>3
<1>9. Slots(A, d, Entered(f, gone))
  BY <1>1, <1>4, <1>5, <1>6, <1>7 DEF Slots
<1> QED BY <1>7, <1>8, <1>9 DEF f

\* The slots come from fragmentations with the same number of pieces.
CutFrom(A, d, e, mtuOf) ==
    \A i \in 0 .. e.total - 1 :
        /\ mtuOf[i] \in Nat /\ <<d, mtuOf[i]>> \in Sends /\ Cut(mtuOf[i]) /\ Frag!Pieces(d, mtuOf[i]) = e.total
        /\ FragmentOf(d, mtuOf[i], i) \in A /\ e.slots[i] = Frag!Piece(d, mtuOf[i], i)

\* Every slot of a full array has its fragmentation.
LEMMA CutSlots ==
  ASSUME FragTypes, NEW A, NEW d, NEW e, Slots(A, d, e), DOMAIN e.slots = 0 .. e.total - 1
  PROVE  /\ d \in FragDeltas /\ size[d] \in Nat /\ e.total \in Nat \ {0} /\ 0 \in 0 .. e.total - 1
         /\ \E mtuOf : CutFrom(A, d, e, mtuOf) /\ CutWith(d, e.slots, e.total, mtuOf)
<1> DEFINE Cutting(i, mtu) == /\ <<d, mtu>> \in Sends /\ Cut(mtu) /\ Frag!Pieces(d, mtu) = e.total
                              /\ FragmentOf(d, mtu, i) \in A /\ e.slots[i] = Frag!Piece(d, mtu, i)
           mtuOf == [i \in 0 .. e.total - 1 |-> CHOOSE mtu \in Nat : Cutting(i, mtu)]
<1>0. d \in FragDeltas /\ size[d] \in Nat /\ e.total \in Nat \ {0} /\ 0 \in 0 .. e.total - 1
  BY DEF Slots, FragTypes
<1>1. ASSUME NEW i \in 0 .. e.total - 1 PROVE mtuOf[i] \in Nat /\ Cutting(i, mtuOf[i])
  <2>1. \E mtu \in Nat : Cutting(i, mtu)
    BY DEF Slots, Holds
  <2> HIDE DEF Cutting
  <2> QED BY <2>1
<1> HIDE DEF mtuOf
<1>2. CutFrom(A, d, e, mtuOf)
  BY <1>1 DEF CutFrom
<1>3. ASSUME NEW i \in 0 .. e.total - 1
      PROVE  /\ mtuOf[i] \in Nat \ {0} /\ Frag!Pieces(d, mtuOf[i]) = e.total
             /\ e.slots[i] = Frag!Piece(d, mtuOf[i], i)
  <2>1. mtuOf[i] \in Nat /\ Cutting(i, mtuOf[i])
    BY <1>1
  <2> QED BY <2>1 DEF Cut
<1>4. CutWith(d, e.slots, e.total, mtuOf)
  BY <1>3 DEF CutWith
<1> QED BY <1>0, <1>2, <1>4

\* Slots whose bytes are the delta's are one fragmentation of it.
LEMMA WholeSlots ==
  ASSUME FragTypes, NEW A, NEW d, NEW e, Slots(A, d, e), DOMAIN e.slots = 0 .. e.total - 1,
         Frag!DeltaBytes(d, e.slots, e.total)
  PROVE  \E s \in Sends : s[1] = d /\ Frag!Sent(s[1], s[2]) \subseteq A
<1>0. d \in FragDeltas /\ size[d] \in Nat /\ e.total \in Nat \ {0} /\ 0 \in 0 .. e.total - 1
  BY CutSlots
<1>1. PICK mtuOf : CutFrom(A, d, e, mtuOf) /\ CutWith(d, e.slots, e.total, mtuOf)
  BY CutSlots
<1>4. \A i \in 0 .. e.total - 1 : mtuOf[i] = mtuOf[0]
  BY <1>0, <1>1, OneCut
<1>5. /\ mtuOf[0] \in Nat /\ <<d, mtuOf[0]>> \in Sends /\ Cut(mtuOf[0]) /\ Frag!Pieces(d, mtuOf[0]) = e.total
      /\ \A i \in 0 .. e.total - 1 : FragmentOf(d, mtuOf[0], i) \in A
  BY <1>0, <1>1, <1>4 DEF CutFrom
<1>6. \A m : SentBy(m, d, mtuOf[0]) => m \in A
  BY <1>5 DEF SentBy
<1>7. Frag!Sent(d, mtuOf[0]) \subseteq A
  BY <1>0, <1>5, <1>6, Outbound
<1> QED BY <1>5, <1>7

\* Two fragmentations that a receiver cannot tell apart, both under way.
Twin(A, d) ==
    \E s, t \in Sends :
        /\ s[1] = d /\ t[1] = d /\ s[2] # t[2] /\ Frag!Fragmented(s[2]) /\ Frag!Fragmented(t[2])
        /\ Frag!Pieces(d, s[2]) = Frag!Pieces(d, t[2])
        /\ Frag!Sent(d, s[2]) \cap A # {} /\ Frag!Sent(d, t[2]) \cap A # {}

\* Slots whose bytes are no delta's hold pieces of two fragmentations.
LEMMA TwinSlots ==
  ASSUME FragTypes, NEW A, NEW d, NEW e, Slots(A, d, e), DOMAIN e.slots = 0 .. e.total - 1,
         ~Frag!DeltaBytes(d, e.slots, e.total)
  PROVE  Twin(A, d)
<1>0. d \in FragDeltas /\ size[d] \in Nat /\ e.total \in Nat \ {0} /\ 0 \in 0 .. e.total - 1
  BY CutSlots
<1>1. PICK mtuOf : CutFrom(A, d, e, mtuOf) /\ CutWith(d, e.slots, e.total, mtuOf)
  BY CutSlots
<1>2. ~\A i \in 0 .. e.total - 1 : mtuOf[i] = mtuOf[0]
  <2> SUFFICES ASSUME \A i \in 0 .. e.total - 1 : mtuOf[i] = mtuOf[0] PROVE FALSE
    OBVIOUS
  <2>1. mtuOf[0] \in Nat \ {0} /\ e.total = Frag!Pieces(d, mtuOf[0])
    BY <1>0, <1>1 DEF CutWith
  <2>2. \A i \in 0 .. e.total - 1 : e.slots[i] = Frag!Piece(d, mtuOf[0], i)
    BY <1>1 DEF CutWith
  <2> QED BY <1>0, <2>1, <2>2, Reassembles
<1>3. PICK j \in 0 .. e.total - 1 : mtuOf[j] # mtuOf[0]
  BY <1>2
<1>4. ASSUME NEW i \in 0 .. e.total - 1
      PROVE  /\ <<d, mtuOf[i]>> \in Sends /\ Frag!Fragmented(mtuOf[i]) /\ Frag!Pieces(d, mtuOf[i]) = e.total
             /\ Frag!Sent(d, mtuOf[i]) \cap A # {}
  <2>1. /\ mtuOf[i] \in Nat /\ <<d, mtuOf[i]>> \in Sends /\ Cut(mtuOf[i]) /\ Frag!Pieces(d, mtuOf[i]) = e.total
        /\ FragmentOf(d, mtuOf[i], i) \in A
    BY <1>1 DEF CutFrom
  <2>2. SentBy(FragmentOf(d, mtuOf[i], i), d, mtuOf[i])
    BY <2>1 DEF SentBy
  <2>3. FragmentOf(d, mtuOf[i], i) \in Frag!Sent(d, mtuOf[i])
    BY <1>0, <2>1, <2>2, Outbound
  <2> QED BY <2>1, <2>3 DEF Cut, Frag!Fragmented
<1>5. PICK s, t : s = <<d, mtuOf[0]>> /\ t = <<d, mtuOf[j]>>
  OBVIOUS
<1>6. s \in Sends /\ t \in Sends /\ s[1] = d /\ t[1] = d /\ s[2] = mtuOf[0] /\ t[2] = mtuOf[j]
  BY <1>0, <1>4, <1>5
<1>7. /\ Frag!Fragmented(s[2]) /\ Frag!Fragmented(t[2]) /\ Frag!Pieces(d, s[2]) = Frag!Pieces(d, t[2])
      /\ Frag!Sent(d, s[2]) \cap A # {} /\ Frag!Sent(d, t[2]) \cap A # {}
  BY <1>0, <1>4, <1>6
<1> QED BY <1>3, <1>6, <1>7 DEF Twin

\* What the network may carry.
LEMMA Carried ==
  ASSUME FragTypes, FragInv, NEW m \in network
  PROVE  \/ \E d \in FragDeltas, mtu \in Nat : <<d, mtu>> \in Sends /\ ~Cut(mtu) /\ m = Frag!Whole(d)
         \/ \E d \in FragDeltas, mtu \in Nat : /\ <<d, mtu>> \in Sends /\ Cut(mtu)
                                               /\ \E i \in 0 .. Frag!Pieces(d, mtu) - 1 : m = FragmentOf(d, mtu, i)
         \/ \E r \in Relayed : m = Frag!RelayDelta(r[1], r[2])
<1>1. ASSUME NEW s \in Sends, SentBy(m, s[1], s[2])
      PROVE  \E d \in FragDeltas, mtu \in Nat :
                /\ <<d, mtu>> \in Sends
                /\ \/ ~Cut(mtu) /\ m = Frag!Whole(d)
                   \/ Cut(mtu) /\ \E i \in 0 .. Frag!Pieces(d, mtu) - 1 : m = FragmentOf(d, mtu, i)
  <2>1. s[1] \in FragDeltas /\ s[2] \in Nat /\ <<s[1], s[2]>> \in Sends
    BY DEF FragTypes
  <2> QED BY <1>1, <2>1 DEF SentBy
<1> QED BY <1>1 DEF FragInv, Sendable

\* What entered before still stands when more has arrived.
LEMMA EnteredStands ==
  ASSUME FragInv, arrived \subseteq arrived',
         \A d \in inbound' \ inbound : \/ \E s \in Sends : s[1] = d /\ Frag!Sent(s[1], s[2]) \subseteq arrived'
                                       \/ Frag!RelayDelta(d, Local) \in arrived',
         \A d \in garbled' \ garbled : Twin(arrived', d)
  PROVE  Frag!OnlyWholeDeltas'
<1>1. Frag!WholeArrived'
  BY DEF FragInv, Frag!OnlyWholeDeltas, Frag!WholeArrived
<1>2. ASSUME NEW d \in garbled' PROVE Twin(arrived', d)
  <2>1. CASE d \in garbled
    <3>1. Twin(arrived, d)
      BY <2>1 DEF FragInv, Frag!OnlyWholeDeltas, Frag!GarbledByTwin, Twin
    <3> QED BY <3>1 DEF Twin
  <2> QED BY <2>1
<1>3. Frag!GarbledByTwin'
  BY <1>2 DEF Frag!GarbledByTwin, Twin
<1> QED BY <1>1, <1>3 DEF Frag!OnlyWholeDeltas

\* The buffer after a step that takes no fragment in.
LEMMA PendingStands ==
  ASSUME FragInv, arrived \subseteq arrived', pending' = pending, gathered' \in [FragDeltas -> SUBSET arrived'],
         \A d \in FragDeltas : gathered[d] \subseteq gathered'[d]
  PROVE  \A d \in DOMAIN pending' : Partial(gathered'[d], d, pending'[d])
<1> SUFFICES ASSUME NEW d \in DOMAIN pending PROVE Partial(gathered'[d], d, pending[d])
  OBVIOUS
<1>1. Partial(gathered[d], d, pending[d]) /\ d \in FragDeltas
  BY DEF FragInv, Partial, Slots
<1> QED BY <1>1, HoldsOn

\* Only whole deltas come in: a fragment.
LEMMA FragmentSound ==
  ASSUME FragTypes, FragInv, NEW d \in FragDeltas, NEW mtu \in Nat, <<d, mtu>> \in Sends, Cut(mtu),
         NEW i \in 0 .. Frag!Pieces(d, mtu) - 1, NEW gone, d \notin gone, Frag!add_fragment(FragmentOf(d, mtu, i), gone),
         FragmentOf(d, mtu, i) \in network, arrived' = arrived \cup {FragmentOf(d, mtu, i)}, network' = network
  PROVE  FragInv'
<1> DEFINE f == FragmentOf(d, mtu, i)
           x == Entered(f, gone)
<1>0. f.delta_id = d /\ f.fragment_index = i /\ f.total_fragments = Frag!Pieces(d, mtu)
  BY Kinds
<1>1. Gathered(f, gone) /\ (AddRefused(f, gone) \/ AddComplete(f, gone) \/ AddStored(f, gone))
  BY AddCases
<1>2. f \in arrived' /\ arrived \subseteq arrived' /\ arrived' \subseteq network'
  BY DEF FragInv
<1> HIDE DEF f
<1>3. gathered' \in [FragDeltas -> SUBSET arrived'] /\ gathered'[d] = gathered[d] \cup {f}
  <2>1. \A k \in FragDeltas : gathered[k] \subseteq arrived'
    BY <1>2 DEF FragInv
  <2> QED BY <1>0, <1>1, <1>2, <2>1 DEF Gathered
<1>4. ASSUME NEW k \in DOMAIN KeptBy(gone) PROVE Partial(gathered'[k], k, KeptBy(gone)[k])
  <2>1. k \in DOMAIN pending /\ KeptBy(gone)[k] = pending[k] /\ k \notin gone
    BY DEF KeptBy, Frag!RestrictTo
  <2>2. Partial(gathered[k], k, pending[k]) /\ k \in FragDeltas
    BY <2>1 DEF FragInv, Partial, Slots
  <2>3. gathered[k] \subseteq gathered'[k]
    BY <1>1, <2>1, <2>2 DEF Gathered
  <2> QED BY <2>1, <2>2, <2>3, HoldsOn
<1>5. ASSUME EntryFor(f, gone).total = f.total_fragments
      PROVE  Slots(gathered'[d], d, x) /\ x.slots = SlotsWith(f, gone) /\ x.total = EntryFor(f, gone).total
             /\ i \in DOMAIN x.slots
  <2>1. f \in gathered'[d] /\ gathered[d] \subseteq gathered'[d]
    BY <1>3
  <2>2. Slots(gathered'[d], d, x) /\ i \in DOMAIN x.slots
    BY <1>0, <1>5, <2>1, EnteredSlots DEF f
  <2> QED BY <2>2 DEF Entered
<1> HIDE DEF x
<1>6. gathered'[d] \subseteq arrived'
  BY <1>3
<1>7. (\A k \in DOMAIN pending' : Partial(gathered'[k], k, pending'[k])) /\ Frag!OnlyWholeDeltas'
  <2>1. CASE AddRefused(f, gone)
    <3>1. pending' = KeptBy(gone) /\ inbound' = inbound /\ garbled' = garbled
      BY <2>1 DEF AddRefused
    <3> QED BY <1>2, <1>4, <3>1, EnteredStands
  <2>2. CASE AddComplete(f, gone)
    <3>1. \A k \in DOMAIN pending' : k \in DOMAIN KeptBy(gone) /\ pending'[k] = KeptBy(gone)[k]
      BY <2>2 DEF AddComplete, Frag!RestrictTo
    <3>2. \A k \in DOMAIN pending' : Partial(gathered'[k], k, pending'[k])
      BY <1>4, <3>1
    <3>3. Slots(gathered'[d], d, x) /\ DOMAIN x.slots = 0 .. x.total - 1 /\ Frag!HandIn(d, x.slots, x.total)
      BY <1>0, <1>5, <2>2 DEF AddComplete
    <3>4. CASE Frag!DeltaBytes(d, x.slots, x.total)
      <4>1. PICK s \in Sends : s[1] = d /\ Frag!Sent(s[1], s[2]) \subseteq gathered'[d]
        BY <3>3, <3>4, WholeSlots
      <4>2. inbound' = inbound \cup {d} /\ garbled' = garbled
        BY <3>3, <3>4 DEF Frag!HandIn
      <4>3. Frag!Sent(s[1], s[2]) \subseteq arrived'
        BY <1>6, <4>1
      <4> QED BY <1>2, <3>2, <4>1, <4>2, <4>3, EnteredStands
    <3>5. CASE ~Frag!DeltaBytes(d, x.slots, x.total)
      <4>1. Twin(gathered'[d], d)
        BY <3>3, <3>5, TwinSlots
      <4>2. Twin(arrived', d)
        BY <1>6, <4>1 DEF Twin
      <4>3. inbound' = inbound /\ garbled' \subseteq garbled \cup {d}
        BY <3>3, <3>5 DEF Frag!HandIn
      <4> QED BY <1>2, <3>2, <4>2, <4>3, EnteredStands
    <3> QED BY <3>4, <3>5
  <2>3. CASE AddStored(f, gone)
    <3>1. Partial(gathered'[d], d, x)
      BY <1>5, <2>3 DEF AddStored, Partial
    <3>2. \A k \in DOMAIN pending' : (k = d /\ pending'[k] = x) \/ (k \in DOMAIN KeptBy(gone) /\ pending'[k] = KeptBy(gone)[k])
      BY <1>0, <2>3 DEF AddStored, Frag!Put, x
    <3>3. inbound' = inbound /\ garbled' = garbled
      BY <2>3 DEF AddStored
    <3>4. \A k \in DOMAIN pending' : Partial(gathered'[k], k, pending'[k])
      BY <1>4, <3>1, <3>2
    <3> QED BY <1>2, <3>3, <3>4, EnteredStands
  <2> QED BY <1>1, <2>1, <2>2, <2>3
<1>8. \A m \in network' : Sendable(m)
  BY DEF FragInv
<1> QED BY <1>2, <1>3, <1>7, <1>8 DEF FragInv

\* Nothing is under way at first.
LEMMA FragInitInv == Frag!Init => FragInv
  BY DEF Frag!Init, FragInv, Frag!OnlyWholeDeltas, Frag!WholeArrived, Frag!GarbledByTwin

\* The fragment's own delta is never the one evicted for it.
LEMMA NotItself ==
  ASSUME NEW d, NEW gone \in Frag!EvictionChoices(d)
  PROVE  d \notin gone
  BY DEF Frag!EvictionChoices

\* Every step of the fragments keeps the invariant.
LEMMA FragStep ==
  ASSUME FragTypes, FragInv, [Frag!Next]_(Frag!vars)
  PROVE  FragInv'
<1>1. ASSUME arrived \subseteq arrived', arrived' \subseteq network', UNCHANGED <<pending, garbled>>,
             gathered' \in [FragDeltas -> SUBSET arrived'], \A d \in FragDeltas : gathered[d] \subseteq gathered'[d],
             \A m \in network' : Sendable(m),
             \A d \in inbound' \ inbound : \/ \E s \in Sends : s[1] = d /\ Frag!Sent(s[1], s[2]) \subseteq arrived'
                                           \/ Frag!RelayDelta(d, Local) \in arrived'
      PROVE  FragInv'
  <2>1. \A k \in DOMAIN pending' : Partial(gathered'[k], k, pending'[k])
    BY <1>1, PendingStands
  <2>2. Frag!OnlyWholeDeltas'
    BY <1>1, EnteredStands
  <2> QED BY <1>1, <2>1, <2>2 DEF FragInv
<1>2. ASSUME gathered' = gathered, arrived \subseteq arrived'
      PROVE  gathered' \in [FragDeltas -> SUBSET arrived'] /\ \A d \in FragDeltas : gathered[d] \subseteq gathered'[d]
  BY <1>2 DEF FragInv
<1>3. ASSUME NEW s \in Sends, Frag!send_delta(s[1], s[2]) PROVE FragInv'
  <2>1. s[1] \in FragDeltas /\ s[2] \in Nat
    BY DEF FragTypes
  <2>2. network' = network \cup Frag!Sent(s[1], s[2]) /\ UNCHANGED <<pending, inbound, garbled, arrived, gathered>>
    BY <1>3 DEF Frag!send_delta, Frag!Sent
  <2>3. \A m \in network' : m \in network \/ SentBy(m, s[1], s[2])
    BY <2>1, <2>2, Outbound
  <2>4. \A m \in network' : Sendable(m)
    BY <2>3 DEF FragInv, Sendable
  <2>5. arrived' \subseteq network'
    BY <2>2 DEF FragInv
  <2> QED BY <1>1, <1>2, <2>2, <2>4, <2>5
<1>4. ASSUME NEW r \in Relayed, Frag!send_via_relay(r[1], r[2]) PROVE FragInv'
  <2>1. network' = network \cup {Frag!RelayDelta(r[1], r[2])} /\ UNCHANGED <<pending, inbound, garbled, arrived, gathered>>
    BY <1>4 DEF Frag!send_via_relay
  <2>2. (\A m \in network' : Sendable(m)) /\ arrived' \subseteq network'
    BY <2>1 DEF FragInv, Sendable
  <2> QED BY <1>1, <1>2, <2>1, <2>2
<1>5. ASSUME NEW m \in network, Frag!ReceiveMessage(m) PROVE FragInv'
  <2>0. /\ arrived' = arrived \cup {m} /\ network' = network /\ arrived' \subseteq network'
        /\ (Frag!process_wire_message(m) \/ Frag!UnwrapRelayed(m)) /\ \A n \in network' : Sendable(n)
    BY <1>5 DEF Frag!ReceiveMessage, FragInv
  <2>1. ASSUME NEW d \in FragDeltas, NEW mtu \in Nat, <<d, mtu>> \in Sends, ~Cut(mtu), m = Frag!Whole(d) PROVE FragInv'
    <3>1. ~Frag!IsFragment(m) /\ ~Frag!IsRelayed(m) /\ m.delta_id = d
      BY <2>1, Kinds
    <3>2. inbound' = inbound \cup {d} /\ UNCHANGED <<pending, garbled, gathered>>
      BY <2>0, <3>1 DEF Frag!process_wire_message, Frag!UnwrapRelayed
    <3>3. Frag!Sent(d, mtu) \subseteq arrived'
      BY <2>0, <2>1, Outbound DEF SentBy
    <3>4. \A k \in inbound' \ inbound : \E s \in Sends : s[1] = k /\ Frag!Sent(s[1], s[2]) \subseteq arrived'
      BY <2>1, <3>2, <3>3
    <3> QED BY <1>1, <1>2, <2>0, <3>2, <3>4
  <2>2. ASSUME NEW d \in FragDeltas, NEW mtu \in Nat, <<d, mtu>> \in Sends, Cut(mtu),
               NEW i \in 0 .. Frag!Pieces(d, mtu) - 1, m = FragmentOf(d, mtu, i) PROVE FragInv'
    <3>1. Frag!IsFragment(m) /\ ~Frag!IsRelayed(m) /\ m.delta_id = d
      BY <2>2, Kinds
    <3>2. ASSUME gathered' = [gathered EXCEPT ![d] = @ \cup {m}], UNCHANGED <<pending, inbound, garbled>> PROVE FragInv'
      <4>1. gathered' \in [FragDeltas -> SUBSET arrived'] /\ \A k \in FragDeltas : gathered[k] \subseteq gathered'[k]
        BY <2>0, <3>2 DEF FragInv
      <4>2. inbound' \ inbound = {} /\ arrived \subseteq arrived'
        BY <2>0, <3>2
      <4> QED BY <1>1, <2>0, <3>2, <4>1, <4>2
    <3>3. ASSUME NEW gone \in Frag!EvictionChoices(d), Frag!add_fragment(m, gone) PROVE FragInv'
      BY <2>0, <2>2, <3>3, FragmentSound, NotItself
    <3> QED BY <2>0, <3>1, <3>2, <3>3 DEF Frag!process_wire_message, Frag!UnwrapRelayed
  <2>3. ASSUME NEW r \in Relayed, m = Frag!RelayDelta(r[1], r[2]) PROVE FragInv'
    <3>1. ~Frag!IsFragment(m) /\ Frag!IsRelayed(m) /\ m.delta_id = r[1] /\ m.target_did = r[2]
      BY <2>3, Kinds
    <3>2. /\ UNCHANGED <<pending, garbled, gathered>>
          /\ inbound' = IF r[2] = Local THEN inbound \cup {r[1]} ELSE inbound
      BY <2>0, <3>1 DEF Frag!process_wire_message, Frag!UnwrapRelayed
    <3>3. \A k \in inbound' \ inbound : Frag!RelayDelta(k, Local) \in arrived'
      BY <2>0, <2>3, <3>2
    <3> QED BY <1>1, <1>2, <2>0, <3>2, <3>3
  <2> QED BY <2>1, <2>2, <2>3, Carried
<1>6. CASE UNCHANGED Frag!vars
  <2>1. UNCHANGED <<network, pending, inbound, garbled, arrived, gathered>>
    BY <1>6 DEF Frag!vars
  <2>2. (\A m \in network' : Sendable(m)) /\ arrived' \subseteq network'
    BY <2>1 DEF FragInv
  <2> QED BY <1>1, <1>2, <2>1, <2>2
<1> QED BY <1>3, <1>4, <1>5, <1>6 DEF Frag!Next

\* The node takes the fragment machine's steps and leaves its variables alone
\* otherwise.
LEMMA FragRuns == NodeSpec => FragSpec
<1>1. NodeInit => Frag!Init
  BY DEF NodeInit
<1>2. [NodeNext]_allVars => [Frag!Next]_(Frag!vars)
  BY DEF NodeNext, allVars, transportVars, fragmentVars, Frag!vars, TrustStep, SchedulerStep, FragmentStep, BleStep,
         PeerStep, MigrationStep, SandboxStep
<1> QED BY <1>1, <1>2, PTL DEF NodeSpec, FragSpec

-----------------------------------------------------------------------------
(* The BLE bridge. *)

BleSpec == Ble!Init /\ [][Ble!Next]_(Ble!vars)

\* In a behaviour of the node the BLE bridge takes its own steps or none.
LEMMA BleRuns == NodeSpec => BleSpec
<1>1. NodeInit => Ble!Init
  BY DEF NodeInit
<1>2. [NodeNext]_allVars => [Ble!Next]_(Ble!vars)
  BY DEF NodeNext, allVars, transportVars, bleVars, Ble!vars, TrustStep, SchedulerStep, FragmentStep, BleStep,
         PeerStep, MigrationStep, SandboxStep
<1> QED BY <1>1, <1>2, PTL DEF NodeSpec, BleSpec

\* A chunk that is reassembled alone is the only one of its delta.
LEMMA LoneChunk ==
  ASSUME NEW d, NEW c \in Ble!fragment_for_ble(d), Ble!reassemble_ble_chunks({c})
  PROVE  Ble!fragment_for_ble(d) \subseteq {c} /\ c.delta_id = d
<1> DEFINE total == (bleSize[d] + BleMaxPayload - 1) \div BleMaxPayload
<1> HIDE DEF total
<1>1. Ble!fragment_for_ble(d) = {[delta_id |-> d, index |-> i, total |-> total] : i \in 0 .. total - 1}
  BY DEF Ble!fragment_for_ble, total
<1>2. PICK j \in 0 .. total - 1 : c = [delta_id |-> d, index |-> j, total |-> total]
  BY <1>1
<1>3. {c} = {[c EXCEPT !.index = i] : i \in 0 .. c.total - 1}
  BY DEF Ble!reassemble_ble_chunks
<1>4. \A i \in 0 .. total - 1 : [c EXCEPT !.index = i] = c
  BY <1>2, <1>3
<1>5. \A i \in 0 .. total - 1 : [c EXCEPT !.index = i] = [delta_id |-> d, index |-> i, total |-> total]
  BY <1>2
<1>6. c.delta_id = d
  BY <1>2
<1> QED BY <1>1, <1>4, <1>5, <1>6

\* The BLE task hands on a delta only with all its chunks.
LEMMA BleWhole == BleSpec => []Ble!BleDeliversWhole
<1>1. Ble!Init => Ble!BleDeliversWhole
  BY DEF Ble!Init, Ble!BleDeliversWhole
<1>2. ASSUME Ble!BleDeliversWhole, [Ble!Next]_(Ble!vars) PROVE Ble!BleDeliversWhole'
  <2>1. ASSUME NEW d \in BleDeltas, NEW c \in Ble!fragment_for_ble(d), Ble!TransferChunk(c) PROVE Ble!BleDeliversWhole'
    <3>1. bleArrived' = bleArrived \cup {c}
          /\ bleInbound' = IF Ble!reassemble_ble_chunks({c}) THEN bleInbound \cup {c.delta_id} ELSE bleInbound
      BY <2>1 DEF Ble!TransferChunk
    <3>2. Ble!reassemble_ble_chunks({c}) => Ble!fragment_for_ble(c.delta_id) \subseteq {c}
      BY LoneChunk
    <3> QED BY <1>2, <3>1, <3>2 DEF Ble!BleDeliversWhole
  <2>2. ASSUME UNCHANGED <<bleInbound, bleArrived>> PROVE Ble!BleDeliversWhole'
    BY <1>2, <2>2 DEF Ble!BleDeliversWhole
  <2> QED BY <1>2, <2>1, <2>2 DEF Ble!Next, Ble!vars, Ble!send_via_ble, Ble!scan_and_connect
<1> QED BY <1>1, <1>2, PTL DEF BleSpec

\* Req 5.4, 5.8: for all sizes and MTUs, with messages lost, repeated and
\* reordered, a delta enters the inbound pipeline when one whole fragmentation
\* of it or every BLE chunk arrived, and bytes of no delta only where pieces of
\* two fragmentations with equal totals met (fragment.rs reassemble, mod.rs
\* process_wire_message and BLE task).
THEOREM OnlyWholeDeltasEnter ==
  ASSUME FragTypes
  PROVE  NodeSpec => []OnlyWholeDeltas
<1>1. FragInv /\ [Frag!Next]_(Frag!vars) => FragInv'
  BY FragStep
<1>2. FragInv /\ Ble!BleDeliversWhole => OnlyWholeDeltas
  BY DEF FragInv, OnlyWholeDeltas
<1> QED BY <1>1, <1>2, FragInitInv, FragRuns, BleRuns, BleWhole, PTL DEF FragSpec

-----------------------------------------------------------------------------
(* An assembly is kept. *)

\* No delta is empty.
FragFit == \A s \in Sends : size[s[1]] > 0

\* All that was gathered of d is of this fragmentation.
Unmixed(A, d, mtu) == \A m \in A : SentBy(m, d, mtu)

\* What was gathered of d is in its slots.
Stored(A, buffer, d, mtu) ==
    \A i \in 0 .. Frag!Pieces(d, mtu) - 1 : FragmentOf(d, mtu, i) \in A =>
        d \in DOMAIN buffer /\ buffer[d].total = Frag!Pieces(d, mtu) /\ i \in DOMAIN buffer[d].slots

Settled(d, mtu) == d \in inbound \/ ~Unmixed(gathered[d], d, mtu) \/ Stored(gathered[d], pending, d, mtu)

\* A fragmentation that the receiver accepts.
Fits(d, mtu) == Cut(mtu) /\ Frag!Pieces(d, mtu) <= MaxFragmentsPerDelta

KeptInv == \A s \in Sends : Fits(s[1], s[2]) => Settled(s[1], s[2])

\* What is held of an unmixed delta is a piece of its fragmentation.
LEMMA UnmixedSlots ==
  ASSUME NEW A, NEW d, NEW mtu \in Nat, Cut(mtu), Unmixed(A, d, mtu), NEW e, Slots(A, d, e), NEW i \in DOMAIN e.slots
  PROVE  e.total = Frag!Pieces(d, mtu) /\ e.slots[i] = Frag!Piece(d, mtu, i)
<1>1. PICK x \in Nat : /\ Cut(x) /\ Frag!Pieces(d, x) = e.total
                       /\ FragmentOf(d, x, i) \in A /\ e.slots[i] = Frag!Piece(d, x, i)
  BY DEF Slots, Holds
<1>2. SentBy(FragmentOf(d, x, i), d, mtu)
  BY <1>1 DEF Unmixed
<1>3. PICK k \in 0 .. Frag!Pieces(d, mtu) - 1 : FragmentOf(d, x, i) = FragmentOf(d, mtu, k)
  BY <1>2 DEF SentBy
<1>4. i = k /\ Frag!Pieces(d, x) = Frag!Pieces(d, mtu) /\ Frag!Piece(d, x, i) = Frag!Piece(d, mtu, k)
  <2>1. /\ FragmentOf(d, x, i).fragment_index = i /\ FragmentOf(d, mtu, k).fragment_index = k
        /\ FragmentOf(d, x, i).total_fragments = Frag!Pieces(d, x)
        /\ FragmentOf(d, mtu, k).total_fragments = Frag!Pieces(d, mtu)
        /\ FragmentOf(d, x, i).payload = Frag!Piece(d, x, i) /\ FragmentOf(d, mtu, k).payload = Frag!Piece(d, mtu, k)
    BY Kinds
  <2> QED BY <1>3, <2>1
<1> QED BY <1>1, <1>4

\* The fate of a delta that is not the fragment's.
LEMMA OthersSettled ==
  ASSUME FragInv, NEW f, NEW gone, Frag!add_fragment(f, gone),
         NEW d \in FragDeltas, d # f.delta_id, NEW mtu, Settled(d, mtu)
  PROVE  Settled(d, mtu)'
<1>1. Gathered(f, gone) /\ (AddRefused(f, gone) \/ AddComplete(f, gone) \/ AddStored(f, gone))
  BY AddCases
<1>2. inbound \subseteq inbound'
  BY <1>1 DEF AddRefused, AddComplete, AddStored, Frag!HandIn
<1>3. CASE d \in gone
  <2>1. gathered'[d] = {}
    BY <1>1, <1>3 DEF Gathered
  <2>2. Stored({}, pending', d, mtu)
    BY DEF Stored
  <2> QED BY <2>1, <2>2 DEF Settled
<1>4. CASE d \notin gone
  <2>1. gathered'[d] = gathered[d]
    BY <1>1, <1>4 DEF Gathered
  <2>2. ASSUME d \in DOMAIN pending PROVE d \in DOMAIN pending' /\ pending'[d] = pending[d]
    <3>1. d \in DOMAIN KeptBy(gone) /\ KeptBy(gone)[d] = pending[d]
      BY <1>4, <2>2 DEF KeptBy, Frag!RestrictTo
    <3> QED BY <1>1, <3>1 DEF AddRefused, AddComplete, AddStored, Frag!RestrictTo, Frag!Put
  <2>3. Stored(gathered[d], pending, d, mtu) => Stored(gathered'[d], pending', d, mtu)
    BY <2>1, <2>2 DEF Stored
  <2> QED BY <1>2, <2>1, <2>3 DEF Settled
<1> QED BY <1>3, <1>4

\* The fate of the fragment's own delta.
LEMMA OwnSettled ==
  ASSUME FragTypes, FragInv, NEW d \in FragDeltas, NEW mtu \in Nat, <<d, mtu>> \in Sends, Cut(mtu),
         NEW i \in 0 .. Frag!Pieces(d, mtu) - 1, NEW gone \in Frag!EvictionChoices(d),
         Frag!add_fragment(FragmentOf(d, mtu, i), gone),
         Unmixed(gathered'[d], d, mtu), d \notin inbound, Stored(gathered[d], pending, d, mtu)
  PROVE  d \in inbound' \/ Stored(gathered'[d], pending', d, mtu)
<1> DEFINE f == FragmentOf(d, mtu, i)
           x == Entered(f, gone)
           total == Frag!Pieces(d, mtu)
<1>0. f.delta_id = d /\ f.fragment_index = i /\ f.total_fragments = total
  BY Kinds
<1>1. size[d] \in Nat /\ mtu \in Nat \ {0} /\ total \in Nat \ {0}
  <2>1. size[d] \in Nat /\ mtu \in Nat \ {0}
    BY DEF FragTypes, Cut
  <2>2. total \in Nat
    BY <2>1, PiecesCover
  <2> QED BY <2>1, <2>2
<1>7. Gathered(f, gone) /\ (AddRefused(f, gone) \/ AddComplete(f, gone) \/ AddStored(f, gone))
  BY AddCases
<1> HIDE DEF f
<1>11. gathered'[d] = gathered[d] \cup {f}
  BY <1>0, <1>7, NotItself DEF Gathered
<1>2. ASSUME d \in DOMAIN pending
      PROVE  EntryFor(f, gone) = pending[d] /\ pending[d].total = total
  <2>1. gone = {}
    BY <1>2 DEF Frag!EvictionChoices
  <2>2. EntryFor(f, gone) = pending[d]
    BY <1>0, <1>2, <2>1 DEF EntryFor, KeptBy, Frag!RestrictTo
  <2>3. Partial(gathered[d], d, pending[d])
    BY <1>2 DEF FragInv
  <2>4. PICK k : k \in DOMAIN pending[d].slots
    BY <2>3 DEF Partial
  <2>5. Slots(gathered[d], d, pending[d]) /\ Unmixed(gathered[d], d, mtu)
    BY <1>11, <2>3 DEF Partial, Unmixed
  <2>6. pending[d].total = total
    BY <2>4, <2>5, UnmixedSlots
  <2> QED BY <2>2, <2>6
<1>3. ASSUME d \notin DOMAIN pending PROVE EntryFor(f, gone) = [total |-> total, slots |-> <<>>]
  BY <1>0, <1>3 DEF EntryFor, KeptBy, Frag!RestrictTo
<1>4. EntryFor(f, gone).total = total
  <2>1. CASE d \in DOMAIN pending
    BY <1>2, <2>1
  <2>2. CASE d \notin DOMAIN pending
    BY <1>3, <2>2
  <2> QED BY <2>1, <2>2
<1>5. x.total = total /\ x.slots = SlotsWith(f, gone) /\ DOMAIN x.slots = DOMAIN EntryFor(f, gone).slots \cup {i}
  BY <1>0, <1>4 DEF Entered, SlotsWith, Frag!Put
<1>6. Slots(gathered'[d], d, x)
  <2>1. f \in gathered'[d] /\ gathered[d] \subseteq gathered'[d]
    BY <1>11
  <2> QED BY <1>4, <2>1, EnteredSlots DEF f
<1> HIDE DEF x, total
<1>8. CASE AddRefused(f, gone)
  BY <1>0, <1>4, <1>8 DEF AddRefused
<1>9. CASE AddComplete(f, gone)
  <2>1. DOMAIN x.slots = 0 .. total - 1
    BY <1>4, <1>5, <1>9 DEF AddComplete
  <2>2. ASSUME NEW k \in 0 .. total - 1 PROVE x.slots[k] = Frag!Piece(d, mtu, k)
    <3>1. k \in DOMAIN x.slots
      BY <2>1
    <3> QED BY <1>6, <3>1, UnmixedSlots
  <2>3. Frag!DeltaBytes(d, x.slots, total)
    BY <1>1, <2>1, <2>2, Reassembles DEF total
  <2>4. Frag!HandIn(d, x.slots, total)
    BY <1>0, <1>4, <1>5, <1>9 DEF AddComplete
  <2> QED BY <2>3, <2>4 DEF Frag!HandIn
<1>10. CASE AddStored(f, gone)
  <2>1. d \in DOMAIN pending' /\ pending'[d] = x
    BY <1>0, <1>10 DEF AddStored, Frag!Put, x
  <2>2. ASSUME NEW k \in 0 .. total - 1, FragmentOf(d, mtu, k) \in gathered'[d] PROVE k \in DOMAIN x.slots
    <3>1. CASE k = i
      BY <1>5, <3>1
    <3>2. CASE k # i
      <4>1. FragmentOf(d, mtu, k) # f
        BY <1>0, <3>2, Kinds
      <4>2. FragmentOf(d, mtu, k) \in gathered[d]
        BY <1>11, <2>2, <4>1
      <4>3. d \in DOMAIN pending /\ k \in DOMAIN pending[d].slots
        BY <2>2, <4>2 DEF Stored, total
      <4> QED BY <1>2, <1>5, <4>3
    <3> QED BY <3>1, <3>2
  <2> QED BY <1>5, <2>1, <2>2 DEF Stored, total
<1> QED BY <1>7, <1>8, <1>9, <1>10

\* Nothing is owed at first.
LEMMA KeptInitInv ==
  ASSUME FragTypes, Frag!Init
  PROVE  KeptInv
<1> SUFFICES ASSUME NEW s \in Sends PROVE Settled(s[1], s[2])
  BY DEF KeptInv
<1>1. gathered[s[1]] = {}
  BY DEF Frag!Init, FragTypes
<1> QED BY <1>1 DEF Settled, Stored

\* A fragment that add_fragment takes.
LEMMA KeptFragment ==
  ASSUME FragTypes, FragInv, KeptInv, NEW d \in FragDeltas, NEW mtu \in Nat, <<d, mtu>> \in Sends, Cut(mtu),
         NEW i \in 0 .. Frag!Pieces(d, mtu) - 1, NEW gone \in Frag!EvictionChoices(d),
         Frag!add_fragment(FragmentOf(d, mtu, i), gone)
  PROVE  KeptInv'
<1> DEFINE f == FragmentOf(d, mtu, i)
<1>0. f.delta_id = d
  BY Kinds
<1>1. Gathered(f, gone) /\ inbound \subseteq inbound'
  BY AddCases DEF AddRefused, AddComplete, AddStored, Frag!HandIn
<1> HIDE DEF f
<1>2. gathered'[d] = gathered[d] \cup {f}
  BY <1>0, <1>1, NotItself DEF Gathered
<1> SUFFICES ASSUME NEW s \in Sends, Fits(s[1], s[2]) PROVE Settled(s[1], s[2])'
  BY DEF KeptInv, Fits
<1>3. s[1] \in FragDeltas /\ s[2] \in Nat /\ s = <<s[1], s[2]>> /\ Settled(s[1], s[2]) /\ Cut(s[2])
  BY DEF FragTypes, KeptInv, Fits
<1>4. CASE s[1] # d
  BY <1>0, <1>3, <1>4, OthersSettled DEF f
<1>5. CASE s[1] = d
  <2>1. CASE d \in inbound \/ ~Unmixed(gathered'[d], d, s[2])
    BY <1>1, <1>5, <2>1 DEF Settled
  <2>2. CASE d \notin inbound /\ Unmixed(gathered'[d], d, s[2])
    <3>1. Unmixed(gathered[d], d, s[2]) /\ SentBy(f, d, s[2])
      BY <1>2, <2>2 DEF Unmixed
    <3>2. Stored(gathered[d], pending, d, s[2])
      BY <1>3, <1>5, <2>2, <3>1 DEF Settled
    <3>3. PICK k \in 0 .. Frag!Pieces(d, s[2]) - 1 : f = FragmentOf(d, s[2], k)
      BY <1>3, <3>1 DEF SentBy
    <3>4. d \in inbound' \/ Stored(gathered'[d], pending', d, s[2])
      BY <1>3, <1>5, <2>2, <3>2, <3>3, OwnSettled DEF f
    <3> QED BY <1>5, <3>4 DEF Settled
  <2> QED BY <2>1, <2>2
<1> QED BY <1>4, <1>5

\* A fragment that is rejected outright is of no fragmentation that fits.
LEMMA KeptRejected ==
  ASSUME FragTypes, FragInv, KeptInv, NEW d \in FragDeltas, NEW mtu \in Nat, <<d, mtu>> \in Sends, Cut(mtu),
         NEW i \in 0 .. Frag!Pieces(d, mtu) - 1, ~Frag!ValidMeta(FragmentOf(d, mtu, i)),
         gathered' = [gathered EXCEPT ![d] = @ \cup {FragmentOf(d, mtu, i)}], UNCHANGED <<pending, inbound>>
  PROVE  KeptInv'
<1> SUFFICES ASSUME NEW s \in Sends, Fits(s[1], s[2]) PROVE Settled(s[1], s[2])'
  BY DEF KeptInv, Fits
<1>1. s[1] \in FragDeltas /\ s[2] \in Nat /\ Settled(s[1], s[2])
  BY DEF FragTypes, KeptInv
<1>2. CASE s[1] # d
  <2>1. gathered'[s[1]] = gathered[s[1]]
    BY <1>1, <1>2 DEF FragInv
  <2> QED BY <1>1, <2>1 DEF Settled
<1>3. CASE s[1] = d
  <2>1. FragmentOf(d, mtu, i) \in gathered'[d]
    BY <1>1 DEF FragInv
  <2>2. ~SentBy(FragmentOf(d, mtu, i), d, s[2])
    <3> SUFFICES ASSUME NEW k \in 0 .. Frag!Pieces(d, s[2]) - 1, FragmentOf(d, mtu, i) = FragmentOf(d, s[2], k)
                 PROVE  FALSE
      BY DEF SentBy, Fits
    <3>1. Frag!Pieces(d, mtu) = Frag!Pieces(d, s[2])
      BY Kinds
    <3>2. Frag!Pieces(d, mtu) <= MaxFragmentsPerDelta
      BY <1>3, <3>1 DEF Fits
    <3>3. mtu \in Nat \ {0} /\ size[d] \in Nat
      BY DEF FragTypes, Cut
    <3>4. Frag!Pieces(d, mtu) \in Nat
      BY <3>3, PiecesCover
    <3> QED BY <3>2, <3>4, Kinds DEF Frag!ValidMeta
  <2> QED BY <1>3, <2>1, <2>2 DEF Settled, Unmixed
<1> QED BY <1>2, <1>3

\* Every step of the fragments keeps what is owed.
LEMMA KeptStep ==
  ASSUME FragTypes, FragInv, KeptInv, [Frag!Next]_(Frag!vars)
  PROVE  KeptInv'
<1>1. ASSUME UNCHANGED <<gathered, pending>>, inbound \subseteq inbound' PROVE KeptInv'
  BY <1>1 DEF KeptInv, Settled, Fits
<1>2. ASSUME NEW m \in network, Frag!ReceiveMessage(m) PROVE KeptInv'
  <2>0. Frag!process_wire_message(m) \/ Frag!UnwrapRelayed(m)
    BY <1>2 DEF Frag!ReceiveMessage
  <2>1. CASE ~Frag!IsFragment(m)
    BY <1>1, <2>0, <2>1 DEF Frag!process_wire_message, Frag!UnwrapRelayed
  <2>2. CASE Frag!IsFragment(m)
    <3>1. PICK d \in FragDeltas, mtu \in Nat : /\ <<d, mtu>> \in Sends /\ Cut(mtu)
                                               /\ \E i \in 0 .. Frag!Pieces(d, mtu) - 1 : m = FragmentOf(d, mtu, i)
      <4>1. (\A k : m # Frag!Whole(k)) /\ (\A k, x : m # Frag!RelayDelta(k, x))
        BY <2>2, Kinds
      <4> QED BY <4>1, Carried
    <3>2. PICK i \in 0 .. Frag!Pieces(d, mtu) - 1 : m = FragmentOf(d, mtu, i)
      BY <3>1
    <3>3. ~Frag!IsRelayed(m) /\ m.delta_id = d
      BY <3>2, Kinds
    <3>4. \/ \E gone \in Frag!EvictionChoices(d) : Frag!add_fragment(m, gone)
          \/ ~Frag!ValidMeta(m) /\ gathered' = [gathered EXCEPT ![d] = @ \cup {m}] /\ UNCHANGED <<pending, inbound>>
      BY <2>0, <2>2, <3>3 DEF Frag!process_wire_message, Frag!UnwrapRelayed
    <3> QED BY <3>1, <3>2, <3>4, KeptFragment, KeptRejected
  <2> QED BY <2>1, <2>2
<1>3. CASE UNCHANGED Frag!vars
  BY <1>1, <1>3 DEF Frag!vars
<1> QED BY <1>1, <1>2, <1>3 DEF Frag!Next, Frag!send_delta, Frag!send_via_relay

\* What is pending was gathered.
LEMMA PendingGathered ==
  ASSUME FragInv, NEW d \in DOMAIN pending
  PROVE  d \in FragDeltas /\ gathered[d] # {}
<1>1. Partial(gathered[d], d, pending[d])
  BY DEF FragInv
<1>2. PICK i : i \in DOMAIN pending[d].slots
  BY <1>1 DEF Partial
<1>3. d \in FragDeltas /\ Holds(gathered[d], d, pending[d].total, i, pending[d].slots[i])
  BY <1>1, <1>2 DEF Partial, Slots
<1> QED BY <1>3 DEF Holds

\* Only a full buffer gives up a delta, and one that has the least of it.
LEMMA LeastEvicted ==
  ASSUME FragTypes, FragInv, MaxSlots \in Nat, IsFiniteSet(FragDeltas), [Frag!Next]_(Frag!vars)
  PROVE  Frag!EvictsLeast
<1> SUFFICES ASSUME NEW d \in DOMAIN pending, gathered'[d] = {}
             PROVE  /\ Cardinality(DOMAIN pending) >= MaxSlots
                    /\ \A k \in DOMAIN pending : Frag!Filled(d) <= Frag!Filled(k)
  BY DEF Frag!EvictsLeast, Frag!Cardinality, Cardinality
<1>0. d \in FragDeltas /\ gathered[d] # {}
  BY PendingGathered
<1>1. PICK m \in network : Frag!ReceiveMessage(m)
  BY <1>0 DEF Frag!Next, Frag!send_delta, Frag!send_via_relay, Frag!vars
<1>2. Frag!IsFragment(m) /\ Frag!process_wire_message(m)
  BY <1>0, <1>1 DEF Frag!ReceiveMessage, Frag!process_wire_message, Frag!UnwrapRelayed
<1>3. gathered' # [gathered EXCEPT ![m.delta_id] = @ \cup {m}]
  BY <1>0 DEF FragInv
<1>4. PICK gone \in Frag!EvictionChoices(m.delta_id) : Frag!add_fragment(m, gone)
  BY <1>2, <1>3 DEF Frag!process_wire_message
<1>5. Gathered(m, gone)
  BY <1>4, AddCases
<1>6. d \in gone
  BY <1>0, <1>5 DEF Gathered
<1>7. /\ ~(Frag!Cardinality(DOMAIN pending) < MaxSlots)
      /\ d \in {x \in DOMAIN pending : \A y \in DOMAIN pending : Frag!Filled(x) <= Frag!Filled(y)}
  BY <1>6 DEF Frag!EvictionChoices
<1>8. Cardinality(DOMAIN pending) \in Nat
  <2>1. DOMAIN pending \subseteq FragDeltas
    BY PendingGathered
  <2> QED BY <2>1, FS_Subset, FS_CardinalityType
<1>9. Frag!Cardinality(DOMAIN pending) = Cardinality(DOMAIN pending)
  BY DEF Frag!Cardinality, Cardinality
<1> QED BY <1>7, <1>8, <1>9

\* A fragmentation that arrived completely, in any order and with any
\* duplicates, is delivered unless a second one of the delta got in between or
\* it has more fragments than a receiver accepts; and only a full buffer gives
\* an assembly up, one with the fewest fragments (fragment.rs add_fragment).
\* For all sizes, MTUs and caps.
THEOREM AssemblyStaysKept ==
  ASSUME FragTypes, FragFit, MaxSlots \in Nat, MaxFragmentsPerDelta \in Nat, IsFiniteSet(FragDeltas)
  PROVE  NodeSpec => AssemblyIsKept
<1>1. FragInv /\ [Frag!Next]_(Frag!vars) => FragInv'
  BY FragStep
<1>2. FragInv /\ KeptInv /\ [Frag!Next]_(Frag!vars) => KeptInv'
  BY KeptStep
<1>3. FragInv /\ KeptInv => Frag!CompleteIsDelivered
  <2> SUFFICES ASSUME FragInv, KeptInv, NEW s \in Sends, Frag!Fragmented(s[2]), Frag!Sent(s[1], s[2]) \subseteq gathered[s[1]],
                      s[1] \notin inbound, gathered[s[1]] \subseteq Frag!Sent(s[1], s[2]),
                      ~(Frag!Pieces(s[1], s[2]) > MaxFragmentsPerDelta)
               PROVE  FALSE
    BY DEF Frag!CompleteIsDelivered
  <2> DEFINE d == s[1]
             mtu == s[2]
             A == gathered[d]
  <2>0. d \in FragDeltas /\ mtu \in Nat /\ size[d] \in Nat /\ Cut(mtu)
    BY DEF FragTypes, Cut, Frag!Fragmented
  <2>1. Frag!Pieces(d, mtu) \in Nat \ {0}
    <3>1. mtu \in Nat \ {0} /\ size[d] > 0
      BY <2>0 DEF Cut, FragFit
    <3>2. Frag!Pieces(d, mtu) \in Nat /\ size[d] <= Frag!Pieces(d, mtu) * mtu
      BY <2>0, <3>1, PiecesCover
    <3> QED BY <2>0, <3>1, <3>2
  <2>2. \A m : SentBy(m, d, mtu) <=> m \in A
    BY <2>0, Outbound
  <2>3. Fits(d, mtu)
    <3>1. Frag!Pieces(d, mtu) <= MaxFragmentsPerDelta
      BY <2>1
    <3> QED BY <2>0, <3>1 DEF Fits
  <2>4. Stored(A, pending, d, mtu)
    BY <2>2, <2>3 DEF KeptInv, Settled, Unmixed
  <2>5. \A i \in 0 .. Frag!Pieces(d, mtu) - 1 : FragmentOf(d, mtu, i) \in A
    BY <2>0, <2>2 DEF SentBy
  <2>6. 0 \in 0 .. Frag!Pieces(d, mtu) - 1
    BY <2>1
  <2>7. /\ d \in DOMAIN pending /\ pending[d].total = Frag!Pieces(d, mtu)
        /\ 0 .. Frag!Pieces(d, mtu) - 1 \subseteq DOMAIN pending[d].slots
    BY <2>4, <2>5, <2>6 DEF Stored
  <2>8. Partial(A, d, pending[d])
    BY <2>7 DEF FragInv
  <2> QED BY <2>7, <2>8 DEF Partial, Slots
<1>4. FragInv /\ [Frag!Next]_(Frag!vars) => [Frag!EvictsLeast]_(Frag!vars)
  BY LeastEvicted
<1>5. Frag!Init => KeptInv
  BY KeptInitInv
<1>6. FragSpec => [](FragInv /\ KeptInv)
  BY <1>1, <1>2, <1>5, FragInitInv, PTL DEF FragSpec
<1>7. FragSpec => []Frag!CompleteIsDelivered
  BY <1>3, <1>6, PTL
<1>8. FragSpec => [][Frag!EvictsLeast]_(Frag!vars)
  BY <1>4, <1>6, PTL DEF FragSpec
<1> QED BY <1>7, <1>8, FragRuns DEF AssemblyIsKept, Frag!AssemblyIsKept

-----------------------------------------------------------------------------
(* Byte counts. *)
Sizes == serialized_len \in [SchedDeltas -> Nat]

\* The running total of a sequence.
Totals(s, u) == u = [n \in 0 .. Len(s) |-> IF n = 0 THEN 0 ELSE u[n - 1] + serialized_len[s[n]]]

\* bytes is the last of the running totals, by its definition.
LEMMA BytesIsTotal ==
  ASSUME NEW s
  PROVE  Sched!bytes(s) = (CHOOSE u : Totals(s, u))[Len(s)]
  BY DEF Sched!bytes, Totals

\* Every sequence has running totals (by induction over their length).
LEMMA TotalsExist ==
  ASSUME Sizes, NEW s \in Seq(SchedDeltas)
  PROVE  \E u \in [0 .. Len(s) -> Nat] : Totals(s, u)
<1> DEFINE UpTo(n, u) == u[0] = 0 /\ \A k \in 1 .. n : u[k] = u[k - 1] + serialized_len[s[k]]
           Q(n) == \E u \in [0 .. n -> Nat] : UpTo(n, u)
           P == {n \in Nat : n <= Len(s) => Q(n)}
<1>0. Len(s) \in Nat /\ \A k \in 1 .. Len(s) : serialized_len[s[k]] \in Nat
  BY DEF Sizes
<1>1. 0 \in P
  <2>1. [k \in 0 .. 0 |-> 0] \in [0 .. 0 -> Nat] /\ UpTo(0, [k \in 0 .. 0 |-> 0])
    OBVIOUS
  <2> QED BY <2>1
<1>2. ASSUME NEW n \in P PROVE n + 1 \in P
  <2> HIDE DEF Q
  <2> SUFFICES ASSUME n + 1 <= Len(s) PROVE Q(n + 1)
    OBVIOUS
  <2>1. n \in Nat /\ n <= Len(s)
    BY <1>0
  <2>2. PICK u \in [0 .. n -> Nat] : UpTo(n, u)
    BY <2>1 DEF Q
  <2> DEFINE v == [k \in 0 .. n + 1 |-> IF k = n + 1 THEN u[n] + serialized_len[s[n + 1]] ELSE u[k]]
  <2>3. serialized_len[s[n + 1]] \in Nat /\ u[n] \in Nat
    BY <1>0, <2>1
  <2>4. v \in [0 .. n + 1 -> Nat]
    BY <2>1, <2>3
  <2>5. v[0] = 0
    BY <2>1, <2>2
  <2>6. ASSUME NEW k \in 1 .. n + 1 PROVE v[k] = v[k - 1] + serialized_len[s[k]]
    <3>1. CASE k = n + 1
      BY <2>1, <3>1
    <3>2. CASE k # n + 1
      <4>1. k \in 1 .. n /\ k - 1 \in 0 .. n + 1 /\ k - 1 # n + 1
        BY <2>1, <3>2
      <4>2. v[k] = u[k] /\ v[k - 1] = u[k - 1]
        BY <2>1, <3>2, <4>1
      <4> QED BY <2>2, <4>1, <4>2
    <3> QED BY <3>1, <3>2
  <2> HIDE DEF v
  <2> QED BY <2>4, <2>5, <2>6 DEF Q
<1> HIDE DEF P
<1>3. P = Nat
  <2>1. P \in SUBSET Nat
    BY DEF P
  <2> QED BY <1>1, <1>2, <2>1, SetInduction
<1>4. PICK u \in [0 .. Len(s) -> Nat] : UpTo(Len(s), u)
  BY <1>0, <1>3 DEF P, Q
<1>5. Totals(s, u)
  <2>1. u = [n \in 0 .. Len(s) |-> u[n]]
    OBVIOUS
  <2>2. \A n \in 0 .. Len(s) : u[n] = IF n = 0 THEN 0 ELSE u[n - 1] + serialized_len[s[n]]
    BY <1>0, <1>4
  <2> QED BY <2>1, <2>2 DEF Totals
<1> QED BY <1>5

\* The running total that bytes takes.
LEMMA BytesUpTo ==
  ASSUME Sizes, NEW s \in Seq(SchedDeltas)
  PROVE  \E u : /\ u[0] = 0 /\ (\A n \in 1 .. Len(s) : u[n] = u[n - 1] + serialized_len[s[n]])
                /\ Sched!bytes(s) = u[Len(s)]
<1> DEFINE u == CHOOSE u : Totals(s, u)
<1>1. Totals(s, u)
  BY TotalsExist
<1>2. Sched!bytes(s) = u[Len(s)]
  BY BytesIsTotal
<1>3. Len(s) \in Nat
  OBVIOUS
<1> HIDE DEF u
<1>4. u[0] = 0 /\ \A n \in 1 .. Len(s) : u[n] = u[n - 1] + serialized_len[s[n]]
  BY <1>1, <1>3 DEF Totals
<1> QED BY <1>2, <1>4

\* A byte count is a natural number, and zero for no delta.
LEMMA BytesType ==
  ASSUME Sizes, NEW s \in Seq(SchedDeltas)
  PROVE  Sched!bytes(s) \in Nat /\ (s = <<>> => Sched!bytes(s) = 0)
<1>1. PICK u : /\ u[0] = 0 /\ (\A n \in 1 .. Len(s) : u[n] = u[n - 1] + serialized_len[s[n]])
               /\ Sched!bytes(s) = u[Len(s)]
  BY BytesUpTo
<1> DEFINE P == {n \in Nat : n <= Len(s) => u[n] \in Nat}
<1>2. Len(s) \in Nat /\ \A k \in 1 .. Len(s) : serialized_len[s[k]] \in Nat
  BY DEF Sizes
<1>3. 0 \in P
  BY <1>1
<1>4. ASSUME NEW n \in P PROVE n + 1 \in P
  <2> SUFFICES ASSUME n + 1 <= Len(s) PROVE u[n + 1] \in Nat
    OBVIOUS
  <2>1. n \in Nat /\ n + 1 \in 1 .. Len(s) /\ u[n] \in Nat /\ (n + 1) - 1 = n
    BY <1>2
  <2>2. u[n + 1] = u[n] + serialized_len[s[n + 1]]
    BY <1>1, <2>1
  <2> QED BY <1>2, <2>1, <2>2
<1> HIDE DEF P
<1>5. P = Nat
  <2>1. P \in SUBSET Nat
    BY DEF P
  <2> QED BY <1>3, <1>4, <2>1, SetInduction
<1>6. u[Len(s)] \in Nat
  BY <1>2, <1>5 DEF P
<1>7. s = <<>> => Len(s) = 0
  OBVIOUS
<1> QED BY <1>1, <1>6, <1>7

\* The bytes of a sequence and of what follows it add up.
LEMMA BytesConcat ==
  ASSUME Sizes, NEW s \in Seq(SchedDeltas), NEW t \in Seq(SchedDeltas)
  PROVE  Sched!bytes(s \o t) = Sched!bytes(s) + Sched!bytes(t)
<1> DEFINE c == s \o t
           a == Len(s)
           b == Len(t)
<1>0. /\ a \in Nat /\ b \in Nat /\ c \in Seq(SchedDeltas) /\ Len(c) = a + b
      /\ \A k \in 1 .. a : c[k] = s[k] /\ serialized_len[s[k]] \in Nat
      /\ \A k \in 1 .. b : c[a + k] = t[k] /\ serialized_len[t[k]] \in Nat
  BY DEF Sizes
<1> HIDE DEF a, b, c
<1>1. PICK u : /\ u[0] = 0 /\ (\A n \in 1 .. a : u[n] = u[n - 1] + serialized_len[s[n]]) /\ Sched!bytes(s) = u[a]
  BY BytesUpTo DEF a
<1>2. PICK v : /\ v[0] = 0 /\ (\A n \in 1 .. b : v[n] = v[n - 1] + serialized_len[t[n]]) /\ Sched!bytes(t) = v[b]
  BY BytesUpTo DEF b
<1>3. PICK w : /\ w[0] = 0 /\ (\A n \in 1 .. Len(c) : w[n] = w[n - 1] + serialized_len[c[n]]) /\ Sched!bytes(c) = w[Len(c)]
  BY <1>0, BytesUpTo
<1> DEFINE P == {n \in Nat : n <= a => w[n] = u[n] /\ u[n] \in Nat}
<1>4. 0 \in P
  BY <1>1, <1>3
<1>5. ASSUME NEW n \in P PROVE n + 1 \in P
  <2> SUFFICES ASSUME n + 1 <= a PROVE w[n + 1] = u[n + 1] /\ u[n + 1] \in Nat
    OBVIOUS
  <2>1. n \in Nat /\ n + 1 \in 1 .. a /\ n + 1 \in 1 .. Len(c) /\ w[n] = u[n] /\ u[n] \in Nat /\ (n + 1) - 1 = n
    BY <1>0
  <2>2. u[n + 1] = u[n] + serialized_len[s[n + 1]] /\ w[n + 1] = w[n] + serialized_len[c[n + 1]]
    BY <1>1, <1>3, <2>1
  <2>3. c[n + 1] = s[n + 1] /\ serialized_len[s[n + 1]] \in Nat
    BY <1>0, <2>1
  <2> QED BY <2>1, <2>2, <2>3
<1> HIDE DEF P
<1>6. P = Nat
  <2>1. P \in SUBSET Nat
    BY DEF P
  <2> QED BY <1>4, <1>5, <2>1, SetInduction
<1>7. w[a] = u[a] /\ u[a] \in Nat
  BY <1>0, <1>6 DEF P
<1> DEFINE R == {n \in Nat : n <= b => w[a + n] = u[a] + v[n] /\ v[n] \in Nat}
<1>8. 0 \in R
  BY <1>0, <1>2, <1>7
<1>9. ASSUME NEW n \in R PROVE n + 1 \in R
  <2> SUFFICES ASSUME n + 1 <= b PROVE w[a + (n + 1)] = u[a] + v[n + 1] /\ v[n + 1] \in Nat
    OBVIOUS
  <2>1. /\ n \in Nat /\ n + 1 \in 1 .. b /\ a + (n + 1) \in 1 .. Len(c) /\ w[a + n] = u[a] + v[n] /\ v[n] \in Nat
        /\ (n + 1) - 1 = n /\ (a + (n + 1)) - 1 = a + n
    BY <1>0
  <2>2. v[n + 1] = v[n] + serialized_len[t[n + 1]] /\ w[a + (n + 1)] = w[a + n] + serialized_len[c[a + (n + 1)]]
    BY <1>2, <1>3, <2>1
  <2>3. c[a + (n + 1)] = t[n + 1] /\ serialized_len[t[n + 1]] \in Nat
    BY <1>0, <2>1
  <2> QED BY <1>7, <2>1, <2>2, <2>3
<1> HIDE DEF R
<1>10. R = Nat
  <2>1. R \in SUBSET Nat
    BY DEF R
  <2> QED BY <1>8, <1>9, <2>1, SetInduction
<1>11. w[a + b] = u[a] + v[b]
  <2>1. b \in R /\ b <= b
    BY <1>0, <1>10
  <2> QED BY <2>1 DEF R
<1> QED BY <1>0, <1>1, <1>2, <1>3, <1>11 DEF c

\* A single delta counts its own length.
LEMMA BytesOne ==
  ASSUME Sizes, NEW x \in SchedDeltas
  PROVE  Sched!bytes(<<x>>) = serialized_len[x]
<1>1. <<x>> \in Seq(SchedDeltas) /\ Len(<<x>>) = 1 /\ <<x>>[1] = x
  OBVIOUS
<1>2. PICK u : /\ u[0] = 0 /\ (\A n \in 1 .. 1 : u[n] = u[n - 1] + serialized_len[<<x>>[n]]) /\ Sched!bytes(<<x>>) = u[1]
  BY <1>1, BytesUpTo
<1>3. u[1] = u[1 - 1] + serialized_len[<<x>>[1]] /\ 1 - 1 = 0
  BY <1>2
<1> QED BY <1>1, <1>2, <1>3 DEF Sizes

\* drain_queue takes a prefix that fits, and the longest one.
LEMMA Drains ==
  ASSUME Sizes, NEW q \in Seq(SchedDeltas), NEW budget \in Nat
  PROVE  /\ Sched!drain_queue(q, budget) \in Seq(SchedDeltas)
         /\ Sched!bytes(Sched!drain_queue(q, budget)) <= budget
         /\ \E n \in 0 .. Len(q) : Sched!drain_queue(q, budget) = SubSeq(q, 1, n)
         /\ q # <<>> /\ serialized_len[q[1]] <= budget =>
              Sched!drain_queue(q, budget) # <<>> /\ Sched!drain_queue(q, budget)[1] = q[1]
<1> DEFINE fits == {n \in 0 .. Len(q) : Sched!bytes(SubSeq(q, 1, n)) <= budget}
<1>0. Len(q) \in Nat /\ fits \subseteq 0 .. Len(q)
  OBVIOUS
<1>1. 0 \in fits
  <2>1. SubSeq(q, 1, 0) = <<>> /\ <<>> \in Seq(SchedDeltas)
    OBVIOUS
  <2>2. Sched!bytes(<<>>) = 0
    BY <2>1, BytesType
  <2>3. Sched!bytes(SubSeq(q, 1, 0)) <= budget
    <3>1. PICK z : z = SubSeq(q, 1, 0)
      OBVIOUS
    <3>2. z = <<>>
      BY <2>1, <3>1
    <3>3. Sched!bytes(z) = 0
      BY <2>2, <3>2
    <3>4. Sched!bytes(SubSeq(q, 1, 0)) = 0
      BY <3>1, <3>3
    <3> QED BY <3>4
  <2>4. 0 \in 0 .. Len(q)
    BY <1>0
  <2> QED BY <2>3, <2>4
<1>2. Sched!drain_queue(q, budget) = SubSeq(q, 1, CHOOSE n \in fits : \A k \in fits : k <= n)
  BY <1>1 DEF Sched!drain_queue
<1> HIDE DEF fits
<1>3. PICK t : t = CHOOSE n \in fits : \A k \in fits : k <= n
  OBVIOUS
<1>4. t \in fits /\ \A k \in fits : k <= t
  <2>1. \E n \in fits : \A k \in fits : k <= n
    BY <1>0, <1>1, GreatestNatural
  <2> QED BY <1>3, <2>1
<1>5. t \in 0 .. Len(q) /\ Sched!bytes(SubSeq(q, 1, t)) <= budget /\ Sched!drain_queue(q, budget) = SubSeq(q, 1, t)
  BY <1>2, <1>3, <1>4 DEF fits
<1>6. SubSeq(q, 1, t) \in Seq(SchedDeltas)
  BY <1>5
<1>7. ASSUME q # <<>>, serialized_len[q[1]] <= budget
      PROVE  Sched!drain_queue(q, budget) # <<>> /\ Sched!drain_queue(q, budget)[1] = q[1]
  <2>0. Len(q) >= 1 /\ q[1] \in SchedDeltas
    BY <1>0, <1>7, EmptySeq
  <2>1. SubSeq(q, 1, 1) = <<q[1]>>
    <3>1. SubSeq(q, 1, 1) \in Seq(SchedDeltas) /\ Len(SubSeq(q, 1, 1)) = 1 /\ SubSeq(q, 1, 1)[1] = q[1]
      BY <1>0, <2>0
    <3>2. <<q[1]>> \in Seq(SchedDeltas) /\ Len(<<q[1]>>) = 1 /\ <<q[1]>>[1] = q[1]
      BY <2>0
    <3>3. \A i \in 1 .. Len(SubSeq(q, 1, 1)) : SubSeq(q, 1, 1)[i] = <<q[1]>>[i]
      BY <3>1, <3>2
    <3>4. Len(SubSeq(q, 1, 1)) = Len(<<q[1]>>)
      BY <3>1, <3>2
    <3> QED BY <3>1, <3>2, <3>3, <3>4, SeqEqual
  <2>2. 1 \in fits
    <3>1. Sched!bytes(SubSeq(q, 1, 1)) <= budget
      BY <1>7, <2>0, <2>1, BytesOne
    <3>2. 1 \in 0 .. Len(q)
      BY <1>0, <2>0
    <3> QED BY <3>1, <3>2 DEF fits
  <2>3. 1 <= t
    BY <1>4, <2>2
  <2>4. Len(SubSeq(q, 1, t)) = t /\ SubSeq(q, 1, t)[1] = q[1]
    BY <1>5, <2>3
  <2>5. SubSeq(q, 1, t) # <<>>
    BY <1>5, <1>6, <2>3, <2>4
  <2> QED BY <1>5, <2>4, <2>5
<1> QED BY <1>5, <1>6, <1>7

\* What follows a drained prefix is a queue again.
LEMMA RestType ==
  ASSUME NEW q \in Seq(SchedDeltas), NEW n \in 0 .. Len(q), NEW p, p = SubSeq(q, 1, n)
  PROVE  Sched!rest(q, p) \in Seq(SchedDeltas)
<1>1. Len(q) \in Nat /\ Len(p) = n
  OBVIOUS
<1>2. \A i \in (n + 1) .. Len(q) : q[i] \in SchedDeltas
  BY <1>1
<1>3. SubSeq(q, n + 1, Len(q)) \in Seq(SchedDeltas)
  BY <1>1, <1>2
<1> QED BY <1>1, <1>3 DEF Sched!rest

Queues == [Sched!Classes -> Seq(SchedDeltas)]
ZeroDeficit == [c \in Sched!Classes |-> 0]

\* The constants the scheduler's proof needs.
SchedTypes ==
    /\ Sizes /\ LinkCapacity \in Nat /\ ChannelCapacity \in Nat /\ LeaseDuration \in Nat
    /\ MaxRetryQueue \in Nat /\ priority \in [SchedDeltas -> Sched!Classes]

\* The three floors together fit in the link.
LEMMA QuantaFit ==
  ASSUME LinkCapacity \in Nat
  PROVE  /\ Sched!quantum.High \in Nat /\ Sched!quantum.Medium \in Nat /\ Sched!quantum.Low \in Nat
         /\ Sched!quantum.High + Sched!quantum.Medium + Sched!quantum.Low <= LinkCapacity
<1>1. PICK h, m, l : /\ h = (LinkCapacity * 70) \div 100 /\ m = (LinkCapacity * 20) \div 100
                     /\ l = (LinkCapacity * 10) \div 100
  OBVIOUS
<1>2. h \in Nat /\ m \in Nat /\ l \in Nat /\ h + m + l <= LinkCapacity
  BY <1>1
<1>3. Sched!quantum.High = h /\ Sched!quantum.Medium = m /\ Sched!quantum.Low = l
  BY <1>1 DEF Sched!quantum
<1> QED BY <1>2, <1>3

\* A share is what an epoch may take from its queue: a prefix of it.
PrefixOf(s, q) == \E n \in 0 .. Len(q) : s = SubSeq(q, 1, n)

\* A share and what it leaves are sequences of deltas.
LEMMA SharePrefix ==
  ASSUME NEW q \in Seq(SchedDeltas), NEW s, PrefixOf(s, q)
  PROVE  s \in Seq(SchedDeltas) /\ Sched!rest(q, s) \in Seq(SchedDeltas)
<1>1. PICK n \in 0 .. Len(q) : s = SubSeq(q, 1, n)
  BY DEF PrefixOf
<1>2. s \in Seq(SchedDeltas)
  BY <1>1
<1> QED BY <1>1, <1>2, RestType

\* A prefix, and a prefix of what it leaves, are together a prefix.
LEMMA PrefixConcat ==
  ASSUME NEW q \in Seq(SchedDeltas), NEW s, PrefixOf(s, q), NEW t, PrefixOf(t, Sched!rest(q, s))
  PROVE  PrefixOf(s \o t, q)
<1>1. PICK n \in 0 .. Len(q) : s = SubSeq(q, 1, n)
  BY DEF PrefixOf
<1>2. PICK k \in 0 .. Len(Sched!rest(q, s)) : t = SubSeq(Sched!rest(q, s), 1, k)
  BY DEF PrefixOf
<1>3. Len(q) \in Nat /\ Len(s) = n /\ s \in Seq(SchedDeltas) /\ \A i \in 1 .. n : s[i] = q[i]
  BY <1>1
<1>4. PICK r : r = Sched!rest(q, s)
  OBVIOUS
<1>5. r \in Seq(SchedDeltas) /\ Len(r) = Len(q) - n /\ \A i \in 1 .. Len(r) : r[i] = q[n + i]
  <2>1. r = SubSeq(q, n + 1, Len(q))
    BY <1>3, <1>4 DEF Sched!rest
  <2>2. r \in Seq(SchedDeltas)
    BY <1>1, <1>3, <1>4, RestType
  <2>3. n + 1 \in 1 .. (Len(q) + 1)
    BY <1>3
  <2>4. Len(r) = Len(q) - n
    BY <1>3, <2>1, <2>3
  <2>5. \A i \in 1 .. Len(r) : r[i] = q[n + i]
    BY <1>3, <2>1, <2>3, <2>4
  <2> QED BY <2>2, <2>4, <2>5
<1>6. k \in 0 .. Len(r) /\ t = SubSeq(r, 1, k)
  BY <1>2, <1>4
<1>7. t \in Seq(SchedDeltas) /\ Len(t) = k /\ \A i \in 1 .. k : t[i] = r[i]
  BY <1>5, <1>6
<1> DEFINE u == s \o t
           v == SubSeq(q, 1, n + k)
<1>8. n + k \in 0 .. Len(q)
  BY <1>3, <1>5, <1>6
<1>9. u \in Seq(SchedDeltas) /\ Len(u) = n + k
  BY <1>3, <1>7
<1>10. v \in Seq(SchedDeltas) /\ Len(v) = n + k /\ \A i \in 1 .. (n + k) : v[i] = q[i]
  BY <1>3, <1>8
<1>11. \A i \in 1 .. Len(u) : u[i] = v[i]
  <2> SUFFICES ASSUME NEW i \in 1 .. (n + k) PROVE u[i] = q[i]
    BY <1>9, <1>10
  <2>1. CASE i <= n
    BY <1>3, <1>7, <2>1
  <2>2. CASE ~(i <= n)
    <3>1. i - n \in 1 .. k /\ i - n \in 1 .. Len(r) /\ n + (i - n) = i
      BY <1>3, <1>5, <1>6, <2>2
    <3>2. u[i] = t[i - n]
      BY <1>3, <1>7, <2>2
    <3> QED BY <1>5, <1>7, <3>1, <3>2
  <2> QED BY <2>1, <2>2
<1>12. Len(u) = Len(v)
  BY <1>9, <1>10
<1> HIDE DEF u, v
<1>13. u = v
  BY <1>9, <1>10, <1>11, <1>12, SeqEqual
<1> QED BY <1>8, <1>13 DEF PrefixOf, u, v

\* What a class is given, the floor and then the extra, of a budget each.
ClassServed(floor, extra, q, floorBudget, spare) ==
    /\ PrefixOf(floor \o extra, q)
    /\ floor \o extra \in Seq(SchedDeltas)
    /\ Sched!bytes(extra) \in Nat /\ Sched!bytes(extra) <= spare
    /\ Sched!bytes(floor \o extra) = Sched!bytes(floor) + Sched!bytes(extra)
    /\ q # <<>> /\ serialized_len[q[1]] <= floorBudget => floor \o extra # <<>> /\ (floor \o extra)[1] = q[1]

\* One class in a normal epoch: its floor, then its part of the spare capacity.
LEMMA ClassShare ==
  ASSUME Sizes, NEW q \in Seq(SchedDeltas), NEW floorBudget \in Nat, NEW spare \in Nat,
         NEW floor, floor = Sched!drain_queue(q, floorBudget),
         NEW extra, extra = Sched!drain_queue(Sched!rest(q, floor), spare)
  PROVE  ClassServed(floor, extra, q, floorBudget, spare)
<1>1. /\ floor \in Seq(SchedDeltas) /\ PrefixOf(floor, q)
      /\ q # <<>> /\ serialized_len[q[1]] <= floorBudget => floor # <<>> /\ floor[1] = q[1]
  BY Drains DEF PrefixOf
<1>2. Sched!rest(q, floor) \in Seq(SchedDeltas)
  BY <1>1, SharePrefix
<1>3. extra \in Seq(SchedDeltas) /\ PrefixOf(extra, Sched!rest(q, floor)) /\ Sched!bytes(extra) <= spare
  BY <1>2, Drains DEF PrefixOf
<1>4. PrefixOf(floor \o extra, q)
  BY <1>1, <1>3, PrefixConcat
<1>5. Sched!bytes(extra) \in Nat /\ Sched!bytes(floor \o extra) = Sched!bytes(floor) + Sched!bytes(extra)
  BY <1>1, <1>3, BytesType, BytesConcat
<1>6. floor # <<>> => floor \o extra # <<>> /\ (floor \o extra)[1] = floor[1]
  <2> SUFFICES ASSUME floor # <<>> PROVE floor \o extra # <<>> /\ (floor \o extra)[1] = floor[1]
    OBVIOUS
  <2>1. Len(floor) \in Nat /\ Len(floor) # 0 /\ Len(extra) \in Nat
    BY <1>1, <1>3, EmptySeq
  <2>2. Len(floor \o extra) = Len(floor) + Len(extra) /\ (floor \o extra)[1] = floor[1]
    BY <1>1, <1>3, <2>1
  <2>3. Len(<<>>) = 0
    OBVIOUS
  <2> QED BY <2>1, <2>2, <2>3
<1>7. floor \o extra \in Seq(SchedDeltas)
  BY <1>1, <1>3
<1> QED BY <1>1, <1>3, <1>4, <1>5, <1>6, <1>7 DEF ClassServed

\* What a class whose next delta fits its floor gets from an epoch.
FloorOf(share, q, c) ==
    q # <<>> /\ serialized_len[q[1]] <= Sched!quantum[c] => share # <<>> /\ share[1] = q[1]

SharesFit(shares, q) ==
    /\ PrefixOf(shares.High, q.High) /\ PrefixOf(shares.Medium, q.Medium) /\ PrefixOf(shares.Low, q.Low)
    /\ shares.High \in Seq(SchedDeltas) /\ shares.Medium \in Seq(SchedDeltas) /\ shares.Low \in Seq(SchedDeltas)
    /\ Sched!bytes(shares.High) \in Nat /\ Sched!bytes(shares.Medium) \in Nat /\ Sched!bytes(shares.Low) \in Nat
    /\ Sched!bytes(shares.High) + Sched!bytes(shares.Medium) + Sched!bytes(shares.Low) <= LinkCapacity

FloorsServed(shares, q) ==
    FloorOf(shares.High, q.High, "High") /\ FloorOf(shares.Medium, q.Medium, "Medium") /\ FloorOf(shares.Low, q.Low, "Low")

\* A normal epoch, entered with the deficits cleared, shares no more than the
\* link carries and serves every class whose next delta fits its floor.
LEMMA NormalEpoch ==
  ASSUME SchedTypes, NEW q \in Queues
  PROVE  LET shares == Sched!SpareShare(q, Sched!FloorShare(q, ZeroDeficit))
         IN  SharesFit(shares, q) /\ FloorsServed(shares, q)
<1>0. Sizes /\ LinkCapacity \in Nat
  BY DEF SchedTypes
<1>1. q.High \in Seq(SchedDeltas) /\ q.Medium \in Seq(SchedDeltas) /\ q.Low \in Seq(SchedDeltas)
  BY DEF Queues, Sched!Classes
<1>2. ZeroDeficit.High = 0 /\ ZeroDeficit.Medium = 0 /\ ZeroDeficit.Low = 0
  BY DEF ZeroDeficit, Sched!Classes
<1>3. PICK fh : fh = Sched!drain_queue(q.High, Sched!quantum.High)
  OBVIOUS
<1>4. PICK fm : fm = Sched!drain_queue(q.Medium, Sched!quantum.Medium)
  OBVIOUS
<1>5. PICK fl : fl = Sched!drain_queue(q.Low, Sched!quantum.Low)
  OBVIOUS
<1>6. Sched!FloorShare(q, ZeroDeficit) = [High |-> fh, Medium |-> fm, Low |-> fl]
  <2>1. /\ ZeroDeficit.High + Sched!quantum.High = Sched!quantum.High
        /\ ZeroDeficit.Medium + Sched!quantum.Medium = Sched!quantum.Medium
        /\ ZeroDeficit.Low + Sched!quantum.Low = Sched!quantum.Low
    BY <1>0, <1>2, QuantaFit
  <2> QED BY <1>3, <1>4, <1>5, <2>1 DEF Sched!FloorShare
<1>7. /\ fh \in Seq(SchedDeltas) /\ fm \in Seq(SchedDeltas) /\ fl \in Seq(SchedDeltas)
      /\ Sched!bytes(fh) <= Sched!quantum.High /\ Sched!bytes(fm) <= Sched!quantum.Medium /\ Sched!bytes(fl) <= Sched!quantum.Low
  BY <1>0, <1>1, <1>3, <1>4, <1>5, QuantaFit, Drains
<1>8. Sched!bytes(fh) \in Nat /\ Sched!bytes(fm) \in Nat /\ Sched!bytes(fl) \in Nat
  BY <1>0, <1>7, BytesType
<1>9. PICK s0 : s0 = LinkCapacity - Sched!bytes(fh) - Sched!bytes(fm) - Sched!bytes(fl)
  OBVIOUS
<1>10. s0 \in Nat
  BY <1>0, <1>7, <1>8, <1>9, QuantaFit
<1>11. PICK hi : hi = Sched!drain_queue(Sched!rest(q.High, fh), s0)
  OBVIOUS
<1>12. /\ PrefixOf(fh \o hi, q.High) /\ fh \o hi \in Seq(SchedDeltas)
       /\ Sched!bytes(hi) \in Nat /\ Sched!bytes(hi) <= s0
       /\ Sched!bytes(fh \o hi) = Sched!bytes(fh) + Sched!bytes(hi)
       /\ FloorOf(fh \o hi, q.High, "High")
  <2>1. ClassServed(fh, hi, q.High, Sched!quantum.High, s0)
    BY <1>0, <1>1, <1>3, <1>10, <1>11, QuantaFit, ClassShare
  <2>2. FloorOf(fh \o hi, q.High, "High")
    BY <2>1 DEF ClassServed, FloorOf
  <2> QED BY <2>1, <2>2 DEF ClassServed
<1>13. PICK s1 : s1 = s0 - Sched!bytes(hi)
  OBVIOUS
<1>14. s1 \in Nat
  BY <1>10, <1>12, <1>13
<1>15. PICK med : med = Sched!drain_queue(Sched!rest(q.Medium, fm), s1)
  OBVIOUS
<1>16. /\ PrefixOf(fm \o med, q.Medium) /\ fm \o med \in Seq(SchedDeltas)
       /\ Sched!bytes(med) \in Nat /\ Sched!bytes(med) <= s1
       /\ Sched!bytes(fm \o med) = Sched!bytes(fm) + Sched!bytes(med)
       /\ FloorOf(fm \o med, q.Medium, "Medium")
  <2>1. ClassServed(fm, med, q.Medium, Sched!quantum.Medium, s1)
    BY <1>0, <1>1, <1>4, <1>14, <1>15, QuantaFit, ClassShare
  <2>2. FloorOf(fm \o med, q.Medium, "Medium")
    BY <2>1 DEF ClassServed, FloorOf
  <2> QED BY <2>1, <2>2 DEF ClassServed
<1>17. PICK s2 : s2 = s1 - Sched!bytes(med)
  OBVIOUS
<1>18. s2 \in Nat
  BY <1>14, <1>16, <1>17
<1>19. PICK low : low = Sched!drain_queue(Sched!rest(q.Low, fl), s2)
  OBVIOUS
<1>20. /\ PrefixOf(fl \o low, q.Low) /\ fl \o low \in Seq(SchedDeltas)
       /\ Sched!bytes(low) \in Nat /\ Sched!bytes(low) <= s2
       /\ Sched!bytes(fl \o low) = Sched!bytes(fl) + Sched!bytes(low)
       /\ FloorOf(fl \o low, q.Low, "Low")
  <2>1. ClassServed(fl, low, q.Low, Sched!quantum.Low, s2)
    BY <1>0, <1>1, <1>5, <1>18, <1>19, QuantaFit, ClassShare
  <2>2. FloorOf(fl \o low, q.Low, "Low")
    BY <2>1 DEF ClassServed, FloorOf
  <2> QED BY <2>1, <2>2 DEF ClassServed
<1>21. Sched!SpareShare(q, [High |-> fh, Medium |-> fm, Low |-> fl])
         = [High |-> fh \o hi, Medium |-> fm \o med, Low |-> fl \o low]
  BY <1>9, <1>11, <1>13, <1>15, <1>17, <1>19 DEF Sched!SpareShare
<1>22. Sched!bytes(fh \o hi) + Sched!bytes(fm \o med) + Sched!bytes(fl \o low) <= LinkCapacity
  <2>1. \A C, a, b, c, x, y, z, t0, t1, t2 \in Int :
          t0 = C - a - b - c /\ t1 = t0 - x /\ t2 = t1 - y /\ z <= t2 => (a + x) + (b + y) + (c + z) <= C
    OBVIOUS
  <2>2. LinkCapacity \in Int /\ s0 \in Int /\ s1 \in Int /\ s2 \in Int
    BY <1>0, <1>10, <1>14, <1>18
  <2>3. /\ Sched!bytes(fh) \in Int /\ Sched!bytes(fm) \in Int /\ Sched!bytes(fl) \in Int
        /\ Sched!bytes(hi) \in Int /\ Sched!bytes(med) \in Int /\ Sched!bytes(low) \in Int /\ Sched!bytes(low) <= s2
    BY <1>8, <1>12, <1>16, <1>20
  <2>4. (Sched!bytes(fh) + Sched!bytes(hi)) + (Sched!bytes(fm) + Sched!bytes(med)) + (Sched!bytes(fl) + Sched!bytes(low))
          <= LinkCapacity
    BY <1>9, <1>13, <1>17, <2>1, <2>2, <2>3
  <2> QED BY <1>12, <1>16, <1>20, <2>4
<1>23. /\ Sched!bytes(fh \o hi) \in Nat /\ Sched!bytes(fm \o med) \in Nat /\ Sched!bytes(fl \o low) \in Nat
  BY <1>8, <1>12, <1>16, <1>20
<1>24. PICK sh : sh = [High |-> fh \o hi, Medium |-> fm \o med, Low |-> fl \o low]
  OBVIOUS
<1>25. sh.High = fh \o hi /\ sh.Medium = fm \o med /\ sh.Low = fl \o low
  BY <1>24
<1>26. SharesFit(sh, q) /\ FloorsServed(sh, q)
  BY <1>12, <1>16, <1>20, <1>22, <1>23, <1>25 DEF SharesFit, FloorsServed
<1> QED BY <1>6, <1>21, <1>24, <1>26

\* In Saturate_Mode only HIGH sends, up to the whole link.
LEMMA SaturatedEpoch ==
  ASSUME SchedTypes, NEW q \in Queues
  PROVE  SharesFit([High |-> Sched!drain_queue(q.High, LinkCapacity), Medium |-> <<>>, Low |-> <<>>], q)
<1>0. Sizes /\ LinkCapacity \in Nat
  BY DEF SchedTypes
<1>1. q.High \in Seq(SchedDeltas) /\ q.Medium \in Seq(SchedDeltas) /\ q.Low \in Seq(SchedDeltas)
  BY DEF Queues, Sched!Classes
<1>2. PICK h : h = Sched!drain_queue(q.High, LinkCapacity)
  OBVIOUS
<1>3. h \in Seq(SchedDeltas) /\ PrefixOf(h, q.High) /\ Sched!bytes(h) <= LinkCapacity
  BY <1>0, <1>1, <1>2, Drains DEF PrefixOf
<1>4. Sched!bytes(h) \in Nat
  BY <1>0, <1>3, BytesType
<1>5. <<>> \in Seq(SchedDeltas)
  OBVIOUS
<1>6. Sched!bytes(<<>>) = 0
  BY <1>0, <1>5, BytesType
<1>7. \A s \in Seq(SchedDeltas) : PrefixOf(<<>>, s)
  <2> SUFFICES ASSUME NEW s \in Seq(SchedDeltas) PROVE \E n \in 0 .. Len(s) : <<>> = SubSeq(s, 1, n)
    BY DEF PrefixOf
  <2>1. 0 \in 0 .. Len(s) /\ <<>> = SubSeq(s, 1, 0)
    OBVIOUS
  <2> QED BY <2>1
<1>8. PICK sh : sh = [High |-> h, Medium |-> <<>>, Low |-> <<>>]
  OBVIOUS
<1>9. sh.High = h /\ sh.Medium = <<>> /\ sh.Low = <<>>
  BY <1>8
<1>10. SharesFit(sh, q)
  BY <1>0, <1>1, <1>3, <1>4, <1>5, <1>6, <1>7, <1>9 DEF SharesFit
<1> QED BY <1>2, <1>8, <1>10

\* The scheduler as the node runs it; the epoch ticker's flag is shared with
\* the peers and left out.
SchedSpec == Sched!Init /\ [][Sched!Next]_schedulerVars

SchedInv ==
    /\ queue \in Queues /\ deficit \in [Sched!Classes -> Int]
    /\ drained \in Seq(SchedDeltas) /\ Sched!bytes(drained) <= LinkCapacity
    /\ channel \in 0 .. ChannelCapacity
    /\ lease \in Sched!NoLease .. LeaseDuration
    /\ saturate_mode = (lease # Sched!NoLease)

\* try_send takes no more than is there, and no more than there is room for.
LEMMA AcceptedFits ==
  ASSUME NEW n \in Nat, NEW ch \in 0 .. ChannelCapacity, ChannelCapacity \in Nat
  PROVE  Sched!Accepted(n, ch) \in 0 .. n /\ ch + Sched!Accepted(n, ch) \in 0 .. ChannelCapacity
<1>1. CASE n < ChannelCapacity - ch
  BY <1>1 DEF Sched!Accepted
<1>2. CASE ~(n < ChannelCapacity - ch)
  BY <1>2 DEF Sched!Accepted
<1> QED BY <1>1, <1>2

\* The due retries can be counted.
LEMMA DueCount ==
  ASSUME NEW rs, MaxRetryQueue \in Nat
  PROVE  Sched!Cardinality(Sched!DueRetries(rs)) \in Nat
<1>1. IsFiniteSet(1 .. MaxRetryQueue)
  BY FS_Interval
<1>2. Sched!DueRetries(rs) \subseteq 1 .. MaxRetryQueue
  BY DEF Sched!DueRetries
<1>3. IsFiniteSet(Sched!DueRetries(rs))
  BY <1>1, <1>2, FS_Subset
<1>4. Cardinality(Sched!DueRetries(rs)) \in Nat
  BY <1>3, FS_CardinalityType
<1> QED BY <1>4 DEF Sched!Cardinality, Cardinality

\* The delta the channel refused goes back to its class.
LEMMA EnqueuedType ==
  ASSUME SchedTypes, NEW q \in Queues, NEW d \in SchedDeltas
  PROVE  Sched!Enqueued(q, d) \in Queues
<1>1. priority[d] \in Sched!Classes
  BY DEF SchedTypes
<1>2. Append(q[priority[d]], d) \in Seq(SchedDeltas)
  BY <1>1 DEF Queues
<1> QED BY <1>1, <1>2 DEF Queues, Sched!Enqueued

\* What an epoch sends, in order.
LEMMA SentFits ==
  ASSUME SchedTypes, NEW q \in Queues, NEW sh, SharesFit(sh, q), NEW sent, sent = sh.High \o sh.Medium \o sh.Low
  PROVE  /\ sent \in Seq(SchedDeltas)
         /\ Sched!bytes(sent) <= LinkCapacity
         /\ FloorsServed(sh, q) =>
              \A c \in Sched!Classes : q[c] # <<>> /\ serialized_len[q[c][1]] <= Sched!quantum[c]
                                         => q[c][1] \in Sched!ToSet(sent)
<1>1. PICK h, m, l : h = sh.High /\ m = sh.Medium /\ l = sh.Low
  OBVIOUS
<1>2. /\ h \in Seq(SchedDeltas) /\ m \in Seq(SchedDeltas) /\ l \in Seq(SchedDeltas)
      /\ Sched!bytes(h) + Sched!bytes(m) + Sched!bytes(l) <= LinkCapacity
  BY <1>1 DEF SharesFit
<1>3. h \o m \in Seq(SchedDeltas) /\ sent = (h \o m) \o l /\ sent \in Seq(SchedDeltas)
  BY <1>1, <1>2
<1>4. Sched!bytes(sent) = Sched!bytes(h) + Sched!bytes(m) + Sched!bytes(l)
  <2>1. Sizes
    BY DEF SchedTypes
  <2>2. Sched!bytes(sent) = Sched!bytes(h \o m) + Sched!bytes(l)
    BY <1>2, <1>3, <2>1, BytesConcat
  <2>3. Sched!bytes(h \o m) = Sched!bytes(h) + Sched!bytes(m)
    BY <1>2, <2>1, BytesConcat
  <2> QED BY <2>2, <2>3
<1>5. Len(h) \in Nat /\ Len(m) \in Nat /\ Len(l) \in Nat /\ Len(sent) = Len(h) + Len(m) + Len(l)
  BY <1>2, <1>3
<1>6. /\ Len(h) >= 1 => sent[1] = h[1]
      /\ Len(m) >= 1 => sent[Len(h) + 1] = m[1]
      /\ Len(l) >= 1 => sent[Len(h) + Len(m) + 1] = l[1]
  <2>1. ASSUME Len(h) >= 1 PROVE sent[1] = h[1]
    <3>1. sent[1] = (h \o m)[1]
      BY <1>2, <1>3, <1>5, <2>1
    <3> QED BY <1>2, <1>5, <2>1, <3>1
  <2>2. ASSUME Len(m) >= 1 PROVE sent[Len(h) + 1] = m[1]
    <3>1. sent[Len(h) + 1] = (h \o m)[Len(h) + 1]
      BY <1>2, <1>3, <1>5, <2>2
    <3> QED BY <1>2, <1>5, <2>2, <3>1
  <2>3. ASSUME Len(l) >= 1 PROVE sent[Len(h) + Len(m) + 1] = l[1]
    <3>1. Len(h \o m) = Len(h) + Len(m)
      BY <1>2
    <3> QED BY <1>2, <1>3, <1>5, <2>3, <3>1
  <2> QED BY <2>1, <2>2, <2>3
<1>7. \A i \in 1 .. Len(sent) : sent[i] \in Sched!ToSet(sent)
  <2>1. DOMAIN sent = 1 .. Len(sent)
    BY <1>3
  <2>2. \A i \in DOMAIN sent : sent[i] \in {sent[k] : k \in DOMAIN sent}
    OBVIOUS
  <2> QED BY <2>1, <2>2 DEF Sched!ToSet
<1>8. /\ h # <<>> => h[1] \in Sched!ToSet(sent)
      /\ m # <<>> => m[1] \in Sched!ToSet(sent)
      /\ l # <<>> => l[1] \in Sched!ToSet(sent)
  <2>1. h # <<>> => Len(h) >= 1 /\ 1 \in 1 .. Len(sent)
    BY <1>2, <1>5, EmptySeq
  <2>2. m # <<>> => Len(m) >= 1 /\ Len(h) + 1 \in 1 .. Len(sent)
    BY <1>2, <1>5, EmptySeq
  <2>3. l # <<>> => Len(l) >= 1 /\ Len(h) + Len(m) + 1 \in 1 .. Len(sent)
    BY <1>2, <1>5, EmptySeq
  <2> QED BY <1>6, <1>7, <2>1, <2>2, <2>3
<1>9. ASSUME FloorsServed(sh, q), NEW c \in Sched!Classes, q[c] # <<>>, serialized_len[q[c][1]] <= Sched!quantum[c]
      PROVE  q[c][1] \in Sched!ToSet(sent)
  <2>1. CASE c = "High"
    BY <1>1, <1>8, <1>9, <2>1 DEF FloorsServed, FloorOf
  <2>2. CASE c = "Medium"
    BY <1>1, <1>8, <1>9, <2>2 DEF FloorsServed, FloorOf
  <2>3. CASE c = "Low"
    BY <1>1, <1>8, <1>9, <2>3 DEF FloorsServed, FloorOf
  <2> QED BY <2>1, <2>2, <2>3 DEF Sched!Classes
<1> QED BY <1>2, <1>3, <1>4, <1>9

\* An epoch, whatever the lease and the channel.
LEMMA EpochStep ==
  ASSUME SchedTypes, SchedInv, Sched!SchedulerEpoch
  PROVE  /\ SchedInv'
         /\ lease = 0 => \A c \in Sched!Classes : queue[c] # <<>> /\ serialized_len[queue[c][1]] <= Sched!quantum[c]
                                                   => queue[c][1] \in Sched!ToSet(drained')
<1>1. PICK active : active = (Sched!SaturateTick(lease) # Sched!NoLease)
  OBVIOUS
<1>2. PICK sh : sh = Sched!DrrShares(queue, Sched!DeficitsOnMode(deficit, active), active)
  OBVIOUS
<1>3. PICK sent : sent = sh.High \o sh.Medium \o sh.Low
  OBVIOUS
<1>4. PICK ch : ch = channel + Sched!Accepted(Sched!Cardinality(Sched!DueRetries(retries)), channel)
  OBVIOUS
<1>5. PICK taken : taken = Sched!Accepted(Len(sent), ch)
  OBVIOUS
<1>6. /\ lease' = Sched!SaturateTick(lease) /\ saturate_mode' = active /\ channel' = ch + taken /\ drained' = sent
      /\ queue' = Sched!AfterForward([c \in Sched!Classes |-> Sched!rest(queue[c], sh[c])], sent, taken)
  BY <1>1, <1>2, <1>3, <1>4, <1>5 DEF Sched!SchedulerEpoch
<1>7. queue \in Queues
  BY DEF SchedInv
<1>8. active \in BOOLEAN /\ SharesFit(sh, queue) /\ (~active => FloorsServed(sh, queue))
  <2>0. active \in BOOLEAN
    BY <1>1
  <2>1. CASE active
    <3>1. sh = [High |-> Sched!drain_queue(queue.High, LinkCapacity), Medium |-> <<>>, Low |-> <<>>]
      BY <1>2, <2>1 DEF Sched!DrrShares
    <3> QED BY <1>7, <2>0, <2>1, <3>1, SaturatedEpoch
  <2>2. CASE ~active
    <3>1. Sched!DeficitsOnMode(deficit, active) = ZeroDeficit
      BY <2>2 DEF Sched!DeficitsOnMode, ZeroDeficit
    <3>2. sh = Sched!SpareShare(queue, Sched!FloorShare(queue, ZeroDeficit))
      BY <1>2, <2>2, <3>1 DEF Sched!DrrShares
    <3> QED BY <1>7, <2>0, <3>2, NormalEpoch
  <2> QED BY <2>0, <2>1, <2>2
<1>9. /\ sent \in Seq(SchedDeltas) /\ Sched!bytes(sent) <= LinkCapacity
      /\ ~active => \A c \in Sched!Classes : queue[c] # <<>> /\ serialized_len[queue[c][1]] <= Sched!quantum[c]
                                               => queue[c][1] \in Sched!ToSet(sent)
  BY <1>3, <1>7, <1>8, SentFits
<1>10. ch \in 0 .. ChannelCapacity /\ taken \in 0 .. Len(sent) /\ ch + taken \in 0 .. ChannelCapacity
  <2>1. ChannelCapacity \in Nat /\ MaxRetryQueue \in Nat /\ channel \in 0 .. ChannelCapacity
    BY DEF SchedTypes, SchedInv
  <2>2. Sched!Cardinality(Sched!DueRetries(retries)) \in Nat
    BY <2>1, DueCount
  <2>3. ch \in 0 .. ChannelCapacity
    BY <1>4, <2>1, <2>2, AcceptedFits
  <2>4. Len(sent) \in Nat
    BY <1>9
  <2> QED BY <1>5, <2>1, <2>3, <2>4, AcceptedFits
<1>11. [c \in Sched!Classes |-> Sched!rest(queue[c], sh[c])] \in Queues
  <2>1. ASSUME NEW c \in Sched!Classes PROVE Sched!rest(queue[c], sh[c]) \in Seq(SchedDeltas)
    <3>1. queue[c] \in Seq(SchedDeltas)
      BY <1>7 DEF Queues
    <3>2. PrefixOf(sh[c], queue[c])
      BY <1>8 DEF SharesFit, Sched!Classes
    <3> QED BY <3>1, <3>2, SharePrefix
  <2> QED BY <2>1 DEF Queues
<1>12. queue' \in Queues
  <2> DEFINE left == [c \in Sched!Classes |-> Sched!rest(queue[c], sh[c])]
  <2>0. left \in Queues /\ queue' = Sched!AfterForward(left, sent, taken)
    BY <1>6, <1>11
  <2> HIDE DEF left
  <2>1. CASE taken = Len(sent)
    BY <2>0, <2>1 DEF Sched!AfterForward
  <2>2. CASE taken # Len(sent)
    <3>1. taken + 1 \in 1 .. Len(sent)
      BY <1>9, <1>10, <2>2
    <3>2. sent[taken + 1] \in SchedDeltas
      BY <1>9, <3>1
    <3>3. queue' = Sched!Enqueued(left, sent[taken + 1])
      BY <2>0, <2>2 DEF Sched!AfterForward
    <3> QED BY <2>0, <3>2, <3>3, EnqueuedType
  <2> QED BY <2>1, <2>2
<1>13. lease' \in Sched!NoLease .. LeaseDuration /\ (lease = 0 => ~active) /\ saturate_mode' = (lease' # Sched!NoLease)
  <2>1. lease' \in Sched!NoLease .. LeaseDuration
    BY <1>6 DEF SchedInv, SchedTypes, Sched!SaturateTick, Sched!NoLease
  <2>2. lease = 0 => Sched!SaturateTick(lease) = Sched!NoLease
    BY DEF Sched!SaturateTick
  <2> QED BY <1>1, <1>6, <2>1, <2>2, Zenon
<1>14. drained' \in Seq(SchedDeltas) /\ Sched!bytes(drained') <= LinkCapacity /\ channel' \in 0 .. ChannelCapacity
  BY <1>6, <1>9, <1>10
<1>15. deficit' \in [Sched!Classes -> Int]
  <2> DEFINE def == Sched!DeficitsOnMode(deficit, active)
  <2>1. deficit' = [c \in Sched!Classes |-> def[c] - Sched!bytes(sh[c]) + (IF active THEN 0 ELSE Sched!quantum[c])]
    BY <1>1, <1>2 DEF Sched!SchedulerEpoch, Sched!DrrDeficits
  <2>2. def \in [Sched!Classes -> Int]
    BY DEF SchedInv, Sched!DeficitsOnMode
  <2>3. \A c \in Sched!Classes : Sched!bytes(sh[c]) \in Nat
    BY <1>8 DEF SharesFit, Sched!Classes
  <2>4. \A c \in Sched!Classes : Sched!quantum[c] \in Nat
    BY QuantaFit DEF SchedTypes, Sched!Classes
  <2> HIDE DEF def
  <2> QED BY <2>1, <2>2, <2>3, <2>4
<1>16. SchedInv'
  BY <1>12, <1>13, <1>14, <1>15 DEF SchedInv
<1>17. drained' = sent
  BY <1>6
<1> QED BY <1>9, <1>13, <1>16, <1>17

\* Every other operation leaves the last epoch's drain alone, and moves the
\* mirror with the lease.
LEMMA SchedStep ==
  ASSUME SchedTypes, SchedInv, [Sched!Next]_schedulerVars
  PROVE  SchedInv'
<1>0. /\ queue \in Queues /\ deficit \in [Sched!Classes -> Int]
      /\ drained \in Seq(SchedDeltas) /\ Sched!bytes(drained) <= LinkCapacity
      /\ channel \in 0 .. ChannelCapacity /\ lease \in Sched!NoLease .. LeaseDuration
      /\ saturate_mode = (lease # Sched!NoLease)
      /\ LeaseDuration \in Nat /\ ChannelCapacity \in Nat
  BY DEF SchedInv, SchedTypes
<1>1. LeaseDuration \in Sched!NoLease .. LeaseDuration /\ Sched!NoLease \in Sched!NoLease .. LeaseDuration
  BY <1>0 DEF Sched!NoLease
<1>2. ASSUME NEW t, Sched!activate_saturate_mode(t) \/ Sched!renew_saturate_mode(t) PROVE SchedInv'
  <2>1. /\ lease' = LeaseDuration /\ UNCHANGED <<queue, channel, drained>>
        /\ saturate_mode' = (lease' # Sched!NoLease)
        /\ deficit' = Sched!DeficitsOnMode(deficit, lease' # Sched!NoLease)
    BY <1>2 DEF Sched!activate_saturate_mode, Sched!renew_saturate_mode, Sched!renew, Sched!activate,
                Sched!reconcile_scheduler_saturate_mode
  <2>2. deficit' \in [Sched!Classes -> Int]
    BY <1>0, <2>1 DEF Sched!DeficitsOnMode
  <2> QED BY <1>0, <1>1, <2>1, <2>2 DEF SchedInv
<1>3. ASSUME NEW s, Sched!terminate_saturate_mode(s) PROVE SchedInv'
  <2>1. /\ lease' = Sched!NoLease /\ UNCHANGED <<queue, channel, drained>>
        /\ saturate_mode' = (lease' # Sched!NoLease)
        /\ deficit' = Sched!DeficitsOnMode(deficit, lease' # Sched!NoLease)
    BY <1>3 DEF Sched!terminate_saturate_mode, Sched!terminate, Sched!reconcile_scheduler_saturate_mode
  <2>2. deficit' \in [Sched!Classes -> Int]
    BY <1>0, <2>1 DEF Sched!DeficitsOnMode
  <2> QED BY <1>0, <1>1, <2>1, <2>2 DEF SchedInv
<1>4. ASSUME NEW d \in SchedDeltas, Sched!enqueue_outbound(d) PROVE SchedInv'
  <2>1. queue' = Sched!Enqueued(queue, d) /\ UNCHANGED <<deficit, saturate_mode, lease, channel, drained>>
    BY <1>4 DEF Sched!enqueue_outbound
  <2>2. queue' \in Queues
    BY <1>0, <2>1, EnqueuedType
  <2> QED BY <1>0, <2>1, <2>2 DEF SchedInv
<1>5. CASE Sched!enqueue_retry
  BY <1>0, <1>5 DEF Sched!enqueue_retry, SchedInv
<1>6. CASE Sched!SchedulerEpoch
  BY <1>6, EpochStep
<1>7. CASE Sched!SwarmPublish
  <2>1. channel' \in 0 .. ChannelCapacity /\ UNCHANGED <<queue, deficit, saturate_mode, lease, drained>>
    BY <1>0, <1>7 DEF Sched!SwarmPublish
  <2> QED BY <1>0, <2>1 DEF SchedInv
<1>8. CASE Sched!ClockTick
  <2>1. lease' = (IF lease > 0 THEN lease - 1 ELSE lease) /\ UNCHANGED <<queue, deficit, saturate_mode, channel, drained>>
    BY <1>8 DEF Sched!ClockTick
  <2>2. lease' \in Sched!NoLease .. LeaseDuration /\ (lease' = Sched!NoLease <=> lease = Sched!NoLease)
    BY <1>0, <2>1 DEF Sched!NoLease
  <2> QED BY <1>0, <2>1, <2>2 DEF SchedInv
<1>9. CASE UNCHANGED schedulerVars
  BY <1>0, <1>9 DEF schedulerVars, SchedInv
<1> QED BY <1>2, <1>3, <1>4, <1>5, <1>6, <1>7, <1>8, <1>9 DEF Sched!Next

\* The scheduler starts empty and in NORMAL.
LEMMA SchedInitInv ==
  ASSUME SchedTypes, Sched!Init
  PROVE  SchedInv
<1>1. /\ queue = [c \in Sched!Classes |-> <<>>] /\ deficit = [c \in Sched!Classes |-> 0]
      /\ saturate_mode = FALSE /\ lease = Sched!NoLease /\ channel = 0 /\ drained = <<>>
  BY DEF Sched!Init, Sched!DrrNew
<1>2. queue \in Queues /\ deficit \in [Sched!Classes -> Int] /\ drained \in Seq(SchedDeltas)
  BY <1>1 DEF Queues
<1>3. Sched!bytes(drained) <= LinkCapacity
  <2>1. Sched!bytes(drained) = 0
    BY <1>1, <1>2, BytesType DEF SchedTypes
  <2> QED BY <2>1 DEF SchedTypes
<1>4. channel \in 0 .. ChannelCapacity /\ lease \in Sched!NoLease .. LeaseDuration
  BY <1>1 DEF SchedTypes, Sched!NoLease
<1> QED BY <1>1, <1>2, <1>3, <1>4 DEF SchedInv

\* In a behaviour of the node the scheduler takes its own steps or none.
LEMMA SchedulerRuns == NodeSpec => SchedSpec
<1>1. NodeInit => Sched!Init
  BY DEF NodeInit
<1>2. [NodeNext]_allVars => [Sched!Next]_schedulerVars
  BY DEF NodeNext, allVars, transportVars, TrustStep, SchedulerStep, FragmentStep, BleStep, PeerStep, MigrationStep, SandboxStep
<1> QED BY <1>1, <1>2, PTL DEF NodeSpec, SchedSpec

\* No epoch drains more than the link carries, the scheduler's flag follows
\* the lease, and the epoch that finds a lease overrun already serves every
\* class whose next delta fits its floor: for any classes' traffic, sizes and
\* link (scheduler.rs tick, transport/mod.rs tick_saturate and
\* reconcile_scheduler_saturate_mode).
THEOREM EpochsAreFair ==
  ASSUME SchedTypes
  PROVE  NodeSpec => EpochIsFair
<1> DEFINE Served == Sched!SchedulerEpoch /\ lease = 0 =>
              \A c \in Sched!Classes : queue[c] # <<>> /\ serialized_len[queue[c][1]] <= Sched!quantum[c]
                               => queue[c][1] \in Sched!ToSet(drained')
<1>1. Sched!Init => SchedInv
  BY SchedInitInv
<1>2. SchedInv /\ [Sched!Next]_schedulerVars => SchedInv'
  BY SchedStep
<1>3. SchedInv => Sched!EpochWithinCapacity /\ Sched!MirrorFollowsLease
  BY DEF SchedInv, Sched!EpochWithinCapacity, Sched!MirrorFollowsLease, Sched!Saturated
<1>4. SchedInv => [Served]_(Sched!vars)
  BY EpochStep
<1> QED BY <1>1, <1>2, <1>3, <1>4, SchedulerRuns, PTL
        DEF SchedSpec, EpochIsFair, Sched!EpochIsFair, Sched!NoExtraSaturateEpoch
-----------------------------------------------------------------------------
(* The trust level. *)

\* Type correctness and the warning together are inductive: the timestamp is a
\* time, so a device that expires is never left with the marker None.
TrustInv == TypeOK /\ LapseIsWarned

\* The state CapabilityManager::new builds satisfies the invariant.
LEMMA InitInv == Init => TrustInv
  BY TrustAssumption DEF Init, TrustInv, TypeOK, LapseIsWarned

\* Expiry (TrustLevelStateMachine::on_token_expired) at a time n keeps the level
\* and the timestamp well typed and sets the latter, unless the device is
\* revoked, which it leaves alone; a timestamp that is there stays.
LEMMA ExpirySound ==
  ASSUME TypeOK, NEW n \in Nat, on_token_expired(n)
  PROVE  /\ level' \in {"Verified", "Unverified", "Revoked"} /\ since' \in Nat \cup {None}
         /\ level' = "Unverified" => since' # None
         /\ level = "Revoked" => level' = "Revoked"
         /\ since # None => since' = since
  BY TrustAssumption DEF TypeOK, on_token_expired

\* A valid token (on_valid_token) ends in VERIFIED.
LEMMA ValidSound ==
  ASSUME on_valid_token
  PROVE  level' = "Verified" /\ since' = None
  BY DEF on_valid_token

\* What one step may do to the level and the timestamp.
StepIsHonest ==
    /\ (level = "Unverified" /\ since # None /\ level' = "Unverified" /\ restarts' = restarts
          => since' = since)
    /\ (level = "Revoked" /\ level' = "Unverified" => restarts' # restarts)

\* Every critical section of the capability lock keeps the invariant and is
\* honest about expiry.
LEMMA StepSound ==
  ASSUME TrustInv, Next
  PROVE  TrustInv' /\ StepIsHonest
<1>. USE TrustAssumption
<1>1. ASSUME NEW n \in Clock, NEW t \in Tokens, present_token(t, n)
      PROVE  TrustInv' /\ StepIsHonest
  <2>1. n \in Nat /\ t.exp \in Nat
    BY <1>1 DEF Clock, Tokens
  <2>2. CASE InDate(t, n) /\ on_valid_token /\ expires' = t.exp /\ credential' = t
    BY <1>1, <2>1, <2>2, ValidSound
       DEF present_token, TrustInv, TypeOK, LapseIsWarned, StepIsHonest
  <2>3. CASE on_token_expired(n) /\ UNCHANGED <<expires, credential>>
    BY <1>1, <2>1, <2>3, ExpirySound
       DEF present_token, TrustInv, TypeOK, LapseIsWarned, StepIsHonest
  <2>. QED BY <1>1, <2>2, <2>3 DEF present_token
<1>2. ASSUME NEW n \in Clock, NEW t \in Tokens, NEW k \in Keys, register_root_ca_key(k, t, n)
      PROVE  TrustInv' /\ StepIsHonest
  <2>1. CASE on_valid_token /\ credential' = t
    BY <1>2, <2>1, ValidSound
       DEF register_root_ca_key, TrustInv, TypeOK, LapseIsWarned, StepIsHonest
  <2>2. CASE UNCHANGED <<level, since, credential>>
    BY <1>2, <2>2 DEF register_root_ca_key, TrustInv, TypeOK, LapseIsWarned, StepIsHonest
  <2>. QED BY <1>2, <2>1, <2>2 DEF register_root_ca_key, verify_token
<1>3. ASSUME NEW n \in Clock, MonitorTick(n)
      PROVE  TrustInv' /\ StepIsHonest
  <2>1. n \in Nat
    BY DEF Clock
  <2>. QED BY <1>3, <2>1, ExpirySound
           DEF MonitorTick, TrustInv, TypeOK, LapseIsWarned, StepIsHonest
<1>4. CASE apply_revocation
  BY <1>4 DEF apply_revocation, TrustInv, TypeOK, LapseIsWarned, StepIsHonest
<1>5. CASE ClockTick
  BY <1>5 DEF ClockTick, TrustInv, TypeOK, LapseIsWarned, StepIsHonest
<1>6. CASE Restart
  BY <1>6 DEF Restart, TrustInv, TypeOK, LapseIsWarned, StepIsHonest
<1>. QED BY <1>1, <1>2, <1>3, <1>4, <1>5, <1>6 DEF Next

\* A step that changes nothing keeps the invariant.
LEMMA StutterSound == TrustInv /\ UNCHANGED vars => TrustInv'
  BY DEF TrustInv, TypeOK, LapseIsWarned, vars

\* The types and the warning hold in every reachable state of the capability
\* manager.
THEOREM TrustInvariant == Spec => []TrustInv
<1>1. TrustInv /\ [Next]_vars => TrustInv'
  BY StepSound, StutterSound
<1>. QED BY InitInv, <1>1, PTL DEF Spec

\* Req 8.4, 8.5: for every set of root CA keys and every order of tokens,
\* expiries, monitor ticks, revocations and restarts, expiry is warned about
\* with its first time and never lifts a revocation.
THEOREM ExpiryStaysHonest == Spec => ExpiryIsHonest
<1>1. TrustInv => LapseIsWarned
  BY DEF TrustInv
<1>2. TrustInv /\ [Next]_vars => [level = "Unverified" /\ since # None /\ level' = "Unverified"
                                   /\ restarts' = restarts => since' = since]_vars
  BY StepSound DEF StepIsHonest
<1>3. TrustInv /\ [Next]_vars => [level = "Revoked" /\ level' = "Unverified"
                                   => restarts' # restarts]_vars
  BY StepSound DEF StepIsHonest
<1>. QED BY TrustInvariant, <1>1, <1>2, <1>3, PTL
         DEF Spec, ExpiryIsHonest, SinceIsFirst, ExpiryKeepsRevoked
-----------------------------------------------------------------------------
(* Types of the scheduler, the fragments and the peers. *)

\* Keeping some entries of a sequence gives one that is no longer.
LEMMA KeptShorter ==
  ASSUME NEW A, NEW s \in Seq(A), NEW P \in SUBSET DOMAIN s
  PROVE  Kept(s, P) \in Seq(A) /\ Len(Kept(s, P)) <= Len(s)
<1>1. DOMAIN s = 1 .. Len(s) /\ Len(s) \in Nat
  OBVIOUS
<1>2. Kept(s, P) \in Seq(A) /\ Len(Kept(s, P)) = Cardinality(P)
  BY <1>1, KeptInOrder
<1>3. IsFiniteSet(1 .. Len(s)) /\ Cardinality(1 .. Len(s)) = Len(s)
  <2>1. 1 \in Int /\ Len(s) \in Int
    BY <1>1
  <2>2. IsFiniteSet(1 .. Len(s)) /\ Cardinality(1 .. Len(s)) = IF 1 > Len(s) THEN 0 ELSE Len(s) - 1 + 1
    BY <2>1, FS_Interval
  <2> QED BY <1>1, <2>2
<1>4. Cardinality(P) <= Len(s)
  BY <1>1, <1>3, FS_Subset
<1> QED BY <1>2, <1>4

RetryInv ==
    /\ retries \in Seq(0 .. RetryInterval) /\ Len(retries) <= MaxRetryQueue
    /\ grants \in 0 .. MaxGrants

RetryTypes == RetryInterval \in Nat /\ MaxRetryQueue \in Nat /\ MaxGrants \in Nat

\* The retry queue stays within its cap (enqueue_retry, drain_due_retries).
LEMMA RetryStep ==
  ASSUME RetryTypes, RetryInv, [Sched!Next]_schedulerVars
  PROVE  RetryInv'
<1>0. /\ retries \in Seq(0 .. RetryInterval) /\ Len(retries) <= MaxRetryQueue /\ grants \in 0 .. MaxGrants
      /\ RetryInterval \in Nat /\ MaxRetryQueue \in Nat /\ MaxGrants \in Nat
  BY DEF RetryInv, RetryTypes
<1>1. CASE UNCHANGED <<retries, grants>>
  BY <1>0, <1>1 DEF RetryInv
<1>2. ASSUME NEW t, Sched!activate_saturate_mode(t) \/ Sched!renew_saturate_mode(t) PROVE RetryInv'
  <2>1. grants < MaxGrants /\ grants' = grants + 1 /\ UNCHANGED retries
    BY <1>2 DEF Sched!activate_saturate_mode, Sched!renew_saturate_mode, Sched!renew, Sched!activate
  <2> QED BY <1>0, <2>1 DEF RetryInv
<1>3. CASE Sched!enqueue_retry
  <2>1. UNCHANGED grants /\ retries' = IF Len(retries) >= MaxRetryQueue THEN retries ELSE Append(retries, RetryInterval)
    BY <1>3 DEF Sched!enqueue_retry, Sched!WithRetry
  <2>2. CASE Len(retries) >= MaxRetryQueue
    BY <1>0, <2>1, <2>2 DEF RetryInv
  <2>3. CASE ~(Len(retries) >= MaxRetryQueue)
    <3>1. retries' = Append(retries, RetryInterval) /\ RetryInterval \in 0 .. RetryInterval
      BY <1>0, <2>1, <2>3
    <3> QED BY <1>0, <2>1, <2>3, <3>1 DEF RetryInv
  <2> QED BY <2>2, <2>3
<1>4. CASE Sched!SchedulerEpoch
  <2> DEFINE P == {i \in DOMAIN retries : retries[i] > 0}
  <2>1. UNCHANGED grants /\ retries' = Sched!Kept(retries, P)
    BY <1>4 DEF Sched!SchedulerEpoch, Sched!RemainingRetries
  <2>2. Sched!Kept(retries, P) = Kept(retries, P)
    BY DEF Sched!Kept, Kept, Sched!SortedBy, SortedBy, Sched!Cardinality, Cardinality
  <2>3. P \in SUBSET DOMAIN retries
    OBVIOUS
  <2> HIDE DEF P
  <2>4. retries' \in Seq(0 .. RetryInterval) /\ Len(retries') <= Len(retries)
    BY <1>0, <2>1, <2>2, <2>3, KeptShorter
  <2> QED BY <1>0, <2>1, <2>4 DEF RetryInv
<1>5. CASE Sched!ClockTick
  <2>1. UNCHANGED grants /\ retries' = [i \in DOMAIN retries |-> IF retries[i] > 0 THEN retries[i] - 1 ELSE 0]
    BY <1>5 DEF Sched!ClockTick
  <2>2. DOMAIN retries = 1 .. Len(retries) /\ Len(retries) \in Nat /\ \A i \in 1 .. Len(retries) : retries[i] \in 0 .. RetryInterval
    BY <1>0
  <2>3. \A i \in 1 .. Len(retries) : (IF retries[i] > 0 THEN retries[i] - 1 ELSE 0) \in 0 .. RetryInterval
    BY <1>0, <2>2
  <2>4. retries' \in [1 .. Len(retries) -> 0 .. RetryInterval]
    BY <2>1, <2>2, <2>3
  <2>5. DOMAIN retries' = 1 .. Len(retries)
    BY <2>4
  <2>6. retries' \in Seq(0 .. RetryInterval)
    BY <2>2, <2>4, SeqDef
  <2>7. Len(retries') = Len(retries)
    BY <2>2, <2>5, <2>6
  <2> QED BY <1>0, <2>1, <2>6, <2>7 DEF RetryInv
<1>6. (\E s : Sched!terminate_saturate_mode(s)) \/ (\E d \in SchedDeltas : Sched!enqueue_outbound(d)) \/ Sched!SwarmPublish
      \/ UNCHANGED schedulerVars => UNCHANGED <<retries, grants>>
  BY DEF Sched!terminate_saturate_mode, Sched!enqueue_outbound, Sched!SwarmPublish, schedulerVars
<1> QED BY <1>1, <1>2, <1>3, <1>4, <1>5, <1>6 DEF Sched!Next

\* The transport's machines share the epoch ticker's flag.
LEMMA ElapsedType == NodeSpec => [](elapsed \in BOOLEAN)
<1>1. NodeInit => elapsed \in BOOLEAN
  BY DEF NodeInit, Sched!Init
<1>2. elapsed \in BOOLEAN /\ [NodeNext]_allVars => (elapsed \in BOOLEAN)'
  <2> SUFFICES ASSUME elapsed \in BOOLEAN, [NodeNext]_allVars PROVE elapsed' \in {TRUE, FALSE, elapsed}
    OBVIOUS
  <2>1. Sched!Next => elapsed' \in {TRUE, FALSE, elapsed}
    BY DEF Sched!Next, Sched!activate_saturate_mode, Sched!renew_saturate_mode, Sched!terminate_saturate_mode,
           Sched!enqueue_outbound, Sched!enqueue_retry, Sched!SchedulerEpoch, Sched!SwarmPublish, Sched!ClockTick
  <2>2. Peer!Next => elapsed' \in {TRUE, FALSE, elapsed}
    <3>1. \A d, c, f, t, s, w : Peer!PassTime(d, c, f, t, s, w) => elapsed' \in {TRUE, FALSE, elapsed}
      BY DEF Peer!PassTime
    <3>2. \A x, w : Peer!initiate_session(x, w) => elapsed' \in {TRUE, FALSE, elapsed}
      BY <3>1 DEF Peer!initiate_session, Peer!register_session, Peer!Refused, Peer!full_ik_handshake,
                  Peer!HandshakeUnrecorded, Peer!HandshakeFails, Peer!HandshakeSucceeds
    <3> QED BY <3>1, <3>2 DEF Peer!Next, Peer!on_peer_discovered, Peer!dial_ble_bridge, Peer!touch_peer,
           Peer!remove_peer, Peer!ConnectionEstablished, Peer!initiate_noise_session, Peer!DirectConnect,
           Peer!PeerEpoch, Peer!ClockTick
  <2> QED BY <2>1, <2>2 DEF NodeNext, allVars, transportVars, TrustStep, SchedulerStep, FragmentStep, BleStep, PeerStep,
                            MigrationStep, SandboxStep
<1> QED BY <1>1, <1>2, PTL DEF NodeSpec

\* Type correctness of the scheduler, the lease and the retry queue: for every
\* traffic the deficits stay integers, the lease within its duration and the
\* queues within their caps.
THEOREM SchedulerTypes ==
  ASSUME SchedTypes, RetryTypes
  PROVE  NodeSpec => []Sched!TypeOK
<1>1. Sched!Init => SchedInv /\ RetryInv
  <2> SUFFICES ASSUME Sched!Init PROVE SchedInv /\ RetryInv
    OBVIOUS
  <2>1. retries = <<>> /\ grants = 0
    BY DEF Sched!Init
  <2>2. retries \in Seq(0 .. RetryInterval) /\ Len(retries) = 0
    BY <2>1
  <2> QED BY <2>1, <2>2, SchedInitInv DEF RetryInv, RetryTypes
<1>2. SchedInv /\ RetryInv /\ [Sched!Next]_schedulerVars => SchedInv' /\ RetryInv'
  BY SchedStep, RetryStep
<1>3. SchedInv /\ RetryInv /\ elapsed \in BOOLEAN => Sched!TypeOK
  BY Zenon DEF SchedInv, RetryInv, Queues, Sched!TypeOK
<1> QED BY <1>1, <1>2, <1>3, SchedulerRuns, ElapsedType, PTL DEF SchedSpec

\* The receiver's buffer within its cap.
BufferInv == IsFiniteSet(DOMAIN pending) /\ Cardinality(DOMAIN pending) <= MaxSlots

\* A fragment takes a slot only where one is free or evicted.
LEMMA BufferAdds ==
  ASSUME FragInv, BufferInv, MaxSlots \in Nat, NEW f, NEW gone \in Frag!EvictionChoices(f.delta_id),
         Frag!add_fragment(f, gone)
  PROVE  BufferInv'
<1> DEFINE D == DOMAIN pending
           d == f.delta_id
<1>0. IsFiniteSet(D) /\ Cardinality(D) \in Nat /\ Cardinality(D) <= MaxSlots /\ D \subseteq FragDeltas
  BY FS_CardinalityType DEF BufferInv, FragInv, Partial, Slots
<1>1. DOMAIN pending' \subseteq (D \ gone) \cup {d}
  <2>1. AddRefused(f, gone) \/ AddComplete(f, gone) \/ AddStored(f, gone)
    BY AddCases
  <2> QED BY <2>1 DEF AddRefused, AddComplete, AddStored, KeptBy, Frag!RestrictTo, Frag!Put
<1>2. \/ gone = {} /\ (d \in D \/ Cardinality(D) < MaxSlots)
      \/ \E k \in D : gone = {k}
  BY DEF Frag!EvictionChoices, Frag!Cardinality, Cardinality
<1> HIDE DEF D
<1>3. CASE gone = {} /\ d \in D
  <2>1. DOMAIN pending' \subseteq D
    BY <1>1, <1>3
  <2> QED BY <1>0, <1>1, <1>3, <2>1, FS_Subset, FS_CardinalityType DEF BufferInv
<1>4. CASE gone = {} /\ d \notin D /\ Cardinality(D) < MaxSlots
  <2>1. IsFiniteSet(D \cup {d}) /\ Cardinality(D \cup {d}) = Cardinality(D) + 1
    BY <1>0, <1>4, FS_AddElement
  <2>2. DOMAIN pending' \subseteq D \cup {d}
    BY <1>1, <1>4
  <2>3. IsFiniteSet(DOMAIN pending') /\ Cardinality(DOMAIN pending') <= Cardinality(D) + 1 /\ Cardinality(DOMAIN pending') \in Nat
    BY <2>1, <2>2, FS_Subset, FS_CardinalityType
  <2> QED BY <1>0, <1>1, <1>4, <2>3 DEF BufferInv
<1>5. ASSUME NEW k \in D, gone = {k} PROVE BufferInv'
  <2>1. IsFiniteSet(D \ {k}) /\ Cardinality(D \ {k}) = Cardinality(D) - 1
    BY <1>0, FS_RemoveElement
  <2>2. IsFiniteSet((D \ {k}) \cup {d}) /\ Cardinality((D \ {k}) \cup {d}) <= Cardinality(D)
    <3>1. PICK R : R = D \ {k}
      OBVIOUS
    <3>2. IsFiniteSet(R \cup {d}) /\ Cardinality(R \cup {d}) = IF d \in R THEN Cardinality(R) ELSE Cardinality(R) + 1
      BY <2>1, <3>1, FS_AddElement
    <3> QED BY <1>0, <2>1, <3>1, <3>2
  <2>3. DOMAIN pending' \subseteq (D \ {k}) \cup {d}
    BY <1>1, <1>5
  <2>4. Cardinality((D \ {k}) \cup {d}) \in Nat
    BY <2>2, FS_CardinalityType
  <2>5. IsFiniteSet(DOMAIN pending') /\ Cardinality(DOMAIN pending') <= Cardinality((D \ {k}) \cup {d})
        /\ Cardinality(DOMAIN pending') \in Nat
    BY <2>2, <2>3, FS_Subset, FS_CardinalityType
  <2> QED BY <1>0, <1>1, <1>5, <2>2, <2>4, <2>5 DEF BufferInv
<1> QED BY <1>2, <1>3, <1>4, <1>5

\* Type correctness of the low-MTU transport: the reassembly buffer never holds
\* more than MAX_REASSEMBLY_SLOTS deltas, whatever is evicted for what
\* (fragment.rs add_fragment), and only deltas that somebody sent are handed in.
THEOREM FragmentTypes ==
  ASSUME FragTypes, MaxSlots \in Nat
  PROVE  NodeSpec => []Frag!TypeOK
<1>1. Frag!Init => BufferInv
  BY FS_EmptySet DEF Frag!Init, BufferInv
<1>2. FragInv /\ BufferInv /\ [Frag!Next]_(Frag!vars) => BufferInv'
  <2> SUFFICES ASSUME FragInv, BufferInv, [Frag!Next]_(Frag!vars) PROVE BufferInv'
    OBVIOUS
  <2>1. CASE UNCHANGED pending
    BY <2>1 DEF BufferInv
  <2>2. ASSUME NEW m \in network, Frag!ReceiveMessage(m) PROVE BufferInv'
    BY <2>1, <2>2, BufferAdds DEF Frag!ReceiveMessage, Frag!process_wire_message, Frag!UnwrapRelayed
  <2> QED BY <2>1, <2>2 DEF Frag!Next, Frag!send_delta, Frag!send_via_relay, Frag!vars
<1>3. FragInv /\ [Frag!Next]_(Frag!vars) => FragInv'
  BY FragStep
<1>4. FragInv /\ BufferInv => Frag!TypeOK
  <2> SUFFICES ASSUME FragInv, BufferInv PROVE Frag!TypeOK
    OBVIOUS
  <2>1. DOMAIN pending \subseteq FragDeltas
    BY DEF FragInv, Partial, Slots
  <2>2. ASSUME NEW d \in inbound PROVE d \in FragDeltas
    <3>1. CASE \E s \in Sends : s[1] = d
      BY <3>1 DEF FragTypes
    <3>2. CASE Frag!RelayDelta(d, Local) \in arrived
      <4>1. Frag!RelayDelta(d, Local) \in network
        BY <3>2 DEF FragInv
      <4>2. PICK r \in Relayed : Frag!RelayDelta(d, Local) = Frag!RelayDelta(r[1], r[2])
        <5>1. PICK m : m = Frag!RelayDelta(d, Local)
          OBVIOUS
        <5>2. Frag!IsRelayed(m) /\ m \in network
          BY <4>1, <5>1, Kinds
        <5>3. \/ \E k \in FragDeltas : m = Frag!Whole(k)
              \/ \E k \in FragDeltas, mtu \in Nat : \E i : m = FragmentOf(k, mtu, i)
              \/ \E r \in Relayed : m = Frag!RelayDelta(r[1], r[2])
          BY <5>2, Carried
        <5>4. (\A k : m # Frag!Whole(k)) /\ (\A k, mtu, i : m # FragmentOf(k, mtu, i))
          BY <5>2, Kinds
        <5> QED BY <5>1, <5>3, <5>4
      <4>3. d = r[1]
        BY <4>2, Kinds
      <4> QED BY <4>3 DEF FragTypes
    <3> QED BY <3>1, <3>2 DEF FragInv, Frag!OnlyWholeDeltas, Frag!WholeArrived
  <2>3. Cardinality(DOMAIN pending) = Frag!Cardinality(DOMAIN pending)
    BY DEF Frag!Cardinality, Cardinality
  <2>4. ASSUME NEW d \in garbled PROVE d \in FragDeltas
    <3>1. PICK s \in Sends : s[1] = d
      BY DEF FragInv, Frag!OnlyWholeDeltas, Frag!GarbledByTwin
    <3> QED BY <3>1 DEF FragTypes
  <2> QED BY <2>1, <2>2, <2>3, <2>4 DEF BufferInv, Frag!TypeOK
<1> QED BY <1>1, <1>2, <1>3, <1>4, FragInitInv, FragRuns, PTL DEF FragSpec

Credential == [peer : Peers, age : 0 .. CredentialValidity + MaxDelay]

\* The tables of a device name peers, and the resumption cache keeps its cap.
TablesInv ==
    /\ DOMAIN peers \subseteq Peers /\ DOMAIN sessions \subseteq Peers
    /\ credentials \in Seq(Credential) /\ Len(credentials) <= CacheSize

PeerTypes == CacheSize \in Nat \ {0} /\ CredentialValidity \in Nat /\ BackoffTypes

\* LruCache::put makes room before it adds.
LEMMA StoredCredential ==
  ASSUME PeerTypes, NEW cache \in Seq(Credential), Len(cache) <= CacheSize, NEW x \in Peer!Attempts
  PROVE  /\ Peer!store_credential(cache, x) \in Seq(Credential)
         /\ Len(Peer!store_credential(cache, x)) <= CacheSize
<1> DEFINE P == {i \in DOMAIN cache : cache[i].peer # x.peer}
           others == Kept(cache, P)
           room == IF Len(others) >= CacheSize THEN Tail(others) ELSE others
           c == [peer |-> x.peer, age |-> x.age]
<1>1. Peer!Kept(cache, P) = Kept(cache, P)
  BY DEF Peer!Kept, Kept, Peer!SortedBy, SortedBy, Peer!Cardinality, Cardinality
<1>2. Peer!store_credential(cache, x) = Append(room, c)
  BY <1>1 DEF Peer!store_credential
<1>3. P \in SUBSET DOMAIN cache
  OBVIOUS
<1> HIDE DEF P
<1>4. others \in Seq(Credential) /\ Len(others) <= Len(cache)
  BY <1>3, KeptShorter
<1>5. c \in Credential /\ CacheSize \in Nat \ {0}
  BY DEF Credential, PeerTypes, BackoffTypes, Peer!Attempts
<1> HIDE DEF others, c
<1>6. Len(others) \in Nat /\ Len(others) <= CacheSize
  BY <1>4, <1>5
<1>7. room \in Seq(Credential) /\ Len(room) + 1 <= CacheSize
  <2>1. CASE Len(others) >= CacheSize
    <3>1. others # <<>>
      BY <1>5, <1>6, <2>1
    <3>2. Tail(others) \in Seq(Credential) /\ Len(Tail(others)) = Len(others) - 1
      BY <1>4, <3>1
    <3> QED BY <1>5, <1>6, <2>1, <3>2
  <2>2. CASE ~(Len(others) >= CacheSize)
    BY <1>4, <1>5, <1>6, <2>2
  <2> QED BY <2>1, <2>2
<1> HIDE DEF room
<1> QED BY <1>2, <1>5, <1>7

\* Expired credentials leave, and none is added.
LEMMA EvictedCredentials ==
  ASSUME credentials \in Seq(Credential), NEW x
  PROVE  /\ Peer!EvictExpired(x) \in Seq(Credential)
         /\ Len(Peer!EvictExpired(x)) <= Len(credentials)
<1> DEFINE P == {i \in DOMAIN credentials : credentials[i].peer # x.peer \/ credentials[i].age - x.age < CredentialValidity}
<1>1. Peer!EvictExpired(x) = Kept(credentials, P)
  BY DEF Peer!EvictExpired, Peer!Kept, Kept, Peer!SortedBy, SortedBy, Peer!Cardinality, Cardinality
<1>2. P \in SUBSET DOMAIN credentials
  OBVIOUS
<1> HIDE DEF P
<1> QED BY <1>1, <1>2, KeptShorter

Tables(cache, table) ==
    /\ DOMAIN table \subseteq Peers
    /\ cache \in Seq(Credential) /\ Len(cache) <= CacheSize

\* Time changes ages only.
LEMMA TimeKeepsTables ==
  ASSUME PeerTypes, TablesInv, NEW d \in Nat, NEW cache, NEW records, NEW table, NEW history, NEW waiting,
         Tables(cache, table), Peer!PassTime(d, cache, records, table, history, waiting)
  PROVE  TablesInv'
<1> DEFINE limit == CredentialValidity + MaxDelay
<1>0. DOMAIN peers \subseteq Peers /\ DOMAIN table \subseteq Peers
      /\ cache \in Seq(Credential) /\ Len(cache) <= CacheSize /\ limit \in Nat
  BY DEF TablesInv, Tables, PeerTypes, BackoffTypes
<1>1. /\ DOMAIN peers' = DOMAIN peers /\ DOMAIN sessions' = DOMAIN table
      /\ credentials' = [i \in DOMAIN cache |-> [cache[i] EXCEPT !.age = Peer!Older(@, d, limit)]]
  BY DEF Peer!PassTime
<1>2. DOMAIN cache = 1 .. Len(cache) /\ Len(cache) \in Nat
      /\ \A i \in 1 .. Len(cache) : cache[i] \in Credential
  BY <1>0
<1>3. Credential = [peer : Peers, age : 0..limit]
  BY DEF Credential
<1> HIDE DEF limit
<1>4. ASSUME NEW i \in 1 .. Len(cache)
      PROVE  [cache[i] EXCEPT !.age = Peer!Older(@, d, limit)] \in Credential
  <2>1. cache[i] \in [peer : Peers, age : 0..limit] /\ cache[i].age \in Nat
    BY <1>0, <1>2, <1>3
  <2>2. Peer!Older(cache[i].age, d, limit) \in 0 .. limit
    BY <1>0, <2>1, OlderTypes
  <2> QED BY <1>3, <2>1, <2>2
<1>5. credentials' \in [1 .. Len(cache) -> Credential]
  BY <1>1, <1>2, <1>4
<1>6. credentials' \in Seq(Credential) /\ Len(credentials') = Len(cache)
  BY <1>2, <1>5
<1> QED BY <1>0, <1>1, <1>6 DEF TablesInv

\* A call of initiate_session.
LEMMA SessionTables ==
  ASSUME PeerTypes, TablesInv, NEW x \in Peer!Attempts, NEW waiting, Peer!initiate_session(x, waiting)
  PROVE  TablesInv'
<1>0. /\ DOMAIN sessions \subseteq Peers /\ credentials \in Seq(Credential) /\ Len(credentials) <= CacheSize
      /\ CacheSize \in Nat /\ x.peer \in Peers
  BY DEF TablesInv, PeerTypes, Peer!Attempts
<1>1. \A l : DOMAIN Peer!NewSession(x, l) \subseteq Peers
  BY <1>0 DEF Peer!NewSession, Peer!Put
<1>2. Peer!EvictExpired(x) \in Seq(Credential) /\ Len(Peer!EvictExpired(x)) <= CacheSize
  <2>1. Peer!EvictExpired(x) \in Seq(Credential) /\ Len(Peer!EvictExpired(x)) <= Len(credentials)
    BY <1>0, EvictedCredentials
  <2> QED BY <1>0, <2>1
<1>3. /\ Tables(credentials, sessions) /\ Tables(Peer!EvictExpired(x), sessions)
      /\ Tables(Peer!store_credential(credentials, x), Peer!NewSession(x, FALSE))
      /\ Tables(Peer!store_credential(Peer!EvictExpired(x), x), Peer!NewSession(x, TRUE))
  <2>1. \A c \in Seq(Credential) : Len(c) <= CacheSize
          => Peer!store_credential(c, x) \in Seq(Credential) /\ Len(Peer!store_credential(c, x)) <= CacheSize
    BY StoredCredential
  <2> QED BY <1>0, <1>1, <1>2, <2>1 DEF Tables
<1>4. (\A d \in 0..MaxExchange : d \in Nat) /\ 0 \in Nat
  BY DEF PeerTypes, BackoffTypes
<1>5. CASE Peer!register_session(x, waiting)
  BY <1>3, <1>4, <1>5, TimeKeepsTables DEF Peer!register_session
<1>6. CASE Peer!Refused(x, waiting)
  BY <1>3, <1>4, <1>6, TimeKeepsTables DEF Peer!Refused
<1>7. CASE Peer!HandshakeUnrecorded(x, waiting)
  BY <1>3, <1>4, <1>7, TimeKeepsTables DEF Peer!HandshakeUnrecorded
<1>8. ASSUME NEW d \in 0..MaxExchange, Peer!HandshakeFails(x, d, waiting) PROVE TablesInv'
  BY <1>3, <1>4, <1>8, TimeKeepsTables DEF Peer!HandshakeFails
<1>9. ASSUME NEW d \in 0..MaxExchange, Peer!HandshakeSucceeds(x, d, waiting) PROVE TablesInv'
  BY <1>3, <1>4, <1>9, TimeKeepsTables DEF Peer!HandshakeSucceeds
<1> QED BY <1>5, <1>6, <1>7, <1>8, <1>9 DEF Peer!initiate_session, Peer!full_ik_handshake

\* Every step of the peers keeps the tables.
LEMMA TablesStep ==
  ASSUME PeerTypes, TablesInv, [Peer!Next]_peerVars
  PROVE  TablesInv'
<1>0. /\ DOMAIN peers \subseteq Peers /\ DOMAIN sessions \subseteq Peers
      /\ credentials \in Seq(Credential) /\ Len(credentials) <= CacheSize
  BY DEF TablesInv
<1>1. ASSUME UNCHANGED <<sessions, credentials>>, DOMAIN peers' \subseteq Peers PROVE TablesInv'
  BY <1>0, <1>1 DEF TablesInv
<1>2. ASSUME NEW p \in Peers, NEW h, Peer!on_peer_discovered(p, h) PROVE TablesInv'
  BY <1>0, <1>1, <1>2 DEF Peer!on_peer_discovered, Peer!Discovered, Peer!Put
<1>3. ASSUME NEW p \in Peers, Peer!touch_peer(p) \/ Peer!remove_peer(p) \/ Peer!ConnectionEstablished(p) PROVE TablesInv'
  <2>1. UNCHANGED <<sessions, credentials>>
    BY <1>3 DEF Peer!touch_peer, Peer!remove_peer, Peer!ConnectionEstablished
  <2>2. DOMAIN peers' \subseteq Peers
    BY <1>0, <1>3 DEF Peer!touch_peer, Peer!remove_peer, Peer!Keep, Peer!ConnectionEstablished, Peer!Discovered, Peer!Put
  <2> QED BY <1>1, <2>1, <2>2
<1>4. ASSUME NEW x \in Peer!Attempts, Peer!initiate_noise_session(x) \/ Peer!DirectConnect(x) PROVE TablesInv'
  BY <1>4, SessionTables DEF Peer!initiate_noise_session, Peer!DirectConnect
<1>5. CASE Peer!PeerEpoch
  <2>1. peers' = Peer!tick_timeouts /\ sessions' = Peer!tick_key_rotation /\ UNCHANGED credentials
    BY <1>5 DEF Peer!PeerEpoch
  <2>2. DOMAIN peers' \subseteq Peers /\ DOMAIN sessions' \subseteq Peers
    BY <1>0, <2>1 DEF Peer!tick_timeouts, Peer!Keep, Peer!tick_key_rotation
  <2> QED BY <1>0, <2>1, <2>2 DEF TablesInv
<1>6. CASE Peer!ClockTick
  <2>1. Tables(credentials, sessions)
    BY <1>0 DEF Tables
  <2> QED BY <1>6, <2>1, TimeKeepsTables DEF Peer!ClockTick
<1>7. CASE UNCHANGED peerVars
  BY <1>0, <1>1, <1>7 DEF peerVars
<1> QED BY <1>2, <1>3, <1>4, <1>5, <1>6, <1>7 DEF Peer!Next, Peer!dial_ble_bridge

\* Type correctness of the peers: the tables name known peers only and the
\* resumption cache never outgrows MAX_RESUMPTION_CACHE, in any order of
\* contacts, handshakes, failures, expiries and rotations (session.rs,
\* discovery.rs).
THEOREM PeerTablesTypes ==
  ASSUME PeerTypes
  PROVE  NodeSpec => []Peer!TypeOK
<1>1. Peer!Init => BackoffInv /\ TablesInv
  <2> SUFFICES ASSUME Peer!Init PROVE BackoffInv /\ TablesInv
    OBVIOUS
  <2>1. BackoffInv
    BY DEF Peer!Init, BackoffInv, Backed, PeerTypes, BackoffTypes
  <2>2. credentials = <<>> /\ peers = <<>> /\ sessions = <<>> /\ handshakes = {}
    BY DEF Peer!Init
  <2>3. credentials \in Seq(Credential) /\ Len(credentials) = 0 /\ DOMAIN peers = {} /\ DOMAIN sessions = {}
    BY <2>2
  <2> QED BY <2>1, <2>2, <2>3 DEF TablesInv, PeerTypes
<1>2. BackoffInv /\ TablesInv /\ [Peer!Next]_peerVars => BackoffInv' /\ TablesInv'
  BY BackoffStep, TablesStep DEF PeerTypes
<1>3. BackoffInv /\ TablesInv => Peer!TypeOK
  BY DEF BackoffInv, Backed, TablesInv, FailureRecord, Peer!TypeOK
<1> QED BY <1>1, <1>2, <1>3, PeerRuns, PTL DEF PeerSpec

-----------------------------------------------------------------------------
(* The pipeline on a node. *)

Mig == INSTANCE MigrationProofs WITH MaxRestarts <- MigMaxRestarts, restarts <- jobRestarts

\* The machine's pipeline is the one of MigrationProofs: same initial states, ...
LEMMA SamePipelineInit == Pipeline!Init <=> Mig!Init
  BY DEF Pipeline!Init, Mig!Init, Pipeline!InitEngine, Mig!InitEngine, Pipeline!Schemas, Mig!Schemas

\* ... same state, ...
LEMMA SamePipelineVars == UNCHANGED Pipeline!vars <=> UNCHANGED Mig!vars
  BY DEF Pipeline!vars, Mig!vars, Pipeline!engineVars, Mig!engineVars

\* ... same types, ...
LEMMA SamePipelineTypes == Pipeline!TypeOK <=> Mig!TypeOK
  BY DEF Pipeline!TypeOK, Mig!TypeOK, Pipeline!Schemas, Mig!Schemas

\* ... same steps.
LEMMA SamePipelineNext == Pipeline!Next <=> Mig!Next
  BY DEF Pipeline!Next, Mig!Next, Pipeline!JobStep, Mig!JobStep, Pipeline!register_ca_public_key,
         Mig!register_ca_public_key, Pipeline!dispatch_inbound_migration, Mig!dispatch_inbound_migration,
         Pipeline!prepare_migration, Mig!prepare_migration, Pipeline!StartRun, Mig!StartRun, Pipeline!EndRun,
         Mig!EndRun, Pipeline!finish_migration, Mig!finish_migration, Pipeline!ReadCurrent, Mig!ReadCurrent,
         Pipeline!set_current_schema, Mig!set_current_schema, Pipeline!replay_corrupted_windows,
         Mig!replay_corrupted_windows, Pipeline!interrupt, Mig!interrupt, Pipeline!receive_revocation_delta,
         Mig!receive_revocation_delta, Pipeline!ProduceWrite, Mig!ProduceWrite,
         Pipeline!record_corrupted_window_write, Mig!record_corrupted_window_write, Pipeline!Restart, Mig!Restart,
         Pipeline!Schemas, Mig!Schemas, Pipeline!engineVars, Mig!engineVars, Pipeline!verify_version_path,
         Mig!verify_version_path, Pipeline!JobIn, Mig!JobIn, Pipeline!Job, Mig!Job, Pipeline!Finished,
         Mig!Finished, Pipeline!Ends, Mig!Ends, Pipeline!Refused, Mig!Refused, Pipeline!Authentic, Mig!Authentic,
         Pipeline!NotApplicable, Mig!NotApplicable, Pipeline!MustWait, Mig!MustWait, Pipeline!CrdtLocked,
         Mig!CrdtLocked, Pipeline!Elems, Mig!Elems, Pipeline!update_entry_status, Mig!update_entry_status,
         Pipeline!Replayed, Mig!Replayed, Pipeline!load_entries_ordered, Mig!load_entries_ordered,
         Pipeline!mark_migration_complete, Mig!mark_migration_complete, Pipeline!replay_sidecar,
         Mig!replay_sidecar, Pipeline!Untouched, Mig!Untouched, Pipeline!ReplayWindow, Mig!ReplayWindow,
         Pipeline!ValidManagers, Mig!ValidManagers, Pipeline!InProgressAfterRevocation,
         Mig!InProgressAfterRevocation, Pipeline!Revocable, Mig!Revocable, Pipeline!active_corruption_migration,
         Mig!active_corruption_migration, Pipeline!Cardinality, Mig!Cardinality

\* The node runs the pipeline or leaves it alone.
LEMMA PipelineRuns == NodeSpec => Mig!PipelineSpec
<1>1. NodeInit => Mig!Init
  BY SamePipelineInit DEF NodeInit
<1>2. [NodeNext]_allVars => [Pipeline!Next]_(Pipeline!vars)
  BY DEF NodeNext, allVars, migrationVars, Pipeline!vars, Pipeline!engineVars, TrustStep, SchedulerStep, FragmentStep,
         BleStep, PeerStep, MigrationStep, SandboxStep
<1>3. [NodeNext]_allVars => [Mig!Next]_(Mig!vars)
  BY <1>2, SamePipelineNext, SamePipelineVars
<1> QED BY <1>1, <1>3, PTL DEF NodeSpec, Mig!PipelineSpec

\* The node runs the capability manager or leaves it alone.
LEMMA TrustRuns == NodeSpec => Spec
<1>1. NodeInit => Init
  BY DEF NodeInit
<1>2. [NodeNext]_allVars => [Next]_vars
  BY DEF NodeNext, allVars, TrustStep, SchedulerStep, FragmentStep, BleStep, PeerStep, MigrationStep, SandboxStep
<1> QED BY <1>1, <1>2, PTL DEF NodeSpec, Spec

\* One machine of the node is looked at.
LEMMA MachineStays == NodeSpec => [](machine \in {"trust", "migration", "sandbox"} \cup Mesh)
<1>1. NodeInit => machine \in {"trust", "migration", "sandbox"} \cup Mesh
  BY DEF NodeInit
<1>2. [NodeNext]_allVars => UNCHANGED machine
  BY DEF NodeNext, allVars, TrustStep, SchedulerStep, FragmentStep, BleStep, PeerStep, MigrationStep, SandboxStep
<1>3. machine \in {"trust", "migration", "sandbox"} \cup Mesh /\ UNCHANGED machine
      => (machine \in {"trust", "migration", "sandbox"} \cup Mesh)'
  BY DEF Mesh
<1> QED BY <1>1, <1>2, <1>3, PTL DEF NodeSpec

\* Type correctness of all the machines of a node, for all sets of keys, deltas,
\* peers, migrations and runs and all caps.
THEOREM NodeTypes ==
  ASSUME SchedTypes, RetryTypes, FragTypes, MaxSlots \in Nat, PeerTypes, PathLength \in Nat \ {0}
  PROVE  NodeSpec => []TypesOK
<1>1. /\ NodeSpec => []Sched!TypeOK
      /\ NodeSpec => []Frag!TypeOK
      /\ NodeSpec => []Peer!TypeOK
      /\ Mig!PipelineSpec => []Mig!TypeOK
  BY SchedulerTypes, FragmentTypes, PeerTablesTypes, Mig!PipelineTypes
<1>2. /\ TrustInv => TypeOK
      /\ SandboxInv => Sandbox!TypeOK
      /\ Mig!TypeOK => Pipeline!TypeOK
  BY SamePipelineTypes DEF TrustInv, SandboxInv
<1>3. machine \in {"trust", "migration", "sandbox"} \cup Mesh /\ TypeOK /\ Sched!TypeOK /\ Frag!TypeOK
      /\ Peer!TypeOK /\ Pipeline!TypeOK /\ Sandbox!TypeOK => TypesOK
  <2> SUFFICES ASSUME machine \in {"trust", "migration", "sandbox"} \cup Mesh, TypeOK, Sched!TypeOK, Frag!TypeOK,
                      Peer!TypeOK, Pipeline!TypeOK, Sandbox!TypeOK
               PROVE  TypesOK
    OBVIOUS
  <2>1. machine = "trust" \/ machine \in Mesh \/ machine = "migration" \/ machine = "sandbox"
    OBVIOUS
  <2> QED BY <2>1, Zenon DEF TypesOK
<1> QED BY <1>1, <1>2, <1>3, PipelineRuns, TrustRuns, SandboxRuns, MachineStays, TrustInvariant, SandboxInvariant, PTL
=============================================================================
