----------------------------- MODULE MeshPeers ------------------------------
(***************************************************************************)
(* The peers of a device: the discovery table (discovery.rs), the Noise    *)
(* sessions with their resumption cache, failure backoff and key rotation  *)
(* (session.rs, mod.rs initiate_session), and the swarm events that drive  *)
(* them (api/mod.rs init).                                                 *)
(*                                                                         *)
(* Every timestamp is kept as an age: the time since, counted up to where  *)
(* the code's comparisons can no longer tell it apart.  An attempt carries *)
(* a clock reading of its own, taken before it waits for the transport's   *)
(* lock, and everything it writes is stamped with that reading.  The lock  *)
(* is held over the awaited exchange, so that during it only time moves.   *)
(***************************************************************************)
EXTENDS Integers, FiniteSets, Sequences, Subsequences

CONSTANTS Peers,
          Resolvable,       \* peers whose DID resolves to an X25519 key
          MaxHopCount, PeerTimeout, \* TransportConfig
          CacheSize,        \* MAX_RESUMPTION_CACHE
          CredentialValidity, RetryBackoff, RotationInterval,
          MaxDelay,         \* bound: from an attempt's clock reading to the lock
          MaxWaiting,       \* bound: attempts that wait for the lock
          MaxExchange       \* bound: how long a handshake's messages take

\* The arguments of initiate_session: age is that of now_secs, revoked says
\* that the stated trust level is Revoked, keyed that the caller passed the
\* peer's static key.
Attempts == [peer : Peers, age : 0..MaxDelay, revoked : BOOLEAN, keyed : BOOLEAN]

VARIABLES
    peers,       \* PeerDiscovery.peers: DID -> age of the last contact
    handshakes,  \* the attempts of initiate_noise_session tasks that wait for the lock
    credentials, \* SessionManager.resumption_cache, least recently used first
    failures,    \* SessionManager.failure_records
    sessions,    \* active_sessions: DID -> [live, age]; live: it holds a snow transport
    elapsed,     \* the scheduler loop's interval has elapsed
    sinceFailure \* history: time since the clock reading of each peer's last recorded failure

vars == <<peers, handshakes, credentials, failures, sessions, elapsed, sinceFailure>>

Init ==
    /\ peers = <<>> /\ handshakes = {} /\ credentials = <<>> /\ failures = {}
    /\ sessions = <<>> /\ elapsed = FALSE
    /\ sinceFailure = [p \in Peers |-> RetryBackoff]

Put(f, x, y) == [k \in DOMAIN f \cup {x} |-> IF k = x THEN y ELSE f[k]]
Keep(f, S) == [k \in S |-> f[k]]
Older(age, d, limit) == IF age + d < limit THEN age + d ELSE limit

\* The tables are left as given, and d units of time pass.
PassTime(d, cache, records, table, history, waiting) ==
    /\ \A h \in waiting : h.age + d <= MaxDelay
    /\ elapsed' = (elapsed \/ d > 0)
    /\ peers' = [p \in DOMAIN peers |-> Older(peers[p], d, PeerTimeout)]
    /\ handshakes' = {[h EXCEPT !.age = @ + d] : h \in waiting}
    /\ credentials' = [i \in DOMAIN cache |->
                         [cache[i] EXCEPT !.age = Older(@, d, CredentialValidity + MaxDelay)]]
    /\ failures' = {[r EXCEPT !.age = Older(@, d, RetryBackoff + MaxDelay)] : r \in records}
    /\ sessions' = [p \in DOMAIN table |-> [table[p] EXCEPT !.age = Older(@, d, RotationInterval)]]
    /\ sinceFailure' = [p \in Peers |-> Older(history[p], d, RetryBackoff)]

-----------------------------------------------------------------------------
(* Discovery table. *)

\* A peer beyond the hop limit is ignored, and the call still succeeds.
Discovered(p, hops) == IF hops > MaxHopCount THEN peers ELSE Put(peers, p, 0)

on_peer_discovered(p, hops) ==
    /\ peers' = Discovered(p, hops)
    /\ UNCHANGED <<handshakes, credentials, failures, sessions, elapsed, sinceFailure>>

dial_ble_bridge(p) == on_peer_discovered(p, 1)

touch_peer(p) ==
    /\ p \in DOMAIN peers
    /\ peers' = [peers EXCEPT ![p] = 0]
    /\ UNCHANGED <<handshakes, credentials, failures, sessions, elapsed, sinceFailure>>

remove_peer(p) ==
    /\ p \in DOMAIN peers
    /\ peers' = Keep(peers, DOMAIN peers \ {p})
    /\ UNCHANGED <<handshakes, credentials, failures, sessions, elapsed, sinceFailure>>

tick_timeouts == Keep(peers, {p \in DOMAIN peers : peers[p] < PeerTimeout})

-----------------------------------------------------------------------------
(* Session manager. *)

\* LruCache::put: the newest entry replaces the peer's old one and, at the
\* cap, pushes out the least recently stored.
store_credential(cache, x) ==
    LET others == Kept(cache, {i \in DOMAIN cache : cache[i].peer # x.peer})
        room   == IF Len(others) >= CacheSize THEN Tail(others) ELSE others
    IN  Append(room, [peer |-> x.peer, age |-> x.age])

EvictExpired(x) ==
    Kept(credentials, {i \in DOMAIN credentials :
                          credentials[i].peer # x.peer \/ credentials[i].age - x.age < CredentialValidity})

\* Records whose backoff is over at the attempt's time are dropped whenever
\* one is added.
record_failure(x) ==
    {r \in failures : r.age - x.age < RetryBackoff} \cup {[peer |-> x.peer, age |-> x.age]}

\* Mutant: the backoff is over one unit of time early.
in_backoff_short(x) == \E r \in failures : r.peer = x.peer /\ r.age + 1 - x.age < RetryBackoff

in_backoff(x) == \E r \in failures : r.peer = x.peer /\ r.age - x.age < RetryBackoff

NewSession(x, live) == Put(sessions, x.peer, [live |-> live, age |-> x.age])

\* No key was passed and the DID does not resolve: the session is only
\* registered, whatever the trust level and the backoff, and holds no Noise
\* transport.
register_session(x, waiting) ==
    /\ ~x.keyed /\ x.peer \notin Resolvable
    /\ PassTime(0, store_credential(credentials, x), failures, NewSession(x, FALSE), sinceFailure, waiting)

HasKey(x) == x.keyed \/ x.peer \in Resolvable

\* SessionManager::initiate up to the handshake.
Refused(x, waiting) ==
    /\ HasKey(x) /\ (x.revoked \/ in_backoff(x))
    /\ PassTime(0, credentials, failures, sessions, sinceFailure, waiting)

MayHandshake(x) == HasKey(x) /\ ~x.revoked /\ ~in_backoff(x)

\* snow refuses a key or does not write its first message: the call returns
\* before anything is recorded.
HandshakeUnrecorded(x, waiting) ==
    PassTime(0, EvictExpired(x), failures, sessions, sinceFailure, waiting)

\* The stream breaks after d units, while a message is written or read (at
\* present the far half of open_noise_substream is dropped, so in production
\* it always does).  The record bears the attempt's time, not the failure's.
HandshakeFails(x, d, waiting) ==
    PassTime(d, EvictExpired(x), record_failure(x), sessions,
             [sinceFailure EXCEPT ![x.peer] = x.age], waiting)

HandshakeSucceeds(x, d, waiting) ==
    PassTime(d, store_credential(EvictExpired(x), x), failures, NewSession(x, TRUE), sinceFailure, waiting)

\* The last step of initiate, for an attempt it did not refuse.
full_ik_handshake(x, waiting) ==
    /\ MayHandshake(x)
    /\ \/ HandshakeUnrecorded(x, waiting)
       \/ \E d \in 0..MaxExchange : HandshakeFails(x, d, waiting) \/ HandshakeSucceeds(x, d, waiting)

initiate_session(x, waiting) ==
    register_session(x, waiting) \/ Refused(x, waiting) \/ full_ik_handshake(x, waiting)

\* Mutant: the keys are replaced and last_rotated_secs is not set.
tick_key_rotation_undated == sessions

\* rotate_keys: a session without a Noise transport only logs an error.
tick_key_rotation ==
    [p \in DOMAIN sessions |->
        IF sessions[p].live /\ sessions[p].age >= RotationInterval
        THEN [sessions[p] EXCEPT !.age = 0] ELSE sessions[p]]

-----------------------------------------------------------------------------
(* Swarm events and the loop. *)

\* The poll task records the peer, reads the clock and leaves the handshake
\* to a new task, which always states that the peer is Verified.
ConnectionEstablished(p) ==
    /\ Cardinality(handshakes) < MaxWaiting
    /\ peers' = Discovered(p, 0)
    /\ handshakes' = handshakes \cup {[peer |-> p, age |-> 0, revoked |-> FALSE, keyed |-> FALSE]}
    /\ UNCHANGED <<credentials, failures, sessions, elapsed, sinceFailure>>

\* The task of an attempt got the transport's lock.
initiate_noise_session(x) == x \in handshakes /\ initiate_session(x, handshakes \ {x})

\* A direct caller of the transport states the trust level and the time, and
\* may pass the peer's key.
DirectConnect(x) == initiate_session(x, handshakes)

PeerEpoch ==
    /\ elapsed /\ elapsed' = FALSE
    /\ peers' = tick_timeouts
    /\ sessions' = tick_key_rotation
    /\ UNCHANGED <<handshakes, credentials, failures, sinceFailure>>

ClockTick == PassTime(1, credentials, failures, sessions, sinceFailure, handshakes)

Next ==
    \/ \E p \in Peers :
        \/ \E h \in {0, MaxHopCount + 1} : on_peer_discovered(p, h)
        \/ dial_ble_bridge(p) \/ touch_peer(p) \/ remove_peer(p)
        \/ ConnectionEstablished(p)
    \/ \E x \in Attempts : initiate_noise_session(x) \/ DirectConnect(x)
    \/ PeerEpoch
    \/ ClockTick

-----------------------------------------------------------------------------
TypeOK ==
    /\ DOMAIN peers \subseteq Peers /\ DOMAIN sessions \subseteq Peers
    /\ handshakes \subseteq Attempts /\ Len(credentials) <= CacheSize
    /\ \A r \in failures : r.peer \in Peers /\ r.age \in 0 .. RetryBackoff + MaxDelay

\* Req 6.6: no handshake with a peer starts within the backoff of its last
\* recorded failure, although the attempts' clock readings reach the lock in
\* any order and every new failure prunes the records of all peers by its own
\* reading.  The backoff counts from the clock reading of the attempt that
\* failed, not from its failure: an exchange that takes longer than the
\* backoff before it fails leaves none.
NoAttemptInBackoff ==
    [][\A p \in Peers : sinceFailure[p] < RetryBackoff =>
          \A x \in Attempts, waiting \in SUBSET handshakes :
              x.peer = p => ~full_ik_handshake(x, waiting)]_vars

\* Req 5.6: a peer that is not heard of again leaves the table, whatever
\* sessions and handshakes it has.
SilentPeersLeave ==
    \A p \in Peers :
        (p \in DOMAIN peers /\ peers[p] >= PeerTimeout)
            ~> (p \notin DOMAIN peers \/ peers[p] < PeerTimeout)

\* Req 6.4: the keys of a session this device handshook are rotated whenever
\* they come of age, unless a session that is only registered, whose keys never
\* are, takes its place.
LiveSessionsRotate ==
    \A p \in Peers :
        (p \in DOMAIN sessions /\ sessions[p].live /\ sessions[p].age >= RotationInterval)
            ~> (p \in DOMAIN sessions /\ (sessions[p].live => sessions[p].age < RotationInterval))
=============================================================================
