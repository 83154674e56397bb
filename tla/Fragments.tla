----------------------------- MODULE Fragments ------------------------------
(***************************************************************************)
(* Low-MTU transport: fragmentation (fragment.rs, mod.rs prepare_outbound  *)
(* and send_delta) and the receiver's bounded ReassemblyBuffer.            *)
(*                                                                         *)
(* Bytes are the positions 1 .. size[d] of the serialised delta d; a       *)
(* payload is an interval of them.  The mesh loses, reorders and           *)
(* duplicates messages.  The same delta may be fragmented twice with       *)
(* different MTUs (its author and a second sender).                        *)
(***************************************************************************)
EXTENDS Integers, FiniteSets, Sequences, SequencesExt

CONSTANTS Deltas, size,         \* serialised length of each delta
          Sends,                \* the <<delta, mtu>> transmissions over the mesh
          Relayed,              \* <<delta, target>>: sent while only a relay peer is known
          Local,                \* the receiving device
          MtuLimit,             \* 256: below it (and above 0) deltas are fragmented
          MaxSlots,             \* MAX_REASSEMBLY_SLOTS
          MaxFragmentsPerDelta, \* MAX_FRAGMENTS_PER_DELTA
          MaxMessages           \* bound: messages published

VARIABLES
    network,    \* messages published so far
    pending,    \* ReassemblyBuffer.pending: delta -> [total, slots]
    inbound,    \* deltas handed to the inbound channel
    garbled,    \* ids under which bytes of no delta that was sent were handed in
    arrived,    \* history: messages received from the mesh
    gathered    \* history: fragments received since the delta was last evicted

vars == <<network, pending, inbound, garbled, arrived, gathered>>

Init ==
    /\ network = {} /\ pending = <<>> /\ inbound = {} /\ garbled = {}
    /\ arrived = {} /\ gathered = [d \in Deltas |-> {}]

-----------------------------------------------------------------------------
\* slice::chunks: the number of pieces of at most mtu bytes, and the i-th one.
Pieces(d, mtu) == (size[d] + mtu - 1) \div mtu
Piece(d, mtu, i) == <<i * mtu + 1, IF (i + 1) * mtu < size[d] THEN (i + 1) * mtu ELSE size[d]>>

fragment(d, mtu) ==
    [n \in 1 .. Pieces(d, mtu) |->
        [delta_id |-> d, fragment_index |-> n - 1, total_fragments |-> Pieces(d, mtu),
         payload |-> Piece(d, mtu, n - 1)]]

\* The other GossipMessage variants: a whole delta travels as one
\* InboundDelta, one for a peer that is no direct neighbour as RelayDelta.
Whole(d) == [delta_id |-> d]
RelayDelta(d, target) == [delta_id |-> d, target_did |-> target]
IsFragment(m) == "total_fragments" \in DOMAIN m
IsRelayed(m) == "target_did" \in DOMAIN m

Fragmented(mtu) == 0 < mtu /\ mtu < MtuLimit

\* No delta is refused for the number of its fragments.
prepare_outbound(d, mtu) == IF Fragmented(mtu) THEN fragment(d, mtu) ELSE <<Whole(d)>>

\* reassemble joins full slots in index order, whatever they hold; the bytes
\* are those of the delta if every piece continues the previous one.
DeltaBytes(d, slots, total) ==
    /\ slots[0][1] = 1 /\ slots[total - 1][2] = size[d]
    /\ \A i \in 0 .. total - 2 : slots[i + 1][1] = slots[i][2] + 1

\* process_wire_message parses the joined bytes as JSON and does not compare
\* the delta's id with the fragments': other bytes may parse too, or not.
HandIn(d, slots, total) ==
    \/ DeltaBytes(d, slots, total) /\ inbound' = inbound \cup {d} /\ garbled' = garbled
    \/ ~DeltaBytes(d, slots, total) /\ inbound' = inbound /\ garbled' \in {garbled, garbled \cup {d}}

-----------------------------------------------------------------------------
\* A message the channel refuses (try_send at capacity, which ends the call
\* with an error after the earlier fragments went out) is one that never
\* arrives.
send_delta(d, mtu) ==
    /\ <<d, mtu>> \in Sends
    /\ network' = network \cup ToSet(prepare_outbound(d, mtu)) /\ Cardinality(network') <= MaxMessages
    /\ UNCHANGED <<pending, inbound, garbled, arrived, gathered>>

\* ... or to the relay, whole whatever the MTU.
send_via_relay(d, target) ==
    /\ network' = network \cup {RelayDelta(d, target)} /\ Cardinality(network') <= MaxMessages
    /\ UNCHANGED <<pending, inbound, garbled, arrived, gathered>>

\* Guards 1: fragments add_fragment rejects outright.
ValidMeta(f) ==
    /\ f.total_fragments <= MaxFragmentsPerDelta
    /\ f.total_fragments > 0 /\ f.fragment_index < f.total_fragments

\* Guard 2: a new delta at the cap evicts one with the fewest filled slots.
Filled(k) == Cardinality(DOMAIN pending[k].slots)
\* Mutants: the cap is not enforced; any entry is evicted.
EvictionChoices_none(d) == {{}}
EvictionChoices_any(d) ==
    IF d \in DOMAIN pending \/ Cardinality(DOMAIN pending) < MaxSlots THEN {{}} ELSE {{k} : k \in DOMAIN pending}

EvictionChoices(d) ==
    IF d \in DOMAIN pending \/ Cardinality(DOMAIN pending) < MaxSlots THEN {{}}
    ELSE {{k} : k \in {x \in DOMAIN pending : \A y \in DOMAIN pending : Filled(x) <= Filled(y)}}

RestrictTo(f, S) == [k \in S |-> f[k]]
Put(f, x, y) == [k \in DOMAIN f \cup {x} |-> IF k = x THEN y ELSE f[k]]

\* Mutant: the slots of a delta take fragments of any total.
Consistent_any(entry, f) == TRUE

\* slots.len() == total
Consistent(entry, f) == entry.total = f.total_fragments

\* add_fragment with the chosen eviction: a fragment whose total disagrees
\* with the slots is refused; otherwise its slot is (over)written, and a full
\* slot array leaves the buffer for reassembly.
add_fragment(f, gone) ==
    LET d     == f.delta_id
        kept  == RestrictTo(pending, DOMAIN pending \ gone)
        entry == IF d \in DOMAIN kept THEN kept[d]
                 ELSE [total |-> f.total_fragments, slots |-> <<>>]
        slots == Put(entry.slots, f.fragment_index, f.payload)
    IN  /\ gathered' = [k \in Deltas |-> IF k \in gone THEN {} ELSE IF k = d THEN gathered[k] \cup {f} ELSE gathered[k]]
        /\ \/ ~Consistent(entry, f) /\ pending' = kept /\ UNCHANGED <<inbound, garbled>>
           \/ /\ Consistent(entry, f) /\ DOMAIN slots = 0 .. entry.total - 1
              /\ pending' = RestrictTo(kept, DOMAIN kept \ {d}) /\ HandIn(d, slots, entry.total)
           \/ /\ Consistent(entry, f) /\ DOMAIN slots # 0 .. entry.total - 1
              /\ pending' = Put(kept, d, [entry EXCEPT !.slots = slots]) /\ UNCHANGED <<inbound, garbled>>

\* process_wire_message: whole messages pass, fragments go to the buffer.
process_wire_message(m) ==
    \/ /\ IsFragment(m) /\ ValidMeta(m)
       /\ \E gone \in EvictionChoices(m.delta_id) : add_fragment(m, gone)
    \/ /\ IsFragment(m) /\ ~ValidMeta(m)
       /\ gathered' = [gathered EXCEPT ![m.delta_id] = @ \cup {m}]
       /\ UNCHANGED <<pending, inbound, garbled>>
    \/ /\ ~IsFragment(m) /\ ~IsRelayed(m)
       /\ inbound' = inbound \cup {m.delta_id}
       /\ UNCHANGED <<pending, garbled, gathered>>

\* The swarm task unwraps a relayed delta for this device; one for another
\* device is passed on and no handler takes it.
UnwrapRelayed(m) ==
    /\ IsRelayed(m)
    /\ inbound' = IF m.target_did = Local THEN inbound \cup {m.delta_id} ELSE inbound
    /\ UNCHANGED <<pending, garbled, gathered>>

\* The swarm delivers a message that was sent, perhaps again, in any order; a
\* lost message is one it never delivers.
ReceiveMessage(m) ==
    /\ m \in network
    /\ process_wire_message(m) \/ UnwrapRelayed(m)
    /\ arrived' = arrived \cup {m}
    /\ UNCHANGED network

Next ==
    \/ \E s \in Sends : send_delta(s[1], s[2])
    \/ \E r \in Relayed : send_via_relay(r[1], r[2])
    \/ \E m \in network : ReceiveMessage(m)

Spec == Init /\ [][Next]_vars

-----------------------------------------------------------------------------
TypeOK ==
    /\ DOMAIN pending \subseteq Deltas /\ Cardinality(DOMAIN pending) <= MaxSlots
    /\ inbound \subseteq Deltas /\ garbled \subseteq Deltas

Sent(d, mtu) == ToSet(prepare_outbound(d, mtu))

\* Req 5.8: a delta that reaches the inbound pipeline has arrived whole: all of
\* one fragmentation of it, never pieces of two that happen to fit.
WholeArrived ==
    \A d \in inbound :
        \/ \E s \in Sends : s[1] = d /\ Sent(s[1], s[2]) \subseteq arrived
        \/ RelayDelta(d, Local) \in arrived

\* Bytes that are no delta's come only from two fragmentations of one delta that
\* have the same number of pieces, which nothing in a fragment tells apart.
GarbledByTwin ==
    \A d \in garbled : \E s, t \in Sends :
        /\ s[1] = d /\ t[1] = d /\ s[2] # t[2] /\ Fragmented(s[2]) /\ Fragmented(t[2])
        /\ Pieces(d, s[2]) = Pieces(d, t[2])
        /\ Sent(d, s[2]) \cap arrived # {} /\ Sent(d, t[2]) \cap arrived # {}

\* What the buffer lets through, under loss, reordering and duplicates
\* (fragment.rs add_fragment, reassemble).
OnlyWholeDeltas == WholeArrived /\ GarbledByTwin

\* Whatever the order and the duplicates, a delta of which a fragmentation
\* arrived completely, without an eviction in between, is delivered, unless a
\* second fragmentation of it got in between or it has more fragments than the
\* receiver accepts.
CompleteIsDelivered ==
    \A s \in Sends : Fragmented(s[2]) /\ Sent(s[1], s[2]) \subseteq gathered[s[1]] =>
        \/ s[1] \in inbound
        \/ ~(gathered[s[1]] \subseteq Sent(s[1], s[2]))
        \/ Pieces(s[1], s[2]) > MaxFragmentsPerDelta

\* An assembly is given up only when the buffer is full of other deltas that
\* have at least as many fragments.
EvictsLeast ==
    \A d \in DOMAIN pending : gathered'[d] = {} =>
        /\ Cardinality(DOMAIN pending) >= MaxSlots
        /\ \A k \in DOMAIN pending : Filled(d) <= Filled(k)

\* A delta that arrived whole is delivered, and only deltas that are ahead of it
\* can take its slot away (fragment.rs add_fragment).
AssemblyIsKept == []CompleteIsDelivered /\ [][EvictsLeast]_vars
=============================================================================
