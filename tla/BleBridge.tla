----------------------------- MODULE BleBridge ------------------------------
(***************************************************************************)
(* The BLE bridge (ble.rs): its own chunking of a framed delta, the link,  *)
(* and the task of MeshTransport::start that owns both.  A delta is its    *)
(* framed size; both ends of the link run the same task.                   *)
(***************************************************************************)
EXTENDS Integers, FiniteSets

CONSTANTS Deltas, size,   \* deltas for a BLE peer, and their framed sizes
          BleMaxPayload   \* BLE_MAX_PAYLOAD

VARIABLES
    bleLink,    \* the task: "scanning", "up" (subscribed) or "ended"
    bleSent,    \* deltas handed to the BLE outbound channel
    bleInbound, \* deltas handed to the BLE inbound channel
    bleArrived  \* history: chunks notified

vars == <<bleLink, bleSent, bleInbound, bleArrived>>

Init == bleLink = "scanning" /\ bleSent = {} /\ bleInbound = {} /\ bleArrived = {}

\* Chunks of at most BleMaxPayload bytes, each headed by the delta, its index
\* and the total (parse_ble_chunk reads them back).
fragment_for_ble(d) ==
    LET total == (size[d] + BleMaxPayload - 1) \div BleMaxPayload
    IN  {[delta_id |-> d, index |-> i, total |-> total] : i \in 0 .. total - 1}

\* send_delta to a BLE peer is refused once the task is gone.
send_via_ble(d) ==
    /\ bleLink # "ended"
    /\ bleSent' = bleSent \cup {d}
    /\ UNCHANGED <<bleLink, bleInbound, bleArrived>>

\* The task scans once, for a bounded time.  Without a peripheral there is
\* nothing to subscribe to and the task ends for good.
scan_and_connect(found) ==
    /\ bleLink = "scanning"
    /\ bleLink' = IF found THEN "up" ELSE "ended"
    /\ UNCHANGED <<bleSent, bleInbound, bleArrived>>

\* All chunks of one delta, by their indices.
reassemble_ble_chunks(chunks) ==
    \E c \in chunks : chunks = {[c EXCEPT !.index = i] : i \in 0 .. c.total - 1}

\* send_chunks at one end, a notification at the other.  The receiving task
\* takes the pending chunks of the delta out again with every chunk, so what
\* it reassembles is never more than the one that just arrived.
TransferChunk(c) ==
    LET pending == {c}
    IN  /\ bleLink = "up" /\ c.delta_id \in bleSent
        /\ bleArrived' = bleArrived \cup {c}
        /\ bleInbound' = IF reassemble_ble_chunks(pending)
                         THEN bleInbound \cup {c.delta_id} ELSE bleInbound
        /\ UNCHANGED <<bleLink, bleSent>>

Next ==
    \/ \E d \in Deltas :
        \/ send_via_ble(d)
        \/ \E c \in fragment_for_ble(d) : TransferChunk(c)
    \/ \E found \in BOOLEAN : scan_and_connect(found)

Spec == Init /\ [][Next]_vars

-----------------------------------------------------------------------------
\* Req 5.4: a delta comes out of the BLE bridge only when every chunk of it
\* arrived (start, BLE task; reassemble_ble_chunks).
BleDeliversWhole == \A d \in bleInbound : fragment_for_ble(d) \subseteq bleArrived
=============================================================================
