-------------------------------- MODULE Sdk ---------------------------------
(***************************************************************************)
(* The TypeScript SDK over the browser build (tirbase-sdk/src/tirbase.ts,  *)
(* wasm-bridge.ts) and the exports it calls (tirbase-core/src/lib.rs).     *)
(*                                                                         *)
(* Everything runs on one JavaScript thread, but a call is suspended at    *)
(* its `await`, so calls, tokens and peer messages interleave there.  The  *)
(* core reports side effects in WASM_EVENT_QUEUE, which the SDK drains     *)
(* only where a write, read or query returns: a call that throws does not  *)
(* drain it.  The whole queue is taken first and its events are dispatched *)
(* one by one afterwards: a listener that throws rejects the call, and the *)
(* rest of the batch is gone.  The trust level the SDK shows is its own    *)
(* copy.                                                                   *)
(*                                                                         *)
(* TirBase.init loads the module and never calls core_init, so core_init   *)
(* is a call of the application's own.                                     *)
(***************************************************************************)
EXTENDS Naturals, Sequences

CONSTANTS Calls,      \* calls of the SDK that may be under way at once
          OtherDids,  \* devices other than this one that may be revoked
          MaxInits,   \* bound: core_init calls
          MaxEvents   \* bound: events ever pushed

VARIABLES core,        \* how many handles CORE has held; 0: none yet
          level,       \* CapabilityManager's trust level
          revoked,     \* RevocationSubsystem.revoked_dids
          eventQueue,  \* WASM_EVENT_QUEUE
          initialized, mirror, unverifiedSince,  \* _initialized, _trustLevel, _unverifiedSince is set
          calls,       \* what each call awaits
          produced,    \* how many events were pushed; an event is known by its number
          heard, lost, threw  \* histories: the events dispatched, in order, the ones
                              \* dropped, the ones whose listener threw

histories == <<produced, heard, lost, threw>>
vars == <<core, level, revoked, eventQueue, initialized, mirror, unverifiedSince, calls, histories>>

coreVars == <<core, level, revoked>>
sdkVars == <<initialized, mirror, unverifiedSince>>

Levels == {"Verified", "Unverified", "Revoked"}
SdkLevels == {"VERIFIED", "UNVERIFIED", "REVOKED"}

\* WasmEvent: a revocation is reported as TrustLevelChanged to Revoked.
Kinds == {"revoked", "incident", "tier"}

Init ==
    /\ core = 0 /\ level = "Unverified" /\ revoked = {}
    /\ eventQueue = <<>>
    /\ initialized = FALSE /\ mirror = "VERIFIED" /\ unverifiedSince = FALSE
    /\ calls = [c \in Calls |-> "none"]
    /\ produced = 0 /\ heard = <<>> /\ lost = {} /\ threw = {}

\* core_init puts a new handle into CORE and drops the old one; the event queue
\* outlives it.  A suspended write, read or query keeps a raw pointer to the
\* handle it started on (core_ptr), which points nowhere from now on.
core_init ==
    /\ core < MaxInits /\ core' = core + 1
    /\ level' = "Unverified" /\ revoked' = {}
    /\ calls' = [c \in Calls |-> IF calls[c] = "io" THEN "dangling" ELSE calls[c]]
    /\ UNCHANGED <<eventQueue, sdkVars, histories>>

\* core_trust_level formats the level with {:?} and answers "Unverified" when
\* there is no handle; TirBase.init keeps the string as it is.
core_trust_level == IF core = 0 THEN "Unverified" ELSE level

\* TirBase.init
init ==
    /\ ~initialized /\ initialized' = TRUE
    /\ mirror' = core_trust_level
    /\ UNCHANGED <<coreVars, eventQueue, unverifiedSince, calls, histories>>

-----------------------------------------------------------------------------
\* push_wasm_event, for the events of one call.
push_wasm_events(es) ==
    /\ produced + Len(es) <= MaxEvents /\ produced' = produced + Len(es)
    /\ eventQueue' = eventQueue \o [i \in 1..Len(es) |-> [no |-> produced + i, kind |-> es[i]]]
    /\ UNCHANGED <<heard, lost, threw>>

\* _applyTrustLevelChange; with the level it shows already, nothing happens.
applyTrustLevelChange(newLevel) ==
    /\ mirror' = newLevel
    /\ unverifiedSince' = IF newLevel = mirror THEN unverifiedSince ELSE newLevel = "UNVERIFIED"

\* Mutant: the events are copied out instead of drained.
core_poll_events_copies == UNCHANGED eventQueue

\* core_poll_events
core_poll_events == eventQueue' = <<>>

Queued == {eventQueue[i].no : i \in DOMAIN eventQueue}
Dispatched == {heard[i] : i \in DOMAIN heard}

\* The level shown once the first n events of the batch are applied.
ShownAfter(n) == IF \E i \in 1..n : eventQueue[i].kind = "revoked" THEN "REVOKED" ELSE mirror

\* An event that reaches a listener, which may throw; a revocation that changes
\* nothing reaches none.
Emits(n) == eventQueue[n].kind = "revoked" => ShownAfter(n - 1) # "REVOKED"

\* _pollWasmEvents: the first n events of what was drained are dispatched, in
\* order; the listener of the next one throws, if there is a next one.  The
\* level is stored before its listeners are called.
pollWasmEvents(n) ==
    /\ core_poll_events
    /\ heard' = heard \o [i \in 1..n |-> eventQueue[i].no]
    /\ \/ n = Len(eventQueue) /\ applyTrustLevelChange(ShownAfter(n)) /\ UNCHANGED <<lost, threw>>
       \/ /\ n < Len(eventQueue) /\ Emits(n + 1) /\ applyTrustLevelChange(ShownAfter(n + 1))
          /\ threw' = threw \cup {eventQueue[n + 1].no}
          /\ lost' = lost \cup {eventQueue[i].no : i \in (n + 1)..Len(eventQueue)}
    /\ UNCHANGED produced

-----------------------------------------------------------------------------
\* The trust gate of CoreHandle's write, read and query, before any await.
ensure_local_trust_allows_io == level # "Revoked"

\* core_write, core_read, core_query: there must be a handle too.
CoreAccepts == core # 0 /\ ensure_local_trust_allows_io

\* write, read and query up to the await; a refused call throws.
BeginCall(c) ==
    /\ initialized /\ calls[c] = "none" /\ CoreAccepts
    /\ calls' = [calls EXCEPT ![c] = "io"]
    /\ UNCHANGED <<coreVars, eventQueue, sdkVars, histories>>

\* ... and after it: the result is built and the queue drained.  What a call
\* does over a handle that was dropped is undefined: it may return ...
ReturnCall(c) ==
    /\ calls[c] \in {"io", "dangling"} /\ calls' = [calls EXCEPT ![c] = "none"]
    /\ \E n \in 0..Len(eventQueue) : pollWasmEvents(n)
    /\ UNCHANGED <<coreVars, initialized>>

\* ... it may throw, as any call may: the core's promise is rejected, the error
\* passes through, nothing is drained ...
ThrowCall(c) ==
    /\ calls[c] \in {"io", "dangling"} /\ calls' = [calls EXCEPT ![c] = "none"]
    /\ UNCHANGED <<coreVars, eventQueue, sdkVars, histories>>

\* ... or the module traps in it and its promise is never settled.
Trap(c) ==
    /\ calls[c] = "dangling" /\ calls' = [calls EXCEPT ![c] = "trapped"]
    /\ UNCHANGED <<coreVars, eventQueue, sdkVars, histories>>

\* core_present_token: a valid token, an expired one, one that does not verify.
core_present_token(c) ==
    \/ level' = "Verified" /\ calls' = [calls EXCEPT ![c] = "VERIFIED"]
    \/ /\ level' = IF level = "Revoked" THEN level ELSE "Unverified"
       /\ calls' = [calls EXCEPT ![c] = "UNVERIFIED"]
    \/ level' = level /\ calls' = [calls EXCEPT ![c] = "UNVERIFIED"]

\* presentToken calls the core at once ...
BeginToken(c) ==
    /\ initialized /\ calls[c] = "none" /\ core # 0
    /\ core_present_token(c)
    /\ UNCHANGED <<core, revoked, eventQueue, sdkVars, histories>>

\* ... and applies the answer after the await, without draining the queue.
ReturnToken(c) ==
    /\ calls[c] \in SdkLevels /\ calls' = [calls EXCEPT ![c] = "none"]
    /\ applyTrustLevelChange(calls[c])
    /\ UNCHANGED <<coreVars, eventQueue, initialized, histories>>

-----------------------------------------------------------------------------
\* process_incoming_delta reached the threshold for a device, this one or
\* another: the event is the same for both, and the deltas the device wrote,
\* if any, open an incident.
process_incoming_delta(did) ==
    /\ did \notin revoked /\ revoked' = revoked \cup {did}
    /\ \E tagged \in {<<>>, <<"incident">>} : push_wasm_events(<<"revoked">> \o tagged)

\* What the callers do with an applied revocation.
RevocationApplied(did) ==
    process_incoming_delta(did) /\ level' = IF did = "own" THEN "Revoked" ELSE level

\* receive_inbound_wasm: a revocation, a migration revocation that opens an
\* incident, a receipt that reaches a tier.  Deltas, relayed deltas and
\* migrations are merged without an event.
receive_inbound_wasm ==
    \/ \E did \in {"own"} \cup OtherDids : RevocationApplied(did)
    \/ \E e \in {"incident", "tier"} : push_wasm_events(<<e>>) /\ UNCHANGED <<level, revoked>>

\* core_receive_peer_message: bytes that do not decode and fragments of an
\* incomplete delta go no further.
core_receive_peer_message == core # 0 /\ receive_inbound_wasm

\* receivePeerMessage: ignored before init, fire and forget after it.
receivePeerMessage ==
    /\ initialized /\ core_receive_peer_message
    /\ UNCHANGED <<core, sdkVars, calls>>

\* core_initiate_revocation; core_init fixes the threshold at one signature.
core_initiate_revocation == core # 0 /\ \E did \in {"own"} \cup OtherDids : RevocationApplied(did)

\* core_verify_data and core_admin_close_ico update or close an incident.
core_close == core # 0 /\ push_wasm_events(<<"incident">>) /\ UNCHANGED <<level, revoked>>

\* initiateRevocation, verifyData and adminClose: none drains the queue.
ManagerOperation ==
    /\ initialized /\ (core_initiate_revocation \/ core_close)
    /\ UNCHANGED <<core, sdkVars, calls>>

\* core_register_root_ca_key_with_token: verify_token refuses a revoked device.
RegisterKeyWithToken ==
    /\ core # 0 /\ level = "Unverified" /\ level' = "Verified"
    /\ UNCHANGED <<core, revoked, eventQueue, sdkVars, calls, histories>>

Next ==
    \/ core_init \/ init \/ receivePeerMessage \/ ManagerOperation \/ RegisterKeyWithToken
    \/ \E c \in Calls : \/ BeginCall(c) \/ ReturnCall(c) \/ ThrowCall(c) \/ Trap(c)
                        \/ BeginToken(c) \/ ReturnToken(c)

\* The application goes on calling, and a call the core accepts over and over
\* does not throw every time.
Fairness == \A c \in Calls : WF_vars(BeginCall(c)) /\ SF_vars(ReturnCall(c))

-----------------------------------------------------------------------------
TypeOK ==
    /\ core \in 0..MaxInits /\ level \in Levels /\ revoked \subseteq {"own"} \cup OtherDids
    /\ produced \in 0..MaxEvents /\ eventQueue \in Seq([no : 1..produced, kind : Kinds])
    /\ heard \in Seq(1..produced) /\ lost \subseteq 1..produced /\ threw \subseteq lost
    /\ initialized \in BOOLEAN /\ mirror \in Levels \cup SdkLevels /\ unverifiedSince \in BOOLEAN
    /\ calls \in [Calls -> {"none", "io", "dangling", "trapped"} \cup SdkLevels]

\* Every side effect of the core waits, was dispatched or was dropped, and never
\* two of these, whichever calls return, throw or run over a dropped handle.
EachEventOnce ==
    /\ Queued \cup Dispatched \cup lost = 1..produced
    /\ Queued \cap (Dispatched \cup lost) = {}
    /\ Dispatched \cap lost = {}

\* The application hears the events in the order in which they happened.
HeardInOrder == \A i, j \in DOMAIN heard : i < j => heard[i] < heard[j]

\* An event is dropped only behind one whose listener threw, and with everything
\* between the two; a call that the core rejects, a token and a new core_init
\* drop none.
DroppedBehindThrow == \A n \in lost : \E k \in threw : k <= n /\ k..n \subseteq lost

\* What core_poll_events and _pollWasmEvents guarantee the application.
EventsOnceInOrder == EachEventOnce /\ HeardInOrder /\ DroppedBehindThrow

-----------------------------------------------------------------------------
\* What the documentation claims and the code does not do (see README).

\* tirbase.ts: after a peer message a write, read or query surfaces its events
\* ("incident-created, trust-level-changed"): a device that was revoked shows it.
OwnRevocationSurfaces == level = "Revoked" ~> mirror = "REVOKED" \/ level # "Revoked"
=============================================================================
