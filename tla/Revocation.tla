----------------------------- MODULE Revocation -----------------------------
(***************************************************************************)
(* Mesh-accumulated M-of-N revocation over several native devices: each    *)
(* device's RevocationSubsystem with its PendingRevocationStore, the       *)
(* revocation gate of its CrdtEngine, its local trust gate, the gossip of  *)
(* partial and complete RevocationDeltas, and the re-announcement to       *)
(* discovered peers (auth/revocation.rs, api/mod.rs).                      *)
(*                                                                         *)
(* Grain of atomicity: one action is one critical section.  The revocation *)
(* lock is released before the crdt lock is taken and that one before the  *)
(* capability lock, so the drain loop and an application thread inside     *)
(* initiate_revocation interleave on one device.                           *)
(***************************************************************************)
EXTENDS Naturals, FiniteSets

CONSTANTS
    Devices,     \* devices of the mesh, named by their DIDs
    Signers,     \* devices on which initiate_revocation is called
    Targets,     \* devices it is called for
    Deltas,      \* data deltas
    Author,      \* the device that may write each of them
    M,           \* the revocation threshold, max(revocation_m, 1)
    Idle,        \* a thread that is in no revocation handler
    MaxRestarts  \* bound: restarts of all devices together

ASSUME RevocationAssumption ==
    /\ IsFiniteSet(Devices) /\ Signers \subseteq Devices /\ Targets \subseteq Devices
    /\ Author \in [Deltas -> Devices]
    /\ M \in Nat \ {0} /\ MaxRestarts \in Nat
    /\ Idle \notin [step : {"signed", "mark", "apply"}, target : Targets]

VARIABLES
    signed,   \* signatures that exist: the managers that signed each target
    store,    \* PendingRevocationStore: managers accumulated per target
    revoked,  \* RevocationSubsystem.revoked_dids
    gate,     \* CrdtEngine.revoked_dids
    trust,    \* "Active" (Verified or Unverified) or "Revoked"
    job,      \* per device and thread, the handler in progress
    net,      \* RevocationDeltas in flight
    writing,  \* deltas whose write() passed the trust gate
    dag,      \* deltas in each device's changeset DAG
    tagged,   \* contamination roots tagged because of a revocation
    restarts

vars == <<signed, store, revoked, gate, trust, job, net, writing, dag, tagged, restarts>>

Threads == {"inbound", "app"}
Jobs    == [step : {"signed", "mark", "apply"}, target : Targets]

\* A gossiped RevocationDelta: to every other device.
Gossip(from, t, sigs) ==
    {[to |-> e, target |-> t, sigs |-> sigs] : e \in Devices \ {from}}

\* Mutant: every delta of the DAG.
Authored_all(d, t) == dag[d]

\* query_deltas_by_author over the device's DAG.
Authored(d, t) == {x \in dag[d] : Author[x] = t}

Init ==
    /\ signed = [t \in Targets |-> {}]
    /\ store = [d \in Devices |-> [t \in Targets |-> {}]]
    /\ revoked = [d \in Devices |-> {}]
    /\ gate = [d \in Devices |-> {}]
    /\ trust = [d \in Devices |-> "Active"]
    /\ job = [d \in Devices |-> [h \in Threads |-> Idle]]
    /\ net = {}
    /\ writing = {}
    /\ dag = [d \in Devices |-> {}]
    /\ tagged = [d \in Devices |-> {}]
    /\ restarts = 0

-----------------------------------------------------------------------------
\* Mutant: signatures of revoked managers are counted.
add_signatures_revoked(d, t, sigs) ==
    LET S    == store[d][t]
        new  == sigs \ S
    IN  {R \in SUBSET (S \cup new) :
            /\ S \subseteq R
            /\ Cardinality(R) <= M \/ R = S
            /\ Cardinality(R) >= M \/ R = S \cup new}

\* PendingRevocationStore::add_signature for every signature of a delta: those
\* of revoked managers and duplicates are refused, and nothing is added once
\* M are collected.  Which of the candidates fill the last places depends on
\* their order in the delta.
add_signatures(d, t, sigs) ==
    LET S    == store[d][t]
        new  == sigs \ (S \cup revoked[d])
    IN  {R \in SUBSET (S \cup new) :
            /\ S \subseteq R
            /\ Cardinality(R) <= M \/ R = S
            /\ Cardinality(R) >= M \/ R = S \cup new}

\* Mutant: one signature short of the threshold is enough.
ThresholdMet_early(R) == Cardinality(R) + 1 >= M

ThresholdMet(R) == Cardinality(R) >= M

\* RevocationSubsystem::process_incoming_delta, under the revocation lock: the
\* first time the threshold is met the target becomes revoked, the complete
\* delta is gossiped and every delta of the target in the DAG is tagged.
process_incoming_delta(d, t, R, inFlight) ==
    LET first == ThresholdMet(R) /\ t \notin revoked[d]
    IN  /\ store' = [store EXCEPT ![d][t] = R]
        /\ revoked' = [revoked EXCEPT ![d] = IF first THEN @ \cup {t} ELSE @]
        /\ net' = inFlight \cup (IF first THEN Gossip(d, t, R) ELSE {})
        /\ tagged' = [tagged EXCEPT ![d] = IF first THEN @ \cup Authored(d, t) ELSE @]

\* Mutant: the caller stops after the revocation subsystem.
AfterProcess_ignored(t, R) == Idle

\* What the caller does next with the returned status.
AfterProcess(t, R) == IF ThresholdMet(R) THEN [step |-> "mark", target |-> t] ELSE Idle

\* initiate_revocation signs as one manager and gossips the partial delta; it
\* may be called again for the same target.
initiate_revocation(d, t) ==
    /\ d \in Signers /\ t \in Targets
    /\ job[d]["app"] = Idle
    /\ signed' = [signed EXCEPT ![t] = @ \cup {d}]
    /\ net' = net \cup Gossip(d, t, {d})
    /\ job' = [job EXCEPT ![d]["app"] = [step |-> "signed", target |-> t]]
    /\ UNCHANGED <<store, revoked, gate, trust, writing, dag, tagged, restarts>>

\* ... and then accumulates its own signature like an inbound one.
Accumulate(d) ==
    /\ job[d]["app"] # Idle /\ job[d]["app"].step = "signed"
    /\ LET t == job[d]["app"].target IN
       \E R \in add_signatures(d, t, {d}) :
          /\ process_incoming_delta(d, t, R, net)
          /\ job' = [job EXCEPT ![d]["app"] = AfterProcess(t, R)]
    /\ UNCHANGED <<signed, gate, trust, writing, dag, restarts>>

\* The inbound arm of receive_inbound.
Deliver(d, m) ==
    /\ m.to = d /\ job[d]["inbound"] = Idle
    /\ \E R \in add_signatures(d, m.target, m.sigs) :
          /\ process_incoming_delta(d, m.target, R, net \ {m})
          /\ job' = [job EXCEPT ![d]["inbound"] = AfterProcess(m.target, R)]
    /\ UNCHANGED <<signed, gate, trust, writing, dag, restarts>>

\* The mesh is best-effort.
Lose(m) ==
    /\ net' = net \ {m}
    /\ UNCHANGED <<signed, store, revoked, gate, trust, job, writing, dag, tagged, restarts>>

\* Mutant: every revocation is applied to this device.
Continue_self(d, t) == [step |-> "apply", target |-> d]

\* After mark_did_revoked, only a revocation of this device goes on.
Continue(d, t) == IF t = d THEN [step |-> "apply", target |-> t] ELSE Idle

\* CrdtEngine::mark_did_revoked, under the crdt lock.
mark_did_revoked(d, h) ==
    /\ job[d][h] # Idle /\ job[d][h].step = "mark"
    /\ LET t == job[d][h].target IN
          /\ gate' = [gate EXCEPT ![d] = @ \cup {t}]
          /\ job' = [job EXCEPT ![d][h] = Continue(d, t)]
    /\ UNCHANGED <<signed, store, revoked, trust, net, writing, dag, tagged, restarts>>

\* CapabilityManager::apply_revocation, under the capability lock.
apply_revocation(d, h) ==
    /\ job[d][h] # Idle /\ job[d][h].step = "apply"
    /\ trust' = [trust EXCEPT ![d] = "Revoked"]
    /\ job' = [job EXCEPT ![d][h] = Idle]
    /\ UNCHANGED <<signed, store, revoked, gate, net, writing, dag, tagged, restarts>>

\* A peer is discovered: the complete deltas of the last 24 hours are sent
\* again (build_recent_revocation_deltas).
Reannounce(d) ==
    /\ net' = net \cup UNION {Gossip(d, t, store[d][t]) : t \in revoked[d]}
    /\ net' # net
    /\ UNCHANGED <<signed, store, revoked, gate, trust, job, writing, dag, tagged, restarts>>

\* A valid token makes the device VERIFIED again, also a revoked one
\* (CapabilityManager::present_token).
present_token(d) ==
    /\ trust[d] = "Revoked"
    /\ trust' = [trust EXCEPT ![d] = "Active"]
    /\ UNCHANGED <<signed, store, revoked, gate, job, net, writing, dag, tagged, restarts>>

-----------------------------------------------------------------------------
\* write(): the trust gate first, the signed delta in the DAG later.
WriteGate(x) ==
    /\ trust[Author[x]] # "Revoked" /\ x \notin writing \cup dag[Author[x]]
    /\ writing' = writing \cup {x}
    /\ UNCHANGED <<signed, store, revoked, gate, trust, job, net, dag, tagged, restarts>>

WriteCommit(x) ==
    /\ x \in writing
    /\ writing' = writing \ {x}
    /\ dag' = [dag EXCEPT ![Author[x]] = @ \cup {x}]
    /\ UNCHANGED <<signed, store, revoked, gate, trust, job, net, tagged, restarts>>

\* The revocation gate of CrdtEngine::apply.
CrdtAccepts(d, x) == Author[x] \notin gate[d]

\* CrdtEngine::apply of a delta some device published.
MergeDelta(d, x) ==
    /\ x \in dag[Author[x]] \ dag[d] /\ CrdtAccepts(d, x)
    /\ dag' = [dag EXCEPT ![d] = @ \cup {x}]
    /\ UNCHANGED <<signed, store, revoked, gate, trust, job, net, writing, tagged, restarts>>

\* The DAG and the contamination tags are in SQLite, the rest is in memory.
Restart(d) ==
    /\ restarts < MaxRestarts /\ restarts' = restarts + 1
    /\ store' = [store EXCEPT ![d] = [t \in Targets |-> {}]]
    /\ revoked' = [revoked EXCEPT ![d] = {}]
    /\ gate' = [gate EXCEPT ![d] = {}]
    /\ trust' = [trust EXCEPT ![d] = "Active"]
    /\ job' = [job EXCEPT ![d] = [h \in Threads |-> Idle]]
    /\ writing' = {x \in writing : Author[x] # d}
    /\ UNCHANGED <<signed, net, dag, tagged>>

Next ==
    \/ \E d \in Devices : \/ \E t \in Targets : initiate_revocation(d, t)
                          \/ Accumulate(d)
                          \/ \E m \in net : Deliver(d, m)
                          \/ \E h \in Threads : mark_did_revoked(d, h) \/ apply_revocation(d, h)
                          \/ Reannounce(d)
                          \/ present_token(d)
                          \/ \E x \in Deltas : MergeDelta(d, x)
                          \/ Restart(d)
    \/ \E m \in net : Lose(m)
    \/ \E x \in Deltas : WriteGate(x) \/ WriteCommit(x)

Spec == Init /\ [][Next]_vars

\* A RevocationDelta that meets the threshold arrives.
DeliverComplete(d, t) ==
    \E m \in net : m.target = t /\ ThresholdMet(m.sigs) /\ Deliver(d, m)

\* A thread inside a revocation handler takes its next step.
HandlerStep(d, h) ==
    \/ h = "app" /\ Accumulate(d)
    \/ mark_did_revoked(d, h)
    \/ apply_revocation(d, h)

-----------------------------------------------------------------------------
TypeOK ==
    /\ signed \in [Targets -> SUBSET Devices]
    /\ store \in [Devices -> [Targets -> SUBSET Devices]]
    /\ revoked \in [Devices -> SUBSET Targets]
    /\ gate \in [Devices -> SUBSET Targets]
    /\ trust \in [Devices -> {"Active", "Revoked"}]
    /\ job \in [Devices -> [Threads -> Jobs \cup {Idle}]]
    /\ net \subseteq [to : Devices, target : Targets, sigs : SUBSET Devices]
    /\ writing \subseteq Deltas
    /\ dag \in [Devices -> SUBSET Deltas]
    /\ tagged \in [Devices -> SUBSET Deltas]
    /\ restarts \in Nat

\* Enough managers really signed the revocation of t.
Condemned(t) == Cardinality(signed[t]) >= M

\* Req 9.3, README "<= M-1 signatures never trigger revocation": no device
\* revokes, gates or blocks anyone for whom fewer than M distinct managers
\* signed, however deltas are repeated, reordered, re-announced or lost.
ThresholdEvidence ==
    \A d \in Devices :
        /\ \A t \in revoked[d] \cup gate[d] : Condemned(t)
        /\ trust[d] = "Revoked" => d \in Targets /\ Condemned(d)

\* Req 9.4: a device that knows a manager as revoked never counts a signature
\* of that manager that it had not counted before.
RevokedSignersRefused ==
    [][\A d \in Devices, t \in Targets :
          (store'[d][t] \ store[d][t]) \cap revoked[d] = {}]_vars

\* Req 9.2: every RevocationDelta in flight carries real signatures, and the
\* one a device announces for a target it revoked is complete.
AnnouncementsComplete ==
    \A d \in Devices : \A t \in revoked[d] :
        Cardinality(store[d][t]) = M /\ store[d][t] \subseteq signed[t]

\* Req 10.1: only deltas of condemned authors are tagged, and only deltas the
\* device holds.
OnlyCondemnedTagged ==
    \A d \in Devices : \A x \in tagged[d] :
        x \in dag[d] /\ Author[x] \in Targets /\ Condemned(Author[x])

\* Req 8.6: a revoked target is rejected by the merge path, or a thread of
\* the device is about to make it so; no interleaving of the drain loop and
\* initiate_revocation leaves the CRDT engine uninformed.
GateFollows ==
    \A d \in Devices : \A t \in revoked[d] :
        t \in gate[d] \/ \E h \in Threads : job[d][h] = [step |-> "mark", target |-> t]

\* Req 9.2: a revocation known to one device reaches every device although
\* deltas get lost, because it is announced again to discovered peers.
Spreads ==
    \A t \in Targets :
        (\E d \in Devices : t \in revoked[d]) ~> (\A d \in Devices : t \in gate[d])

\* The inductive strengthening of the safety properties.  What a device has
\* accumulated are real signatures, at most M, and M exactly when it revoked;
StoreSound ==
    \A d \in Devices, t \in Targets :
        /\ store[d][t] \subseteq signed[t]
        /\ Cardinality(store[d][t]) <= M
        /\ t \in revoked[d] <=> ThresholdMet(store[d][t])

\* so are those in flight;
NetSound == \A m \in net : m.sigs \subseteq signed[m.target]

\* the merge gate and the trust gate close only for a revoked DID;
GateKnown ==
    \A d \in Devices :
        /\ gate[d] \subseteq revoked[d]
        /\ trust[d] = "Revoked" => d \in revoked[d]

\* and a handler under way has the evidence its next step relies on.
JobsSound ==
    \A d \in Devices, h \in Threads : job[d][h] # Idle =>
        /\ job[d][h].step = "signed" => d \in signed[job[d][h].target]
        /\ job[d][h].step # "signed" => job[d][h].target \in revoked[d]
        /\ job[d][h].step = "apply" => job[d][h].target = d

RevocationInv ==
    TypeOK /\ StoreSound /\ NetSound /\ GateKnown /\ JobsSound
    /\ OnlyCondemnedTagged /\ GateFollows

-----------------------------------------------------------------------------
\* What the documentation claims and the code does not do (see README).

\* revocation.rs: all deltas authored by the revoked DID are tagged.
RevokedAuthorsTagged ==
    \A d \in Devices : \A x \in dag[d] :
        Author[x] \in revoked[d] => x \in tagged[d]
=============================================================================
