-------------------------- MODULE RevocationProofs --------------------------
(***************************************************************************)
(* Machine-checked proofs about Revocation: the invariant RevocationInv is *)
(* inductive for every mesh, threshold and set of deltas, and the safety   *)
(* properties of the runs follow from it.                                  *)
(***************************************************************************)
EXTENDS Revocation, FiniteSetTheorems, TLAPS

\* More signatures never mean a smaller count, the fact that every threshold
\* argument rests on.
LEMMA SignersCounted ==
    ASSUME NEW B \in SUBSET Devices, NEW A \in SUBSET B
    PROVE  /\ IsFiniteSet(A) /\ Cardinality(A) \in Nat
           /\ Cardinality(B) \in Nat
           /\ Cardinality(A) <= Cardinality(B)
<1>1. IsFiniteSet(B)
  BY RevocationAssumption, FS_Subset
<1>. QED
  BY <1>1, FS_Subset, FS_CardinalityType

\* A device that reached the threshold shows that the target is condemned.
LEMMA RevokedCondemned ==
    ASSUME RevocationInv, NEW d \in Devices, NEW t \in revoked[d]
    PROVE  Condemned(t)
<1>1. t \in Targets /\ store[d][t] \in SUBSET signed[t] /\ signed[t] \in SUBSET Devices
  BY DEF RevocationInv, TypeOK, StoreSound
<1>2. Cardinality(store[d][t]) >= M
  BY <1>1 DEF RevocationInv, StoreSound, ThresholdMet
<1>. QED
  BY <1>1, <1>2, SignersCounted, RevocationAssumption DEF Condemned

\* Initially nothing is signed, stored or revoked.
LEMMA InitInv == Init => RevocationInv
<1>. SUFFICES ASSUME Init PROVE RevocationInv
  OBVIOUS
<1>1. TypeOK
  BY DEF Init, TypeOK, Threads
<1>2. StoreSound
  BY FS_EmptySet, RevocationAssumption DEF Init, StoreSound, ThresholdMet
<1>3. NetSound /\ GateKnown /\ JobsSound /\ OnlyCondemnedTagged /\ GateFollows
  BY DEF Init, NetSound, GateKnown, JobsSound, OnlyCondemnedTagged, GateFollows
<1>. QED
  BY <1>1, <1>2, <1>3 DEF RevocationInv

\* The critical section of process_incoming_delta together with the choice of
\* what its caller does next, for the drain loop and for initiate_revocation.
LEMMA ProcessKeepsInv ==
    ASSUME RevocationInv, NEW d \in Devices, NEW t \in Targets, NEW h \in Threads,
           NEW sigs \in SUBSET signed[t], NEW R \in add_signatures(d, t, sigs),
           NEW inFlight \in SUBSET net,
           process_incoming_delta(d, t, R, inFlight),
           job[d][h] = Idle \/ job[d][h].step = "signed",
           job' = [job EXCEPT ![d][h] = AfterProcess(t, R)],
           UNCHANGED <<signed, gate, trust, writing, dag, restarts>>
    PROVE  RevocationInv'
<1>. DEFINE first == ThresholdMet(R) /\ t \notin revoked[d]
<1>1. TypeOK
  BY DEF RevocationInv
<1>2. /\ signed[t] \in SUBSET Devices
      /\ store[d][t] \in SUBSET signed[t]
      /\ Cardinality(store[d][t]) <= M
      /\ t \in revoked[d] <=> ThresholdMet(store[d][t])
  BY DEF RevocationInv, TypeOK, StoreSound
<1>3. R \in SUBSET signed[t] /\ store[d][t] \in SUBSET R /\ Cardinality(R) <= M
  BY <1>2 DEF add_signatures
<1>4. t \in revoked[d] => ThresholdMet(R)
  <2>1. R \in SUBSET Devices
    BY <1>2, <1>3
  <2>. QED
    BY <2>1, <1>2, <1>3, SignersCounted, RevocationAssumption DEF ThresholdMet
<1>5. /\ store' = [store EXCEPT ![d] = [store[d] EXCEPT ![t] = R]]
      /\ revoked' = [revoked EXCEPT ![d] = IF first THEN revoked[d] \cup {t} ELSE revoked[d]]
      /\ net' = inFlight \cup (IF first THEN Gossip(d, t, R) ELSE {})
      /\ tagged' = [tagged EXCEPT ![d] = IF first THEN tagged[d] \cup Authored(d, t)
                                                  ELSE tagged[d]]
  BY DEF process_incoming_delta
<1>6. job' = [job EXCEPT ![d] = [job[d] EXCEPT ![h] = AfterProcess(t, R)]]
  OBVIOUS
<1>. HIDE DEF first
<1>7. AfterProcess(t, R) \in Jobs \cup {Idle}
  BY DEF AfterProcess, Jobs
<1>8. Gossip(d, t, R) \subseteq [to : Devices, target : Targets, sigs : SUBSET Devices]
  BY <1>2, <1>3 DEF Gossip
<1>9. Authored(d, t) \subseteq dag[d]
  BY DEF Authored
<1>10. TypeOK'
  BY <1>1, <1>2, <1>3, <1>5, <1>6, <1>7, <1>8, <1>9 DEF TypeOK
<1>11. \A e \in Devices : revoked'[e] = IF e = d THEN IF first THEN revoked[e] \cup {t} ELSE revoked[e]
                                         ELSE revoked[e]
  BY <1>1, <1>5 DEF TypeOK
<1>12. StoreSound'
  <2>. SUFFICES ASSUME NEW e \in Devices, NEW u \in Targets
                PROVE  /\ store'[e][u] \subseteq signed[u]
                       /\ Cardinality(store'[e][u]) <= M
                       /\ u \in revoked'[e] <=> ThresholdMet(store'[e][u])
    BY DEF StoreSound, ThresholdMet
  <2>1. CASE e = d /\ u = t
    <3>1. store'[e][u] = R
      BY <2>1, <1>1, <1>5 DEF TypeOK
    <3>. QED
      BY <2>1, <3>1, <1>3, <1>4, <1>11 DEF first
  <2>2. CASE ~(e = d /\ u = t)
    <3>1. store'[e][u] = store[e][u]
      BY <2>2, <1>1, <1>5 DEF TypeOK
    <3>2. u \in revoked'[e] <=> u \in revoked[e]
      BY <2>2, <1>11
    <3>. QED
      BY <3>1, <3>2 DEF RevocationInv, StoreSound
  <2>. QED
    BY <2>1, <2>2
<1>13. NetSound'
  BY <1>3, <1>5 DEF RevocationInv, NetSound, Gossip
<1>14. GateKnown'
  BY <1>11 DEF RevocationInv, GateKnown
<1>15. t \in revoked'[d] <=> ThresholdMet(R)
  BY <1>4, <1>11 DEF first
<1>16. \A e \in Devices, k \in Threads :
          job'[e][k] = IF e = d /\ k = h THEN AfterProcess(t, R) ELSE job[e][k]
  BY <1>1, <1>6 DEF TypeOK
<1>17. JobsSound'
  <2>. SUFFICES ASSUME NEW e \in Devices, NEW k \in Threads, job'[e][k] # Idle
                PROVE  /\ job'[e][k].step = "signed" => e \in signed[job'[e][k].target]
                       /\ job'[e][k].step # "signed" => job'[e][k].target \in revoked'[e]
                       /\ job'[e][k].step = "apply" => job'[e][k].target = e
    BY DEF JobsSound
  <2>1. CASE e = d /\ k = h
    <3>1. ThresholdMet(R) /\ job'[e][k] = [step |-> "mark", target |-> t]
      BY <2>1, <1>16 DEF AfterProcess
    <3>. QED
      BY <2>1, <3>1, <1>15
  <2>2. CASE ~(e = d /\ k = h)
    <3>1. job'[e][k] = job[e][k]
      BY <2>2, <1>16
    <3>2. revoked[e] \subseteq revoked'[e]
      BY <1>11
    <3>. QED
      BY <3>1, <3>2 DEF RevocationInv, JobsSound
  <2>. QED
    BY <2>1, <2>2
<1>18. first => Condemned(t)
  BY <1>2, <1>3, SignersCounted, RevocationAssumption DEF first, ThresholdMet, Condemned
<1>19. OnlyCondemnedTagged'
  <2>. SUFFICES ASSUME NEW e \in Devices, NEW x \in tagged'[e]
                PROVE  x \in dag[e] /\ Author[x] \in Targets /\ Condemned(Author[x])
    BY DEF OnlyCondemnedTagged, Condemned
  <2>1. x \in tagged[e] \/ (e = d /\ first /\ x \in Authored(d, t))
    BY <1>1, <1>5 DEF TypeOK
  <2>. QED
    BY <2>1, <1>18 DEF RevocationInv, OnlyCondemnedTagged, Authored
<1>20. GateFollows'
  <2>. SUFFICES ASSUME NEW e \in Devices, NEW u \in revoked'[e]
                PROVE  u \in gate[e] \/ \E k \in Threads : job'[e][k] = [step |-> "mark", target |-> u]
    BY DEF GateFollows
  <2>1. CASE e = d /\ u = t
    BY <2>1, <1>15, <1>16 DEF AfterProcess
  <2>2. CASE ~(e = d /\ u = t)
    <3>1. u \in revoked[e]
      BY <2>2, <1>11
    <3>2. u \in gate[e] \/ \E k \in Threads : job[e][k] = [step |-> "mark", target |-> u]
      BY <3>1 DEF RevocationInv, GateFollows
    <3>3. ASSUME NEW k \in Threads, job[e][k] = [step |-> "mark", target |-> u]
          PROVE  \E kk \in Threads : job'[e][kk] = [step |-> "mark", target |-> u]
      <4>1. job[e][k].step = "mark" /\ job[e][k] \in Jobs
        BY <3>3, <3>1, <1>1 DEF TypeOK, Jobs
      <4>2. job[e][k] # Idle
        BY <4>1, RevocationAssumption DEF Jobs
      <4>3. ~(e = d /\ k = h)
        BY <4>1, <4>2
      <4>. QED
        BY <4>3, <3>3, <1>16
    <3>. QED
      BY <3>2, <3>3
  <2>. QED
    BY <2>1, <2>2
<1>. QED
  BY <1>10, <1>12, <1>13, <1>14, <1>17, <1>19, <1>20 DEF RevocationInv

\* Every step of the mesh keeps the invariant.
LEMMA NextInv == RevocationInv /\ [Next]_vars => RevocationInv'
<1>. SUFFICES ASSUME RevocationInv, [Next]_vars PROVE RevocationInv'
  OBVIOUS
<1>. USE DEF RevocationInv
<1>1. ASSUME NEW d \in Devices, NEW t \in Targets, initiate_revocation(d, t)
      PROVE  RevocationInv'
  <2>1. signed' = [signed EXCEPT ![t] = signed[t] \cup {d}]
    BY <1>1 DEF initiate_revocation
  <2>2. \A u \in Targets : signed[u] \in SUBSET signed'[u] /\ signed'[u] \in SUBSET Devices
    BY <2>1 DEF TypeOK
  <2>3. d \in signed'[t]
    BY <2>1 DEF TypeOK
  <2>4. \A u \in Targets : Condemned(u) => Condemned(u)'
    <3>. SUFFICES ASSUME NEW u \in Targets, Cardinality(signed[u]) >= M
                  PROVE  Cardinality(signed'[u]) >= M
      BY DEF Condemned
    <3>1. /\ Cardinality(signed[u]) \in Nat /\ Cardinality(signed'[u]) \in Nat
          /\ Cardinality(signed[u]) <= Cardinality(signed'[u])
      BY <2>2, SignersCounted
    <3>. QED
      BY <3>1, RevocationAssumption
  <2>5. /\ net' = net \cup Gossip(d, t, {d})
        /\ job' = [job EXCEPT ![d] = [job[d] EXCEPT !["app"] = [step |-> "signed", target |-> t]]]
        /\ job[d]["app"] = Idle
        /\ UNCHANGED <<store, revoked, gate, trust, writing, dag, tagged, restarts>>
    BY <1>1 DEF initiate_revocation
  <2>6. \A e \in Devices, k \in Threads :
           job'[e][k] = IF e = d /\ k = "app" THEN [step |-> "signed", target |-> t] ELSE job[e][k]
    BY <2>5 DEF TypeOK, Threads
  <2>7. TypeOK'
    <3>1. Gossip(d, t, {d}) \subseteq [to : Devices, target : Targets, sigs : SUBSET Devices]
      BY DEF Gossip
    <3>2. [step |-> "signed", target |-> t] \in Jobs
      BY DEF Jobs
    <3>. QED
      BY <2>1, <2>5, <3>1, <3>2 DEF TypeOK, Threads
  <2>8. StoreSound'
    BY <2>2, <2>5 DEF StoreSound, ThresholdMet
  <2>9. NetSound'
    BY <2>2, <2>3, <2>5 DEF NetSound, Gossip, TypeOK
  <2>10. GateKnown'
    BY <2>5 DEF GateKnown
  <2>11. JobsSound'
    <3>. SUFFICES ASSUME NEW e \in Devices, NEW k \in Threads, job'[e][k] # Idle
                  PROVE  /\ job'[e][k].step = "signed" => e \in signed'[job'[e][k].target]
                         /\ job'[e][k].step # "signed" => job'[e][k].target \in revoked[e]
                         /\ job'[e][k].step = "apply" => job'[e][k].target = e
      BY <2>5 DEF JobsSound
    <3>1. CASE e = d /\ k = "app"
      BY <3>1, <2>3, <2>6
    <3>2. CASE ~(e = d /\ k = "app")
      <4>1. job'[e][k] = job[e][k] /\ job[e][k] \in Jobs
        BY <3>2, <2>6 DEF TypeOK
      <4>2. job[e][k].target \in Targets
        BY <4>1 DEF Jobs
      <4>. QED
        BY <4>1, <4>2, <2>2 DEF JobsSound
    <3>. QED
      BY <3>1, <3>2
  <2>12. OnlyCondemnedTagged'
    BY <2>4, <2>5 DEF OnlyCondemnedTagged
  <2>13. GateFollows'
    <3>. SUFFICES ASSUME NEW e \in Devices, NEW u \in revoked[e]
                  PROVE  u \in gate[e] \/ \E k \in Threads : job'[e][k] = [step |-> "mark", target |-> u]
      BY <2>5 DEF GateFollows
    <3>1. ASSUME NEW k \in Threads, job[e][k] = [step |-> "mark", target |-> u]
          PROVE  job'[e][k] = job[e][k]
      <4>1. job[e][k] # Idle
        BY <3>1, RevocationAssumption DEF TypeOK, Jobs
      <4>. QED
        BY <4>1, <2>5, <2>6
    <3>. QED
      BY <3>1 DEF GateFollows
  <2>. QED
    BY <2>7, <2>8, <2>9, <2>10, <2>11, <2>12, <2>13
<1>2. ASSUME NEW d \in Devices, Accumulate(d)
      PROVE  RevocationInv'
  <2>. DEFINE t == job[d]["app"].target
  <2>1. job[d]["app"] # Idle /\ job[d]["app"].step = "signed"
    BY <1>2 DEF Accumulate
  <2>2. t \in Targets /\ d \in signed[t] /\ "app" \in Threads
    BY <2>1 DEF TypeOK, Jobs, JobsSound, Threads
  <2>3. PICK R \in add_signatures(d, t, {d}) :
           /\ process_incoming_delta(d, t, R, net)
           /\ job' = [job EXCEPT ![d]["app"] = AfterProcess(t, R)]
    BY <1>2 DEF Accumulate
  <2>4. UNCHANGED <<signed, gate, trust, writing, dag, restarts>>
    BY <1>2 DEF Accumulate
  <2>5. {d} \in SUBSET signed[t]
    BY <2>2
  <2>. HIDE DEF t
  <2>. QED
    BY <2>1, <2>2, <2>3, <2>4, <2>5, ProcessKeepsInv
<1>3. ASSUME NEW d \in Devices, NEW m \in net, Deliver(d, m)
      PROVE  RevocationInv'
  <2>1. m.target \in Targets /\ m.sigs \in SUBSET signed[m.target] /\ "inbound" \in Threads
    BY DEF TypeOK, NetSound, Threads
  <2>2. PICK R \in add_signatures(d, m.target, m.sigs) :
           /\ process_incoming_delta(d, m.target, R, net \ {m})
           /\ job' = [job EXCEPT ![d]["inbound"] = AfterProcess(m.target, R)]
    BY <1>3 DEF Deliver
  <2>3. /\ UNCHANGED <<signed, gate, trust, writing, dag, restarts>>
        /\ job[d]["inbound"] = Idle
    BY <1>3 DEF Deliver
  <2>4. net \ {m} \in SUBSET net
    OBVIOUS
  <2>. QED
    BY <2>1, <2>2, <2>3, <2>4, ProcessKeepsInv
<1>4. ASSUME NEW m \in net, Lose(m)
      PROVE  RevocationInv'
  BY <1>4 DEF Lose, TypeOK, StoreSound, ThresholdMet, NetSound, GateKnown, JobsSound,
              OnlyCondemnedTagged, Condemned, GateFollows
<1>5. ASSUME NEW d \in Devices, NEW h \in Threads, mark_did_revoked(d, h)
      PROVE  RevocationInv'
  <2>. DEFINE t == job[d][h].target
  <2>1. /\ job[d][h] # Idle /\ job[d][h].step = "mark"
        /\ gate' = [gate EXCEPT ![d] = gate[d] \cup {t}]
        /\ job' = [job EXCEPT ![d] = [job[d] EXCEPT ![h] = Continue(d, t)]]
        /\ UNCHANGED <<signed, store, revoked, trust, net, writing, dag, tagged, restarts>>
    BY <1>5 DEF mark_did_revoked
  <2>2. t \in Targets /\ t \in revoked[d] /\ job[d][h] = [step |-> "mark", target |-> t]
    BY <2>1 DEF TypeOK, Jobs, JobsSound
  <2>. HIDE DEF t
  <2>3. Continue(d, t) \in Jobs \cup {Idle}
    BY <2>2 DEF Continue, Jobs
  <2>4. \A e \in Devices : gate'[e] = IF e = d THEN gate[e] \cup {t} ELSE gate[e]
    BY <2>1 DEF TypeOK
  <2>5. \A e \in Devices, k \in Threads :
           job'[e][k] = IF e = d /\ k = h THEN Continue(d, t) ELSE job[e][k]
    BY <2>1 DEF TypeOK
  <2>6. TypeOK'
    BY <2>1, <2>2, <2>3 DEF TypeOK
  <2>7. StoreSound' /\ NetSound' /\ OnlyCondemnedTagged'
    BY <2>1 DEF StoreSound, ThresholdMet, NetSound, OnlyCondemnedTagged, Condemned
  <2>8. GateKnown'
    BY <2>1, <2>2, <2>4 DEF GateKnown
  <2>9. JobsSound'
    <3>. SUFFICES ASSUME NEW e \in Devices, NEW k \in Threads, job'[e][k] # Idle
                  PROVE  /\ job'[e][k].step = "signed" => e \in signed[job'[e][k].target]
                         /\ job'[e][k].step # "signed" => job'[e][k].target \in revoked[e]
                         /\ job'[e][k].step = "apply" => job'[e][k].target = e
      BY <2>1 DEF JobsSound
    <3>1. CASE e = d /\ k = h
      <4>1. job'[e][k] = [step |-> "apply", target |-> t] /\ t = d
        BY <3>1, <2>5 DEF Continue
      <4>. QED
        BY <3>1, <4>1, <2>2
    <3>2. CASE ~(e = d /\ k = h)
      BY <3>2, <2>5 DEF JobsSound
    <3>. QED
      BY <3>1, <3>2
  <2>10. GateFollows'
    <3>. SUFFICES ASSUME NEW e \in Devices, NEW u \in revoked[e]
                  PROVE  u \in gate'[e] \/ \E k \in Threads : job'[e][k] = [step |-> "mark", target |-> u]
      BY <2>1 DEF GateFollows
    <3>1. CASE u \in gate[e] \/ (e = d /\ u = t)
      BY <3>1, <2>4
    <3>2. CASE u \notin gate[e] /\ ~(e = d /\ u = t)
      <4>1. PICK k \in Threads : job[e][k] = [step |-> "mark", target |-> u]
        BY <3>2 DEF GateFollows
      <4>2. ~(e = d /\ k = h)
        BY <3>2, <4>1, <2>2
      <4>. QED
        BY <4>1, <4>2, <2>5
    <3>. QED
      BY <3>1, <3>2
  <2>. QED
    BY <2>6, <2>7, <2>8, <2>9, <2>10
<1>6. ASSUME NEW d \in Devices, NEW h \in Threads, apply_revocation(d, h)
      PROVE  RevocationInv'
  <2>1. /\ job[d][h] # Idle /\ job[d][h].step = "apply"
        /\ trust' = [trust EXCEPT ![d] = "Revoked"]
        /\ job' = [job EXCEPT ![d] = [job[d] EXCEPT ![h] = Idle]]
        /\ UNCHANGED <<signed, store, revoked, gate, net, writing, dag, tagged, restarts>>
    BY <1>6 DEF apply_revocation
  <2>2. d \in revoked[d]
    BY <2>1 DEF JobsSound
  <2>3. \A e \in Devices, k \in Threads :
           job'[e][k] = IF e = d /\ k = h THEN Idle ELSE job[e][k]
    BY <2>1 DEF TypeOK
  <2>4. TypeOK'
    BY <2>1 DEF TypeOK
  <2>5. StoreSound' /\ NetSound' /\ OnlyCondemnedTagged'
    BY <2>1 DEF StoreSound, ThresholdMet, NetSound, OnlyCondemnedTagged, Condemned
  <2>6. GateKnown'
    BY <2>1, <2>2 DEF GateKnown, TypeOK
  <2>7. JobsSound'
    BY <2>1, <2>3 DEF JobsSound
  <2>8. GateFollows'
    <3>. SUFFICES ASSUME NEW e \in Devices, NEW u \in revoked[e], u \notin gate[e]
                  PROVE  \E k \in Threads : job'[e][k] = [step |-> "mark", target |-> u]
      BY <2>1 DEF GateFollows
    <3>1. PICK k \in Threads : job[e][k] = [step |-> "mark", target |-> u]
      BY DEF GateFollows
    <3>2. ~(e = d /\ k = h)
      BY <3>1, <2>1
    <3>. QED
      BY <3>1, <3>2, <2>3
  <2>. QED
    BY <2>4, <2>5, <2>6, <2>7, <2>8
<1>7. ASSUME NEW d \in Devices, Reannounce(d)
      PROVE  RevocationInv'
  <2>1. /\ net' = net \cup UNION {Gossip(d, t, store[d][t]) : t \in revoked[d]}
        /\ UNCHANGED <<signed, store, revoked, gate, trust, job, writing, dag, tagged, restarts>>
    BY <1>7 DEF Reannounce
  <2>2. ASSUME NEW m \in net', m \notin net
        PROVE  /\ m \in [to : Devices, target : Targets, sigs : SUBSET Devices]
               /\ m.sigs \subseteq signed[m.target]
    <3>1. PICK t \in revoked[d] : m \in Gossip(d, t, store[d][t])
      BY <2>1, <2>2
    <3>2. t \in Targets /\ store[d][t] \in SUBSET Devices /\ store[d][t] \subseteq signed[t]
      BY DEF TypeOK, StoreSound
    <3>. QED
      BY <3>1, <3>2 DEF Gossip
  <2>3. TypeOK'
    BY <2>1, <2>2 DEF TypeOK
  <2>4. NetSound'
    BY <2>1, <2>2 DEF NetSound
  <2>. QED
    BY <2>1, <2>3, <2>4 DEF StoreSound, ThresholdMet, GateKnown, JobsSound,
                            OnlyCondemnedTagged, Condemned, GateFollows
<1>8. ASSUME NEW d \in Devices, present_token(d)
      PROVE  RevocationInv'
  BY <1>8 DEF present_token, TypeOK, StoreSound, ThresholdMet, NetSound, GateKnown, JobsSound,
              OnlyCondemnedTagged, Condemned, GateFollows
<1>9. ASSUME NEW x \in Deltas, WriteGate(x)
      PROVE  RevocationInv'
  BY <1>9 DEF WriteGate, TypeOK, StoreSound, ThresholdMet, NetSound, GateKnown, JobsSound,
              OnlyCondemnedTagged, Condemned, GateFollows
<1>10. ASSUME NEW x \in Deltas, WriteCommit(x) \/ \E d \in Devices : MergeDelta(d, x)
       PROVE  RevocationInv'
  <2>1. PICK d \in Devices : dag' = [dag EXCEPT ![d] = dag[d] \cup {x}]
    BY <1>10, RevocationAssumption DEF WriteCommit, MergeDelta
  <2>2. /\ UNCHANGED <<signed, store, revoked, gate, trust, job, net, tagged, restarts>>
        /\ writing' \subseteq writing
    BY <1>10 DEF WriteCommit, MergeDelta
  <2>3. TypeOK'
    BY <2>1, <2>2 DEF TypeOK
  <2>4. OnlyCondemnedTagged'
    BY <2>1, <2>2 DEF OnlyCondemnedTagged, Condemned, TypeOK
  <2>. QED
    BY <2>2, <2>3, <2>4 DEF StoreSound, ThresholdMet, NetSound, GateKnown, JobsSound, GateFollows
<1>11. ASSUME NEW d \in Devices, Restart(d)
       PROVE  RevocationInv'
  <2>1. /\ store' = [store EXCEPT ![d] = [t \in Targets |-> {}]]
        /\ revoked' = [revoked EXCEPT ![d] = {}]
        /\ gate' = [gate EXCEPT ![d] = {}]
        /\ trust' = [trust EXCEPT ![d] = "Active"]
        /\ job' = [job EXCEPT ![d] = [h \in Threads |-> Idle]]
        /\ writing' \subseteq writing /\ restarts' \in Nat
        /\ UNCHANGED <<signed, net, dag, tagged>>
    BY <1>11 DEF Restart, TypeOK
  <2>2. TypeOK'
    BY <2>1 DEF TypeOK
  <2>3. StoreSound'
    <3>. SUFFICES ASSUME NEW e \in Devices, NEW u \in Targets
                  PROVE  /\ store'[e][u] \subseteq signed[u]
                         /\ Cardinality(store'[e][u]) <= M
                         /\ u \in revoked'[e] <=> ThresholdMet(store'[e][u])
      BY <2>1 DEF StoreSound, ThresholdMet
    <3>1. CASE e = d
      <4>1. store'[e][u] = {} /\ revoked'[e] = {}
        BY <3>1, <2>1 DEF TypeOK
      <4>. QED
        BY <4>1, FS_EmptySet, RevocationAssumption DEF ThresholdMet
    <3>2. CASE e # d
      BY <3>2, <2>1 DEF StoreSound, TypeOK
    <3>. QED
      BY <3>1, <3>2
  <2>4. NetSound' /\ OnlyCondemnedTagged'
    BY <2>1 DEF NetSound, OnlyCondemnedTagged, Condemned
  <2>5. GateKnown'
    BY <2>1 DEF GateKnown, TypeOK
  <2>6. JobsSound'
    BY <2>1 DEF JobsSound, TypeOK
  <2>7. GateFollows'
    BY <2>1 DEF GateFollows, TypeOK
  <2>. QED
    BY <2>2, <2>3, <2>4, <2>5, <2>6, <2>7
<1>12. CASE UNCHANGED vars
  BY <1>12 DEF vars, TypeOK, StoreSound, ThresholdMet, NetSound, GateKnown, JobsSound,
               OnlyCondemnedTagged, Condemned, GateFollows
<1>. QED
  BY <1>1, <1>2, <1>3, <1>4, <1>5, <1>6, <1>7, <1>8, <1>9, <1>10, <1>11, <1>12 DEF Next

-----------------------------------------------------------------------------
\* The inductive invariant holds in every reachable state.
THEOREM RevocationInvariant == Spec => []RevocationInv
  BY InitInv, NextInv, PTL DEF Spec

\* Type correctness of the specification.
THEOREM TypeCorrect == Spec => []TypeOK
<1>1. RevocationInv => TypeOK
  BY DEF RevocationInv
<1>. QED
  BY <1>1, RevocationInvariant, PTL

\* A device is revoked, gated or blocked only with M real signatures behind it
\* (RevocationSubsystem::process_incoming_delta), for every mesh and threshold.
THEOREM NeverBelowThreshold == Spec => []ThresholdEvidence
<1>1. RevocationInv => ThresholdEvidence
  <2>. SUFFICES ASSUME RevocationInv, NEW d \in Devices
                PROVE  /\ \A t \in revoked[d] \cup gate[d] : Condemned(t)
                       /\ trust[d] = "Revoked" => d \in Targets /\ Condemned(d)
    BY DEF ThresholdEvidence
  <2>1. gate[d] \subseteq revoked[d] /\ revoked[d] \subseteq Targets
    BY DEF RevocationInv, GateKnown, TypeOK
  <2>2. trust[d] = "Revoked" => d \in revoked[d]
    BY DEF RevocationInv, GateKnown
  <2>. QED
    BY <2>1, <2>2, RevokedCondemned
<1>. QED
  BY <1>1, RevocationInvariant, PTL

\* What a device announces for a revoked target is a complete delta with
\* exactly M real signatures (build_revocation_delta).
THEOREM CompleteAnnouncements == Spec => []AnnouncementsComplete
<1>1. RevocationInv => AnnouncementsComplete
  <2>. SUFFICES ASSUME RevocationInv, NEW d \in Devices, NEW t \in revoked[d]
                PROVE  Cardinality(store[d][t]) = M /\ store[d][t] \subseteq signed[t]
    BY DEF AnnouncementsComplete
  <2>1. /\ t \in Targets /\ signed[t] \in SUBSET Devices
        /\ store[d][t] \in SUBSET signed[t]
        /\ Cardinality(store[d][t]) <= M /\ Cardinality(store[d][t]) >= M
    BY DEF RevocationInv, TypeOK, StoreSound, ThresholdMet
  <2>. QED
    BY <2>1, SignersCounted, RevocationAssumption
<1>. QED
  BY <1>1, RevocationInvariant, PTL

\* Only deltas of condemned authors are tagged as contamination roots.
THEOREM TagsAreJustified == Spec => []OnlyCondemnedTagged
<1>1. RevocationInv => OnlyCondemnedTagged
  BY DEF RevocationInv
<1>. QED
  BY <1>1, RevocationInvariant, PTL

\* The merge path is told of every revocation (mark_did_revoked), whichever
\* thread completed the threshold.
THEOREM MergeGateFollows == Spec => []GateFollows
<1>1. RevocationInv => GateFollows
  BY DEF RevocationInv
<1>. QED
  BY <1>1, RevocationInvariant, PTL

\* add_signature never counts a manager the device knows as revoked.
THEOREM RevokedNeverCounted == Spec => RevokedSignersRefused
<1>. DEFINE A == \A d \in Devices, t \in Targets :
                    (store'[d][t] \ store[d][t]) \cap revoked[d] = {}
<1>1. RevocationInv /\ [Next]_vars => [A]_vars
  <2>. SUFFICES ASSUME RevocationInv, Next PROVE A
    OBVIOUS
  <2>1. TypeOK
    BY DEF RevocationInv
  <2>2. ASSUME NEW d \in Devices, NEW t \in Targets, NEW sigs, NEW R \in add_signatures(d, t, sigs),
               store' = [store EXCEPT ![d][t] = R]
        PROVE  A
    <3>1. (R \ store[d][t]) \cap revoked[d] = {}
      BY DEF add_signatures
    <3>2. \A e \in Devices, u \in Targets :
             store'[e][u] = IF e = d /\ u = t THEN R ELSE store[e][u]
      BY <2>1, <2>2 DEF TypeOK
    <3>. QED
      BY <3>1, <3>2
  <2>3. ASSUME NEW d \in Devices, Accumulate(d) PROVE A
    <3>1. job[d]["app"].target \in Targets
      BY <2>1, <2>3 DEF Accumulate, TypeOK, Jobs, Threads
    <3>. QED
      BY <2>2, <2>3, <3>1 DEF Accumulate, process_incoming_delta
  <2>4. ASSUME NEW d \in Devices, NEW m \in net, Deliver(d, m) PROVE A
    <3>1. m.target \in Targets
      BY <2>1 DEF TypeOK
    <3>. QED
      BY <2>2, <2>4, <3>1 DEF Deliver, process_incoming_delta
  <2>5. ASSUME NEW d \in Devices, Restart(d) PROVE A
    BY <2>1, <2>5 DEF Restart, TypeOK
  <2>6. CASE UNCHANGED store
    BY <2>6
  <2>. QED
    BY <2>3, <2>4, <2>5, <2>6 DEF Next, initiate_revocation, Lose, mark_did_revoked,
         apply_revocation, Reannounce, present_token, WriteGate, WriteCommit, MergeDelta
<1>. QED
  BY <1>1, RevocationInvariant, PTL DEF Spec, RevokedSignersRefused
=============================================================================
