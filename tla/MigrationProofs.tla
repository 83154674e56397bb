--------------------------- MODULE MigrationProofs --------------------------
(***************************************************************************)
(* Proofs about the migration pipeline: what a commit may do and what      *)
(* becomes of captured writes, for every set of migrations, every version  *)
(* path and all bounds.                                                    *)
(***************************************************************************)
EXTENDS Migration, FiniteSetTheorems, TLAPS

PipelineSpec == Init /\ [][Next]_vars

InFlight == {"starting", "running", "ran"}
Settling == {"committed", "mirror", "replay"}

JobRecord == [m : Migrations \cup {None}, phase : {"prepare", "done"} \cup InFlight \cup Settling,
              result : {None, "Failed", "Success"}, source : Schemas \cup {None},
              current : Schemas \cup {None}, halt : BOOLEAN]

Entry == [write : Nat, mig : Migrations, status : {"PENDING", "REPLAYED", "CONFLICT", "COMPLETE"}]

\* The registry of migrations in progress names every transform under way, and
\* a new one starts only when it is empty; its target is on the version path.
FitsIn(x, progress) ==
    /\ x \in JobRecord
    /\ x.phase \in {"prepare"} \cup InFlight \cup Settling => x.m \in Migrations
    /\ x.phase \in InFlight => x.m \in progress /\ delta[x.m].dst \in Schemas
    /\ x.phase \in Settling => x.source \in Schemas
    /\ x.phase \in {"mirror", "replay"} => x.current \in Schemas

JobsInv ==
    /\ jobs \in Seq(JobRecord)
    /\ \A j \in 1..Len(jobs) : FitsIn(jobs[j], in_progress)
    /\ \A i, j \in 1..Len(jobs) : jobs[i].phase \in InFlight /\ jobs[j].phase \in InFlight => i = j

\* What a job that moves becomes; z is the job before, y the one after.
SameRun(y, z)    == y \in JobRecord /\ y.m = z.m
SameWindow(y, z) == SameRun(y, z) /\ y.source = z.source /\ y.current = z.current

\* StartRun, prepare_migration and set_current_schema only move the job's phase.
LEMMA MovedOn ==
  ASSUME NEW z \in JobRecord, NEW p \in {"starting", "running", "replay"}, NEW y, y = [z EXCEPT !.phase = p]
  PROVE  SameWindow(y, z) /\ y.phase = p
  BY DEF JobRecord, InFlight, Settling, SameWindow, SameRun

\* A run that ended keeps its migration and window.
LEMMA RanTo ==
  ASSUME NEW z \in JobRecord, NEW r \in {"Failed", "Success"}, NEW y, y = [z EXCEPT !.phase = "ran", !.result = r]
  PROVE  SameWindow(y, z) /\ y.phase = "ran"
  BY DEF JobRecord, InFlight, Settling, SameWindow, SameRun

CommittedFrom(z, s) == [z EXCEPT !.phase = "committed", !.source = s]
MirroredTo(z, s)    == [z EXCEPT !.phase = "mirror", !.current = s]

\* The commit notes the schema that the device leaves.
LEMMA Committed ==
  ASSUME NEW z \in JobRecord, NEW s \in Schemas
  PROVE  /\ SameRun(CommittedFrom(z, s), z)
         /\ CommittedFrom(z, s).phase = "committed" /\ CommittedFrom(z, s).source = s
  BY DEF CommittedFrom, JobRecord, InFlight, Settling, SameRun

\* The job notes the schema to mirror.
LEMMA Mirrored ==
  ASSUME NEW z \in JobRecord, NEW s \in Schemas
  PROVE  /\ SameRun(MirroredTo(z, s), z)
         /\ MirroredTo(z, s).phase = "mirror" /\ MirroredTo(z, s).source = z.source /\ MirroredTo(z, s).current = s
  BY DEF MirroredTo, JobRecord, InFlight, Settling, SameRun

\* A revocation only asks the job to halt.
LEMMA Halted ==
  ASSUME NEW z \in JobRecord, NEW y, y = [z EXCEPT !.halt = TRUE]
  PROVE  SameWindow(y, z) /\ y.phase = z.phase
  BY DEF JobRecord, InFlight, Settling, SameWindow, SameRun

\* An interrupt ends a run or does nothing.
LEMMA Interrupted ==
  ASSUME NEW z \in JobRecord, NEW p \in {z.phase, "ran"}, NEW r \in {z.result, "Failed"}, NEW y,
         y = [z EXCEPT !.halt = FALSE, !.phase = p, !.result = r]
  PROVE  SameWindow(y, z) /\ y.phase = p
  BY DEF JobRecord, InFlight, Settling, SameWindow, SameRun

\* New and finished jobs.
LEMMA FreshJobs ==
  /\ Finished \in JobRecord /\ Finished.phase = "done"
  /\ \A m \in Migrations : /\ Job(m) \in JobRecord /\ Job(m).phase = "prepare"
                           /\ Job(m).m = m
  BY DEF JobRecord, Finished, Job, JobIn

\* One job moves: a transform starts only when none is in progress, and only
\* the job of a transform takes its mark away.
LEMMA OneJobMoves ==
  ASSUME JobsInv, NEW j \in 1..Len(jobs), NEW x, jobs' = [jobs EXCEPT ![j] = x],
         FitsIn(x, in_progress'),
         x.phase \in InFlight => jobs[j].phase \in InFlight \/ in_progress = {},
         in_progress \subseteq in_progress' \/ jobs[j].phase \in InFlight
  PROVE  JobsInv' /\ Len(jobs') = Len(jobs) /\ jobs'[j] = x /\ \A i \in 1..Len(jobs) : i # j => jobs'[i] = jobs[i]
<1>1. x \in JobRecord /\ jobs \in Seq(JobRecord)
  BY DEF FitsIn, JobsInv
<1>2. /\ jobs' \in Seq(JobRecord) /\ Len(jobs') = Len(jobs) /\ jobs'[j] = x
      /\ \A i \in 1..Len(jobs) : i # j => jobs'[i] = jobs[i]
  BY <1>1
<1>3. ASSUME NEW i \in 1..Len(jobs) PROVE FitsIn(jobs'[i], in_progress')
  <2>1. CASE i = j
    BY <2>1, <1>2
  <2>2. CASE i # j
    BY <2>2, <1>2 DEF JobsInv, FitsIn
  <2> QED BY <2>1, <2>2
<1>4. ASSUME NEW i \in 1..Len(jobs), NEW k \in 1..Len(jobs), jobs'[i].phase \in InFlight, jobs'[k].phase \in InFlight
      PROVE  i = k
  BY <1>2, <1>4 DEF JobsInv, FitsIn
<1> QED BY <1>2, <1>3, <1>4 DEF JobsInv
\* The registries and the schemas the jobs rely on.
CoreInv ==
    /\ local_schema \in Schemas /\ crdt_schema \in Schemas
    /\ revoked \subseteq known /\ in_progress \subseteq known /\ known \subseteq Migrations
    /\ JobsInv

\* A revoked migration whose transform has ended is not committed by the step.
RevokedStays ==
    \A j \in 1..Len(jobs) :
        jobs[j].phase = "ran" /\ jobs[j].m \in revoked => j > Len(jobs') \/ jobs'[j].phase # "committed"

\* A committed migration that still owes a replay keeps owing it.
KeepsSettling ==
    /\ Len(jobs) <= Len(jobs')
    /\ \A i \in 1..Len(jobs) : jobs[i].phase \in Settling => /\ jobs'[i].phase \in Settling
                                                             /\ jobs'[i].source = jobs[i].source

\* The facts about one job that the invariant gives.
LEMMA JobFacts ==
  ASSUME CoreInv, NEW j \in 1..Len(jobs)
  PROVE  jobs[j] \in JobRecord /\ FitsIn(jobs[j], in_progress)
  BY DEF CoreInv, JobsInv, FitsIn

\* A job ends: nothing in flight is disturbed.
LEMMA EndsSound ==
  ASSUME CoreInv, NEW j \in 1..Len(jobs), Ends(j),
         in_progress \subseteq in_progress' \/ jobs[j].phase \in InFlight
  PROVE  JobsInv' /\ RevokedStays /\ Len(jobs') = Len(jobs) /\ (jobs[j].phase \notin Settling => KeepsSettling)
         /\ \A i \in 1..Len(jobs) : i # j => jobs'[i] = jobs[i]
<1>1. FitsIn(Finished, in_progress') /\ Finished.phase = "done"
  BY FreshJobs DEF FitsIn, InFlight, Settling
<1>2. jobs' = [jobs EXCEPT ![j] = Finished] /\ JobsInv
  BY DEF Ends, CoreInv
<1>3. /\ JobsInv' /\ Len(jobs') = Len(jobs) /\ jobs'[j] = Finished
      /\ \A i \in 1..Len(jobs) : i # j => jobs'[i] = jobs[i]
  BY <1>1, <1>2, OneJobMoves DEF InFlight
<1>4. Len(jobs) \in Nat
  BY <1>2 DEF JobsInv
<1> QED BY <1>1, <1>3, <1>4 DEF RevokedStays, KeepsSettling

\* prepare_migration: a transform starts only if no other is in progress.
LEMMA PrepareSound ==
  ASSUME CoreInv, NEW j \in 1..Len(jobs), prepare_migration(j)
  PROVE  CoreInv' /\ RevokedStays /\ KeepsSettling /\ UNCHANGED <<local_schema, windows, sidecar>>
<1> DEFINE m == jobs[j].m
<1>1. /\ jobs[j].phase = "prepare" /\ jobs[j] \in JobRecord /\ m \in Migrations
      /\ UNCHANGED <<local_schema, crdt_schema, revoked, windows, sidecar>> /\ Len(jobs) \in Nat
  BY JobFacts DEF prepare_migration, FitsIn, CoreInv, JobsInv
<1>2. CASE Ends(j) /\ in_progress' = in_progress /\ known' \in {known, known \cup {m}}
  BY <1>1, <1>2, EndsSound DEF CoreInv, Settling
<1>3. CASE jobs' = jobs /\ in_progress' = in_progress /\ known' = known \cup {m}
  BY <1>1, <1>3 DEF CoreInv, JobsInv, FitsIn, RevokedStays, KeepsSettling
<1>4. CASE /\ in_progress = {} /\ in_progress' = in_progress \cup {m} /\ known' = known \cup {m}
           /\ verify_version_path(m) /\ jobs' = [jobs EXCEPT ![j].phase = "starting"]
  <2> DEFINE x == [jobs[j] EXCEPT !.phase = "starting"]
  <2>1. x \in JobRecord /\ x.phase = "starting" /\ x.m = m /\ x.m \in Migrations
    BY <1>1, MovedOn DEF SameWindow, SameRun
  <2>2. delta[m].dst \in Schemas
    BY <1>4 DEF verify_version_path
  <2>3. FitsIn(x, in_progress')
    BY <1>4, <2>1, <2>2 DEF FitsIn, InFlight, Settling
  <2>4. jobs' = [jobs EXCEPT ![j] = x] /\ JobsInv
    BY <1>4 DEF CoreInv
  <2> HIDE DEF x
  <2>5. /\ JobsInv' /\ Len(jobs') = Len(jobs) /\ jobs'[j] = x
        /\ \A i \in 1..Len(jobs) : i # j => jobs'[i] = jobs[i]
    BY <1>4, <2>3, <2>4, OneJobMoves
  <2>6. RevokedStays /\ KeepsSettling
    BY <1>1, <2>1, <2>5 DEF RevokedStays, KeepsSettling, Settling
  <2> QED BY <1>1, <1>4, <2>5, <2>6 DEF CoreInv
<1> QED BY <1>2, <1>3, <1>4 DEF prepare_migration, NotApplicable, MustWait

\* A job that moves within its window's life, or leaves the pipeline's run.
LEMMA JobTurns ==
  ASSUME CoreInv, NEW j \in 1..Len(jobs), NEW x, jobs' = [jobs EXCEPT ![j] = x],
         x \in JobRecord, x.m = jobs[j].m, UNCHANGED in_progress,
         x.phase \in InFlight => jobs[j].phase \in InFlight,
         x.phase \in Settling => jobs[j].phase \in Settling /\ x.source = jobs[j].source,
         x.phase \in {"prepare", "done"} => jobs[j].phase = x.phase,
         jobs[j].phase \in Settling => x.phase \in Settling,
         x.phase \in {"mirror", "replay"} => x.current \in Schemas
  PROVE  /\ JobsInv' /\ RevokedStays /\ KeepsSettling /\ Len(jobs') = Len(jobs) /\ jobs'[j] = x
         /\ \A i \in 1..Len(jobs) : i # j => jobs'[i] = jobs[i]
<1>1. jobs[j] \in JobRecord /\ FitsIn(jobs[j], in_progress)
  BY JobFacts
<1>2. FitsIn(x, in_progress')
  BY <1>1 DEF FitsIn, InFlight, Settling
<1>3. /\ JobsInv' /\ Len(jobs') = Len(jobs) /\ jobs'[j] = x
      /\ \A i \in 1..Len(jobs) : i # j => jobs'[i] = jobs[i]
  BY <1>2, OneJobMoves DEF CoreInv
<1>4. Len(jobs) \in Nat
  BY DEF CoreInv, JobsInv
<1>5. RevokedStays
  BY <1>1, <1>3 DEF RevokedStays, InFlight, Settling
<1>6. KeepsSettling
  BY <1>3, <1>4 DEF KeepsSettling
<1> QED BY <1>3, <1>5, <1>6

\* The transform starts, fails to start, or ends.
LEMMA RunSound ==
  ASSUME CoreInv, NEW j \in 1..Len(jobs),
         StartRun(j) \/ \E r \in {"Success", "Failed"} : EndRun(j, r)
  PROVE  CoreInv' /\ RevokedStays /\ KeepsSettling /\ UNCHANGED <<local_schema, windows, sidecar>>
<1>1. /\ jobs[j].phase \in {"starting", "running"} /\ jobs[j] \in JobRecord
      /\ UNCHANGED <<local_schema, crdt_schema, revoked, known, in_progress, windows, sidecar>>
  BY JobFacts DEF StartRun, EndRun, engineVars
<1>2. CASE jobs' = [jobs EXCEPT ![j] = [jobs[j] EXCEPT !.phase = "running"]]
  <2> DEFINE x == [jobs[j] EXCEPT !.phase = "running"]
  <2>1. x \in JobRecord /\ x.phase = "running" /\ x.m = jobs[j].m
    BY <1>1, MovedOn DEF SameWindow, SameRun
  <2>2. jobs' = [jobs EXCEPT ![j] = x]
    BY <1>2
  <2> HIDE DEF x
  <2>3. JobsInv' /\ RevokedStays /\ KeepsSettling
    BY <1>1, <2>1, <2>2, JobTurns DEF InFlight, Settling
  <2> QED BY <1>1, <2>3 DEF CoreInv
<1>3. ASSUME NEW r \in {"Failed", "Success"},
             jobs' = [jobs EXCEPT ![j] = [jobs[j] EXCEPT !.phase = "ran", !.result = r]]
      PROVE  CoreInv' /\ RevokedStays /\ KeepsSettling
  <2> DEFINE x == [jobs[j] EXCEPT !.phase = "ran", !.result = r]
  <2>1. x \in JobRecord /\ x.phase = "ran" /\ x.m = jobs[j].m
    BY <1>1, RanTo DEF SameWindow, SameRun
  <2>2. jobs' = [jobs EXCEPT ![j] = x]
    BY <1>3
  <2> HIDE DEF x
  <2>3. JobsInv' /\ RevokedStays /\ KeepsSettling
    BY <1>1, <2>1, <2>2, JobTurns DEF InFlight, Settling
  <2> QED BY <1>1, <2>3 DEF CoreInv
<1>4. \/ jobs' = [jobs EXCEPT ![j] = [jobs[j] EXCEPT !.phase = "running"]]
      \/ \E r \in {"Failed", "Success"} :
            jobs' = [jobs EXCEPT ![j] = [jobs[j] EXCEPT !.phase = "ran", !.result = r]]
  BY DEF StartRun, EndRun
<1> QED BY <1>1, <1>2, <1>3, <1>4

\* finish_migration: the second look at the revocations, the mark taken away, and
\* the job that leaves a schema owing the replay of its window.
LEMMA FinishSound ==
  ASSUME CoreInv, NEW j \in 1..Len(jobs), finish_migration(j)
  PROVE  /\ CoreInv' /\ RevokedStays /\ KeepsSettling /\ UNCHANGED <<windows, sidecar>>
         /\ \/ local_schema' = local_schema
            \/ j <= Len(jobs') /\ jobs'[j].phase \in Settling /\ jobs'[j].source = local_schema
<1> DEFINE m == jobs[j].m
<1>1. /\ jobs[j].phase = "ran" /\ jobs[j] \in JobRecord /\ FitsIn(jobs[j], in_progress)
      /\ in_progress' = in_progress \ {m}
      /\ UNCHANGED <<crdt_schema, revoked, known, windows, sidecar>> /\ Len(jobs) \in Nat
  BY JobFacts DEF finish_migration, CoreInv, JobsInv
<1>2. CASE /\ m \notin revoked /\ local_schema' = delta[m].dst
           /\ jobs' = [jobs EXCEPT ![j].phase = "committed", ![j].source = local_schema]
  <2> DEFINE x == CommittedFrom(jobs[j], local_schema)
  <2>1. x \in JobRecord /\ x.phase = "committed" /\ x.m = m /\ x.source = local_schema
    <3>1. local_schema \in Schemas
      BY DEF CoreInv
    <3> QED BY <1>1, <3>1, Committed DEF SameRun
  <2>2. jobs' = [jobs EXCEPT ![j] = x]
    BY <1>2 DEF CommittedFrom
  <2> HIDE DEF x
  <2>3. FitsIn(x, in_progress')
    BY <1>1, <2>1 DEF FitsIn, InFlight, Settling, CoreInv
  <2>4. /\ JobsInv' /\ Len(jobs') = Len(jobs) /\ jobs'[j] = x
        /\ \A i \in 1..Len(jobs) : i # j => jobs'[i] = jobs[i]
    BY <1>1, <2>1, <2>2, <2>3, OneJobMoves DEF CoreInv, InFlight
  <2>5. RevokedStays
    <3> SUFFICES ASSUME NEW i \in 1..Len(jobs), jobs[i].phase = "ran", jobs[i].m \in revoked
                 PROVE  jobs'[i].phase # "committed"
      BY DEF RevokedStays
    <3>1. i # j
      BY <1>2
    <3> QED BY <2>4, <3>1
  <2>6. delta[m].dst \in Schemas
    BY <1>1 DEF FitsIn, InFlight
  <2>7. KeepsSettling
    BY <1>1, <2>4 DEF KeepsSettling, Settling
  <2>8. jobs'[j].phase \in Settling /\ jobs'[j].source = local_schema
    BY <2>1, <2>4 DEF Settling
  <2> QED BY <1>1, <1>2, <2>4, <2>5, <2>6, <2>7, <2>8 DEF CoreInv
<1>3. CASE Ends(j) /\ local_schema' = local_schema
  BY <1>1, <1>3, EndsSound DEF CoreInv, InFlight, Settling
<1> QED BY <1>1, <1>2, <1>3 DEF finish_migration

\* ReadCurrent and set_current_schema.
LEMMA MirrorSound ==
  ASSUME CoreInv, NEW j \in 1..Len(jobs), ReadCurrent(j) \/ set_current_schema(j)
  PROVE  CoreInv' /\ RevokedStays /\ KeepsSettling /\ UNCHANGED <<local_schema, windows, sidecar>>
<1>1. /\ jobs[j] \in JobRecord /\ FitsIn(jobs[j], in_progress)
      /\ UNCHANGED <<local_schema, revoked, known, in_progress, windows, sidecar>>
  BY JobFacts DEF ReadCurrent, set_current_schema, engineVars
<1>2. CASE ReadCurrent(j)
  <2> DEFINE x == MirroredTo(jobs[j], local_schema)
  <2>1. x \in JobRecord /\ x.phase = "mirror" /\ x.m = jobs[j].m /\ x.source = jobs[j].source
        /\ x.current = local_schema /\ local_schema \in Schemas
    <3>1. local_schema \in Schemas
      BY DEF CoreInv
    <3> QED BY <1>1, <3>1, Mirrored DEF SameRun
  <2>2. jobs' = [jobs EXCEPT ![j] = x] /\ jobs[j].phase = "committed"
    BY <1>2 DEF ReadCurrent, MirroredTo
  <2> HIDE DEF x
  <2>3. JobsInv' /\ RevokedStays /\ KeepsSettling
    BY <1>1, <2>1, <2>2, JobTurns DEF InFlight, Settling
  <2> QED BY <1>1, <1>2, <2>3 DEF CoreInv, ReadCurrent
<1>3. CASE set_current_schema(j)
  <2> DEFINE x == [jobs[j] EXCEPT !.phase = "replay"]
  <2>1. x \in JobRecord /\ x.phase = "replay" /\ x.m = jobs[j].m /\ x.source = jobs[j].source
        /\ x.current = jobs[j].current
    BY <1>1, MovedOn DEF SameWindow, SameRun
  <2>2. jobs' = [jobs EXCEPT ![j] = x] /\ jobs[j].phase = "mirror" /\ crdt_schema' = jobs[j].current
    BY <1>3 DEF set_current_schema
  <2> HIDE DEF x
  <2>3. jobs[j].current \in Schemas
    BY <1>1, <2>2 DEF FitsIn
  <2>4. JobsInv' /\ RevokedStays /\ KeepsSettling
    BY <1>1, <2>1, <2>2, <2>3, JobTurns DEF InFlight, Settling
  <2> QED BY <1>1, <2>2, <2>3, <2>4 DEF CoreInv
<1> QED BY <1>2, <1>3

\* The replay ends the job.
LEMMA ReplaySound ==
  ASSUME CoreInv, NEW j \in 1..Len(jobs), replay_corrupted_windows(j)
  PROVE  CoreInv' /\ RevokedStays
<1>1. Ends(j) /\ UNCHANGED <<local_schema, crdt_schema, revoked, known, in_progress>>
  BY DEF replay_corrupted_windows, ReplayWindow
<1> QED BY <1>1, EndsSound DEF CoreInv

\* The interrupt after the engine lock was given up.
LEMMA InterruptSound ==
  ASSUME CoreInv, NEW j \in 1..Len(jobs), interrupt(j)
  PROVE  CoreInv' /\ RevokedStays /\ KeepsSettling /\ UNCHANGED <<local_schema, windows, sidecar>>
<1> DEFINE hit == jobs[j].m \in runs /\ jobs[j].phase = "running"
           p == IF hit THEN "ran" ELSE jobs[j].phase
           r == IF hit THEN "Failed" ELSE jobs[j].result
           x == [jobs[j] EXCEPT !.halt = FALSE, !.phase = p, !.result = r]
<1>1. jobs[j] \in JobRecord /\ FitsIn(jobs[j], in_progress)
      /\ UNCHANGED <<local_schema, crdt_schema, revoked, known, in_progress, windows, sidecar>>
  BY JobFacts DEF interrupt, engineVars
<1>2. x \in JobRecord /\ x.m = jobs[j].m /\ x.phase = p /\ x.source = jobs[j].source /\ x.current = jobs[j].current
  <2>1. p \in {jobs[j].phase, "ran"} /\ r \in {jobs[j].result, "Failed"}
    OBVIOUS
  <2> HIDE DEF p, r
  <2>2. SameWindow(x, jobs[j]) /\ x.phase = p
    BY <1>1, <2>1, Interrupted
  <2> QED BY <2>2 DEF SameWindow, SameRun
<1>3. jobs' = [jobs EXCEPT ![j] = x]
  BY DEF interrupt
<1>4. p = jobs[j].phase \/ (p = "ran" /\ jobs[j].phase = "running")
  OBVIOUS
<1> HIDE DEF x, p, r
<1>5. JobsInv' /\ RevokedStays /\ KeepsSettling
  BY <1>1, <1>2, <1>3, <1>4, JobTurns DEF InFlight, Settling, FitsIn
<1> QED BY <1>1, <1>5 DEF CoreInv

\* receive_revocation_delta: no mark is taken from a transform still running.
LEMMA RevocationSound ==
  ASSUME CoreInv, NEW m \in Migrations, NEW sigs \in SigLists, receive_revocation_delta(m, sigs)
  PROVE  CoreInv' /\ RevokedStays /\ KeepsSettling
<1>1. /\ m \in known /\ revoked' = revoked \cup {m}
      /\ UNCHANGED <<local_schema, crdt_schema, known, in_progress>>
  BY DEF receive_revocation_delta, Revocable, InProgressAfterRevocation
<1>2. /\ DOMAIN jobs' = 1..Len(jobs)
      /\ \A i \in 1..Len(jobs) : jobs'[i] = jobs[i] \/ jobs'[i] = [jobs[i] EXCEPT !.halt = TRUE]
      /\ jobs' = [i \in 1..Len(jobs) |-> jobs'[i]]
  BY DEF receive_revocation_delta
<1>3. ASSUME NEW i \in 1..Len(jobs) PROVE SameWindow(jobs'[i], jobs[i]) /\ jobs'[i].phase = jobs[i].phase
  <2>1. jobs[i] \in JobRecord
    BY JobFacts
  <2> QED BY <1>2, <2>1, Halted DEF SameWindow, SameRun
<1>4. jobs' \in Seq(JobRecord) /\ Len(jobs') = Len(jobs)
  <2>1. Len(jobs) \in Nat
    BY DEF CoreInv, JobsInv
  <2>2. \A i \in 1..Len(jobs) : jobs'[i] \in JobRecord
    BY <1>3 DEF SameWindow, SameRun
  <2>3. jobs' \in [1..Len(jobs) -> JobRecord]
    BY <1>2, <2>2
  <2> QED BY <2>1, <2>3
<1>5. ASSUME NEW i \in 1..Len(jobs) PROVE FitsIn(jobs'[i], in_progress')
  <2>1. FitsIn(jobs[i], in_progress)
    BY JobFacts
  <2> QED BY <1>1, <1>3, <2>1 DEF FitsIn, SameWindow, SameRun
<1>6. JobsInv'
  BY <1>3, <1>4, <1>5 DEF JobsInv, CoreInv
<1>7. RevokedStays /\ KeepsSettling
  BY <1>3, <1>4 DEF RevokedStays, KeepsSettling, SameWindow, CoreInv, JobsInv
<1> QED BY <1>1, <1>6, <1>7 DEF CoreInv

\* dispatch_inbound_migration: a job of its own per message.
LEMMA DispatchSound ==
  ASSUME CoreInv, NEW m \in Migrations, dispatch_inbound_migration(m)
  PROVE  CoreInv' /\ RevokedStays /\ KeepsSettling /\ UNCHANGED <<local_schema, windows, sidecar>>
<1>1. jobs' = Append(jobs, Job(m)) /\ UNCHANGED <<local_schema, crdt_schema, revoked, known, in_progress, windows, sidecar>>
  BY DEF dispatch_inbound_migration, engineVars
<1>2. Job(m) \in JobRecord /\ Job(m).phase = "prepare" /\ Job(m).m = m
  BY FreshJobs
<1>3. /\ jobs \in Seq(JobRecord) /\ jobs' \in Seq(JobRecord) /\ Len(jobs') = Len(jobs) + 1
      /\ \A i \in 1..Len(jobs) : jobs'[i] = jobs[i]
      /\ jobs'[Len(jobs) + 1] = Job(m)
  BY <1>1, <1>2 DEF CoreInv, JobsInv
<1>4. FitsIn(Job(m), in_progress)
  BY <1>2 DEF FitsIn, InFlight, Settling
<1>5. ASSUME NEW i \in 1..Len(jobs') PROVE FitsIn(jobs'[i], in_progress')
  <2>1. CASE i \in 1..Len(jobs)
    BY <1>1, <1>3, <2>1, JobFacts
  <2>2. CASE i = Len(jobs) + 1
    BY <1>1, <1>3, <1>4, <2>2
  <2> QED BY <1>3, <2>1, <2>2
<1>6. JobsInv'
  <2>1. ASSUME NEW i \in 1..Len(jobs'), NEW k \in 1..Len(jobs'), jobs'[i].phase \in InFlight, jobs'[k].phase \in InFlight
        PROVE  i = k
    <3>1. i # Len(jobs) + 1 /\ k # Len(jobs) + 1
      BY <1>2, <1>3, <2>1 DEF InFlight
    <3> QED BY <1>3, <2>1, <3>1 DEF CoreInv, JobsInv
  <2> QED BY <1>3, <1>5, <2>1 DEF JobsInv
<1>7. RevokedStays /\ KeepsSettling
  BY <1>3 DEF RevokedStays, KeepsSettling
<1> QED BY <1>1, <1>6, <1>7 DEF CoreInv

\* A new engine is on the first schema of the path and knows no migration.
LEMMA CoreInit ==
  ASSUME PathLength \in Nat \ {0}, Init
  PROVE  CoreInv
<1>1. local_schema \in Schemas /\ crdt_schema \in Schemas
  BY DEF Init, InitEngine, Schemas
<1> QED BY <1>1 DEF CoreInv, JobsInv, Init, InitEngine

\* Every step keeps the registries and the jobs consistent and commits nothing
\* that is revoked.
LEMMA CoreStep ==
  ASSUME PathLength \in Nat \ {0}, CoreInv, [Next]_vars
  PROVE  CoreInv' /\ RevokedStays
<1>1. CASE Restart
  <2>1. local_schema' \in Schemas /\ crdt_schema' \in Schemas
    BY <1>1 DEF Restart, Schemas
  <2>2. jobs' = <<>> /\ revoked' = {} /\ known' = {} /\ in_progress' = {}
    BY <1>1 DEF Restart
  <2>3. jobs \in Seq(JobRecord)
    BY DEF CoreInv, JobsInv
  <2> QED BY <2>1, <2>2, <2>3 DEF CoreInv, JobsInv, RevokedStays
<1>2. CASE UNCHANGED <<local_schema, crdt_schema, revoked, known, in_progress, jobs>>
  BY <1>2 DEF CoreInv, JobsInv, RevokedStays, FitsIn
<1>3. CASE register_ca_public_key \/ ProduceWrite \/ UNCHANGED vars
           \/ \E w \in 1..Len(writes) : record_corrupted_window_write(w)
  BY <1>2, <1>3 DEF register_ca_public_key, ProduceWrite, vars, engineVars,
                    record_corrupted_window_write
<1>4. ASSUME NEW j \in 1..Len(jobs), JobStep(j) \/ interrupt(j) PROVE CoreInv' /\ RevokedStays
  BY <1>4, PrepareSound, RunSound, FinishSound, MirrorSound, ReplaySound, InterruptSound DEF JobStep
<1> QED BY <1>1, <1>3, <1>4, RevocationSound, DispatchSound DEF Next

\* Req 18.6, prepare_migration and finish_migration: for every version path and
\* every set of migrations, transforms never overlap, and a migration that is
\* revoked by the time its transform ends is not committed.
THEOREM PipelineCommits ==
  ASSUME PathLength \in Nat \ {0}
  PROVE  PipelineSpec => CommitsAreSound
<1>1. Init => CoreInv
  BY CoreInit
<1>2. CoreInv /\ [Next]_vars => CoreInv'
  BY CoreStep
<1>3. CoreInv /\ [Next]_vars => [RevokedStays]_vars
  BY CoreStep
<1>4. CoreInv => OneTransform
  <2> SUFFICES ASSUME CoreInv PROVE Cardinality(Running) <= 1
    BY DEF OneTransform
  <2>1. \A i, k \in Running : i = k
    BY DEF CoreInv, JobsInv, InFlight, Running
  <2>2. CASE Running = {}
    BY <2>2, FS_EmptySet
  <2>3. ASSUME NEW k \in Running PROVE Cardinality(Running) <= 1
    <3>1. Running = {k}
      BY <2>1
    <3>2. Cardinality({k}) = 1
      BY FS_Singleton
    <3> QED BY <3>1, <3>2
  <2> QED BY <2>2, <2>3
<1> QED BY <1>1, <1>2, <1>3, <1>4, PTL DEF PipelineSpec, CommitsAreSound, RevokedNeverCommits, RevokedStays
-----------------------------------------------------------------------------
\* The window of the device's schema, or of a schema that a job left and whose
\* captured writes it is about to replay.
Awaited(e) ==
    \/ e.mig \in Elems(windows[local_schema])
    \/ \E i \in 1..Len(jobs) : jobs[i].phase \in Settling /\ e.mig \in Elems(windows[jobs[i].source])

\* The ledger and the windows.
SettleInv ==
    /\ windows \in [Schemas -> Seq(Migrations)]
    /\ sidecar \subseteq Entry /\ restarts \in Nat /\ replayFailed \in BOOLEAN
    /\ ~replayFailed /\ restarts = 0 => \A e \in sidecar : e.status = "PENDING" => Awaited(e)
    /\ CompleteHasNoConflict

\* Nothing that is awaited is dropped as long as windows only grow, jobs that
\* owe a replay keep owing it, and a schema is left only by such a job.
LEMMA AwaitedStays ==
  ASSUME CoreInv, KeepsSettling, windows \in [Schemas -> Seq(Migrations)],
         \A s \in Schemas : Elems(windows[s]) \subseteq Elems(windows'[s]),
         \/ local_schema' = local_schema
         \/ \E j \in 1..Len(jobs') : jobs'[j].phase \in Settling /\ jobs'[j].source = local_schema,
         NEW e, Awaited(e)
  PROVE  Awaited(e)'
<1>0. Len(jobs) \in Nat /\ local_schema \in Schemas
  BY DEF CoreInv, JobsInv
<1>1. CASE e.mig \in Elems(windows[local_schema])
  <2>1. e.mig \in Elems(windows'[local_schema])
    BY <1>0, <1>1
  <2>2. CASE local_schema' = local_schema
    BY <2>1, <2>2 DEF Awaited
  <2>3. ASSUME NEW j \in 1..Len(jobs'), jobs'[j].phase \in Settling, jobs'[j].source = local_schema PROVE Awaited(e)'
    BY <2>1, <2>3 DEF Awaited
  <2> QED BY <2>2, <2>3
<1>2. ASSUME NEW i \in 1..Len(jobs), jobs[i].phase \in Settling, e.mig \in Elems(windows[jobs[i].source])
      PROVE  Awaited(e)'
  <2>1. FitsIn(jobs[i], in_progress)
    BY JobFacts
  <2>2. jobs[i].source \in Schemas
    BY <1>2, <2>1 DEF FitsIn
  <2>3. i \in 1..Len(jobs') /\ jobs'[i].phase \in Settling /\ jobs'[i].source = jobs[i].source
    BY <1>0, <1>2 DEF KeepsSettling
  <2>4. e.mig \in Elems(windows'[jobs'[i].source])
    BY <1>2, <2>2, <2>3
  <2> QED BY <2>3, <2>4 DEF Awaited
<1> QED BY <1>1, <1>2 DEF Awaited

\* Steps that leave the ledger alone.
LEMMA SettleKept ==
  ASSUME CoreInv, SettleInv, KeepsSettling, windows' \in [Schemas -> Seq(Migrations)],
         \A s \in Schemas : Elems(windows[s]) \subseteq Elems(windows'[s]),
         \/ local_schema' = local_schema
         \/ \E j \in 1..Len(jobs') : jobs'[j].phase \in Settling /\ jobs'[j].source = local_schema,
         UNCHANGED <<sidecar, restarts, replayFailed>>
  PROVE  SettleInv'
<1>1. \A e : Awaited(e) => Awaited(e)'
  BY AwaitedStays DEF SettleInv
<1>2. CompleteHasNoConflict'
  BY DEF SettleInv, CompleteHasNoConflict
<1> QED BY <1>1, <1>2 DEF SettleInv

\* update_entry_status changes the status only.
LEMMA EntryMoves ==
  ASSUME NEW e \in Entry, NEW s \in {"REPLAYED", "CONFLICT", "COMPLETE"}
  PROVE  /\ update_entry_status(e, s) \in Entry
         /\ update_entry_status(e, s).mig = e.mig /\ update_entry_status(e, s).status = s
  BY DEF Entry, update_entry_status

AfterReplay(ids, failed, part, refused) ==
    Untouched(ids, failed, part, refused)
    \cup UNION {replay_sidecar(mid, refused) : mid \in ids \ failed}

\* What one pass of the replay leaves in the ledger: entries it did not touch;
\* entries of a replay that failed half-way, which is recorded; and, for each
\* migration replayed to its end, entries of which none is complete if one is
\* in conflict.
LEMMA ReplayedEntries ==
  ASSUME sidecar \subseteq Entry, NEW ids, NEW failed \in SUBSET ids, NEW refused, NEW part,
         sidecar' = AfterReplay(ids, failed, part, refused),
         \A f \in sidecar : f.mig \notin failed,
         NEW e \in sidecar'
  PROVE  /\ e \in Entry
         /\ \/ e \in sidecar /\ e.mig \notin ids
            \/ /\ e.mig \in ids \ failed
               /\ e.status = "COMPLETE" /\ load_entries_ordered(e.mig) \cap refused = {}
            \/ /\ e.mig \in ids \ failed
               /\ e.status \in {"REPLAYED", "CONFLICT"} /\ load_entries_ordered(e.mig) \cap refused # {}
<1>1. CASE e \in Untouched(ids, failed, part, refused)
  <2>1. PICK f \in sidecar : f.mig \notin ids \ failed
                             /\ e = IF f \in part /\ f.mig \in failed THEN Replayed(f, refused) ELSE f
    BY <1>1 DEF Untouched
  <2> QED BY <2>1
<1>2. ASSUME NEW mid \in ids \ failed, e \in replay_sidecar(mid, refused)
      PROVE  /\ e \in Entry /\ e.mig = mid
             /\ \/ e.status = "COMPLETE" /\ load_entries_ordered(mid) \cap refused = {}
                \/ e.status \in {"REPLAYED", "CONFLICT"} /\ load_entries_ordered(mid) \cap refused # {}
  <2> DEFINE entries == load_entries_ordered(mid)
  <2>0. \A f \in entries : f \in Entry /\ f.mig = mid
    BY DEF load_entries_ordered
  <2>1. CASE entries \cap refused = {}
    <3>1. e \in {update_entry_status(f, "COMPLETE") : f \in entries}
      BY <1>2, <2>1 DEF replay_sidecar, mark_migration_complete
    <3>2. PICK f \in entries : e = update_entry_status(f, "COMPLETE")
      BY <3>1
    <3> QED BY <2>0, <2>1, <3>2, EntryMoves
  <2>2. CASE entries \cap refused # {}
    <3>1. e \in {Replayed(f, refused) : f \in entries}
      BY <1>2, <2>2 DEF replay_sidecar
    <3>2. PICK f \in entries : e = Replayed(f, refused)
      BY <3>1
    <3>3. \E s \in {"REPLAYED", "CONFLICT"} : e = update_entry_status(f, s)
      BY <3>2 DEF Replayed
    <3> QED BY <2>0, <2>2, <3>3, EntryMoves
  <2> QED BY <2>1, <2>2
<1> QED BY <1>1, <1>2 DEF AfterReplay

\* In any case the ledger keeps its type.
LEMMA ReplayedType ==
  ASSUME sidecar \subseteq Entry, NEW ids, NEW failed, NEW refused, NEW part,
         sidecar' = AfterReplay(ids, failed, part, refused)
  PROVE  sidecar' \subseteq Entry
<1>1. \A f \in Entry : Replayed(f, refused) \in Entry
  BY EntryMoves DEF Replayed
<1>2. Untouched(ids, failed, part, refused) \subseteq Entry
  BY <1>1 DEF Untouched
<1>3. ASSUME NEW mid \in ids \ failed PROVE replay_sidecar(mid, refused) \subseteq Entry
  <2>1. load_entries_ordered(mid) \subseteq Entry
    BY DEF load_entries_ordered
  <2>2. mark_migration_complete(load_entries_ordered(mid)) \subseteq Entry
    BY <2>1, EntryMoves DEF mark_migration_complete
  <2> QED BY <1>1, <2>1, <2>2 DEF replay_sidecar
<1> QED BY <1>2, <1>3 DEF AfterReplay

\* replay_corrupted_windows: what it takes from a window it settles, what it
\* leaves is awaited elsewhere.
LEMMA ReplaySettles ==
  ASSUME CoreInv, SettleInv, NEW j \in 1..Len(jobs), replay_corrupted_windows(j)
  PROVE  SettleInv'
<1> DEFINE source == jobs[j].source
           ids == Elems(windows[source])
           mine == {e \in sidecar : e.mig \in ids}
<1>1. PICK failed \in SUBSET ids, refused \in SUBSET mine, part \in SUBSET mine :
          /\ sidecar' = AfterReplay(ids, failed, part, refused)
          /\ replayFailed' = (replayFailed \/ \E e \in mine : e.mig \in failed)
          /\ windows' = [windows EXCEPT ![source] = <<>>]
          /\ Ends(j)
          /\ UNCHANGED <<local_schema, in_progress, restarts>>
  BY DEF replay_corrupted_windows, ReplayWindow, AfterReplay
<1>2. /\ jobs[j].phase = "replay" /\ FitsIn(jobs[j], in_progress)
      /\ local_schema \in Schemas /\ Len(jobs) \in Nat
  BY JobFacts DEF replay_corrupted_windows, CoreInv, JobsInv
<1>3. source \in Schemas
  BY <1>2 DEF FitsIn, Settling
<1>4. /\ windows' \in [Schemas -> Seq(Migrations)] /\ windows'[source] = <<>>
      /\ \A s \in Schemas : s # source => windows'[s] = windows[s]
  BY <1>1, <1>3 DEF SettleInv
<1>5. Len(jobs') = Len(jobs) /\ \A i \in 1..Len(jobs) : i # j => jobs'[i] = jobs[i]
  BY <1>1, EndsSound
<1>6. sidecar' \subseteq Entry
  BY <1>1, ReplayedType DEF SettleInv
<1>7. replayFailed' \in BOOLEAN
  BY <1>1 DEF SettleInv
<1>8. ASSUME ~replayFailed' PROVE ~replayFailed /\ \A f \in sidecar : f.mig \notin failed
  BY <1>1, <1>8
<1>9. ASSUME ~replayFailed', NEW e \in sidecar'
      PROVE  \/ e \in sidecar /\ e.mig \notin ids
             \/ /\ e.mig \in ids \ failed
                /\ e.status = "COMPLETE" /\ load_entries_ordered(e.mig) \cap refused = {}
             \/ /\ e.mig \in ids \ failed
                /\ e.status \in {"REPLAYED", "CONFLICT"} /\ load_entries_ordered(e.mig) \cap refused # {}
  <2>1. sidecar \subseteq Entry
    BY DEF SettleInv
  <2> HIDE DEF ids, mine
  <2> QED BY <1>1, <1>8, <1>9, <2>1, ReplayedEntries
<1>10. ASSUME ~replayFailed', restarts' = 0, NEW e \in sidecar', e.status = "PENDING" PROVE Awaited(e)'
  <2>1. e \in sidecar /\ e.mig \notin ids
    BY <1>9, <1>10
  <2>2. Awaited(e)
    BY <1>1, <1>8, <1>10, <2>1 DEF SettleInv
  <2>3. CASE e.mig \in Elems(windows[local_schema])
    <3>1. local_schema # source
      BY <2>1, <2>3
    <3> QED BY <1>1, <1>2, <1>4, <2>3, <3>1 DEF Awaited
  <2>4. ASSUME NEW i \in 1..Len(jobs), jobs[i].phase \in Settling, e.mig \in Elems(windows[jobs[i].source])
        PROVE  Awaited(e)'
    <3>1. jobs[i].source # source
      BY <2>1, <2>4
    <3>2. FitsIn(jobs[i], in_progress)
      BY JobFacts
    <3>3. jobs[i].source \in Schemas
      BY <2>4, <3>2 DEF FitsIn
    <3>4. i # j
      BY <3>1
    <3>5. i \in 1..Len(jobs') /\ jobs'[i] = jobs[i]
      BY <1>5, <3>4
    <3>6. windows'[jobs[i].source] = windows[jobs[i].source]
      BY <1>4, <3>1, <3>3
    <3> HIDE DEF source, ids, mine
    <3> QED BY <2>4, <3>5, <3>6 DEF Awaited
  <2> QED BY <2>2, <2>3, <2>4 DEF Awaited
<1>11. ASSUME ~replayFailed', NEW e \in sidecar', NEW f \in sidecar', e.mig = f.mig, e.status = "COMPLETE"
       PROVE  f.status # "CONFLICT"
  <2>1. CASE e.mig \in ids
    BY <1>9, <1>11, <2>1
  <2>2. CASE e.mig \notin ids
    <3>1. e \in sidecar /\ f \in sidecar
      BY <1>9, <1>11, <2>2
    <3> QED BY <1>8, <1>11, <3>1 DEF SettleInv, CompleteHasNoConflict
  <2> QED BY <2>1, <2>2
<1>12. CompleteHasNoConflict'
  BY <1>11 DEF CompleteHasNoConflict
<1>13. restarts' \in Nat
  BY <1>1 DEF SettleInv
<1> QED BY <1>4, <1>6, <1>7, <1>10, <1>12, <1>13 DEF SettleInv

\* record_corrupted_window_write: a captured write belongs to the open window.
LEMMA CaptureSettles ==
  ASSUME CoreInv, SettleInv, NEW w \in 1..Len(writes), record_corrupted_window_write(w)
  PROVE  SettleInv'
<1> DEFINE here == windows[local_schema]
           new == [write |-> w, mig |-> Head(here), status |-> "PENDING"]
<1>1. /\ UNCHANGED <<local_schema, windows, jobs, replayFailed, restarts>>
      /\ local_schema \in Schemas /\ Len(jobs) \in Nat
  BY DEF record_corrupted_window_write, engineVars, CoreInv, JobsInv
<1>2. here \in Seq(Migrations)
  BY <1>1 DEF SettleInv
<1>3. sidecar' = sidecar \/ (here # <<>> /\ sidecar' = sidecar \cup {new})
  BY DEF record_corrupted_window_write, active_corruption_migration
<1>4. CASE sidecar' = sidecar
  BY <1>1, <1>4 DEF SettleInv, Awaited, CompleteHasNoConflict
<1>5. CASE here # <<>> /\ sidecar' = sidecar \cup {new}
  <2>1. Head(here) \in Migrations /\ Head(here) \in Elems(here) /\ w \in Nat
    BY <1>2, <1>5 DEF Elems
  <2>2. new \in Entry /\ new.mig = Head(here) /\ new.status = "PENDING"
    BY <2>1 DEF Entry
  <2> HIDE DEF new
  <2>3. Awaited(new)
    BY <2>1, <2>2 DEF Awaited
  <2>4. \A e : Awaited(e) => Awaited(e)'
    BY <1>1 DEF Awaited
  <2>5. CompleteHasNoConflict'
    BY <1>1, <1>5, <2>2 DEF SettleInv, CompleteHasNoConflict
  <2> QED BY <1>1, <1>5, <2>2, <2>3, <2>4, <2>5 DEF SettleInv
<1> QED BY <1>3, <1>4, <1>5

\* No write is captured yet.
LEMMA SettleInit ==
  ASSUME PathLength \in Nat \ {0}, Init
  PROVE  SettleInv
<1>1. windows \in [Schemas -> Seq(Migrations)] /\ sidecar = {} /\ replayFailed = FALSE /\ restarts = 0
  BY DEF Init, InitEngine
<1> QED BY <1>1 DEF SettleInv, CompleteHasNoConflict

\* Every step keeps the ledger consistent with the windows.
LEMMA SettleStep ==
  ASSUME PathLength \in Nat \ {0}, CoreInv, SettleInv, [Next]_vars
  PROVE  SettleInv'
<1>0. windows \in [Schemas -> Seq(Migrations)] /\ local_schema \in Schemas
      /\ restarts \in Nat /\ jobs \in Seq(JobRecord) /\ Len(jobs) \in Nat
  BY DEF SettleInv, CoreInv, JobsInv
<1>1. CASE Restart
  <2>1. restarts' = restarts + 1 /\ UNCHANGED <<sidecar, replayFailed>>
        /\ windows' \in [Schemas -> Seq(Migrations)]
    BY <1>1 DEF Restart
  <2>2. restarts' \in Nat /\ restarts' # 0
    BY <1>0, <2>1
  <2> QED BY <2>1, <2>2 DEF SettleInv, CompleteHasNoConflict
<1>2. ASSUME KeepsSettling, UNCHANGED <<windows, sidecar, restarts, replayFailed>>,
             \/ local_schema' = local_schema
             \/ \E j \in 1..Len(jobs') : jobs'[j].phase \in Settling /\ jobs'[j].source = local_schema
      PROVE  SettleInv'
  BY <1>0, <1>2, SettleKept
<1>3. CASE register_ca_public_key \/ ProduceWrite \/ UNCHANGED vars
  <2>1. UNCHANGED <<jobs, local_schema, windows, sidecar, restarts, replayFailed>>
    BY <1>3 DEF register_ca_public_key, ProduceWrite, vars, engineVars
  <2>2. KeepsSettling
    BY <1>0, <2>1 DEF KeepsSettling
  <2> QED BY <1>2, <2>1, <2>2
<1>4. ASSUME NEW w \in 1..Len(writes), record_corrupted_window_write(w) PROVE SettleInv'
  BY <1>4, CaptureSettles
<1>5. ASSUME NEW m \in Migrations, dispatch_inbound_migration(m) PROVE SettleInv'
  <2>1. UNCHANGED <<restarts, replayFailed>>
    BY <1>5 DEF dispatch_inbound_migration
  <2> QED BY <1>2, <1>5, <2>1, DispatchSound
<1>6. ASSUME NEW m \in Migrations, NEW sigs \in SigLists, receive_revocation_delta(m, sigs) PROVE SettleInv'
  <2>1. KeepsSettling /\ UNCHANGED <<local_schema, sidecar, restarts, replayFailed>>
    BY <1>6, RevocationSound DEF receive_revocation_delta
  <2>2. windows' = windows \/ windows' = [windows EXCEPT ![local_schema] = Append(@, m)]
    BY <1>6 DEF receive_revocation_delta
  <2>3. windows' \in [Schemas -> Seq(Migrations)]
    <3>1. Append(windows[local_schema], m) \in Seq(Migrations)
      BY <1>0
    <3> QED BY <1>0, <2>2, <3>1
  <2>4. ASSUME NEW s \in Schemas PROVE Elems(windows[s]) \subseteq Elems(windows'[s])
    <3>1. windows'[s] = windows[s] \/ windows'[s] = Append(windows[s], m)
      BY <1>0, <2>2
    <3>2. windows[s] \in Seq(Migrations)
      BY <1>0
    <3> QED BY <3>1, <3>2 DEF Elems
  <2> QED BY <2>1, <2>3, <2>4, SettleKept
<1>7. ASSUME NEW j \in 1..Len(jobs), interrupt(j) PROVE SettleInv'
  <2>1. UNCHANGED <<restarts, replayFailed>>
    BY <1>7 DEF interrupt
  <2> QED BY <1>2, <1>7, <2>1, InterruptSound
<1>8. ASSUME NEW j \in 1..Len(jobs), JobStep(j) PROVE SettleInv'
  <2>1. CASE prepare_migration(j)
    <3>1. UNCHANGED <<restarts, replayFailed>>
      BY <2>1 DEF prepare_migration
    <3> QED BY <1>2, <2>1, <3>1, PrepareSound
  <2>2. CASE StartRun(j) \/ \E r \in {"Success", "Failed"} : EndRun(j, r)
    <3>1. UNCHANGED <<restarts, replayFailed>>
      BY <2>2 DEF StartRun, EndRun
    <3> QED BY <1>2, <2>2, <3>1, RunSound
  <2>3. CASE finish_migration(j)
    <3>1. UNCHANGED <<restarts, replayFailed>>
      BY <2>3 DEF finish_migration
    <3>2. /\ KeepsSettling /\ UNCHANGED <<windows, sidecar>>
          /\ \/ local_schema' = local_schema
             \/ j \in 1..Len(jobs') /\ jobs'[j].phase \in Settling /\ jobs'[j].source = local_schema
      BY <1>0, <2>3, FinishSound DEF KeepsSettling
    <3> QED BY <1>2, <3>1, <3>2
  <2>4. CASE ReadCurrent(j) \/ set_current_schema(j)
    <3>1. UNCHANGED <<restarts, replayFailed>>
      BY <2>4 DEF ReadCurrent, set_current_schema
    <3> QED BY <1>2, <2>4, <3>1, MirrorSound
  <2> QED BY <1>8, <2>1, <2>2, <2>3, <2>4, ReplaySettles DEF JobStep
<1> QED BY <1>1, <1>3, <1>4, <1>5, <1>6, <1>7, <1>8 DEF Next

\* Req 19.3, 19.6, replay_corrupted_windows and replay_sidecar: for every
\* history of revocations, commits and writes a captured write waits in an open
\* window or in one that a job will replay, unless a replay failed or the device
\* restarted, and none is reported complete beside a refused one of its migration.
THEOREM PipelineCaptures ==
  ASSUME PathLength \in Nat \ {0}
  PROVE  PipelineSpec => []CapturedWritesSettle
<1>1. Init => CoreInv /\ SettleInv
  BY CoreInit, SettleInit
<1>2. CoreInv /\ SettleInv /\ [Next]_vars => CoreInv' /\ SettleInv'
  BY CoreStep, SettleStep
<1>3. SettleInv => CapturedWritesSettle
  BY DEF SettleInv, Awaited, Settling, CapturedWritesSettle, PendingIsScheduled
<1> QED BY <1>1, <1>2, <1>3, PTL DEF PipelineSpec

\* The pipeline's types: the schemas stay on the version path, the registry's
\* revoked and in-progress sets inside the known one.
THEOREM PipelineTypes ==
  ASSUME PathLength \in Nat \ {0}
  PROVE  PipelineSpec => []TypeOK
<1>1. Init => CoreInv /\ SettleInv
  BY CoreInit, SettleInit
<1>2. CoreInv /\ SettleInv /\ [Next]_vars => CoreInv' /\ SettleInv'
  BY CoreStep, SettleStep
<1>3. CoreInv /\ SettleInv => TypeOK
  BY DEF CoreInv, SettleInv, Entry, TypeOK
<1> QED BY <1>1, <1>2, <1>3, PTL DEF PipelineSpec
=============================================================================
