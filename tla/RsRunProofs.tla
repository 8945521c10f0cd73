---------------------------- MODULE RsRunProofs ----------------------------
(***************************************************************************)
(* What TLAPS proves about RsRun: its types, that a closed run has         *)
(* finished its jobs and says how they ended, and that heatmaps follow the *)
(* archive writes.  RunInv is inductive: most of it speaks of the runs     *)
(* whose message was delivered once and whose jobs were counted once, of   *)
(* which there is one handler and at most one count per job.               *)
(***************************************************************************)
EXTENDS RsRun, FiniteSetTheorems, TLAPS

\* The jobs a run must have counted before it is closed: the drain counts the
\* lost jobs of a backfill as well.
Owed == IF kind = "backfill" THEN RunJobs ELSE RunJobs \ lost

\* Nothing but jobs of the run is ever touched, and a backfill has no heatmaps.
JobsOk ==
  /\ \A d \in 1..MaxDeliveries :
       /\ hook[d].todo \subseteq RunJobs
       /\ hook[d].pc \in {"idle", "mark", "reset"} => hook[d].todo = {}
  /\ lost \subseteq RunJobs /\ counted \subseteq RunJobs /\ written \subseteq RunJobs
  /\ \A j \in Jobs : job[j] # "absent" => j \in RunJobs
  /\ \A t \in Tasks : work[t].pc # "none" => t[2] \in RunJobs
  /\ kind = "backfill" =>
       heatmaps = 0 /\ \A t \in Tasks : work[t].pc \notin {"mirror", "heatmap"}

\* One handler acts.
OneHandler ==
  \A d \in 1..MaxDeliveries : d # 1 => hook[d].pc \in {"idle", "over"}

\* Before that handler has reached the run there is nothing.
Untouched ==
  hook[1].pc \in {"idle", "mark", "reset"} =>
    /\ run.status = "absent" /\ run.writes = 0 /\ heatmaps = 0
    /\ counted = {} /\ written = {} /\ lost = {}
    /\ job = [j \in Jobs |-> "absent"]
    /\ \A t \in Tasks : work[t].pc = "none"

\* A realtime job is lost, or still to be created, or it has a task.
Apart ==
  kind = "realtime" =>
    /\ hook[1].pc # "over" => hook[1].todo \cap lost = {}
    /\ \A t \in Tasks : work[t].pc # "none" => t[2] \notin lost \cup hook[1].todo
    /\ (counted \cup written) \cap (lost \cup hook[1].todo) = {}

\* The counters are those of the counted jobs, and never expect too little.
CountersOk ==
  run.status # "absent" =>
    /\ run.success + run.failure = Cardinality(counted)
    /\ run.expected >= Cardinality(Owed)
    /\ hook[1].pc = "decrement" => run.expected > Cardinality(Owed)

\* Some finisher has seen the counters full.
Late == {"finalize", "mirror", "heatmap"}
Closed == Final \/ heatmaps > 0 \/ \E t \in Tasks : work[t].pc \in Late
ClosedOk == Closed => run.status # "absent" /\ Owed \subseteq counted

\* What the finishers have read still holds.
ReadsOk ==
  kind = "realtime" =>
    /\ Final => run.status = StatusOf(run)
    /\ \A t \in Tasks : work[t].pc = "finalize" => work[t].status = StatusOf(run)

\* The archive counter, and what was read from it.
FewMissing == 50 * Cardinality(Owed \ written) <= Cardinality(Owed)
WritesOk ==
  kind = "realtime" /\ "rewrite" \notin broken =>
    /\ run.status # "absent" => run.writes = Cardinality(written)
    /\ heatmaps > 0 => FewMissing
    /\ \A t \in Tasks : work[t].pc \in Late /\ work[t].gate => FewMissing
    /\ \A t \in Tasks : work[t].pc = "heatmap" => work[t].gate

CleanInv == OneHandler /\ Untouched /\ Apart /\ CountersOk /\ ClosedOk /\ ReadsOk /\ WritesOk
RunInv == TypeOK /\ JobsOk /\ (Clean => CleanInv)

-----------------------------------------------------------------------------
(***************************************************************************)
(* Types.                                                                  *)
(***************************************************************************)
WorkDoc == [pc : WorkPC, attempt : 0..MaxAttempts, outcome : FinishedJob,
            status : FinalStatus, gate : BOOLEAN]

LEMMA SceneParts ==
  ASSUME TypeOK
  PROVE  /\ scene \in Scene
         /\ scene.pairs \subseteq Pairs
         /\ kind \in {"realtime", "backfill"}
         /\ RunJobs \subseteq Jobs
         /\ IsFiniteSet(Jobs) /\ IsFiniteSet(RunJobs)
<1>1. scene \in Scene
  BY ConstantsAssumption DEF TypeOK
<1>2. scene.pairs \subseteq Pairs /\ kind \in {"realtime", "backfill"}
  BY <1>1 DEF Scene, kind
<1>3. IsFiniteSet(Jobs)
  BY FS_Product, ConstantsAssumption DEF Jobs
<1>4. RunJobs \subseteq Jobs
  BY <1>2 DEF RunJobs, Jobs
<1> QED
  BY <1>1, <1>2, <1>3, <1>4, FS_Subset

LEMMA FreshType ==
  ASSUME NEW pc \in WorkPC, NEW n \in 0..MaxAttempts
  PROVE  Fresh(pc, n) \in WorkDoc
BY DEF Fresh, WorkDoc, FinishedJob, FinalStatus

LEMMA TaskParts == \A t \in Tasks : t[2] \in Jobs /\ t = <<t[1], t[2]>>
BY DEF Tasks

LEMMA InitType == Init => TypeOK
<1> SUFFICES ASSUME Init PROVE TypeOK
  OBVIOUS
<1>1. run \in RunDoc
  BY DEF Init, RunDoc
<1>2. work \in [Tasks -> WorkDoc]
  BY FreshType, ConstantsAssumption DEF Init, WorkPC
<1>3. hook \in [1..MaxDeliveries -> [pc : HookPC, todo : SUBSET Jobs]]
  BY DEF Init, HookPC
<1>4. scene \in Scenes /\ event = "absent" /\ heatmaps \in Nat /\ faults \in 0..MaxFaults
  BY ConstantsAssumption DEF Init
<1>5. job \in [Jobs -> {"absent", "PENDING", "IN_PROGRESS"} \cup FinishedJob]
  BY DEF Init
<1>6. written = {} /\ counted = {} /\ lost = {} /\ broken = {}
  BY DEF Init
<1> QED
  BY <1>1, <1>2, <1>3, <1>4, <1>5, <1>6 DEF TypeOK, WorkDoc

HookAction(d) ==
  \/ HookSteps(d) \/ DeliverUnread(d) \/ WriteLogged(d) \/ ResetFails(d) \/ HookDies(d)
  \/ \E j \in Jobs : CreateJobFails(d, j)

LEMMA HookTypes ==
  ASSUME TypeOK, JobsOk, NEW d \in 1..MaxDeliveries,
         HookAction(d)
  PROVE  TypeOK'
<1> USE DEF Failure, NoFailure, Calm, HookUnchanged
<1>1. /\ scene \in Scenes /\ run \in RunDoc
      /\ event \in {"absent", "processing", "terminal"}
      /\ job \in [Jobs -> {"absent", "PENDING", "IN_PROGRESS"} \cup FinishedJob]
      /\ hook \in [1..MaxDeliveries -> [pc : HookPC, todo : SUBSET Jobs]]
      /\ work \in [Tasks -> WorkDoc]
      /\ heatmaps \in Nat
      /\ written \subseteq Jobs /\ counted \subseteq Jobs /\ lost \subseteq Jobs
      /\ broken \subseteq Breaks
      /\ faults \in 0..MaxFaults
  BY DEF TypeOK, WorkDoc
<1>2. RunJobs \subseteq Jobs /\ hook[d].todo \subseteq Jobs /\ MaxFaults \in Nat
      /\ ExpectedJobs \in Int
  <2>1. IsFiniteSet(scene.pairs) /\ IsFiniteSet(RunJobs)
    BY SceneParts, ConstantsAssumption, FS_Subset
  <2> QED
    BY <1>1, <2>1, SceneParts, FS_CardinalityType, ConstantsAssumption DEF ExpectedJobs
<1> DEFINE Kept == /\ scene' \in Scenes /\ heatmaps' \in Nat
                   /\ written' \subseteq Jobs
<1> SUFFICES
      /\ run' \in RunDoc
      /\ event' \in {"absent", "processing", "terminal"}
      /\ job' \in [Jobs -> {"absent", "PENDING", "IN_PROGRESS"} \cup FinishedJob]
      /\ hook' \in [1..MaxDeliveries -> [pc : HookPC, todo : SUBSET Jobs]]
      /\ work' \in [Tasks -> WorkDoc]
      /\ counted' \subseteq Jobs /\ lost' \subseteq Jobs
      /\ broken' \subseteq Breaks
      /\ faults' \in 0..MaxFaults
      /\ scene' = scene /\ heatmaps' = heatmaps /\ written' = written
  BY <1>1 DEF TypeOK, WorkDoc
<1>3. CASE Deliver(d)
  BY <1>1, <1>2, <1>3 DEF Deliver, Processed, HookTo, HookPC, Breaks
<1>12. CASE DeliverUnread(d)
  BY <1>1, <1>2, <1>12 DEF DeliverUnread, Processed, HookTo, HookPC, Breaks
<1>13. CASE WriteLogged(d)
  BY <1>1, <1>2, <1>13 DEF WriteLogged, HookTo, HookPC
<1>4. CASE MarkProcessing(d)
  BY <1>1, <1>2, <1>4 DEF MarkProcessing, HookTo, HookPC
<1>5. CASE ResetRun(d)
  <2>1. run' \in RunDoc
    BY <1>1, <1>2, <1>5 DEF ResetRun, RunDoc
  <2> QED
    BY <1>1, <1>2, <1>5, <2>1 DEF ResetRun, HookPC
<1>6. CASE ResetFails(d)
  BY <1>1, <1>2, <1>6 DEF ResetFails, HookPC
<1>7. CASE DecrementExpected(d)
  <2>1. run' \in RunDoc
    BY <1>1, <1>7 DEF DecrementExpected, RunDoc
  <2> QED
    BY <1>1, <1>2, <1>7, <2>1 DEF DecrementExpected, HookTo, HookPC
<1>8. CASE HookEnds(d)
  BY <1>1, <1>2, <1>8 DEF HookEnds, HookTo, HookPC
<1>9. CASE HookDies(d)
  BY <1>1, <1>2, <1>9 DEF HookDies, HookTo, HookPC, Breaks
<1>10. ASSUME NEW j \in Jobs, CreateJob(d, j)
       PROVE  /\ run' = run /\ event' = event /\ counted' = counted
              /\ job' \in [Jobs -> {"absent", "PENDING", "IN_PROGRESS"} \cup FinishedJob]
              /\ hook' \in [1..MaxDeliveries -> [pc : HookPC, todo : SUBSET Jobs]]
              /\ work' \in [Tasks -> WorkDoc]
              /\ lost' \subseteq Jobs /\ broken' = broken /\ faults' = faults
              /\ scene' = scene /\ heatmaps' = heatmaps /\ written' = written
  <2>1. Fresh("queued", 0) \in WorkDoc
    BY FreshType, ConstantsAssumption DEF WorkPC
  <2>2. work' \in [Tasks -> WorkDoc]
    BY <1>1, <1>10, <2>1 DEF CreateJob
  <2> QED
    BY <1>1, <1>2, <1>10, <2>2 DEF CreateJob
<1>11. ASSUME NEW j \in Jobs, CreateJobFails(d, j)
       PROVE  /\ run' = run /\ event' = event /\ counted' = counted
              /\ job' \in [Jobs -> {"absent", "PENDING", "IN_PROGRESS"} \cup FinishedJob]
              /\ hook' \in [1..MaxDeliveries -> [pc : HookPC, todo : SUBSET Jobs]]
              /\ work' \in [Tasks -> WorkDoc]
              /\ lost' \subseteq Jobs /\ broken' \subseteq Breaks /\ faults' \in 0..MaxFaults
              /\ scene' = scene /\ heatmaps' = heatmaps /\ written' = written
  <2>1. hook' \in [1..MaxDeliveries -> [pc : HookPC, todo : SUBSET Jobs]]
    BY <1>1, <1>2, <1>11 DEF CreateJobFails, HookPC
  <2>2. Fresh("queued", 0) \in WorkDoc
    BY FreshType, ConstantsAssumption DEF WorkPC
  <2>3. work' \in [Tasks -> WorkDoc]
    BY <1>1, <1>11, <2>2 DEF CreateJobFails
  <2>4. job' \in [Jobs -> {"absent", "PENDING", "IN_PROGRESS"} \cup FinishedJob]
    BY <1>1, <1>11 DEF CreateJobFails
  <2>5. broken' \subseteq Breaks
    BY <1>1, <1>11 DEF CreateJobFails, Breaks
  <2>6. /\ lost' \subseteq Jobs /\ faults' \in 0..MaxFaults
        /\ UNCHANGED <<scene, run, event, heatmaps, written, counted>>
    BY <1>1, <1>2, <1>11 DEF CreateJobFails
  <2> QED
    BY <2>1, <2>3, <2>4, <2>5, <2>6
<1> QED
  BY <1>1, <1>3, <1>4, <1>5, <1>6, <1>7, <1>8, <1>9, <1>10, <1>11, <1>12, <1>13
     DEF HookAction, HookSteps

TaskAction(t) == TaskSteps(t) \/ ComputeFails(t) \/ MirrorFails(t) \/ TaskDies(t)

LEMMA StatusType == ASSUME TypeOK PROVE StatusOf(run) \in FinalStatus /\ EnoughWrites(run) \in BOOLEAN
BY DEF StatusOf, FinalStatus, EnoughWrites

LEMMA TaskTypes ==
  ASSUME TypeOK, NEW t \in Tasks, TaskAction(t)
  PROVE  TypeOK'
<1> USE DEF Failure, NoFailure, Calm, TaskUnchanged, docs, At, To, Ends, JobOf
<1>1. /\ scene \in Scenes /\ run \in RunDoc
      /\ event \in {"absent", "processing", "terminal"}
      /\ job \in [Jobs -> {"absent", "PENDING", "IN_PROGRESS"} \cup FinishedJob]
      /\ hook \in [1..MaxDeliveries -> [pc : HookPC, todo : SUBSET Jobs]]
      /\ work \in [Tasks -> WorkDoc]
      /\ heatmaps \in Nat
      /\ written \subseteq Jobs /\ counted \subseteq Jobs /\ lost \subseteq Jobs
      /\ broken \subseteq Breaks
      /\ faults \in 0..MaxFaults
  BY DEF TypeOK, WorkDoc
<1>2. t[2] \in Jobs /\ work[t] \in WorkDoc /\ Fresh("done", 0) \in WorkDoc
  BY <1>1, TaskParts, FreshType, ConstantsAssumption DEF WorkPC
<1>3. MaxFaults \in Nat /\ MaxAttempts \in Nat
  BY ConstantsAssumption
<1>4. \A n \in 0..MaxAttempts : Fresh("queued", n) \in WorkDoc
  BY FreshType DEF WorkPC
<1>5. \A pc \in WorkPC : [work[t] EXCEPT !.pc = pc] \in WorkDoc
  BY <1>2 DEF WorkDoc
<1> SUFFICES
      /\ run' \in RunDoc
      /\ event' \in {"absent", "processing", "terminal"}
      /\ job' \in [Jobs -> {"absent", "PENDING", "IN_PROGRESS"} \cup FinishedJob]
      /\ work' \in [Tasks -> WorkDoc]
      /\ heatmaps' \in Nat
      /\ written' \subseteq Jobs /\ counted' \subseteq Jobs
      /\ broken' \subseteq Breaks
      /\ faults' \in 0..MaxFaults
      /\ scene' = scene /\ hook' = hook /\ lost' = lost
  BY <1>1 DEF TypeOK, WorkDoc
<1>6. ASSUME NEW pc \in WorkPC, To(t, pc) \/ Ends(t)
      PROVE  work' \in [Tasks -> WorkDoc]
  BY <1>1, <1>2, <1>5, <1>6
<1>7. CASE StartJob(t)
  BY <1>1, <1>2, <1>6, <1>7 DEF StartJob, WorkPC
<1>8. CASE WriteSeries(t)
  <2>1. run' \in RunDoc
    BY <1>1, <1>8 DEF WriteSeries, RunDoc
  <2>2. work' \in [Tasks -> WorkDoc]
    BY <1>1, <1>2, <1>8 DEF WriteSeries, WorkDoc, WorkPC, FinishedJob
  <2> QED
    BY <1>1, <1>2, <1>8, <2>1, <2>2 DEF WriteSeries, Breaks
<1>9. CASE NoSeries(t)
  BY <1>1, <1>2, <1>6, <1>9 DEF NoSeries, WorkPC
<1>10. CASE ComputeFails(t)
  <2>1. work' \in [Tasks -> WorkDoc]
    BY <1>1, <1>2, <1>10 DEF ComputeFails, WorkDoc, WorkPC, FinishedJob
  <2> QED
    BY <1>1, <1>2, <1>3, <1>10, <2>1 DEF ComputeFails
<1>11. CASE MarkJob(t)
  <2>1. work[t].outcome \in FinishedJob
    BY <1>2 DEF WorkDoc
  <2> QED
    BY <1>1, <1>2, <1>6, <1>11, <2>1 DEF MarkJob, WorkPC
<1>12. CASE CountJob(t)
  <2>1. run' \in RunDoc
    <3>1. ASSUME NEW o \in FinishedJob PROVE CountedOn(o) \in RunDoc
      <4>1. run.success + (IF o = "SUCCESS" THEN 1 ELSE 0) \in Nat
            /\ run.failure + (IF o = "SUCCESS" THEN 0 ELSE 1) \in Nat
        BY <1>1 DEF RunDoc
      <4> QED
        BY <1>1, <4>1 DEF CountedOn, RunDoc
    <3> QED
      BY <1>1, <1>2, <1>12, <3>1 DEF CountJob, WorkDoc
  <2>2. work' \in [Tasks -> WorkDoc]
    BY <1>1, <1>2, <1>12 DEF CountJob, WorkDoc, WorkPC, FinishedJob
  <2> QED
    BY <1>1, <1>2, <1>12, <2>1, <2>2 DEF CountJob, Breaks
<1>13. CASE CheckRun(t)
  <2>1. work' \in [Tasks -> WorkDoc]
    <3>1. [work[t] EXCEPT !.pc = "finalize", !.status = StatusOf(run), !.gate = EnoughWrites(run)]
          \in WorkDoc
      BY <1>2, StatusType DEF WorkDoc, WorkPC
    <3>2. \/ work' = [work EXCEPT ![t] = [work[t] EXCEPT !.pc = "finalize",
                         !.status = StatusOf(run), !.gate = EnoughWrites(run)]]
          \/ Ends(t)
      BY <1>13 DEF CheckRun
    <3> QED
      BY <1>1, <1>2, <3>1, <3>2
  <2> QED
    BY <1>1, <1>13, <2>1 DEF CheckRun
<1>14. CASE FinalizeRun(t)
  <2>1. run' \in RunDoc
    <3>1. work[t].status \in FinalStatus
      BY <1>2 DEF WorkDoc
    <3> QED
      BY <1>1, <1>14, <3>1 DEF FinalizeRun, RunDoc, FinalStatus
  <2> QED
    BY <1>1, <1>2, <1>6, <1>14, <2>1 DEF FinalizeRun, WorkPC
<1>15. CASE MirrorEvent(t)
  BY <1>1, <1>2, <1>6, <1>15 DEF MirrorEvent, AfterMirror, WorkPC
<1>16. CASE MirrorFails(t)
  BY <1>1, <1>2, <1>3, <1>6, <1>16 DEF MirrorFails, AfterMirror, WorkPC, Breaks
<1>17. CASE TriggerHeatmaps(t)
  BY <1>1, <1>2, <1>6, <1>17 DEF TriggerHeatmaps, WorkPC
<1>18. CASE TaskDies(t)
  <2>1. work[t].attempt \in 0..MaxAttempts
    BY <1>2 DEF WorkDoc
  <2>2. work' \in [Tasks -> WorkDoc]
    BY <1>1, <1>2, <1>3, <1>4, <1>18, <2>1 DEF TaskDies
  <2> QED
    BY <1>1, <1>3, <1>18, <2>2 DEF TaskDies, Breaks
<1> QED
  BY <1>7, <1>8, <1>9, <1>10, <1>11, <1>12, <1>13, <1>14, <1>15, <1>16, <1>17, <1>18
     DEF TaskAction, TaskSteps

LEMMA DrainTypes ==
  ASSUME TypeOK, NEW j \in Jobs, DrainStarts(j)
  PROVE  TypeOK'
<1>1. <<Drain, j>> \in Tasks
  BY DEF Tasks, Executors, Drain
<1>2. Fresh("queued", MaxAttempts - 1) \in WorkDoc
  BY FreshType, ConstantsAssumption DEF WorkPC
<1>3. work' \in [Tasks -> WorkDoc]
  BY <1>1, <1>2 DEF DrainStarts, TypeOK, WorkDoc
<1> QED
  BY <1>3, ConstantsAssumption DEF DrainStarts, TypeOK, WorkDoc, Failure, docs, TaskUnchanged

-----------------------------------------------------------------------------
(***************************************************************************)
(* What a step of a task touches.                                          *)
(***************************************************************************)
LEMMA TaskEffect ==
  ASSUME TypeOK, NEW t \in Tasks, TaskAction(t)
  PROVE  /\ scene' = scene /\ hook' = hook /\ lost' = lost
         /\ work[t].pc # "none" /\ work'[t].pc # "none"
         /\ \A u \in Tasks : u # t => work'[u] = work[u]
         /\ \A j \in Jobs : j # t[2] => job'[j] = job[j]
         /\ counted \subseteq counted' /\ counted' \subseteq counted \cup {t[2]}
         /\ written \subseteq written' /\ written' \subseteq written \cup {t[2]}
         /\ broken \subseteq broken'
<1> USE DEF Failure, NoFailure, Calm, TaskUnchanged, docs, At, JobOf
<1>1. work \in [Tasks -> WorkDoc] /\ t[2] \in Jobs /\ work[t] \in WorkDoc
      /\ DOMAIN job = Jobs
  BY TaskParts DEF TypeOK, WorkDoc
<1> DEFINE OnlyThis == /\ work'[t].pc # "none"
                       /\ \A u \in Tasks : u # t => work'[u] = work[u]
<1>0. ASSUME NEW pc, pc # "none", To(t, pc) \/ Ends(t)
      PROVE  OnlyThis
  BY <1>1, <1>0 DEF To, Ends, Fresh, WorkDoc
<1>2. CASE StartJob(t)
  BY <1>0, <1>1, <1>2 DEF StartJob
<1>3. CASE WriteSeries(t)
  BY <1>1, <1>3 DEF WriteSeries, WorkDoc
<1>4. CASE NoSeries(t)
  BY <1>0, <1>1, <1>4 DEF NoSeries
<1>5. CASE ComputeFails(t)
  BY <1>1, <1>5 DEF ComputeFails, WorkDoc
<1>6. CASE MarkJob(t)
  BY <1>0, <1>1, <1>6 DEF MarkJob
<1>7. CASE CountJob(t)
  BY <1>1, <1>7 DEF CountJob, WorkDoc
<1>8. CASE CheckRun(t)
  <2>1. CASE Ends(t)
    BY <1>0, <1>1, <1>8, <2>1 DEF CheckRun
  <2>2. CASE work' = [work EXCEPT ![t].pc = "finalize", ![t].status = StatusOf(run),
                                  ![t].gate = EnoughWrites(run)]
    BY <1>1, <1>8, <2>2 DEF CheckRun, WorkDoc
  <2> QED
    BY <1>8, <2>1, <2>2 DEF CheckRun
<1>9. CASE FinalizeRun(t)
  BY <1>0, <1>1, <1>9 DEF FinalizeRun
<1>10. CASE MirrorEvent(t)
  BY <1>0, <1>1, <1>10 DEF MirrorEvent, AfterMirror
<1>11. CASE MirrorFails(t)
  BY <1>0, <1>1, <1>11 DEF MirrorFails, AfterMirror
<1>12. CASE TriggerHeatmaps(t)
  BY <1>0, <1>1, <1>12 DEF TriggerHeatmaps
<1>13. CASE TaskDies(t)
  BY <1>0, <1>1, <1>13 DEF TaskDies, Fresh
<1> QED
  BY <1>2, <1>3, <1>4, <1>5, <1>6, <1>7, <1>8, <1>9, <1>10, <1>11, <1>12, <1>13
     DEF TaskAction, TaskSteps

\* The drain's call is a task like the others.
LEMMA DrainEffect ==
  ASSUME TypeOK, NEW j \in Jobs, DrainStarts(j)
  PROVE  /\ kind = "backfill" /\ job[j] = "PENDING"
         /\ <<Drain, j>> \in Tasks
         /\ work'[<<Drain, j>>] = Fresh("queued", MaxAttempts - 1)
         /\ \A u \in Tasks : u # <<Drain, j>> => work'[u] = work[u]
         /\ UNCHANGED <<scene, hook, lost, docs, broken>>
<1>1. <<Drain, j>> \in Tasks /\ DOMAIN work = Tasks
  BY DEF Tasks, Executors, Drain, TypeOK
<1> QED
  BY <1>1 DEF DrainStarts, TaskUnchanged

(***************************************************************************)
(* Nothing but jobs of the run is touched.                                 *)
(***************************************************************************)
LEMMA InitJobs == Init => JobsOk
BY DEF Init, JobsOk, Fresh

LEMMA TaskNoHeatmaps ==
  ASSUME TypeOK, JobsOk, NEW t \in Tasks, TaskAction(t), kind = "backfill"
  PROVE  heatmaps' = 0 /\ work'[t].pc \notin {"mirror", "heatmap"}
<1> USE DEF TaskUnchanged, docs, At, Ends, Fresh
<1>1. work \in [Tasks -> WorkDoc] /\ heatmaps = 0 /\ work[t].pc \notin {"mirror", "heatmap"}
  BY DEF TypeOK, WorkDoc, JobsOk
<1>2. ASSUME NEW pc \in {"compute", "mark", "count"}, To(t, pc) PROVE work'[t].pc = pc
  BY <1>1, <1>2 DEF To
<1>3. CASE StartJob(t) \/ NoSeries(t) \/ MarkJob(t)
  BY <1>1, <1>2, <1>3 DEF StartJob, NoSeries, MarkJob
<1>4. CASE WriteSeries(t) \/ ComputeFails(t)
  <2>1. work'[t].pc = "mark"
    BY <1>1, <1>4 DEF WriteSeries, ComputeFails, WorkDoc
  <2> QED
    BY <1>1, <1>4, <2>1 DEF WriteSeries, ComputeFails
<1>5. CASE CountJob(t)
  BY <1>1, <1>5 DEF CountJob
<1>6. CASE CheckRun(t)
  <2>1. work'[t].pc \in {"finalize", "done"}
    <3>1. Ends(t) => work'[t].pc = "done"
      BY <1>1
    <3>2. ~Ends(t) => work' = [work EXCEPT ![t].pc = "finalize", ![t].status = StatusOf(run),
                                           ![t].gate = EnoughWrites(run)]
      BY <1>6 DEF CheckRun
    <3> QED
      BY <1>1, <3>1, <3>2 DEF WorkDoc
  <2> QED
    BY <1>1, <1>6, <2>1 DEF CheckRun
<1>7. CASE FinalizeRun(t)
  BY <1>1, <1>7 DEF FinalizeRun
<1>8. CASE TaskDies(t)
  BY <1>1, <1>8 DEF TaskDies
<1> QED
  BY <1>1, <1>3, <1>4, <1>5, <1>6, <1>7, <1>8
     DEF TaskAction, TaskSteps, MirrorEvent, MirrorFails, TriggerHeatmaps

LEMMA TaskJobs ==
  ASSUME TypeOK, JobsOk, NEW t \in Tasks, TaskAction(t)
  PROVE  JobsOk'
<1>1. RunJobs' = RunJobs /\ t[2] \in RunJobs
  BY TaskEffect DEF JobsOk, RunJobs
<1>2. \A j \in Jobs : job'[j] # "absent" => j \in RunJobs
  BY <1>1, TaskEffect DEF JobsOk
<1>3. \A u \in Tasks : work'[u].pc # "none" => u[2] \in RunJobs
  BY <1>1, TaskEffect DEF JobsOk
<1>4. kind' = kind
  BY TaskEffect DEF kind
<1>5. kind = "backfill" =>
        heatmaps' = 0 /\ \A u \in Tasks : work'[u].pc \notin {"mirror", "heatmap"}
  BY TaskNoHeatmaps, TaskEffect DEF JobsOk
<1> QED
  BY <1>1, <1>2, <1>3, <1>4, <1>5, TaskEffect DEF JobsOk

LEMMA DrainJobs ==
  ASSUME TypeOK, JobsOk, NEW j \in Jobs, DrainStarts(j)
  PROVE  JobsOk'
<1>1. RunJobs' = RunJobs /\ j \in RunJobs
  BY DrainEffect DEF JobsOk, RunJobs
<1>2. ASSUME NEW u \in Tasks, work'[u].pc # "none" PROVE u[2] \in RunJobs
  <2>1. CASE u = <<Drain, j>>
    BY <1>1, <2>1
  <2>2. CASE u # <<Drain, j>>
    <3>1. work'[u] = work[u]
      BY <2>2, DrainEffect
    <3> QED
      BY <1>2, <3>1 DEF JobsOk
  <2> QED
    BY <2>1, <2>2
<1>3. ASSUME NEW u \in Tasks, work'[u].pc \in {"mirror", "heatmap"} PROVE work'[u] = work[u]
  <2>1. work'[<<Drain, j>>].pc = "queued"
    BY DrainEffect DEF Fresh
  <2>2. u # <<Drain, j>>
    BY <1>3, <2>1
  <2> QED
    BY <2>2, DrainEffect
<1> QED
  BY <1>1, <1>2, <1>3, DrainEffect DEF JobsOk, docs, kind

LEMMA HookJobs ==
  ASSUME TypeOK, JobsOk, NEW d \in 1..MaxDeliveries,
         HookAction(d)
  PROVE  JobsOk'
<1> USE DEF Failure, NoFailure, Calm, HookUnchanged, HookAt, HookTo
<1>1. /\ hook \in [1..MaxDeliveries -> [pc : HookPC, todo : SUBSET Jobs]]
      /\ DOMAIN job = Jobs /\ DOMAIN work = Tasks
  BY DEF TypeOK
<1>2. /\ hook[d].todo \subseteq RunJobs
      /\ hook[d] \in [pc : HookPC, todo : SUBSET Jobs]
      /\ \A e \in 1..MaxDeliveries :
           /\ hook[e].todo \subseteq RunJobs
           /\ hook[e].pc \in {"idle", "mark", "reset"} => hook[e].todo = {}
      /\ lost \subseteq RunJobs /\ counted \subseteq RunJobs /\ written \subseteq RunJobs
      /\ \A j \in Jobs : job[j] # "absent" => j \in RunJobs
      /\ \A t \in Tasks : work[t].pc # "none" => t[2] \in RunJobs
      /\ kind = "backfill" =>
           heatmaps = 0 /\ \A t \in Tasks : work[t].pc \notin {"mirror", "heatmap"}
  BY <1>1 DEF JobsOk
<1> DEFINE HooksOk == \A e \in 1..MaxDeliveries :
             /\ hook'[e].todo \subseteq RunJobs
             /\ hook'[e].pc \in {"idle", "mark", "reset"} => hook'[e].todo = {}
<1> SUFFICES /\ scene' = scene /\ HooksOk
             /\ lost' \subseteq RunJobs /\ counted' \subseteq RunJobs /\ written' = written
             /\ \A j \in Jobs : job'[j] # "absent" => j \in RunJobs
             /\ \A t \in Tasks : work'[t].pc # "none" => t[2] \in RunJobs
             /\ heatmaps' = heatmaps
             /\ \A t \in Tasks : work'[t].pc \in {"mirror", "heatmap"} => work'[t] = work[t]
  BY <1>2 DEF JobsOk, RunJobs, kind
<1>3. CASE Deliver(d)
  <2>1. \E pc \in {"over", "reset", "mark"} : hook' = [hook EXCEPT ![d].pc = pc]
    BY <1>3 DEF Deliver
  <2>2. HooksOk
    BY <1>1, <1>2, <1>3, <2>1 DEF Deliver, Arrives
  <2> QED
    BY <1>2, <1>3, <2>2 DEF Deliver
<1>12. CASE DeliverUnread(d)
  BY <1>1, <1>2, <1>12 DEF DeliverUnread, Arrives
<1>13. CASE WriteLogged(d)
  BY <1>1, <1>2, <1>13 DEF WriteLogged
<1>4. CASE MarkProcessing(d)
  BY <1>1, <1>2, <1>4 DEF MarkProcessing
<1>5. CASE ResetRun(d)
  BY <1>1, <1>2, <1>5 DEF ResetRun
<1>6. CASE ResetFails(d)
  BY <1>1, <1>2, <1>6 DEF ResetFails
<1>7. CASE DecrementExpected(d)
  BY <1>1, <1>2, <1>7 DEF DecrementExpected
<1>8. CASE HookEnds(d)
  BY <1>1, <1>2, <1>8 DEF HookEnds
<1>9. CASE HookDies(d)
  BY <1>1, <1>2, <1>9 DEF HookDies
<1>10. ASSUME NEW j \in Jobs, CreateJob(d, j)
       PROVE  /\ scene' = scene /\ HooksOk
              /\ lost' \subseteq RunJobs /\ counted' \subseteq RunJobs /\ written' = written
              /\ \A i \in Jobs : job'[i] # "absent" => i \in RunJobs
              /\ \A t \in Tasks : work'[t].pc # "none" => t[2] \in RunJobs
              /\ heatmaps' = heatmaps
              /\ \A t \in Tasks : work'[t].pc \in {"mirror", "heatmap"} => work'[t] = work[t]
  <2>1. j \in RunJobs
    BY <1>2, <1>10 DEF CreateJob
  <2>2. HooksOk
    BY <1>1, <1>2, <1>10 DEF CreateJob
  <2> QED
    BY <1>1, <1>2, <1>10, <2>1, <2>2 DEF CreateJob, Fresh
<1>11. ASSUME NEW j \in Jobs, CreateJobFails(d, j)
       PROVE  /\ scene' = scene /\ HooksOk
              /\ lost' \subseteq RunJobs /\ counted' \subseteq RunJobs /\ written' = written
              /\ \A i \in Jobs : job'[i] # "absent" => i \in RunJobs
              /\ \A t \in Tasks : work'[t].pc # "none" => t[2] \in RunJobs
              /\ heatmaps' = heatmaps
              /\ \A t \in Tasks : work'[t].pc \in {"mirror", "heatmap"} => work'[t] = work[t]
  <2>1. j \in RunJobs
    BY <1>2, <1>11 DEF CreateJobFails
  <2>2. HooksOk
    BY <1>1, <1>2, <1>11 DEF CreateJobFails
  <2> QED
    BY <1>1, <1>2, <1>11, <2>1, <2>2 DEF CreateJobFails, Fresh
<1> QED
  BY <1>3, <1>4, <1>5, <1>6, <1>7, <1>8, <1>9, <1>10, <1>11, <1>12, <1>13
     DEF HookAction, HookSteps

-----------------------------------------------------------------------------
(***************************************************************************)
(* The clean runs: facts about the sets the counters stand for.            *)
(***************************************************************************)
LEMMA SetFacts ==
  ASSUME TypeOK, JobsOk
  PROVE  /\ IsFiniteSet(RunJobs) /\ IsFiniteSet(Owed) /\ IsFiniteSet(counted)
         /\ IsFiniteSet(written) /\ IsFiniteSet(Owed \ written)
         /\ Owed \subseteq RunJobs
         /\ Cardinality(Owed) \in Nat /\ Cardinality(counted) \in Nat
         /\ Cardinality(written) \in Nat /\ Cardinality(Owed \ written) \in Nat
<1>1. IsFiniteSet(RunJobs) /\ Owed \subseteq RunJobs
  BY SceneParts DEF Owed
<1>2. counted \subseteq RunJobs /\ written \subseteq RunJobs /\ Owed \ written \subseteq RunJobs
  BY <1>1 DEF JobsOk
<1> QED
  BY <1>1, <1>2, FS_Subset, FS_CardinalityType

\* What was counted or written was owed.
LEMMA CountedOwed ==
  ASSUME TypeOK, JobsOk, Apart
  PROVE  /\ counted \subseteq Owed
         /\ kind = "realtime" => written \subseteq Owed
BY SceneParts DEF JobsOk, Apart, Owed

\* Full counters stand for all that was owed.
LEMMA FullMeansAll ==
  ASSUME TypeOK, JobsOk, CleanInv, run.status # "absent", Full
  PROVE  /\ Owed = counted
         /\ run.expected = Cardinality(Owed)
         /\ hook[1].pc # "decrement"
<1>1. run.expected \in Int /\ run.success + run.failure >= run.expected
  BY DEF Full, TypeOK, RunDoc
<1>2. /\ Cardinality(counted) >= run.expected /\ run.expected >= Cardinality(Owed)
      /\ hook[1].pc = "decrement" => run.expected > Cardinality(Owed)
  BY <1>1 DEF CleanInv, CountersOk
<1>3. counted \subseteq Owed /\ IsFiniteSet(Owed)
  BY CountedOwed, SetFacts DEF CleanInv
<1>4. Cardinality(counted) <= Cardinality(Owed)
      /\ (Cardinality(counted) = Cardinality(Owed) => counted = Owed)
  BY <1>3, FS_Subset
<1> QED
  BY <1>1, <1>2, <1>4, SetFacts

\* The series that were written stay written.
LEMMA MissingShrinks ==
  ASSUME TypeOK, JobsOk, NEW W, written \subseteq W, FewMissing
  PROVE  50 * Cardinality(Owed \ W) <= Cardinality(Owed)
<1>1. Owed \ W \subseteq Owed \ written
  OBVIOUS
<1>2. Cardinality(Owed \ W) <= Cardinality(Owed \ written) /\ Cardinality(Owed \ W) \in Nat
  BY <1>1, SetFacts, FS_Subset, FS_CardinalityType
<1> QED
  BY <1>2, SetFacts DEF FewMissing

LEMMA InitClean == Init => CleanInv
<1> SUFFICES ASSUME Init PROVE CleanInv
  OBVIOUS
<1>1. \A t \in Tasks : work[t].pc = "none"
  BY DEF Init, Fresh
<1>2. \A d \in 1..MaxDeliveries : hook[d] = [pc |-> "idle", todo |-> {}]
  BY DEF Init
<1>3. 1 \in 1..MaxDeliveries
  BY ConstantsAssumption
<1>4. OneHandler /\ Untouched /\ Apart
  BY <1>1, <1>2, <1>3 DEF Init, OneHandler, Untouched, Apart
<1>5. CountersOk /\ ClosedOk
  BY <1>1 DEF Init, CountersOk, ClosedOk, Closed, Late, Final, FinalStatus
<1>6. ReadsOk /\ WritesOk
  BY <1>1 DEF Init, ReadsOk, WritesOk, Final, FinalStatus, Late
<1> QED
  BY <1>4, <1>5, <1>6 DEF CleanInv

-----------------------------------------------------------------------------
(***************************************************************************)
(* The clean runs: the tasks.                                              *)
(***************************************************************************)
LEMMA TaskApart ==
  ASSUME TypeOK, JobsOk, CleanInv, NEW t \in Tasks, TaskAction(t)
  PROVE  OneHandler' /\ Untouched' /\ Apart'
<1>1. hook' = hook /\ lost' = lost /\ kind' = kind
  BY TaskEffect DEF kind
<1>2. 1 \in 1..MaxDeliveries
  BY ConstantsAssumption
<1>3. OneHandler' /\ Untouched'
  BY <1>1, <1>2, TaskEffect DEF CleanInv, OneHandler, Untouched
<1>4. Apart'
  <2> SUFFICES ASSUME kind = "realtime" PROVE Apart'
    BY <1>1 DEF Apart
  <2>1. t[2] \notin lost \cup hook[1].todo
    BY TaskEffect DEF CleanInv, Apart
  <2>2. \A u \in Tasks : work'[u].pc # "none" => u[2] \notin lost \cup hook[1].todo
    BY <2>1, TaskEffect DEF CleanInv, Apart
  <2>3. (counted' \cup written') \cap (lost \cup hook[1].todo) = {}
    BY <2>1, TaskEffect DEF CleanInv, Apart
  <2> QED
    BY <1>1, <2>2, <2>3 DEF CleanInv, Apart
<1> QED
  BY <1>3, <1>4

\* A step that changes neither the run nor the sets, and reads nothing.
LEMMA QuietTask ==
  ASSUME TypeOK, JobsOk, CleanInv, NEW t \in Tasks,
         UNCHANGED <<scene, hook, lost, run, heatmaps, counted, written>>,
         \A u \in Tasks : u # t => work'[u] = work[u],
         work'[t].pc # "finalize",
         work'[t].pc \in Late => work[t].pc \in Late /\ work'[t].gate = work[t].gate,
         work'[t].pc = "heatmap" => work'[t].gate,
         broken \subseteq broken'
  PROVE  CountersOk' /\ ClosedOk' /\ ReadsOk' /\ WritesOk'
<1>1. Owed' = Owed /\ kind' = kind /\ RunJobs' = RunJobs
  BY DEF Owed, kind, RunJobs
<1>2. CountersOk'
  BY <1>1 DEF CleanInv, CountersOk
<1>3. \A u \in Tasks : work'[u].pc \in Late =>
        work[u].pc \in Late /\ work'[u].gate = work[u].gate
  OBVIOUS
<1>4. Final' = Final
  BY DEF Final
<1>5. ClosedOk'
  BY <1>1, <1>3, <1>4 DEF CleanInv, ClosedOk, Closed
<1>6. StatusOf(run)' = StatusOf(run)
  BY <1>1 DEF StatusOf
<1>7. ReadsOk'
  BY <1>1, <1>4, <1>6 DEF CleanInv, ReadsOk
<1>8. FewMissing' = FewMissing
  BY <1>1 DEF FewMissing
<1>9. WritesOk'
  BY <1>1, <1>3, <1>8 DEF CleanInv, WritesOk
<1> QED
  BY <1>2, <1>5, <1>7, <1>9

LEMMA CountClean ==
  ASSUME TypeOK, JobsOk, CleanInv, NEW t \in Tasks, CountJob(t), Clean'
  PROVE  CountersOk' /\ ClosedOk' /\ ReadsOk' /\ WritesOk'
<1>1. /\ work[t].pc = "count" /\ work[t] \in WorkDoc
      /\ run \in RunDoc /\ work \in [Tasks -> WorkDoc]
      /\ run' = (IF run.status = "absent" THEN run ELSE CountedOn(work[t].outcome))
      /\ counted' = counted \cup {t[2]}
      /\ broken' = (IF t[2] \in counted THEN broken \cup {"recount"} ELSE broken)
      /\ work' = [work EXCEPT ![t].pc = "check", ![t].outcome = "SUCCESS"]
      /\ UNCHANGED <<scene, hook, lost, heatmaps, written>>
  BY DEF CountJob, At, JobOf, TaskUnchanged, TypeOK, WorkDoc
<1>2. t[2] \notin counted /\ broken' = broken
  BY <1>1 DEF Clean
<1>3. /\ work'[t].pc = "check"
      /\ \A u \in Tasks : u # t => work'[u] = work[u]
  BY <1>1 DEF WorkDoc
<1>4. Owed' = Owed /\ kind' = kind
  BY <1>1 DEF Owed, kind, RunJobs
\* A task that was not counted yet is owed: nobody has seen the counters full.
<1>5. t[2] \in Owed
  <2>1. t[2] \in RunJobs
    BY <1>1 DEF JobsOk
  <2>2. kind = "realtime" => t[2] \notin lost
    BY <1>1 DEF CleanInv, Apart
  <2> QED
    BY <2>1, <2>2, SceneParts DEF Owed
<1>6. ~Closed
  BY <1>2, <1>5 DEF CleanInv, ClosedOk
<1>7. /\ run'.status = run.status /\ run'.expected = run.expected /\ run'.writes = run.writes
      /\ run.status # "absent" => run'.success + run'.failure = run.success + run.failure + 1
  BY <1>1 DEF CountedOn, RunDoc
<1>8. ~Closed'
  BY <1>1, <1>3, <1>6, <1>7 DEF Closed, Final, Late
<1>9. CountersOk'
  <2>1. Cardinality(counted') = Cardinality(counted) + 1
    BY <1>1, <1>2, SetFacts, FS_AddElement
  <2> QED
    BY <1>1, <1>4, <1>7, <2>1 DEF CleanInv, CountersOk
<1>10. ClosedOk' /\ ReadsOk'
  BY <1>8 DEF ClosedOk, ReadsOk, Closed, Late
<1>11. WritesOk'
  BY <1>1, <1>2, <1>4, <1>7, <1>8 DEF CleanInv, WritesOk, Closed, Late
<1> QED
  BY <1>9, <1>10, <1>11

LEMMA WriteClean ==
  ASSUME TypeOK, JobsOk, CleanInv, NEW t \in Tasks, WriteSeries(t)
  PROVE  CountersOk' /\ ClosedOk' /\ ReadsOk' /\ WritesOk'
<1>1. /\ work[t].pc = "compute" /\ work[t] \in WorkDoc
      /\ run \in RunDoc /\ work \in [Tasks -> WorkDoc]
      /\ written' = written \cup {t[2]}
      /\ broken' = (IF t[2] \in written THEN broken \cup {"rewrite"} ELSE broken)
      /\ run' = (IF kind = "backfill" \/ run.status = "absent" THEN run
                 ELSE [run EXCEPT !.writes = @ + 1])
      /\ UNCHANGED <<scene, hook, lost, heatmaps, counted>>
  BY DEF WriteSeries, At, JobOf, TaskUnchanged, TypeOK, WorkDoc
<1>2. /\ work'[t].pc = "mark"
      /\ \A u \in Tasks : u # t => work'[u] = work[u]
  BY <1>1 DEF WriteSeries, WorkDoc
<1>3. Owed' = Owed /\ kind' = kind
  BY <1>1 DEF Owed, kind, RunJobs
<1>4. /\ run'.status = run.status /\ run'.expected = run.expected
      /\ run'.success = run.success /\ run'.failure = run.failure
      /\ kind = "realtime" /\ run.status # "absent" => run'.writes = run.writes + 1
  BY <1>1 DEF RunDoc
<1>5. CountersOk'
  BY <1>1, <1>3, <1>4 DEF CleanInv, CountersOk
<1>6. \A u \in Tasks : work'[u].pc \in Late => work'[u] = work[u]
  BY <1>2 DEF Late
<1>7. Final' = Final
  BY <1>4 DEF Final
<1>8. ClosedOk'
  BY <1>1, <1>3, <1>4, <1>6, <1>7 DEF CleanInv, ClosedOk, Closed
<1>9. StatusOf(run)' = StatusOf(run)
  BY <1>3, <1>4 DEF StatusOf
<1>10. ReadsOk'
  BY <1>3, <1>4, <1>6, <1>7, <1>9 DEF CleanInv, ReadsOk, Late
<1>11. WritesOk'
  <2> SUFFICES ASSUME kind = "realtime", "rewrite" \notin broken' PROVE WritesOk'
    BY <1>3 DEF WritesOk
  <2>1. t[2] \notin written /\ broken' = broken
    BY <1>1
  <2>2. Cardinality(written') = Cardinality(written) + 1
    BY <1>1, <2>1, SetFacts, FS_AddElement
  <2>3. FewMissing => FewMissing'
    BY <1>1, <1>3, MissingShrinks DEF FewMissing
  <2>4. /\ run.status # "absent" => run.writes = Cardinality(written)
        /\ heatmaps > 0 => FewMissing
        /\ \A u \in Tasks : work[u].pc \in Late /\ work[u].gate => FewMissing
        /\ \A u \in Tasks : work[u].pc = "heatmap" => work[u].gate
    BY <2>1 DEF CleanInv, WritesOk
  <2>5. run'.status # "absent" => run'.writes = Cardinality(written')
    BY <1>4, <2>2, <2>4
  <2>6. heatmaps' > 0 => FewMissing'
    BY <1>1, <2>3, <2>4
  <2>7. \A u \in Tasks : work'[u].pc \in Late /\ work'[u].gate => FewMissing'
    BY <1>6, <2>3, <2>4
  <2>8. \A u \in Tasks : work'[u].pc = "heatmap" => work'[u].gate
    BY <1>6, <2>4 DEF Late
  <2> QED
    BY <2>5, <2>6, <2>7, <2>8 DEF WritesOk
<1> QED
  BY <1>5, <1>8, <1>10, <1>11

\* The finisher that sees the counters full: all that is owed was counted, and
\* an open gate means that at most two in a hundred archives are missing.
LEMMA CheckClean ==
  ASSUME TypeOK, JobsOk, CleanInv, NEW t \in Tasks, CheckRun(t)
  PROVE  CountersOk' /\ ClosedOk' /\ ReadsOk' /\ WritesOk'
<1>1. /\ work[t].pc = "check" /\ work[t] \in WorkDoc
      /\ run \in RunDoc /\ work \in [Tasks -> WorkDoc]
      /\ UNCHANGED <<scene, hook, lost, run, heatmaps, counted, written, broken>>
  BY DEF CheckRun, At, Calm, NoFailure, docs, TaskUnchanged, TypeOK, WorkDoc
<1>2. CASE Ends(t)
  <2>1. /\ work'[t].pc = "done"
        /\ \A u \in Tasks : u # t => work'[u] = work[u]
    BY <1>1, <1>2 DEF Ends, Fresh
  <2> QED
    BY <1>1, <2>1, QuietTask DEF Late
<1>3. CASE ~Ends(t)
  <2>1. /\ Full /\ run.status # "absent"
        /\ work' = [work EXCEPT ![t].pc = "finalize", ![t].status = StatusOf(run),
                                ![t].gate = EnoughWrites(run)]
    BY <1>3 DEF CheckRun, FinalStatus
  <2>2. /\ work'[t].pc = "finalize" /\ work'[t].status = StatusOf(run)
        /\ work'[t].gate = EnoughWrites(run)
        /\ \A u \in Tasks : u # t => work'[u] = work[u]
    BY <1>1, <2>1 DEF WorkDoc
  <2>3. Owed' = Owed /\ kind' = kind
    BY <1>1 DEF Owed, kind, RunJobs
  <2>4. Owed = counted /\ run.expected = Cardinality(Owed)
    BY <2>1, FullMeansAll
  <2>5. CountersOk'
    BY <1>1, <2>3 DEF CleanInv, CountersOk
  <2>6. ClosedOk'
    BY <1>1, <2>1, <2>3, <2>4 DEF ClosedOk
  <2>7. StatusOf(run)' = StatusOf(run) /\ Final' = Final
    BY <1>1, <2>3 DEF StatusOf, Final
  <2>8. ReadsOk'
    BY <1>1, <2>2, <2>3, <2>7 DEF CleanInv, ReadsOk
  <2>9. FewMissing' = FewMissing
    BY <1>1, <2>3 DEF FewMissing
  <2>10. ASSUME kind = "realtime", "rewrite" \notin broken, EnoughWrites(run)
         PROVE  FewMissing
    <3>1. run.writes = Cardinality(written) /\ written \subseteq Owed
      BY <2>1, <2>10, CountedOwed DEF CleanInv, WritesOk
    <3>2. Cardinality(Owed \ written) = Cardinality(Owed) - Cardinality(Owed \cap written)
      BY SetFacts, FS_Difference
    <3>3. Owed \cap written = written
      BY <3>1
    <3>4. 100 * Cardinality(written) >= 98 * Cardinality(Owed)
      BY <2>4, <2>10, <3>1 DEF EnoughWrites
    <3>5. \A o, w, m \in Nat : m = o - w /\ 100 * w >= 98 * o => 50 * m <= o
      OBVIOUS
    <3> QED
      BY <3>2, <3>3, <3>4, <3>5, SetFacts DEF FewMissing
  <2>11. WritesOk'
    BY <1>1, <2>2, <2>3, <2>9, <2>10 DEF CleanInv, WritesOk, Late
  <2> QED
    BY <2>5, <2>6, <2>8, <2>11
<1> QED
  BY <1>2, <1>3

\* What is written is what was read.
LEMMA FinalizeClean ==
  ASSUME TypeOK, JobsOk, CleanInv, NEW t \in Tasks, FinalizeRun(t)
  PROVE  CountersOk' /\ ClosedOk' /\ ReadsOk' /\ WritesOk'
<1>1. /\ work[t].pc = "finalize" /\ work[t] \in WorkDoc
      /\ run \in RunDoc /\ work \in [Tasks -> WorkDoc]
      /\ run' = [run EXCEPT !.status = work[t].status]
      /\ UNCHANGED <<scene, hook, lost, heatmaps, counted, written, broken>>
  BY DEF FinalizeRun, At, Calm, NoFailure, TaskUnchanged, TypeOK, WorkDoc
<1>2. /\ work'[t].pc \in {"mirror", "done"}
      /\ work'[t].pc = "mirror" => work'[t].gate = work[t].gate
      /\ \A u \in Tasks : u # t => work'[u] = work[u]
  BY <1>1 DEF FinalizeRun, To, Ends, Fresh, WorkDoc
<1>3. Owed' = Owed /\ kind' = kind
  BY <1>1 DEF Owed, kind, RunJobs
<1>4. /\ run'.status = work[t].status /\ work[t].status \in FinalStatus
      /\ run'.expected = run.expected /\ run'.writes = run.writes
      /\ run'.success = run.success /\ run'.failure = run.failure
  BY <1>1 DEF RunDoc, WorkDoc
<1>5. Closed
  BY <1>1 DEF Closed, Late
<1>6. run.status # "absent" /\ run'.status # "absent" /\ Owed \subseteq counted
  BY <1>4, <1>5 DEF CleanInv, ClosedOk, FinalStatus
<1>7. CountersOk' /\ ClosedOk'
  BY <1>1, <1>3, <1>4, <1>6 DEF CleanInv, CountersOk, ClosedOk
<1>8. StatusOf(run)' = StatusOf(run)
  BY <1>3, <1>4 DEF StatusOf
<1>9. ReadsOk'
  BY <1>1, <1>2, <1>3, <1>4, <1>8 DEF CleanInv, ReadsOk
<1>10. FewMissing' = FewMissing
  BY <1>1, <1>3 DEF FewMissing
<1>11. WritesOk'
  BY <1>1, <1>2, <1>3, <1>4, <1>6, <1>10 DEF CleanInv, WritesOk, Late
<1> QED
  BY <1>7, <1>9, <1>11

LEMMA TriggerClean ==
  ASSUME TypeOK, JobsOk, CleanInv, NEW t \in Tasks, TriggerHeatmaps(t)
  PROVE  CountersOk' /\ ClosedOk' /\ ReadsOk' /\ WritesOk'
<1>1. /\ work[t].pc = "heatmap"
      /\ work \in [Tasks -> WorkDoc]
      /\ UNCHANGED <<scene, hook, lost, run, counted, written, broken>>
  BY DEF TriggerHeatmaps, At, Calm, NoFailure, TaskUnchanged, TypeOK, WorkDoc
<1>2. /\ work'[t].pc = "done"
      /\ \A u \in Tasks : u # t => work'[u] = work[u]
  BY <1>1 DEF TriggerHeatmaps, Ends, Fresh
<1>3. Owed' = Owed /\ kind' = kind
  BY <1>1 DEF Owed, kind, RunJobs
<1>4. Closed
  BY <1>1 DEF Closed, Late
<1>5. CountersOk' /\ ClosedOk'
  BY <1>1, <1>3, <1>4 DEF CleanInv, CountersOk, ClosedOk
<1>6. StatusOf(run)' = StatusOf(run) /\ Final' = Final
  BY <1>1, <1>3 DEF StatusOf, Final
<1>7. ReadsOk'
  BY <1>1, <1>2, <1>3, <1>6 DEF CleanInv, ReadsOk
<1>8. FewMissing' = FewMissing
  BY <1>1, <1>3 DEF FewMissing
<1>9. WritesOk'
  BY <1>1, <1>2, <1>3, <1>8 DEF CleanInv, WritesOk, Late
<1> QED
  BY <1>5, <1>7, <1>9

LEMMA TaskClean ==
  ASSUME TypeOK, JobsOk, Clean => CleanInv, NEW t \in Tasks, TaskAction(t), Clean'
  PROVE  CleanInv'
<1>1. CleanInv
  BY TaskEffect DEF Clean
<1> DEFINE Rest == CountersOk' /\ ClosedOk' /\ ReadsOk' /\ WritesOk'
<1> SUFFICES Rest
  BY <1>1, TaskApart DEF CleanInv
<1>2. ASSUME NEW pc \in WorkPC, To(t, pc) \/ Ends(t)
      PROVE  /\ work'[t].pc \in {pc, "done"}
             /\ work'[t].pc # "done" => work'[t].gate = work[t].gate
  BY <1>2 DEF To, Ends, Fresh, TypeOK
<1>3. ASSUME UNCHANGED <<run, heatmaps, counted, written>>,
             work'[t].pc \notin Late
      PROVE  Rest
  BY <1>1, <1>3, TaskEffect, QuietTask DEF Late
<1>4. CASE StartJob(t)
  BY <1>2, <1>3, <1>4 DEF StartJob, WorkPC, Late
<1>5. CASE NoSeries(t)
  BY <1>2, <1>3, <1>5 DEF NoSeries, docs, WorkPC, Late
<1>6. CASE ComputeFails(t)
  <2>1. work'[t].pc = "mark"
    BY <1>6 DEF ComputeFails, TypeOK
  <2> QED
    BY <1>3, <1>6, <2>1 DEF ComputeFails, docs, Late
<1>7. CASE MarkJob(t)
  BY <1>2, <1>3, <1>7 DEF MarkJob, WorkPC, Late
<1>8. CASE TaskDies(t)
  <2>1. work'[t].pc \in {"queued", "done"}
    BY <1>8 DEF TaskDies, Ends, Fresh, TypeOK
  <2> QED
    BY <1>3, <1>8, <2>1 DEF TaskDies, docs, Late
<1>9. CASE MirrorEvent(t) \/ MirrorFails(t)
  <2>1. /\ work[t].pc = "mirror"
        /\ UNCHANGED <<scene, hook, lost, run, heatmaps, counted, written>>
        /\ AfterMirror(t)
    BY <1>9 DEF MirrorEvent, MirrorFails, At, TaskUnchanged, docs
  <2>2. /\ work'[t].pc \in {"heatmap", "done"}
        /\ work'[t].pc = "heatmap" => work'[t].gate /\ work'[t].gate = work[t].gate
    BY <2>1 DEF AfterMirror, To, Ends, Fresh, TypeOK
  <2> QED
    BY <1>1, <2>1, <2>2, TaskEffect, QuietTask DEF Late
<1> QED
  BY <1>1, <1>4, <1>5, <1>6, <1>7, <1>8, <1>9, CountClean, WriteClean, CheckClean,
     FinalizeClean, TriggerClean DEF TaskAction, TaskSteps

LEMMA DrainClean ==
  ASSUME TypeOK, JobsOk, Clean => CleanInv, NEW j \in Jobs, DrainStarts(j), Clean'
  PROVE  CleanInv'
<1>1. CleanInv
  BY DrainEffect DEF Clean
<1>2. work'[<<Drain, j>>].pc = "queued"
  BY DrainEffect DEF Fresh
<1>3. CountersOk' /\ ClosedOk' /\ ReadsOk' /\ WritesOk'
  <2> DEFINE t == <<Drain, j>>
  <2>1. t \in Tasks /\ UNCHANGED <<scene, hook, lost, run, heatmaps, counted, written, broken>>
        /\ \A u \in Tasks : u # t => work'[u] = work[u]
    BY DrainEffect DEF docs
  <2>2. work'[t].pc = "queued"
    BY <1>2
  <2> HIDE DEF t
  <2> QED
    BY <1>1, <2>1, <2>2, QuietTask DEF Late
<1>4. hook' = hook /\ kind' = "backfill" /\ hook[1].pc \notin {"idle", "mark", "reset"}
  BY <1>1, DrainEffect DEF CleanInv, Untouched, kind
<1>5. OneHandler' /\ Untouched' /\ Apart'
  BY <1>1, <1>4 DEF CleanInv, OneHandler, Untouched, Apart
<1> QED
  BY <1>3, <1>5 DEF CleanInv

-----------------------------------------------------------------------------
(***************************************************************************)
(* The clean runs: the handler.                                            *)
(***************************************************************************)
\* A step that at most gives up jobs that were still to be created.
LEMMA LosingHook ==
  ASSUME TypeOK, JobsOk, CleanInv,
         UNCHANGED <<scene, run, heatmaps, work, counted, written>>,
         lost \subseteq lost', lost' \subseteq lost \cup hook[1].todo,
         hook[1].pc # "over" \/ lost' = lost,
         run.status # "absent" /\ hook'[1].pc = "decrement" =>
           run.expected > Cardinality(Owed'),
         broken \subseteq broken'
  PROVE  CountersOk' /\ ClosedOk' /\ ReadsOk' /\ WritesOk'
<1>1. kind' = kind /\ RunJobs' = RunJobs /\ Final' = Final /\ Closed' = Closed
  BY DEF kind, RunJobs, Final, Closed
<1>2. Owed' \subseteq Owed
  BY <1>1 DEF Owed
<1>3. Cardinality(Owed') <= Cardinality(Owed) /\ Cardinality(Owed') \in Nat
  BY <1>2, SetFacts, FS_Subset, FS_CardinalityType
<1>4. CountersOk'
  BY <1>3, SetFacts DEF CleanInv, CountersOk, TypeOK, RunDoc
<1>5. Closed => Owed' = Owed
  <2> SUFFICES ASSUME Closed, kind = "realtime", lost' # lost PROVE FALSE
    BY <1>1, SceneParts DEF Owed
  <2>1. PICK j \in lost' : j \notin lost
    OBVIOUS
  <2>2. j \in hook[1].todo /\ 1 \in 1..MaxDeliveries
    BY <2>1, ConstantsAssumption
  <2>3. j \in Owed
    BY <2>1, <2>2 DEF JobsOk, Owed
  <2>4. j \in counted
    BY <2>3 DEF CleanInv, ClosedOk
  <2> QED
    BY <2>2, <2>4 DEF CleanInv, Apart
<1>6. ClosedOk'
  BY <1>1, <1>5 DEF CleanInv, ClosedOk
<1>7. StatusOf(run)' = StatusOf(run)
  BY <1>1 DEF StatusOf
<1>8. ReadsOk'
  BY <1>1, <1>7 DEF CleanInv, ReadsOk
<1>9. Closed => FewMissing' = FewMissing
  BY <1>5 DEF FewMissing
<1>10. WritesOk'
  BY <1>1, <1>9 DEF CleanInv, WritesOk, Closed
<1> QED
  BY <1>4, <1>6, <1>8, <1>10

\* A realtime run expects one job per pair: what it expects is what it has to
\* do when the message is about one interval.
SingleInterval == \A s \in Scenes : s.kind = "realtime" => Cardinality(Intervals) = 1

LEMMA ExpectsAll ==
  ASSUME TypeOK, SingleInterval
  PROVE  ExpectedJobs = Cardinality(RunJobs)
<1>1. IsFiniteSet(scene.pairs) /\ IsFiniteSet(Intervals)
  BY SceneParts, ConstantsAssumption, FS_Subset
<1>2. Cardinality(RunJobs) = Cardinality(scene.pairs) * Cardinality(Intervals)
  BY <1>1, FS_Product DEF RunJobs
<1>3. kind = "realtime" => Cardinality(Intervals) = 1
  BY DEF TypeOK, SingleInterval, kind
<1>4. Cardinality(scene.pairs) \in Nat
  BY <1>1, FS_CardinalityType
<1> QED
  BY <1>2, <1>3, <1>4, SceneParts DEF ExpectedJobs

\* The handler's steps before it creates jobs.
LEMMA EarlyHook ==
  ASSUME TypeOK, JobsOk, CleanInv, Clean', NEW d \in 1..MaxDeliveries,
         \/ Deliver(d) \/ DeliverUnread(d) \/ MarkProcessing(d) \/ ResetFails(d)
         \/ HookEnds(d) \/ WriteLogged(d)
  PROVE  CleanInv'
<1> USE DEF HookAt, HookTo, HookUnchanged, Calm, NoFailure, Failure
<1>1. /\ UNCHANGED <<scene, run, heatmaps, work, job, counted, written, lost>>
      /\ broken \subseteq broken'
      /\ hook[d].pc \in {"idle", "mark", "reset", "jobs", "decrement"}
  BY DEF Deliver, DeliverUnread, Arrives, MarkProcessing, ResetFails, HookEnds,
         WriteLogged, Processed
<1>2. 1 \in 1..MaxDeliveries
      /\ hook \in [1..MaxDeliveries -> [pc : HookPC, todo : SUBSET Jobs]]
  BY ConstantsAssumption DEF TypeOK
<1>3. \A e \in 1..MaxDeliveries : e # d => hook'[e] = hook[e]
  BY <1>2 DEF Deliver, DeliverUnread, Arrives, MarkProcessing, ResetFails, HookEnds,
         WriteLogged, Processed
\* A second delivery is skipped: otherwise the run is not clean.
<1>4. CASE d # 1
  <2>1. hook[d].pc = "idle"
    BY <1>1, <1>4 DEF CleanInv, OneHandler
  <2>2. Deliver(d)
    BY <1>4, <2>1 DEF DeliverUnread, Processed, Clean, MarkProcessing, ResetFails, HookEnds,
       WriteLogged
  <2>3. event = "terminal" /\ kind = "realtime"
    BY <1>4, <2>2 DEF Deliver, Arrives, Processed, Clean
  <2>4. hook'[d].pc = "over" /\ hook'[1] = hook[1]
    BY <1>2, <1>3, <1>4, <2>2, <2>3 DEF Deliver
  <2>5. OneHandler' /\ Untouched' /\ Apart'
    BY <1>1, <1>3, <2>4 DEF CleanInv, OneHandler, Untouched, Apart, kind
  <2> QED
    BY <1>1, <2>4, <2>5, LosingHook DEF CleanInv, CountersOk, Owed, RunJobs, kind
<1>5. CASE d = 1
  <2>1. OneHandler'
    BY <1>3, <1>5 DEF CleanInv, OneHandler
  <2>2. /\ hook'[1].pc \in {"mark", "reset", "jobs", "over"}
        /\ hook'[1].pc \in {"mark", "reset"} => hook[1].pc \in {"idle", "mark"}
        /\ hook'[1].todo # hook[1].todo => hook[1].pc = "reset"
    <3>1. CASE Deliver(d)
      <4>1. \E pc \in {"reset", "over", "mark"} : hook' = [hook EXCEPT ![d].pc = pc]
        BY <3>1 DEF Deliver
      <4>2. hook[d].pc = "idle"
        BY <3>1 DEF Deliver, Arrives
      <4> QED
        BY <1>2, <1>5, <4>1, <4>2
    <3>2. CASE MarkProcessing(d)
      BY <1>2, <1>5, <3>2 DEF MarkProcessing
    <3>3. CASE ResetFails(d)
      BY <1>2, <1>5, <3>3 DEF ResetFails
    <3>4. CASE HookEnds(d)
      BY <1>2, <1>5, <3>4 DEF HookEnds
    <3>5. CASE DeliverUnread(d)
      BY <1>2, <1>5, <3>5 DEF DeliverUnread, Arrives
    <3>6. CASE WriteLogged(d)
      BY <1>2, <1>5, <3>6 DEF WriteLogged
    <3> QED
      BY <3>1, <3>2, <3>3, <3>4, <3>5, <3>6
  <2>3. Untouched'
    BY <1>1, <1>5, <2>2 DEF CleanInv, Untouched
  <2>4. hook[1].pc = "reset" => Apart'
    BY <1>1 DEF CleanInv, Untouched, Apart
  <2>5. hook[1].pc # "over"
    BY <1>1, <1>5
  <2>6. Apart'
    BY <1>1, <2>2, <2>4, <2>5 DEF CleanInv, Apart, kind
  <2> QED
    BY <1>1, <2>1, <2>2, <2>3, <2>6, LosingHook DEF CleanInv
<1> QED
  BY <1>4, <1>5

LEMMA ResetClean ==
  ASSUME TypeOK, JobsOk, CleanInv, SingleInterval, NEW d \in 1..MaxDeliveries, ResetRun(d)
  PROVE  CleanInv'
<1>1. 1 \in 1..MaxDeliveries /\ d = 1 /\ hook[1].pc = "reset"
      /\ hook \in [1..MaxDeliveries -> [pc : HookPC, todo : SUBSET Jobs]]
  BY ConstantsAssumption DEF ResetRun, HookAt, CleanInv, OneHandler, TypeOK
<1>2. /\ run.status = "absent" /\ run.writes = 0 /\ heatmaps = 0
      /\ counted = {} /\ written = {} /\ lost = {}
      /\ \A t \in Tasks : work[t].pc = "none"
  BY <1>1 DEF CleanInv, Untouched
<1>3. /\ UNCHANGED <<scene, heatmaps, work, written, lost>> /\ counted' = {}
      /\ run' = [run EXCEPT !.status = "IN_PROGRESS", !.expected = ExpectedJobs,
                            !.success = 0, !.failure = 0]
      /\ hook' = [hook EXCEPT ![d] = [pc |-> "jobs", todo |-> RunJobs]]
  BY DEF ResetRun, HookUnchanged
<1>4. /\ run'.status = "IN_PROGRESS" /\ run'.expected = Cardinality(RunJobs)
      /\ run'.success = 0 /\ run'.failure = 0 /\ run'.writes = 0
  BY <1>2, <1>3, ExpectsAll DEF TypeOK, RunDoc
<1>5. hook'[1].pc = "jobs" /\ \A e \in 1..MaxDeliveries : e # 1 => hook'[e] = hook[e]
  BY <1>1, <1>3
<1>6. OneHandler' /\ Untouched' /\ Apart'
  BY <1>2, <1>3, <1>5 DEF CleanInv, OneHandler, Untouched, Apart
<1>7. CountersOk'
  <2>1. Owed' = RunJobs /\ Cardinality({}) = 0 /\ Cardinality(RunJobs) \in Nat
    BY <1>2, <1>3, SetFacts, FS_EmptySet, FS_CardinalityType DEF Owed, RunJobs, kind
  <2> QED
    BY <1>3, <1>4, <1>5, <2>1 DEF CountersOk
<1>8. ~Closed'
  BY <1>2, <1>3, <1>4 DEF Closed, Final, FinalStatus, Late
<1>9. ClosedOk' /\ ReadsOk'
  BY <1>8 DEF ClosedOk, ReadsOk, Closed, Late
<1>10. WritesOk'
  BY <1>2, <1>3, <1>4, <1>8, FS_EmptySet DEF WritesOk, Closed, Late
<1> QED
  BY <1>6, <1>7, <1>9, <1>10 DEF CleanInv

LEMMA CreateClean ==
  ASSUME TypeOK, JobsOk, CleanInv, NEW d \in 1..MaxDeliveries, NEW j \in Jobs, CreateJob(d, j)
  PROVE  CleanInv'
<1>1. 1 \in 1..MaxDeliveries /\ d = 1 /\ hook[1].pc = "jobs" /\ j \in hook[1].todo
      /\ hook \in [1..MaxDeliveries -> [pc : HookPC, todo : SUBSET Jobs]]
      /\ work \in [Tasks -> WorkDoc]
  BY ConstantsAssumption DEF CreateJob, HookAt, CleanInv, OneHandler, TypeOK, WorkDoc
<1>2. /\ UNCHANGED <<scene, run, heatmaps, written, counted, broken>>
      /\ lost' = lost \ {j}
      /\ work' = [work EXCEPT ![<<1, j>>] = Fresh("queued", 0)]
      /\ hook' = [hook EXCEPT ![1].todo = @ \ {j}]
  BY <1>1 DEF CreateJob, Calm, NoFailure
<1>3. /\ hook'[1].pc = "jobs" /\ hook'[1].todo = hook[1].todo \ {j}
      /\ \A e \in 1..MaxDeliveries : e # 1 => hook'[e] = hook[e]
  BY <1>1, <1>2
<1>4. \A t \in Tasks : (work'[t].pc = "queued" /\ t = <<1, j>>) \/ work'[t] = work[t]
  BY <1>1, <1>2 DEF Fresh
<1>5. kind' = kind /\ RunJobs' = RunJobs /\ Final' = Final
  BY <1>2 DEF kind, RunJobs, Final
<1>6. kind = "realtime" => lost' = lost
  BY <1>1, <1>2 DEF CleanInv, Apart
<1>7. Owed' = Owed
  BY <1>5, <1>6, SceneParts DEF Owed
<1>8. OneHandler' /\ Untouched'
  BY <1>3 DEF CleanInv, OneHandler, Untouched
<1>9. Apart'
  <2> SUFFICES ASSUME kind = "realtime" PROVE Apart'
    BY <1>5 DEF Apart
  <2>1. hook'[1].todo \cap lost' = {}
    BY <1>1, <1>3, <1>6 DEF CleanInv, Apart
  <2>2. ASSUME NEW t \in Tasks, work'[t].pc # "none"
        PROVE  t[2] \notin lost' \cup hook'[1].todo
    <3>1. CASE t = <<1, j>>
      BY <1>2, <1>3, <3>1
    <3>2. CASE work'[t] = work[t]
      BY <1>3, <1>6, <2>2, <3>2 DEF CleanInv, Apart
    <3> QED
      BY <1>4, <3>1, <3>2
  <2>3. (counted' \cup written') \cap (lost' \cup hook'[1].todo) = {}
    BY <1>2, <1>3, <1>6 DEF CleanInv, Apart
  <2> QED
    BY <2>1, <2>2, <2>3 DEF Apart
<1>10. CountersOk'
  BY <1>2, <1>3, <1>7 DEF CleanInv, CountersOk
<1>11. \A t \in Tasks : work'[t].pc \in Late => work'[t] = work[t]
  BY <1>4 DEF Late
<1>12. ClosedOk'
  BY <1>2, <1>5, <1>7, <1>11 DEF CleanInv, ClosedOk, Closed
<1>13. StatusOf(run)' = StatusOf(run) /\ FewMissing' = FewMissing
  BY <1>2, <1>5, <1>7 DEF StatusOf, FewMissing
<1>14. ReadsOk'
  BY <1>2, <1>5, <1>11, <1>13 DEF CleanInv, ReadsOk, Late
<1>15. WritesOk'
  BY <1>2, <1>5, <1>11, <1>13 DEF CleanInv, WritesOk, Late
<1> QED
  BY <1>8, <1>9, <1>10, <1>12, <1>14, <1>15 DEF CleanInv

\* One job less is owed, and the decrement is still to come.
LEMMA CreateFailsClean ==
  ASSUME TypeOK, JobsOk, CleanInv, Clean', NEW d \in 1..MaxDeliveries, NEW j \in Jobs,
         CreateJobFails(d, j)
  PROVE  CleanInv'
<1>1. 1 \in 1..MaxDeliveries /\ d = 1 /\ hook[1].pc = "jobs" /\ j \in hook[1].todo
      /\ hook \in [1..MaxDeliveries -> [pc : HookPC, todo : SUBSET Jobs]]
  BY ConstantsAssumption DEF CreateJobFails, HookAt, CleanInv, OneHandler, TypeOK
<1>2. /\ UNCHANGED <<scene, run, heatmaps, work, written, counted, broken>>
      /\ lost' = lost \cup (IF kind = "backfill" THEN hook[1].todo ELSE {j})
      /\ hook' = [hook EXCEPT ![1] = IF kind = "backfill" THEN [pc |-> "over", todo |-> {}]
                                     ELSE [pc |-> "decrement", todo |-> @.todo \ {j}]]
  BY <1>1 DEF CreateJobFails, Clean
<1>3. /\ kind = "backfill" => hook'[1].pc = "over"
      /\ kind # "backfill" => hook'[1].pc = "decrement" /\ hook'[1].todo = hook[1].todo \ {j}
      /\ \A e \in 1..MaxDeliveries : e # 1 => hook'[e] = hook[e]
  BY <1>1, <1>2
<1>4. kind' = kind /\ RunJobs' = RunJobs
  BY <1>2 DEF kind, RunJobs
<1>5. OneHandler' /\ Untouched'
  BY <1>3 DEF CleanInv, OneHandler, Untouched
<1>6. Apart'
  <2> SUFFICES ASSUME kind = "realtime" PROVE Apart'
    BY <1>4 DEF Apart
  <2>1. lost' \cup hook'[1].todo = lost \cup hook[1].todo
    BY <1>1, <1>2, <1>3
  <2>2. hook'[1].todo \cap lost' = {}
    BY <1>1, <1>2, <1>3 DEF CleanInv, Apart
  <2> QED
    BY <1>2, <2>1, <2>2 DEF CleanInv, Apart
<1>7. ASSUME run.status # "absent", hook'[1].pc = "decrement"
      PROVE  run.expected > Cardinality(Owed')
  <2>1. kind = "realtime" /\ lost' = lost \cup {j}
    BY <1>2, <1>3, <1>7, SceneParts
  <2>2. j \in Owed
    BY <1>1, <2>1 DEF JobsOk, CleanInv, Apart, Owed
  <2>3. Owed' = Owed \ {j}
    BY <1>4, <2>1 DEF Owed
  <2>4. Cardinality(Owed') = Cardinality(Owed) - 1
    BY <2>2, <2>3, SetFacts, FS_RemoveElement
  <2>5. run.expected >= Cardinality(Owed) /\ run.expected \in Int
    BY <1>7 DEF CleanInv, CountersOk, TypeOK, RunDoc
  <2> QED
    BY <2>4, <2>5, SetFacts
<1> QED
  BY <1>1, <1>2, <1>5, <1>6, <1>7, LosingHook DEF CleanInv

LEMMA DecrementClean ==
  ASSUME TypeOK, JobsOk, CleanInv, NEW d \in 1..MaxDeliveries, DecrementExpected(d)
  PROVE  CleanInv'
<1>1. 1 \in 1..MaxDeliveries /\ d = 1 /\ hook[1].pc = "decrement"
      /\ hook \in [1..MaxDeliveries -> [pc : HookPC, todo : SUBSET Jobs]]
  BY ConstantsAssumption DEF DecrementExpected, HookAt, CleanInv, OneHandler, TypeOK
<1>2. /\ UNCHANGED <<scene, heatmaps, work, written, counted, lost, broken>>
      /\ run' = (IF run.status = "absent" THEN run ELSE [run EXCEPT !.expected = @ - 1])
      /\ hook' = [hook EXCEPT ![1].pc = "jobs"]
  BY <1>1 DEF DecrementExpected, HookTo, HookUnchanged, Calm, NoFailure
<1>3. /\ hook'[1].pc = "jobs" /\ hook'[1].todo = hook[1].todo
      /\ \A e \in 1..MaxDeliveries : e # 1 => hook'[e] = hook[e]
  BY <1>1, <1>2
<1>4. /\ run'.status = run.status /\ run'.writes = run.writes
      /\ run'.success = run.success /\ run'.failure = run.failure
      /\ run.status # "absent" => run'.expected = run.expected - 1
  BY <1>2 DEF TypeOK, RunDoc
<1>5. kind' = kind /\ Owed' = Owed /\ Final' = Final
  BY <1>2, <1>4 DEF kind, Owed, RunJobs, Final
<1>6. OneHandler' /\ Untouched' /\ Apart'
  BY <1>1, <1>2, <1>3, <1>5 DEF CleanInv, OneHandler, Untouched, Apart
<1>7. CountersOk'
  <2> SUFFICES ASSUME run.status # "absent" PROVE CountersOk'
    BY <1>4 DEF CountersOk
  <2>1. run.expected > Cardinality(Owed) /\ run.expected \in Int
    BY <1>1 DEF CleanInv, CountersOk, TypeOK, RunDoc
  <2>2. run'.expected >= Cardinality(Owed')
    BY <1>4, <1>5, <2>1, SetFacts
  <2> QED
    BY <1>2, <1>3, <1>4, <2>2 DEF CleanInv, CountersOk
<1>8. Closed' = Closed
  BY <1>2, <1>5 DEF Closed
<1>9. StatusOf(run)' = StatusOf(run) /\ FewMissing' = FewMissing
  BY <1>2, <1>4, <1>5 DEF StatusOf, FewMissing
<1>10. ClosedOk' /\ ReadsOk'
  BY <1>2, <1>4, <1>5, <1>8, <1>9 DEF CleanInv, ClosedOk, ReadsOk
<1>11. WritesOk'
  BY <1>2, <1>4, <1>5, <1>9 DEF CleanInv, WritesOk
<1> QED
  BY <1>6, <1>7, <1>10, <1>11 DEF CleanInv

LEMMA DiesClean ==
  ASSUME TypeOK, JobsOk, CleanInv, NEW d \in 1..MaxDeliveries, HookDies(d)
  PROVE  CleanInv'
<1>1. 1 \in 1..MaxDeliveries /\ d = 1 /\ hook[1].pc # "over"
      /\ hook \in [1..MaxDeliveries -> [pc : HookPC, todo : SUBSET Jobs]]
  BY ConstantsAssumption DEF HookDies, CleanInv, OneHandler, TypeOK
<1>2. /\ UNCHANGED <<scene, run, heatmaps, work, written, counted>>
      /\ broken' = broken \cup {"handler"} /\ lost' = lost \cup hook[1].todo
      /\ hook' = [hook EXCEPT ![1].pc = "over"]
  BY <1>1 DEF HookDies, HookTo, HookUnchanged
<1>3. /\ hook'[1].pc = "over" /\ hook'[1].todo = hook[1].todo
      /\ \A e \in 1..MaxDeliveries : e # 1 => hook'[e] = hook[e]
  BY <1>1, <1>2
<1>4. OneHandler' /\ Untouched' /\ Apart'
  BY <1>2, <1>3 DEF CleanInv, OneHandler, Untouched, Apart, kind
<1> QED
  BY <1>1, <1>2, <1>3, <1>4, LosingHook DEF CleanInv

LEMMA HookClean ==
  ASSUME TypeOK, JobsOk, Clean => CleanInv, SingleInterval,
         NEW d \in 1..MaxDeliveries, HookAction(d), Clean'
  PROVE  CleanInv'
<1>1. broken \subseteq broken'
  BY DEF HookAction, HookSteps, Deliver, DeliverUnread, Processed, WriteLogged, MarkProcessing, ResetRun, ResetFails, CreateJob,
         CreateJobFails, DecrementExpected, HookEnds, HookDies, Calm
<1>2. CleanInv
  BY <1>1 DEF Clean
<1> QED
  BY <1>2, EarlyHook, ResetClean, CreateClean, CreateFailsClean, DecrementClean, DiesClean
     DEF HookAction, HookSteps

-----------------------------------------------------------------------------
(***************************************************************************)
(* The theorems.                                                           *)
(***************************************************************************)
LEMMA TypesStep == TypeOK /\ JobsOk /\ [Next]_vars => TypeOK' /\ JobsOk'
<1> SUFFICES ASSUME TypeOK, JobsOk, [Next]_vars PROVE TypeOK' /\ JobsOk'
  OBVIOUS
<1>1. CASE UNCHANGED vars
  BY <1>1 DEF vars, TypeOK, JobsOk, RunJobs, kind
<1>2. ASSUME NEW d \in 1..MaxDeliveries, HookAction(d) PROVE TypeOK' /\ JobsOk'
  BY <1>2, HookTypes, HookJobs
<1>3. ASSUME NEW j \in Jobs, DrainStarts(j) PROVE TypeOK' /\ JobsOk'
  BY <1>3, DrainTypes, DrainJobs
<1>4. ASSUME NEW t \in Tasks, TaskAction(t) PROVE TypeOK' /\ JobsOk'
  BY <1>4, TaskTypes, TaskJobs
<1> QED
  BY <1>1, <1>2, <1>3, <1>4 DEF Next, HookAction, TaskAction

\* Every variable keeps its shape.
THEOREM TypeCorrect == Spec => []TypeOK
<1>1. Init => TypeOK /\ JobsOk
  BY InitType, InitJobs
<1> QED
  BY <1>1, TypesStep, PTL DEF Spec

LEMMA InvStep == ASSUME SingleInterval PROVE RunInv /\ [Next]_vars => RunInv'
<1> SUFFICES ASSUME RunInv, [Next]_vars PROVE RunInv'
  OBVIOUS
<1>1. TypeOK /\ JobsOk /\ (Clean => CleanInv) /\ TypeOK' /\ JobsOk'
  BY TypesStep DEF RunInv
<1> SUFFICES ASSUME Clean' PROVE CleanInv'
  BY <1>1 DEF RunInv
<1>2. CASE UNCHANGED vars
  <2>1. CleanInv
    BY <1>1, <1>2 DEF vars, Clean
  <2> QED
    BY <1>2, <2>1 DEF vars, CleanInv, OneHandler, Untouched, Apart, CountersOk, ClosedOk,
       Closed, Final, ReadsOk, StatusOf, WritesOk, FewMissing, Owed, RunJobs, kind
<1>3. ASSUME NEW d \in 1..MaxDeliveries, HookAction(d) PROVE CleanInv'
  BY <1>1, <1>3, HookClean
<1>4. ASSUME NEW j \in Jobs, DrainStarts(j) PROVE CleanInv'
  BY <1>1, <1>4, DrainClean
<1>5. ASSUME NEW t \in Tasks, TaskAction(t) PROVE CleanInv'
  BY <1>1, <1>5, TaskClean
<1> QED
  BY <1>2, <1>3, <1>4, <1>5 DEF Next, HookAction, TaskAction

THEOREM RunInvariant == ASSUME SingleInterval PROVE Spec => []RunInv
<1>1. Init => RunInv
  BY InitType, InitJobs, InitClean DEF RunInv
<1> QED
  BY <1>1, InvStep, PTL DEF Spec

\* A closed run has finished each of its jobs, however its tasks and its handler
\* interleave or fail, unless a job was counted twice or the message redelivered.
THEOREM ClosedRunsAreFinished == ASSUME SingleInterval PROVE Spec => []FinalMeansFinished
<1>1. RunInv => FinalMeansFinished
  BY DEF RunInv, CleanInv, ClosedOk, Closed, Clean, Owed, FinalMeansFinished
<1> QED
  BY <1>1, RunInvariant, PTL

\* The status a finisher writes from its earlier read is the one the counters
\* beside it call for.
THEOREM StatusIsHonest == ASSUME SingleInterval PROVE Spec => []FinalStatusHonest
<1>1. RunInv => FinalStatusHonest
  <2> SUFFICES ASSUME RunInv, Clean, kind = "realtime", Final
               PROVE  /\ run.status = "COMPLETE" => run.failure = 0
                      /\ run.status = "PARTIAL" => run.failure > 0 /\ run.success > 0
                      /\ run.status = "FAILED" => run.success = 0
    BY DEF FinalStatusHonest, Clean, Final, FinalStatus
  <2>1. run.status = StatusOf(run) /\ run.success \in Nat /\ run.failure \in Nat
    BY DEF RunInv, CleanInv, ReadsOk, TypeOK, RunDoc
  <2>2. /\ run.failure = 0 => StatusOf(run) = "COMPLETE"
        /\ run.failure # 0 /\ run.success > 0 => StatusOf(run) = "PARTIAL"
        /\ run.failure # 0 /\ ~(run.success > 0) => StatusOf(run) = "FAILED"
    BY DEF StatusOf
  <2> QED
    BY <2>1, <2>2
<1> QED
  BY <1>1, RunInvariant, PTL

\* When a heatmap is computed, at most two in a hundred of the enqueued jobs have
\* not written their archive.
THEOREM HeatmapsFollowWrites == ASSUME SingleInterval PROVE Spec => []HeatmapAfterWrites
<1>1. RunInv => HeatmapAfterWrites
  <2> SUFFICES ASSUME RunInv, Clean, "rewrite" \notin broken, heatmaps > 0
               PROVE  50 * Cardinality((RunJobs \ lost) \ written) <= Cardinality(RunJobs \ lost)
    BY DEF HeatmapAfterWrites, Clean
  <2>1. kind = "realtime"
    BY SceneParts DEF RunInv, JobsOk
  <2> QED
    BY <2>1 DEF RunInv, CleanInv, WritesOk, FewMissing, Owed
<1> QED
  BY <1>1, RunInvariant, PTL
=============================================================================
