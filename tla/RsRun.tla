-------------------------------- MODULE RsRun --------------------------------
(***************************************************************************)
(* A relative-strength run: the partner's data-ready message (or the       *)
(* backfill request) writes a run document with the number of jobs it      *)
(* expects, creates and enqueues a job per pair and interval, and each     *)
(* processRsJob task computes its series, writes the archive, counts       *)
(* itself on the run and, when the counters are full, closes the run,      *)
(* mirrors it to the partner event and triggers the heatmaps.              *)
(*                                                                         *)
(* Nothing identifies the job behind an increment: a retried task, a       *)
(* redelivered message and the backfill drain all count again.             *)
(***************************************************************************)
EXTENDS Integers, FiniteSets

CONSTANTS
  Pairs, Intervals, \* a job is a pair at an interval
  MaxDeliveries,    \* deliveries of the data-ready message
  Scenes,           \* the situations to start from, see Scene
  MaxAttempts,      \* retryConfig.maxAttempts of processRsJobTask
  MaxFaults         \* bound on the failures, redeliveries and drain calls

\* Realtime or backfill; the pairs selected (none, when a retry message includes
\* no symbols or only unknown ones); the deliveries that may happen; does the
\* mirror address the event the message was recorded under?
Scene == [kind : {"realtime", "backfill"}, pairs : SUBSET Pairs,
          deliveries : 1..MaxDeliveries, sameId : BOOLEAN]

ASSUME ConstantsAssumption ==
  /\ IsFiniteSet(Pairs) /\ IsFiniteSet(Intervals)
  /\ Scenes \subseteq Scene
  /\ MaxDeliveries \in Nat \ {0} /\ MaxAttempts \in Nat \ {0} /\ MaxFaults \in Nat

Jobs == Pairs \X Intervals
Drain == 0
Executors == {Drain} \cup (1..MaxDeliveries)
\* A task of the queue, or the drain's direct call, for a job.
Tasks == Executors \X Jobs
FinalStatus == {"COMPLETE", "PARTIAL", "FAILED"}
FinishedJob == {"SUCCESS", "PERMANENT_FAILURE"}

VARIABLES
  scene,    \* the situation started from
  run,      \* the run document
  event,    \* the status of the partner event
  job,      \* the job documents
  hook,     \* the message handlers (the first is the backfill request)
  work,     \* the tasks
  heatmaps, \* heatmap triggers
  written,  \* jobs whose archive was written
  counted,  \* jobs counted since the run document was last reset
  lost,     \* jobs that no task was enqueued for
  broken,   \* which repetitions and losses have happened, see Breaks
  faults

docs == <<run, event, job, heatmaps, written, counted>>
vars == <<scene, run, event, job, hook, work, heatmaps, written, counted, lost,
          broken, faults>>

kind == scene.kind
\* The jobs of the run.
RunJobs == scene.pairs \X Intervals

RunDoc == [status : {"absent", "IN_PROGRESS"} \cup FinalStatus,
           expected : Int, success : Nat, failure : Nat, writes : Nat]
HookPC == {"idle", "mark", "reset", "jobs", "decrement", "over"}
WorkPC == {"none", "queued", "compute", "mark", "count", "check",
           "finalize", "mirror", "heatmap", "done"}

\* A message processed again; a job counted or written again; an enqueue that
\* reported an error although the task is there; a killed handler; a task whose
\* attempts are used up; an event that was not written.
Breaks == {"redelivery", "recount", "rewrite", "ghost", "handler", "exhausted", "mirror"}

TypeOK ==
  /\ scene \in Scenes
  /\ run \in RunDoc
  /\ event \in {"absent", "processing", "terminal"}
  /\ job \in [Jobs -> {"absent", "PENDING", "IN_PROGRESS"} \cup FinishedJob]
  /\ hook \in [1..MaxDeliveries -> [pc : HookPC, todo : SUBSET Jobs]]
  /\ work \in [Tasks -> [pc : WorkPC, attempt : 0..MaxAttempts, outcome : FinishedJob,
                         status : FinalStatus, gate : BOOLEAN]]
  /\ heatmaps \in Nat
  /\ written \subseteq Jobs /\ counted \subseteq Jobs /\ lost \subseteq Jobs
  /\ broken \subseteq Breaks
  /\ faults \in 0..MaxFaults

Fresh(pc, n) == [pc |-> pc, attempt |-> n, outcome |-> "SUCCESS", status |-> "COMPLETE",
                 gate |-> FALSE]

Init ==
  /\ scene \in Scenes
  /\ run = [status |-> "absent", expected |-> 0, success |-> 0, failure |-> 0, writes |-> 0]
  /\ event = "absent"
  /\ job = [j \in Jobs |-> "absent"]
  /\ hook = [d \in 1..MaxDeliveries |-> [pc |-> "idle", todo |-> {}]]
  /\ work = [t \in Tasks |-> Fresh("none", 0)]
  /\ heatmaps = 0
  /\ written = {} /\ counted = {} /\ lost = {} /\ broken = {}
  /\ faults = 0

Failure == faults < MaxFaults /\ faults' = faults + 1
NoFailure == UNCHANGED faults
Calm == NoFailure /\ UNCHANGED broken

-----------------------------------------------------------------------------
(***************************************************************************)
(* processDataReadyRunV2 and recomputeRsBackfillAdmin: the producers.      *)
(***************************************************************************)
HookAt(d, pc) == hook[d].pc = pc
HookTo(d, pc) == hook' = [hook EXCEPT ![d].pc = pc]
HookUnchanged == UNCHANGED <<scene, work, heatmaps, written>>

\* The backfill request has no event and comes once.
Arrives(d) ==
  /\ HookAt(d, "idle") /\ d <= scene.deliveries
  /\ d > 1 => kind = "realtime" /\ hook[d - 1].pc # "idle"
Processed(d) == broken' = IF d > 1 THEN broken \cup {"redelivery"} ELSE broken

\* A message whose event is terminal is skipped.
Deliver(d) ==
  /\ Arrives(d)
  /\ IF d > 1 THEN Failure ELSE NoFailure
  /\ IF kind = "realtime" /\ event = "terminal"
     THEN HookTo(d, "over") /\ UNCHANGED broken
     ELSE HookTo(d, IF kind = "backfill" THEN "reset" ELSE "mark") /\ Processed(d)
  /\ UNCHANGED <<run, event, job, counted, lost>> /\ HookUnchanged

\* The event cannot be read: logged, and the message is processed.
DeliverUnread(d) ==
  /\ Arrives(d) /\ kind = "realtime"
  /\ Failure
  /\ HookTo(d, "mark") /\ Processed(d)
  /\ UNCHANGED <<run, event, job, counted, lost>> /\ HookUnchanged

MarkProcessing(d) ==
  /\ HookAt(d, "mark")
  /\ event' = "processing"
  /\ HookTo(d, "reset")
  /\ UNCHANGED <<run, job, counted, lost>> /\ Calm /\ HookUnchanged

\* Marking the event, or expecting one job less, fails: logged as well.
WriteLogged(d) ==
  /\ HookAt(d, "mark") \/ HookAt(d, "decrement")
  /\ Failure
  /\ HookTo(d, IF HookAt(d, "mark") THEN "reset" ELSE "jobs")
  /\ UNCHANGED <<run, event, job, counted, lost, broken>> /\ HookUnchanged

\* The intervals of one message share the run document: each of them sets
\* expectedJobs to the number of pairs.
ExpectedJobs == IF kind = "backfill" THEN Cardinality(RunJobs) ELSE Cardinality(scene.pairs)

\* A merge that leaves archiveWritesComplete alone.
ResetRun(d) ==
  /\ HookAt(d, "reset")
  /\ run' = [run EXCEPT !.status = "IN_PROGRESS", !.expected = ExpectedJobs,
                        !.success = 0, !.failure = 0]
  /\ counted' = {}
  /\ hook' = [hook EXCEPT ![d] = [pc |-> "jobs", todo |-> RunJobs]]
  /\ UNCHANGED <<event, job, lost>> /\ Calm /\ HookUnchanged

\* A failed run document is only logged; the backfill request gives up.
ResetFails(d) ==
  /\ HookAt(d, "reset")
  /\ Failure
  /\ hook' = [hook EXCEPT ![d] = IF kind = "backfill" THEN [pc |-> "over", todo |-> {}]
                                 ELSE [pc |-> "jobs", todo |-> RunJobs]]
  /\ UNCHANGED <<run, event, job, counted, lost, broken>> /\ HookUnchanged

\* The job document goes back to PENDING and a task is enqueued.
CreateJob(d, j) ==
  /\ HookAt(d, "jobs") /\ j \in hook[d].todo
  /\ job' = [job EXCEPT ![j] = "PENDING"]
  /\ work' = [work EXCEPT ![<<d, j>>] = Fresh("queued", 0)]
  /\ lost' = lost \ {j}
  /\ hook' = [hook EXCEPT ![d].todo = @ \ {j}]
  /\ UNCHANGED <<scene, run, event, heatmaps, written, counted>> /\ Calm

\* The document or the enqueue fails: one job less is expected, but nobody
\* looks at the counters again.  The backfill request stops here.
CreateJobFails(d, j) ==
  /\ HookAt(d, "jobs") /\ j \in hook[d].todo
  /\ Failure
  /\ lost' = lost \cup IF kind = "backfill" THEN hook[d].todo ELSE {j}
  /\ hook' = [hook EXCEPT ![d] =
               IF kind = "backfill" THEN [pc |-> "over", todo |-> {}]
               ELSE [pc |-> "decrement", todo |-> @.todo \ {j}]]
  /\ \/ job' \in {job, [job EXCEPT ![j] = "PENDING"]} /\ UNCHANGED <<work, broken>>
     \/ \* Only the answer of the enqueue was lost.
        /\ job' = [job EXCEPT ![j] = "PENDING"]
        /\ work' = [work EXCEPT ![<<d, j>>] = Fresh("queued", 0)]
        /\ broken' = broken \cup {"ghost"}
  /\ UNCHANGED <<scene, run, event, heatmaps, written, counted>>

DecrementExpected(d) ==
  /\ HookAt(d, "decrement")
  /\ run' = IF run.status = "absent" THEN run ELSE [run EXCEPT !.expected = @ - 1]
  /\ HookTo(d, "jobs")
  /\ UNCHANGED <<event, job, counted, lost>> /\ Calm /\ HookUnchanged

HookEnds(d) ==
  /\ HookAt(d, "jobs") /\ hook[d].todo = {}
  /\ HookTo(d, "over")
  /\ UNCHANGED <<run, event, job, counted, lost>> /\ Calm /\ HookUnchanged

\* The handler is killed.  Nothing redelivers its message by itself.
HookDies(d) ==
  /\ hook[d].pc \notin {"idle", "over"}
  /\ Failure
  /\ broken' = broken \cup {"handler"}
  /\ lost' = lost \cup hook[d].todo
  /\ HookTo(d, "over")
  /\ UNCHANGED <<run, event, job, counted>> /\ HookUnchanged

-----------------------------------------------------------------------------
(***************************************************************************)
(* processRsJobInternal.                                                   *)
(***************************************************************************)
At(t, pc) == work[t].pc = pc
To(t, pc) == work' = [work EXCEPT ![t].pc = pc]
Ends(t) == work' = [work EXCEPT ![t] = Fresh("done", 0)]
JobOf(t) == t[2]
TaskUnchanged == UNCHANGED <<scene, hook, lost>>

\* The drain lists the PENDING jobs of a backfill run and works them itself.
DrainStarts(j) ==
  /\ kind = "backfill" /\ job[j] = "PENDING"
  /\ At(<<Drain, j>>, "none")
  /\ Failure
  /\ work' = [work EXCEPT ![<<Drain, j>>] = Fresh("queued", MaxAttempts - 1)]
  /\ UNCHANGED <<docs, broken>> /\ TaskUnchanged

StartJob(t) ==
  /\ At(t, "queued")
  /\ job' = [job EXCEPT ![JobOf(t)] = "IN_PROGRESS"]
  /\ To(t, "compute")
  /\ UNCHANGED <<run, event, heatmaps, written, counted>> /\ Calm /\ TaskUnchanged

\* The series is written to the archive and a realtime job counts the write on
\* the run: updating a run that does not exist throws, and the job fails.
WriteSeries(t) ==
  /\ At(t, "compute")
  /\ written' = written \cup {JobOf(t)}
  /\ broken' = IF JobOf(t) \in written THEN broken \cup {"rewrite"} ELSE broken
  /\ run' = IF kind = "backfill" \/ run.status = "absent" THEN run
            ELSE [run EXCEPT !.writes = @ + 1]
  /\ work' = [work EXCEPT ![t].pc = "mark",
       ![t].outcome = IF kind = "realtime" /\ run.status = "absent"
                      THEN "PERMANENT_FAILURE" ELSE "SUCCESS"]
  /\ UNCHANGED <<event, job, heatmaps, counted, faults>> /\ TaskUnchanged

\* An empty series is a success that writes nothing.
NoSeries(t) ==
  /\ At(t, "compute")
  /\ To(t, "mark")
  /\ UNCHANGED docs /\ Calm /\ TaskUnchanged

ComputeFails(t) ==
  /\ At(t, "compute")
  /\ Failure
  /\ work' = [work EXCEPT ![t].pc = "mark", ![t].outcome = "PERMANENT_FAILURE"]
  /\ UNCHANGED <<docs, broken>> /\ TaskUnchanged

MarkJob(t) ==
  /\ At(t, "mark")
  /\ job' = [job EXCEPT ![JobOf(t)] = work[t].outcome]
  /\ To(t, "count")
  /\ UNCHANGED <<run, event, heatmaps, written, counted>> /\ Calm /\ TaskUnchanged

\* Mutant: a failed job is not counted.
SuccessesOnly(outcome) ==
  [run EXCEPT !.success = @ + IF outcome = "SUCCESS" THEN 1 ELSE 0]
CountedOn(outcome) ==
  [run EXCEPT !.success = @ + IF outcome = "SUCCESS" THEN 1 ELSE 0,
              !.failure = @ + IF outcome = "SUCCESS" THEN 0 ELSE 1]

\* The transaction increments what the run holds now.
CountJob(t) ==
  /\ At(t, "count")
  /\ run' = IF run.status = "absent" THEN run ELSE CountedOn(work[t].outcome)
  /\ counted' = counted \cup {JobOf(t)}
  /\ broken' = IF JobOf(t) \in counted THEN broken \cup {"recount"} ELSE broken
  /\ work' = [work EXCEPT ![t].pc = "check", ![t].outcome = "SUCCESS"]
  /\ UNCHANGED <<event, job, heatmaps, written, faults>> /\ TaskUnchanged

\* Mutant: any success makes the run complete.
AnySuccess(r) == IF r.success > 0 THEN "COMPLETE" ELSE "FAILED"
StatusOf(r) ==
  IF kind = "backfill" \/ r.failure = 0 THEN "COMPLETE"
  ELSE IF r.success > 0 THEN "PARTIAL" ELSE "FAILED"

\* Mutant: the run is closed one job early.
AlmostFull == run.success + run.failure >= run.expected - 1
Full == run.success + run.failure >= run.expected

\* Mutant: the heatmaps need successful jobs, not written archives.
Successful(r) == r.success >= r.expected
\* At least 98% of the expected archives.
EnoughWrites(r) == r.expected > 0 /\ 100 * r.writes >= 98 * r.expected

\* A second read, outside the transaction: what it says is used in the steps
\* that follow.
CheckRun(t) ==
  /\ At(t, "check")
  /\ IF Full /\ run.status \in {"IN_PROGRESS"} \cup
               IF kind = "backfill" THEN FinalStatus \ {"COMPLETE"} ELSE {}
       THEN work' = [work EXCEPT ![t].pc = "finalize", ![t].status = StatusOf(run),
                                 ![t].gate = EnoughWrites(run)]
       ELSE Ends(t)
  /\ UNCHANGED docs /\ Calm /\ TaskUnchanged

FinalizeRun(t) ==
  /\ At(t, "finalize")
  /\ run' = [run EXCEPT !.status = work[t].status]
  /\ IF kind = "realtime" THEN To(t, "mirror") ELSE Ends(t)
  /\ UNCHANGED <<event, job, heatmaps, written, counted>> /\ Calm /\ TaskUnchanged

AfterMirror(t) ==
  IF work[t].status # "FAILED" /\ work[t].gate THEN To(t, "heatmap") ELSE Ends(t)

\* The mirror addresses the event by the upper-case run id.
MirrorEvent(t) ==
  /\ At(t, "mirror")
  /\ event' = IF scene.sameId THEN "terminal" ELSE event
  /\ AfterMirror(t)
  /\ UNCHANGED <<run, job, heatmaps, written, counted>> /\ Calm /\ TaskUnchanged

MirrorFails(t) ==
  /\ At(t, "mirror")
  /\ Failure
  /\ broken' = broken \cup {"mirror"}
  /\ AfterMirror(t)
  /\ UNCHANGED docs /\ TaskUnchanged

TriggerHeatmaps(t) ==
  /\ At(t, "heatmap")
  /\ heatmaps' = heatmaps + 1
  /\ Ends(t)
  /\ UNCHANGED <<run, event, job, written, counted>> /\ Calm /\ TaskUnchanged

\* The task dies or one of its writes throws: the queue retries it from the
\* start until its attempts are used up.  The drain does not.
TaskDies(t) ==
  /\ work[t].pc \notin {"none", "queued", "done"}
  /\ Failure
  /\ IF work[t].attempt + 1 < MaxAttempts
     THEN work' = [work EXCEPT ![t] = Fresh("queued", @.attempt + 1)]
     ELSE Ends(t)
  /\ broken' = broken \cup (IF At(t, "mirror") THEN {"mirror"} ELSE {})
                     \cup (IF work[t].attempt + 1 >= MaxAttempts /\ t[1] # Drain
                           THEN {"exhausted"} ELSE {})
  /\ UNCHANGED docs /\ TaskUnchanged

-----------------------------------------------------------------------------
HookSteps(d) ==
  \/ Deliver(d) \/ MarkProcessing(d) \/ ResetRun(d) \/ DecrementExpected(d) \/ HookEnds(d)
  \/ \E j \in Jobs : CreateJob(d, j)

TaskSteps(t) ==
  \/ StartJob(t) \/ WriteSeries(t) \/ NoSeries(t) \/ MarkJob(t)
  \/ CountJob(t) \/ CheckRun(t) \/ FinalizeRun(t) \/ MirrorEvent(t) \/ TriggerHeatmaps(t)

Next ==
  \/ \E d \in 1..MaxDeliveries :
       \/ HookSteps(d) \/ DeliverUnread(d) \/ WriteLogged(d) \/ ResetFails(d) \/ HookDies(d)
       \/ \E j \in Jobs : CreateJobFails(d, j)
  \/ \E j \in Jobs : DrainStarts(j)
  \/ \E t \in Tasks : TaskSteps(t) \/ ComputeFails(t) \/ MirrorFails(t) \/ TaskDies(t)

Spec == Init /\ [][Next]_vars

\* A handler that started and an enqueued task are run; a second delivery and
\* the drain need not happen.  Each of them takes boundedly many steps, so that
\* fairness of all of them together is enough.
FairSpec ==
  /\ Spec
  /\ WF_vars(\/ \E d \in 1..MaxDeliveries : hook[d].pc # "idle" /\ HookSteps(d)
             \/ \E t \in Tasks : TaskSteps(t))

-----------------------------------------------------------------------------
(***************************************************************************)
(* Properties.                                                             *)
(***************************************************************************)
Final == run.status \in FinalStatus

\* Nothing was counted twice or unexpectedly.
Clean == broken \cap {"redelivery", "recount", "ghost"} = {}

\* A closed run has finished each of its jobs, however its tasks, the expectation
\* that a failed creation lowers and the last finishers interleave, unless a job
\* was counted twice, the message was processed twice or a task runs although
\* its enqueue was reported as failed.
FinalMeansFinished == Final /\ Clean => RunJobs \ lost \subseteq counted

\* The status, written from an earlier read by whichever finishers saw the
\* counters full, agrees with the counters it is shown beside.
FinalStatusHonest ==
  kind = "realtime" /\ Clean =>
    /\ run.status = "COMPLETE" => run.failure = 0
    /\ run.status = "PARTIAL" => run.failure > 0 /\ run.success > 0
    /\ run.status = "FAILED" => run.success = 0

\* Heatmaps are computed from complete archives: of the jobs that were enqueued
\* at most two in a hundred have not written their series, and no small run misses
\* one, unless a retry, a redelivery or an unexpected task counted writes twice.
HeatmapAfterWrites ==
  heatmaps > 0 /\ Clean /\ "rewrite" \notin broken =>
    50 * Cardinality((RunJobs \ lost) \ written) <= Cardinality(RunJobs \ lost)

\* A crash or a retry anywhere, a redelivery and racing finishers never leave a
\* run open or its event processing.  What does: a message that selects no pair
\* (nobody checks a run without jobs), a job that was not enqueued, a killed
\* handler, a task whose attempts were used up, a lost mirror; and the event of a
\* run id with lower-case letters stays open when its run closes.
RunFinishes ==
  run.status = "IN_PROGRESS" ~>
    \/ Final /\ (kind = "realtime" /\ scene.sameId => event = "terminal")
    \/ RunJobs = {}
    \/ lost # {}
    \/ broken \cap {"handler", "exhausted", "mirror"} # {}

\* Stronger claims of the comments, which the code does not keep: a job that could
\* not be enqueued does not keep the run open; the event closes with the run; a
\* heatmap is never computed before the archives are written.
LostJobDoesNotBlock ==
  run.status = "IN_PROGRESS" ~> Final \/ "handler" \in broken \/ RunJobs = {}
EventFollowsRun == Final ~> event = "terminal" \/ broken # {} \/ kind = "backfill"
HeatmapsAreComplete == heatmaps > 0 => RunJobs \ lost \subseteq written
=============================================================================
