-------------------------------- MODULE StRun --------------------------------
(***************************************************************************)
(* A Savant Trader (ST) scan: a dispatch creates a daily run, creates one  *)
(* job per symbol and enqueues it; each stProcessSymbol task works its     *)
(* symbol, counts it on the run, and the task that finds the counters full *)
(* claims the completion and enqueues the auto-paper ingest.               *)
(*                                                                         *)
(* The run is counter based: the increments carry no identity of the job   *)
(* they stand for, so a task that runs twice counts twice.  A retried      *)
(* dispatch starts another run; the runs share only the status document.   *)
(***************************************************************************)
EXTENDS Integers, FiniteSets

CONSTANTS
  Symbols,     \* the enabled symbols
  MaxStarts,   \* retryConfig.maxAttempts of sdsConsumerDispatch
  MaxAttempts, \* retryConfig.maxAttempts of stProcessSymbol
  Faults       \* which kinds of failure may happen

FaultKinds == {"jobEnqueue", "starterCrash", "work", "progressWrite",
               "crashBeforeCount", "crashAfterCount", "transaction", "ingestEnqueue"}

ASSUME SymbolsAssumption == IsFiniteSet(Symbols) /\ Symbols # {}
ASSUME AttemptsAssumption == MaxStarts \in Nat \ {0} /\ MaxAttempts \in Nat \ {0}
ASSUME FaultsAssumption == Faults \subseteq FaultKinds

Runs == 1..MaxStarts
Tasks == Runs \X Symbols
TotalSymbols == Cardinality(Symbols)
FinishedJob == {"SUCCESS", "FAILED"}
FinalStatus == {"SUCCESS", "PARTIAL"}

VARIABLES
  run,       \* the run documents
  job,       \* their jobs subcollections: a status per symbol
  totalRuns, \* the counter of the shared status document
  starter,   \* the dispatch: which attempt, and the symbols still to enqueue
  task,      \* the stProcessSymbol tasks and their local state
  ingests    \* auto-paper ingest tasks enqueued, per run

docs == <<run, job, totalRuns, ingests>>
vars == <<run, job, totalRuns, starter, task, ingests>>

StarterPC == {"create", "enqueue", "done", "dead"}
TaskPC == {"none", "queued", "work", "mark", "count", "check", "ingest", "done", "dead"}
RunDoc == [status : {"absent", "RUNNING"} \cup FinalStatus,
           success : Nat, failure : Nat,
           completionProcessed : BOOLEAN]
StarterState == [pc : StarterPC, run : Runs, todo : SUBSET Symbols]
TaskState == [pc : TaskPC, outcome : FinishedJob, attempts : 0..MaxAttempts]

\* Every variable keeps its shape.
TypeOK ==
  /\ run \in [Runs -> RunDoc]
  /\ job \in [Tasks -> {"absent", "PENDING", "IN_PROGRESS"} \cup FinishedJob]
  /\ totalRuns \in Nat
  /\ starter \in StarterState
  /\ task \in [Tasks -> TaskState]
  /\ ingests \in [Runs -> Nat]

\* An attempt that has not begun, the n-th of its task.
FreshAttempt(pc, n) == [pc |-> pc, outcome |-> "SUCCESS", attempts |-> n]
Retried(n) == FreshAttempt(IF n < MaxAttempts THEN "queued" ELSE "dead", n)

Init ==
  /\ run = [r \in Runs |-> [status |-> "absent", success |-> 0, failure |-> 0,
                            completionProcessed |-> FALSE]]
  /\ job = [t \in Tasks |-> "absent"]
  /\ totalRuns = 0
  /\ starter = [pc |-> "create", run |-> 1, todo |-> {}]
  /\ task = [t \in Tasks |-> FreshAttempt("none", 0)]
  /\ ingests = [r \in Runs |-> 0]

-----------------------------------------------------------------------------
(***************************************************************************)
(* startStRun: the run document first, then a job and a task per symbol.   *)
(***************************************************************************)

\* Mutant: the run id is derived from the market date, and the run set again.
CreateDailyRunByDate ==
  /\ starter.pc = "create"
  /\ run' = [run EXCEPT ![1].status = "RUNNING"]
  /\ starter' = [starter EXCEPT !.pc = "enqueue", !.todo = Symbols]
  /\ UNCHANGED <<job, totalRuns, task, ingests>>

CreateDailyRun ==
  /\ starter.pc = "create"
  /\ run' = [run EXCEPT ![starter.run].status = "RUNNING"]
  /\ starter' = [starter EXCEPT !.pc = "enqueue", !.todo = Symbols]
  /\ UNCHANGED <<job, totalRuns, task, ingests>>

\* The job document is written before the enqueue that may fail.
CreateJob(s) ==
  /\ starter.pc = "enqueue" /\ s \in starter.todo
  /\ job' = [job EXCEPT ![<<starter.run, s>>] = "PENDING"]
  /\ starter' = [starter EXCEPT !.todo = @ \ {s}]

CreateJobAndEnqueue(s) ==
  /\ CreateJob(s)
  /\ task' = [task EXCEPT ![<<starter.run, s>>].pc = "queued"]
  /\ UNCHANGED <<run, totalRuns, ingests>>

\* enqueueSymbolJobs counts the failure in a local variable and goes on.
JobEnqueueFails(s) ==
  /\ "jobEnqueue" \in Faults
  /\ CreateJob(s)
  /\ UNCHANGED <<run, totalRuns, task, ingests>>

FinishEnqueue ==
  /\ starter.pc = "enqueue" /\ starter.todo = {}
  /\ starter' = [starter EXCEPT !.pc = "done"]
  /\ UNCHANGED <<docs, task>>

\* The dispatch dies or its acknowledgement is lost: Cloud Tasks retries it,
\* and the retry starts a run of its own.
StarterCrash ==
  /\ "starterCrash" \in Faults
  /\ starter.pc = "done" => starter.run < MaxStarts
  /\ starter.pc # "dead"
  /\ starter' = IF starter.run < MaxStarts
                THEN [pc |-> "create", run |-> starter.run + 1, todo |-> {}]
                ELSE [starter EXCEPT !.pc = "dead"]
  /\ UNCHANGED <<docs, task>>

-----------------------------------------------------------------------------
(***************************************************************************)
(* stProcessSymbol.                                                        *)
(***************************************************************************)
Goto(t, from, to) == task[t].pc = from /\ task' = [task EXCEPT ![t].pc = to]

MarkInProgress(t) ==
  /\ Goto(t, "queued", "work")
  /\ job' = [job EXCEPT ![t] = "IN_PROGRESS"]
  /\ UNCHANGED <<run, totalRuns, starter, ingests>>

\* Load the bars, run the strategy, persist the signals; too few bars are a
\* success as well.
ProcessSymbol(t) ==
  /\ Goto(t, "work", "mark")
  /\ UNCHANGED <<docs, starter>>

\* The catch block: a throw is turned into markComplete('FAILED').
Caught(t) == task' = [task EXCEPT ![t].pc = "mark", ![t].outcome = "FAILED"]

ProcessSymbolThrows(t) ==
  /\ "work" \in Faults
  /\ task[t].pc = "work"
  /\ Caught(t)
  /\ UNCHANGED <<docs, starter>>

MarkComplete(t) ==
  /\ Goto(t, "mark", "count")
  /\ job' = [job EXCEPT ![t] = task[t].outcome]
  /\ UNCHANGED <<run, totalRuns, starter, ingests>>

\* The increments know the outcome but not the symbol.
CountOutcome(doc, outcome) ==
  IF outcome = "SUCCESS" THEN [doc EXCEPT !.success = @ + 1]
                         ELSE [doc EXCEPT !.failure = @ + 1]

UpdateRunCounters(t) ==
  /\ Goto(t, "count", "check")
  /\ run' = [run EXCEPT ![t[1]] = CountOutcome(@, task[t].outcome)]
  /\ UNCHANGED <<job, totalRuns, starter, ingests>>

\* A write of the progress tracker throws: on the way to success the catch
\* block takes over, inside the catch block the attempt is over.
ProgressWriteFails(t) ==
  /\ "progressWrite" \in Faults
  /\ task[t].pc \in {"queued", "mark", "count"}
  /\ IF task[t].outcome = "SUCCESS" THEN Caught(t)
     ELSE task' = [task EXCEPT ![t] = Retried(@.attempts + 1)]
  /\ UNCHANGED <<docs, starter>>

\* The handler returns, or rethrows what the catch block caught.
Return(t) ==
  task' = [task EXCEPT ![t] = IF @.outcome = "SUCCESS"
                              THEN FreshAttempt("done", @.attempts)
                              ELSE Retried(@.attempts + 1)]

\* Mutants of the completion condition.
CompletionDueEarly(doc) ==
  doc.success + doc.failure + 1 >= TotalSymbols /\ ~doc.completionProcessed
CompletionDueUnclaimed(doc) == doc.success + doc.failure >= TotalSymbols
CompletionDueLate(doc) ==
  doc.success + doc.failure > TotalSymbols /\ ~doc.completionProcessed

CompletionDue(doc) ==
  doc.success + doc.failure >= TotalSymbols /\ ~doc.completionProcessed

\* Mutant: the status does not look at the failures.
StatusOfSuccesses(doc) == IF doc.success > 0 THEN "SUCCESS" ELSE "PARTIAL"
StatusOf(doc) == IF doc.failure > 0 THEN "PARTIAL" ELSE "SUCCESS"

\* Mutant: only successes complete a run.
EvalSuccesses(t) ==
  LET doc == run[t[1]] IN
  /\ task[t].pc = "check"
  /\ IF doc.success >= TotalSymbols /\ ~doc.completionProcessed
     THEN /\ run' = [run EXCEPT ![t[1]].status = StatusOf(doc),
                                ![t[1]].completionProcessed = TRUE]
          /\ totalRuns' = totalRuns + 1
          /\ task' = [task EXCEPT ![t].pc = "ingest"]
     ELSE Return(t) /\ UNCHANGED <<run, totalRuns>>
  /\ UNCHANGED <<job, starter, ingests>>

\* The transaction; the caller that flipped the run holds the ticket.
EvalRunCompletion(t) ==
  LET doc == run[t[1]] IN
  /\ task[t].pc = "check"
  /\ IF CompletionDue(doc)
     THEN /\ run' = [run EXCEPT ![t[1]].status = StatusOf(doc),
                                ![t[1]].completionProcessed = TRUE]
          /\ totalRuns' = totalRuns + 1
          /\ task' = [task EXCEPT ![t].pc = "ingest"]
     ELSE Return(t) /\ UNCHANGED <<run, totalRuns>>
  /\ UNCHANGED <<job, starter, ingests>>

\* checkRunCompletion logs the error and returns.
TransactionFails(t) ==
  /\ "transaction" \in Faults
  /\ task[t].pc = "check" /\ Return(t)
  /\ UNCHANGED <<docs, starter>>

EnqueueAutoPaperIngest(t) ==
  /\ task[t].pc = "ingest" /\ Return(t)
  /\ ingests' = [ingests EXCEPT ![t[1]] = @ + 1]
  /\ UNCHANGED <<run, job, totalRuns, starter>>

\* Logged, not rethrown: the run stays complete without an ingest.
IngestEnqueueFails(t) ==
  /\ "ingestEnqueue" \in Faults
  /\ task[t].pc = "ingest" /\ Return(t)
  /\ UNCHANGED <<docs, starter>>

(***************************************************************************)
(* The instance dies or passes its 60 s, or the acknowledgement of a       *)
(* finished attempt is lost: Cloud Tasks runs the task again.              *)
(***************************************************************************)
WorkerCrash(t) ==
  /\ \/ "crashBeforeCount" \in Faults /\ task[t].pc \in {"queued", "work", "mark", "count"}
     \/ "crashAfterCount" \in Faults /\ task[t].pc \in {"check", "ingest", "done"}
  /\ task[t].pc = "done" => task[t].attempts + 1 < MaxAttempts
  /\ task' = [task EXCEPT ![t] = Retried(@.attempts + 1)]
  /\ UNCHANGED <<docs, starter>>

-----------------------------------------------------------------------------
Start == CreateDailyRun \/ FinishEnqueue \/ \E s \in Symbols : CreateJobAndEnqueue(s)

Work(t) ==
  \/ MarkInProgress(t) \/ ProcessSymbol(t) \/ MarkComplete(t)
  \/ UpdateRunCounters(t) \/ EvalRunCompletion(t) \/ EnqueueAutoPaperIngest(t)

WorkFails(t) ==
  \/ ProcessSymbolThrows(t) \/ ProgressWriteFails(t) \/ TransactionFails(t)
  \/ IngestEnqueueFails(t) \/ WorkerCrash(t)

Next ==
  \/ Start
  \/ StarterCrash
  \/ \E s \in Symbols : JobEnqueueFails(s)
  \/ \E t \in Tasks : Work(t) \/ WorkFails(t)

Spec == Init /\ [][Next]_vars

\* A started dispatch and a queued task keep running; faults are owed to nobody.
FairSpec == Spec /\ WF_vars(Start) /\ \A t \in Tasks : WF_vars(Work(t))

-----------------------------------------------------------------------------
(***************************************************************************)
(* Properties.                                                             *)
(***************************************************************************)

\* "Enqueue the auto-paper ingest once per completed run": never twice, never
\* for a run that is not final, whatever finishers race or are retried.
IngestAtMostOnce ==
  \A r \in Runs : /\ ingests[r] <= 1
                  /\ ingests[r] > 0 => run[r].status \in FinalStatus

\* The status document counts a run exactly when it completes.
RunsCounted == totalRuns = Cardinality({r \in Runs : run[r].status \in FinalStatus})

\* evalRunCompletion is a no-op while jobs are still in flight: a run that is
\* final has no job that is not.
CompletionWaitsForJobs ==
  \A t \in Tasks : run[t[1]].status \in FinalStatus => job[t] \in FinishedJob

\* A run none of whose tasks was run again is not closed while one of its jobs
\* is in flight, whatever other runs a retried dispatch has created.
CompletionNotEarly ==
  \A r \in Runs :
    run[r].status \in FinalStatus /\ (\A s \in Symbols : task[<<r, s>>].attempts = 0) =>
      \A s \in Symbols : job[<<r, s>>] \in FinishedJob

\* A run that ends in SUCCESS has no job that failed or is still under way, as
\* long as no attempt is run again after it has counted a success.
SuccessMeansAll ==
  \A t \in Tasks : run[t[1]].status = "SUCCESS" => job[t] = "SUCCESS"

\* A run that got its final status keeps it.
FinalStatusStays ==
  [][\A r \in Runs : run[r].status \in FinalStatus => run'[r].status = run[r].status]_vars

\* A run whose counters are full always has a task that is about to look at
\* them, unless a transaction is lost or an instance dies in between.
CompletionPending ==
  \A r \in Runs : run[r].status = "RUNNING" /\ CompletionDue(run[r]) =>
    \E s \in Symbols : task[<<r, s>>].pc = "check"

\* Symbol-level failures do not keep a run from completing, unless the
\* dispatch or one of the tasks was given up.
RunCompletes ==
  \A r \in Runs :
    run[r].status = "RUNNING" ~>
      \/ run[r].status \in FinalStatus
      \/ starter.run > r \/ starter.pc = "dead"
      \/ \E s \in Symbols : task[<<r, s>>].pc = "dead"
=============================================================================
