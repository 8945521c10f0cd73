----------------------------- MODULE StRunProofs -----------------------------
(***************************************************************************)
(* Proofs about StRun for every set of symbols, every number of dispatch   *)
(* and task attempts, and every combination of faults.                     *)
(***************************************************************************)
EXTENDS StRun, FiniteSetTheorems, TLAPS

LEMMA TaskParts ==
  ASSUME NEW t \in Tasks PROVE t[1] \in Runs /\ t[2] \in Symbols /\ t = <<t[1], t[2]>>
BY DEF Tasks

LEMMA TotalIsNat == TotalSymbols \in Nat /\ TotalSymbols # 0
BY SymbolsAssumption, FS_CardinalityType, FS_EmptySet DEF TotalSymbols

\* A task that was not given up has an attempt left.
AttemptLeft == \A t \in Tasks : task[t].pc # "dead" => task[t].attempts < MaxAttempts
\* A job the dispatch has yet to enqueue has no task.
Ahead(t) == \/ t[1] > starter.run
            \/ t[1] = starter.run /\ (starter.pc = "create" \/ t[2] \in starter.todo)
NoTaskAhead == \A t \in Tasks : Ahead(t) => task[t].pc = "none"
TypeInv == TypeOK /\ AttemptLeft /\ NoTaskAhead

LEMMA InitType == Init => TypeInv
<1> SUFFICES ASSUME Init PROVE TypeInv
  OBVIOUS
<1>1. run \in [Runs -> RunDoc]
  BY DEF Init, RunDoc
<1>2. job \in [Tasks -> {"absent", "PENDING", "IN_PROGRESS"} \cup FinishedJob]
  BY DEF Init
<1>3. starter \in StarterState
  BY AttemptsAssumption DEF Init, StarterState, StarterPC, Runs
<1>4. task \in [Tasks -> TaskState]
  BY AttemptsAssumption DEF Init, FreshAttempt, TaskState, TaskPC, FinishedJob
<1>5. AttemptLeft
  BY AttemptsAssumption DEF Init, FreshAttempt, AttemptLeft
<1>6. NoTaskAhead
  BY DEF Init, FreshAttempt, NoTaskAhead
<1> QED
  BY <1>1, <1>2, <1>3, <1>4, <1>5, <1>6 DEF Init, TypeOK, TypeInv

\* One task gets a record that is well formed and has an attempt left.
LEMMA TaskUpdate ==
  ASSUME TypeInv, NEW t \in Tasks, NEW x \in TaskState,
         x.pc # "dead" => x.attempts < MaxAttempts,
         task' = [task EXCEPT ![t] = x]
  PROVE  task' \in [Tasks -> TaskState] /\ AttemptLeft'
BY DEF TypeInv, TypeOK, AttemptLeft

\* The ways a task's record changes.
LEMMA GotoUpdate ==
  ASSUME TypeInv, NEW t \in Tasks, NEW from, NEW to \in TaskPC \ {"dead"},
         from # "dead", Goto(t, from, to)
  PROVE  task' \in [Tasks -> TaskState] /\ AttemptLeft'
<1> DEFINE x == [task[t] EXCEPT !.pc = to]
<1>1. task[t] \in TaskState /\ task[t].attempts < MaxAttempts
  BY DEF TypeInv, TypeOK, AttemptLeft, Goto
<1>2. x \in TaskState /\ x.attempts < MaxAttempts
  BY <1>1 DEF TaskState
<1>3. task' = [task EXCEPT ![t] = x]
  BY DEF Goto
<1> HIDE DEF x
<1> QED
  BY <1>2, <1>3, TaskUpdate

LEMMA CaughtUpdate ==
  ASSUME TypeInv, NEW t \in Tasks, task[t].pc # "dead", Caught(t)
  PROVE  task' \in [Tasks -> TaskState] /\ AttemptLeft'
<1> DEFINE x == [task[t] EXCEPT !.pc = "mark", !.outcome = "FAILED"]
<1>1. task[t] \in TaskState /\ task[t].attempts < MaxAttempts
  BY DEF TypeInv, TypeOK, AttemptLeft
<1>2. x \in TaskState /\ x.attempts < MaxAttempts
  BY <1>1 DEF TaskState, TaskPC, FinishedJob
<1>3. task' = [task EXCEPT ![t] = x]
  BY DEF Caught, TypeInv, TypeOK, TaskState
<1> HIDE DEF x
<1> QED
  BY <1>2, <1>3, TaskUpdate

LEMMA RetryUpdate ==
  ASSUME TypeInv, NEW t \in Tasks, task[t].pc # "dead",
         task' = [task EXCEPT ![t] = Retried(@.attempts + 1)]
  PROVE  task' \in [Tasks -> TaskState] /\ AttemptLeft'
<1> DEFINE x == Retried(task[t].attempts + 1)
<1>1. task[t].attempts \in 0..MaxAttempts /\ task[t].attempts < MaxAttempts
  BY DEF TypeInv, TypeOK, AttemptLeft, TaskState
<1>2. x \in TaskState /\ (x.pc # "dead" => x.attempts < MaxAttempts)
  BY <1>1, AttemptsAssumption DEF Retried, FreshAttempt, TaskState, TaskPC, FinishedJob
<1>3. task' = [task EXCEPT ![t] = x]
  OBVIOUS
<1> HIDE DEF x
<1> QED
  BY <1>2, <1>3, TaskUpdate

LEMMA ReturnUpdate ==
  ASSUME TypeInv, NEW t \in Tasks, task[t].pc # "dead", Return(t)
  PROVE  task' \in [Tasks -> TaskState] /\ AttemptLeft'
<1> DEFINE x == IF task[t].outcome = "SUCCESS"
                THEN FreshAttempt("done", task[t].attempts)
                ELSE Retried(task[t].attempts + 1)
<1>1. task[t].attempts \in 0..MaxAttempts /\ task[t].attempts < MaxAttempts
  BY DEF TypeInv, TypeOK, AttemptLeft, TaskState
<1>2. x \in TaskState /\ (x.pc # "dead" => x.attempts < MaxAttempts)
  BY <1>1, AttemptsAssumption DEF Retried, FreshAttempt, TaskState, TaskPC, FinishedJob
<1>3. task' = [task EXCEPT ![t] = x]
  BY DEF Return
<1> HIDE DEF x
<1> QED
  BY <1>2, <1>3, TaskUpdate

LEMMA StartType ==
  ASSUME TypeInv, Start \/ StarterCrash \/ \E s \in Symbols : JobEnqueueFails(s)
  PROVE  TypeInv'
<1> USE AttemptsAssumption DEF TypeInv, TypeOK, docs
<1>0. starter.run \in Nat /\ Runs \subseteq Nat
  BY DEF StarterState, Runs
<1>1. CASE CreateDailyRun
  <2>1. run' \in [Runs -> RunDoc]
    BY <1>1 DEF CreateDailyRun, RunDoc, StarterState
  <2>2. starter' \in StarterState
    BY <1>1 DEF CreateDailyRun, StarterState, StarterPC
  <2>3. starter'.run = starter.run /\ starter.pc = "create"
    BY <1>1 DEF CreateDailyRun, StarterState
  <2>4. NoTaskAhead'
    BY <1>1, <2>3 DEF CreateDailyRun, NoTaskAhead, Ahead
  <2> QED
    BY <1>1, <2>1, <2>2, <2>4 DEF CreateDailyRun, AttemptLeft
<1>2. CASE FinishEnqueue
  <2>1. NoTaskAhead'
    BY <1>2 DEF FinishEnqueue, NoTaskAhead, Ahead, StarterState
  <2> QED
    BY <1>2, <2>1 DEF FinishEnqueue, StarterState, StarterPC, AttemptLeft
<1>3. ASSUME NEW s \in Symbols, CreateJob(s)
      PROVE  /\ job' \in [Tasks -> {"absent", "PENDING", "IN_PROGRESS"} \cup FinishedJob]
             /\ starter' \in StarterState
             /\ <<starter.run, s>> \in Tasks
             /\ \A t \in Tasks : Ahead(t)' => Ahead(t) /\ t # <<starter.run, s>>
  <2>1. starter' = [starter EXCEPT !.todo = starter.todo \ {s}] /\ starter.pc = "enqueue"
    BY <1>3 DEF CreateJob
  <2>2. /\ starter' \in StarterState /\ starter'.run = starter.run
        /\ starter'.pc = "enqueue" /\ starter'.todo = starter.todo \ {s}
    BY <2>1 DEF StarterState
  <2>3. \A t \in Tasks : Ahead(t)' => Ahead(t) /\ t # <<starter.run, s>>
    BY <1>0, <2>1, <2>2, TaskParts DEF Ahead
  <2>4. <<starter.run, s>> \in Tasks
    BY DEF StarterState, Tasks
  <2> QED
    BY <1>3, <2>2, <2>3, <2>4 DEF CreateJob
<1>4. ASSUME NEW s \in Symbols, CreateJobAndEnqueue(s) PROVE TypeInv'
  <2> DEFINE t == <<starter.run, s>>
             x == [task[t] EXCEPT !.pc = "queued"]
  <2>1. t \in Tasks /\ CreateJob(s) /\ task' = [task EXCEPT ![t] = x]
    BY <1>3, <1>4 DEF CreateJobAndEnqueue
  <2>2. task[t].pc = "none"
    <3>1. Ahead(t)
      BY <2>1 DEF CreateJob, Ahead
    <3> QED
      BY <2>1, <3>1 DEF NoTaskAhead
  <2>3. x \in TaskState /\ x.attempts < MaxAttempts
    BY <2>1, <2>2 DEF AttemptLeft, TaskState, TaskPC
  <2>4. task' \in [Tasks -> TaskState] /\ AttemptLeft'
    <3> HIDE DEF x, t
    <3> QED
      BY <2>1, <2>3, TaskUpdate
  <2>5. NoTaskAhead'
    BY <1>3, <2>1 DEF NoTaskAhead
  <2> QED
    BY <1>3, <1>4, <2>1, <2>4, <2>5 DEF CreateJobAndEnqueue
<1>5. ASSUME NEW s \in Symbols, JobEnqueueFails(s) PROVE TypeInv'
  BY <1>3, <1>5 DEF JobEnqueueFails, AttemptLeft, NoTaskAhead
<1>6. CASE StarterCrash
  <2>1. starter' \in StarterState
    <3>1. starter.run < MaxStarts => starter.run + 1 \in Runs
      BY <1>0 DEF StarterState, Runs
    <3> QED
      BY <1>6, <3>1 DEF StarterCrash, StarterState, StarterPC
  <2>2. NoTaskAhead'
    <3>1. CASE starter.run < MaxStarts
      <4>1. starter'.run = starter.run + 1 /\ starter'.todo = {}
        BY <1>6, <3>1 DEF StarterCrash
      <4> QED
        BY <1>0, <1>6, <4>1, TaskParts DEF StarterCrash, NoTaskAhead, Ahead
    <3>2. CASE ~(starter.run < MaxStarts)
      <4>1. /\ starter'.run = starter.run /\ starter'.todo = starter.todo
            /\ starter'.pc = "dead"
        BY <1>6, <3>2 DEF StarterCrash, StarterState
      <4> QED
        BY <1>6, <4>1 DEF StarterCrash, NoTaskAhead, Ahead
    <3> QED
      BY <3>1, <3>2
  <2> QED
    BY <1>6, <2>1, <2>2 DEF StarterCrash, AttemptLeft
<1> QED
  BY <1>1, <1>2, <1>4, <1>5, <1>6 DEF Start

\* What a step of a task leaves alone.
LEMMA TaskStepFrame ==
  ASSUME TypeInv, NEW t \in Tasks, Work(t) \/ WorkFails(t)
  PROVE  /\ task[t].pc \notin {"none", "dead"}
         /\ \A u \in Tasks : u # t => task'[u] = task[u]
         /\ UNCHANGED starter
<1> USE DEF TypeInv, TypeOK
<1>1. CASE Work(t)
  BY <1>1 DEF Work, MarkInProgress, ProcessSymbol, MarkComplete, UpdateRunCounters,
              EvalRunCompletion, EnqueueAutoPaperIngest, Goto, Return
<1>2. CASE WorkFails(t)
  BY <1>2 DEF WorkFails, ProcessSymbolThrows, ProgressWriteFails, TransactionFails,
              IngestEnqueueFails, WorkerCrash, Caught, Return
<1> QED
  BY <1>1, <1>2

LEMMA TaskStepType ==
  ASSUME TypeInv, NEW t \in Tasks, Work(t) \/ WorkFails(t)
  PROVE  TypeInv'
<1> USE TaskParts DEF docs
<1>0. task[t].pc # "dead" /\ task[t].outcome \in FinishedJob /\ TypeOK
  BY TaskStepFrame DEF TypeInv, TypeOK, TaskState
<1>1. NoTaskAhead'
  BY TaskStepFrame DEF NoTaskAhead, Ahead, TypeInv
<1>2. SUFFICES TypeOK' /\ AttemptLeft'
  BY <1>1 DEF TypeInv
<1>3. CASE MarkInProgress(t)
  BY <1>0, <1>3, GotoUpdate DEF MarkInProgress, TypeOK, TaskPC
<1>4. CASE ProcessSymbol(t)
  BY <1>0, <1>4, GotoUpdate DEF ProcessSymbol, TypeOK, TaskPC
<1>5. CASE MarkComplete(t)
  BY <1>0, <1>5, GotoUpdate DEF MarkComplete, TypeOK, TaskPC
<1>6. CASE UpdateRunCounters(t)
  <2>1. run' \in [Runs -> RunDoc]
    <3> DEFINE doc == CountOutcome(run[t[1]], task[t].outcome)
    <3>1. run[t[1]] \in RunDoc
      BY <1>0 DEF TypeOK
    <3>2. doc \in RunDoc
      BY <3>1 DEF CountOutcome, RunDoc
    <3>3. run' = [run EXCEPT ![t[1]] = doc]
      BY <1>6 DEF UpdateRunCounters
    <3> HIDE DEF doc
    <3> QED
      BY <1>0, <3>2, <3>3 DEF TypeOK
  <2> QED
    BY <1>0, <1>6, <2>1, GotoUpdate DEF UpdateRunCounters, TypeOK, TaskPC
<1>7. CASE EvalRunCompletion(t)
  <2>1. CASE CompletionDue(run[t[1]])
    <3>1. run' \in [Runs -> RunDoc]
      BY <1>0, <1>7, <2>1 DEF EvalRunCompletion, StatusOf, TypeOK, RunDoc, FinalStatus
    <3>2. Goto(t, "check", "ingest")
      BY <1>7, <2>1 DEF EvalRunCompletion, Goto
    <3> QED
      BY <1>0, <1>7, <2>1, <3>1, <3>2, GotoUpdate DEF EvalRunCompletion, TypeOK, TaskPC
  <2>2. CASE ~CompletionDue(run[t[1]])
    BY <1>0, <1>7, <2>2, ReturnUpdate DEF EvalRunCompletion, TypeOK
  <2> QED
    BY <2>1, <2>2
<1>8. CASE EnqueueAutoPaperIngest(t)
  BY <1>0, <1>8, ReturnUpdate DEF EnqueueAutoPaperIngest, TypeOK
<1>9. CASE ProcessSymbolThrows(t)
  BY <1>0, <1>9, CaughtUpdate DEF ProcessSymbolThrows, TypeOK
<1>10. CASE ProgressWriteFails(t)
  BY <1>0, <1>10, CaughtUpdate, RetryUpdate DEF ProgressWriteFails, TypeOK
<1>11. CASE TransactionFails(t)
  BY <1>0, <1>11, ReturnUpdate DEF TransactionFails, TypeOK
<1>12. CASE IngestEnqueueFails(t)
  BY <1>0, <1>12, ReturnUpdate DEF IngestEnqueueFails, TypeOK
<1>13. CASE WorkerCrash(t)
  BY <1>0, <1>13, RetryUpdate DEF WorkerCrash, TypeOK
<1> QED
  BY <1>3, <1>4, <1>5, <1>6, <1>7, <1>8, <1>9, <1>10, <1>11, <1>12, <1>13
  DEF Work, WorkFails

LEMMA StutterType == ASSUME TypeInv, UNCHANGED vars PROVE TypeInv'
BY DEF TypeInv, TypeOK, AttemptLeft, NoTaskAhead, Ahead, vars

LEMMA StepType == TypeInv /\ [Next]_vars => TypeInv'
BY StartType, TaskStepType, StutterType DEF Next

\* The documents and the tasks keep their shape in every behaviour.
THEOREM TypeCorrect == Spec => []TypeOK
<1>1. TypeInv => TypeOK
  BY DEF TypeInv
<1> QED
  BY InitType, StepType, <1>1, PTL DEF Spec

-----------------------------------------------------------------------------
(***************************************************************************)
(* The completion ticket.  A run that is final carries the flag of the     *)
(* claim, a task about to enqueue the ingest is the only one of its run    *)
(* and the ingest was not enqueued yet, and no run ahead of the dispatch   *)
(* has begun.                                                              *)
(***************************************************************************)
Final(r) == run[r].status \in FinalStatus
ClaimFlag == \A r \in Runs : run[r].completionProcessed <=> Final(r)
TicketHeld ==
  \A t \in Tasks : task[t].pc = "ingest" =>
    /\ Final(t[1]) /\ ingests[t[1]] = 0
    /\ \A u \in Tasks : u[1] = t[1] /\ task[u].pc = "ingest" => u = t
NoRunAhead ==
  \A r \in Runs : r > starter.run \/ (r = starter.run /\ starter.pc = "create") =>
    run[r].status = "absent"
Counted == totalRuns = Cardinality({r \in Runs : Final(r)})
TicketInv ==
  TypeInv /\ ClaimFlag /\ TicketHeld /\ NoRunAhead /\ IngestAtMostOnce /\ Counted

LEMMA InitTicket == Init => TicketInv
<1> SUFFICES ASSUME Init PROVE TicketInv
  OBVIOUS
<1>1. ClaimFlag /\ NoRunAhead /\ IngestAtMostOnce
  BY DEF Init, ClaimFlag, Final, FinalStatus, NoRunAhead, IngestAtMostOnce
<1>2. TicketHeld
  BY DEF Init, FreshAttempt, TicketHeld
<1>3. Counted
  <2>1. {r \in Runs : Final(r)} = {}
    BY DEF Init, Final, FinalStatus
  <2> QED
    BY <2>1, FS_EmptySet DEF Init, Counted
<1> QED
  BY <1>1, <1>2, <1>3, InitType DEF TicketInv

\* A step that touches neither the completion nor the ingests of any run and
\* hands out no ticket.
LEMMA QuietStep ==
  ASSUME TicketInv, TypeInv', UNCHANGED <<totalRuns, ingests>>,
         \A r \in Runs : /\ Final(r)' <=> Final(r)
                        /\ run'[r].completionProcessed = run[r].completionProcessed,
         \A t \in Tasks : task'[t].pc = "ingest" => task[t].pc = "ingest",
         NoRunAhead'
  PROVE  TicketInv' /\ \A r \in Runs : Final(r)' <=> Final(r)
<1>1. ClaimFlag' /\ TicketHeld'
  BY TaskParts DEF TicketInv, ClaimFlag, TicketHeld
<1>2. IngestAtMostOnce'
  BY DEF TicketInv, IngestAtMostOnce, Final
<1>3. {r \in Runs : Final(r)'} = {r \in Runs : Final(r)}
  OBVIOUS
<1>4. Counted'
  BY <1>3 DEF TicketInv, Counted
<1> QED
  BY <1>1, <1>2, <1>4 DEF TicketInv

LEMMA StartTicket ==
  ASSUME TicketInv, Start \/ StarterCrash \/ \E s \in Symbols : JobEnqueueFails(s)
  PROVE  TicketInv' /\ \A r \in Runs : Final(r) => run'[r].status = run[r].status
<1> USE DEF docs
<1>0. TypeInv /\ TypeInv' /\ starter.run \in Nat /\ Runs \subseteq Nat
  BY StartType DEF TicketInv, TypeInv, TypeOK, StarterState, Runs
<1>1. CASE CreateDailyRun
  <2>1. starter.pc = "create" /\ starter.run \in Runs /\ run[starter.run].status = "absent"
    BY <1>0, <1>1 DEF CreateDailyRun, TicketInv, NoRunAhead, TypeInv, TypeOK, StarterState
  <2>2. /\ starter'.run = starter.run /\ starter'.pc = "enqueue"
    BY <1>0, <1>1 DEF CreateDailyRun, TypeInv, TypeOK, StarterState
  <2>3. \A r \in Runs : /\ r # starter.run => run'[r] = run[r]
                        /\ run'[r].completionProcessed = run[r].completionProcessed
    BY <1>0, <1>1 DEF CreateDailyRun, TypeInv, TypeOK, RunDoc
  <2>4. run'[starter.run].status = "RUNNING"
    BY <1>0, <1>1, <2>1 DEF CreateDailyRun, TypeInv, TypeOK, RunDoc
  <2>5. \A r \in Runs : Final(r)' <=> Final(r)
    BY <2>1, <2>3, <2>4 DEF Final, FinalStatus
  <2>6. NoRunAhead'
    BY <1>0, <2>2, <2>3 DEF TicketInv, NoRunAhead
  <2>7. TicketInv'
    BY <1>0, <1>1, <2>3, <2>5, <2>6, QuietStep DEF CreateDailyRun
  <2> QED
    BY <2>1, <2>3, <2>7 DEF Final, FinalStatus
<1>2. CASE ~CreateDailyRun
  <2>1. UNCHANGED <<run, totalRuns, ingests>>
    BY <1>2 DEF Start, FinishEnqueue, CreateJobAndEnqueue, JobEnqueueFails, StarterCrash
  <2>2. starter'.run >= starter.run
        /\ (starter'.run = starter.run => starter'.pc # "create")
    <3>1. CASE FinishEnqueue
      BY <1>0, <3>1 DEF FinishEnqueue, TypeInv, TypeOK, StarterState
    <3>2. ASSUME NEW s \in Symbols, CreateJob(s)
          PROVE starter'.run = starter.run /\ starter'.pc = "enqueue"
      BY <1>0, <3>2 DEF CreateJob, TypeInv, TypeOK, StarterState
    <3>3. CASE StarterCrash
      BY <1>0, <3>3 DEF StarterCrash, TypeInv, TypeOK, StarterState
    <3>4. ASSUME NEW s \in Symbols, CreateJob(s)
          PROVE  starter'.run >= starter.run
                 /\ (starter'.run = starter.run => starter'.pc # "create")
      BY <1>0, <3>2, <3>4
    <3>5. ASSUME NEW s \in Symbols, CreateJobAndEnqueue(s) \/ JobEnqueueFails(s)
          PROVE  CreateJob(s)
      BY <3>5 DEF CreateJobAndEnqueue, JobEnqueueFails
    <3> QED
      BY <1>2, <3>1, <3>3, <3>4, <3>5 DEF Start
  <2>3. NoRunAhead'
    <3>1. starter'.run \in Nat
      BY <1>0 DEF TypeInv, TypeOK, StarterState, Runs
    <3>2. ASSUME NEW r \in Runs, r > starter'.run \/ (r = starter'.run /\ starter'.pc = "create")
          PROVE  r > starter.run
      BY <1>0, <2>2, <3>1, <3>2
    <3> QED
      BY <2>1, <3>2 DEF TicketInv, NoRunAhead
  <2>4. \A t \in Tasks : task'[t].pc = "ingest" => task[t].pc = "ingest"
    <3>1. ASSUME NEW s \in Symbols, CreateJobAndEnqueue(s)
          PROVE  \A t \in Tasks : task'[t].pc = "ingest" => task[t].pc = "ingest"
      <4>1. task' = [task EXCEPT ![<<starter.run, s>>].pc = "queued"]
        BY <3>1 DEF CreateJobAndEnqueue
      <4> QED
        BY <1>0, <4>1 DEF TypeInv, TypeOK, TaskState
    <3> QED
      BY <1>2, <3>1 DEF Start, FinishEnqueue, JobEnqueueFails, StarterCrash
  <2>5. TicketInv'
    BY <1>0, <2>1, <2>3, <2>4, QuietStep DEF Final
  <2> QED
    BY <2>1, <2>5
<1> QED
  BY <1>1, <1>2

LEMMA TaskTicket ==
  ASSUME TicketInv, NEW t \in Tasks, Work(t) \/ WorkFails(t)
  PROVE  TicketInv' /\ \A r \in Runs : Final(r) => run'[r].status = run[r].status
<1> USE DEF docs
<1> DEFINE r0 == t[1]
<1>0. /\ TypeInv /\ TypeInv' /\ TypeOK /\ r0 \in Runs
      /\ task[t] \in TaskState /\ run[r0] \in RunDoc
  BY TaskStepType, TaskParts DEF TicketInv, TypeInv, TypeOK
<1>1. /\ UNCHANGED starter
      /\ \A u \in Tasks : u # t => task'[u] = task[u]
      /\ task[t].pc \notin {"none", "dead"}
  BY <1>0, TaskStepFrame
<1>2. ~(r0 > starter.run \/ (r0 = starter.run /\ starter.pc = "create"))
  BY <1>0, <1>1 DEF TypeInv, NoTaskAhead, Ahead
<1>3. ASSUME \A r \in Runs : r # r0 => run'[r] = run[r] PROVE NoRunAhead'
  BY <1>1, <1>2, <1>3 DEF TicketInv, NoRunAhead
<1>4. ASSUME Return(t) PROVE task'[t].pc # "ingest"
  BY <1>0, <1>4 DEF Return, Retried, FreshAttempt, TypeOK
<1>6. ASSUME UNCHANGED <<run, totalRuns, ingests>>, task'[t].pc # "ingest"
      PROVE  TicketInv' /\ \A r \in Runs : Final(r) => run'[r].status = run[r].status
  <2>1. TicketInv'
    BY <1>0, <1>1, <1>3, <1>6, QuietStep DEF Final
  <2> QED
    BY <1>6, <2>1
<1>7. CASE UpdateRunCounters(t)
  <2> DEFINE doc == CountOutcome(run[r0], task[t].outcome)
  <2>1. run' = [run EXCEPT ![r0] = doc]
    BY <1>7 DEF UpdateRunCounters
  <2>2. doc.status = run[r0].status /\ doc.completionProcessed = run[r0].completionProcessed
    BY <1>0 DEF CountOutcome, RunDoc
  <2> HIDE DEF doc
  <2>3. \A r \in Runs : /\ r # r0 => run'[r] = run[r]
                        /\ run'[r].status = run[r].status
                        /\ run'[r].completionProcessed = run[r].completionProcessed
    BY <1>0, <2>1, <2>2 DEF TypeOK
  <2>4. task'[t].pc = "check"
    BY <1>0, <1>7 DEF UpdateRunCounters, Goto, TypeOK, TaskState
  <2>5. TicketInv'
    BY <1>0, <1>1, <1>3, <1>7, <2>3, <2>4, QuietStep DEF UpdateRunCounters, Final
  <2> QED
    BY <2>3, <2>5
<1>8. CASE EvalRunCompletion(t)
  <2>1. CASE ~CompletionDue(run[r0])
    BY <1>4, <1>6, <1>8, <2>1 DEF EvalRunCompletion
  <2>2. CASE CompletionDue(run[r0])
    <3>1. ~run[r0].completionProcessed /\ ~Final(r0)
      BY <1>0, <2>2 DEF CompletionDue, TicketInv, ClaimFlag
    <3>2. /\ run' = [run EXCEPT ![r0] = [run[r0] EXCEPT !.status = StatusOf(run[r0]),
                                                     !.completionProcessed = TRUE]]
          /\ totalRuns' = totalRuns + 1 /\ UNCHANGED ingests
          /\ task' = [task EXCEPT ![t].pc = "ingest"]
      BY <1>0, <1>8, <2>2 DEF EvalRunCompletion, TypeOK, RunDoc
    <3>3. /\ \A r \in Runs : r # r0 => run'[r] = run[r]
          /\ run'[r0].status \in FinalStatus /\ run'[r0].completionProcessed
      <4> DEFINE doc == [run[r0] EXCEPT !.status = StatusOf(run[r0]),
                                        !.completionProcessed = TRUE]
      <4>1. doc.status \in FinalStatus /\ doc.completionProcessed
        BY <1>0 DEF StatusOf, FinalStatus, RunDoc
      <4>2. run' = [run EXCEPT ![r0] = doc]
        BY <3>2
      <4> HIDE DEF doc
      <4> QED
        BY <1>0, <4>1, <4>2 DEF TypeOK
    <3>4. \A r \in Runs : Final(r)' <=> Final(r) \/ r = r0
      BY <1>0, <3>3 DEF Final
    <3>5. ClaimFlag'
      BY <1>0, <3>3, <3>4 DEF TicketInv, ClaimFlag
    <3>6. ingests[r0] = 0
      BY <1>0, <3>1 DEF TicketInv, IngestAtMostOnce, Final, TypeOK
    <3>7. \A u \in Tasks : task'[u].pc = "ingest" => u = t \/ (task[u].pc = "ingest" /\ u[1] # r0)
      BY <1>0, <1>1, <3>1 DEF TicketInv, TicketHeld
    <3>8. TicketHeld'
      BY <1>0, <3>2, <3>4, <3>6, <3>7, TaskParts DEF TicketInv, TicketHeld
    <3>9. IngestAtMostOnce'
      BY <1>0, <3>2, <3>3 DEF TicketInv, IngestAtMostOnce
    <3>10. Counted'
      <4> DEFINE A == {r \in Runs : Final(r)}
                 B == {r \in Runs : Final(r)'}
      <4>1. B = A \cup {r0} /\ r0 \notin A
        BY <1>0, <3>1, <3>4
      <4>2. IsFiniteSet(A)
        <5>1. IsFiniteSet(Runs)
          BY FS_Interval, AttemptsAssumption DEF Runs
        <5> QED
          BY <5>1, FS_Subset
      <4> HIDE DEF A
      <4>3. Cardinality(A \cup {r0}) = Cardinality(A) + 1
        BY <4>1, <4>2, FS_AddElement
      <4>4. totalRuns = Cardinality(A)
        BY DEF A, TicketInv, Counted
      <4> QED
        BY <3>2, <4>1, <4>3, <4>4 DEF Counted
    <3>11. NoRunAhead'
      BY <1>3, <3>3
    <3>12. \A r \in Runs : Final(r) => run'[r].status = run[r].status
      BY <3>1, <3>3
    <3> QED
      BY <1>0, <3>5, <3>8, <3>9, <3>10, <3>11, <3>12 DEF TicketInv
  <2> QED
    BY <2>1, <2>2
<1>9. CASE EnqueueAutoPaperIngest(t)
  <2>1. task[t].pc = "ingest" /\ Return(t) /\ UNCHANGED <<run, totalRuns>>
        /\ ingests' = [ingests EXCEPT ![r0] = ingests[r0] + 1]
    BY <1>9 DEF EnqueueAutoPaperIngest
  <2>2. Final(r0) /\ ingests[r0] = 0
    BY <2>1 DEF TicketInv, TicketHeld
  <2>3. ingests'[r0] = 1 /\ \A r \in Runs : r # r0 => ingests'[r] = ingests[r]
    BY <1>0, <2>1, <2>2 DEF TypeOK
  <2>4. \A u \in Tasks : task'[u].pc = "ingest" => task[u].pc = "ingest" /\ u[1] # r0
    BY <1>1, <1>4, <2>1 DEF TicketInv, TicketHeld
  <2>5. ClaimFlag' /\ Counted'
    BY <2>1 DEF TicketInv, ClaimFlag, Counted, Final
  <2>6. TicketHeld'
    BY <2>1, <2>3, <2>4, TaskParts DEF TicketInv, TicketHeld, Final
  <2>7. IngestAtMostOnce'
    BY <2>1, <2>2, <2>3 DEF TicketInv, IngestAtMostOnce, Final
  <2>8. NoRunAhead'
    BY <1>3, <2>1
  <2> QED
    BY <1>0, <2>1, <2>5, <2>6, <2>7, <2>8 DEF TicketInv
<1>10. CASE MarkInProgress(t) \/ ProcessSymbol(t) \/ MarkComplete(t)
  <2>1. task'[t].pc # "ingest"
    BY <1>0, <1>10 DEF MarkInProgress, ProcessSymbol, MarkComplete, Goto, TypeOK, TaskState
  <2> QED
    BY <1>6, <1>10, <2>1 DEF MarkInProgress, ProcessSymbol, MarkComplete
<1>11. CASE WorkFails(t)
  <2>1. UNCHANGED <<run, totalRuns, ingests>>
    BY <1>11 DEF WorkFails, ProcessSymbolThrows, ProgressWriteFails, TransactionFails,
                 IngestEnqueueFails, WorkerCrash
  <2>2. ASSUME Caught(t) PROVE task'[t].pc # "ingest"
    BY <1>0, <2>2 DEF Caught, TypeOK, TaskState
  <2>3. ASSUME task' = [task EXCEPT ![t] = Retried(@.attempts + 1)]
        PROVE  task'[t].pc # "ingest"
    BY <1>0, <2>3 DEF Retried, FreshAttempt, TypeOK
  <2>4. task'[t].pc # "ingest"
    BY <1>4, <1>11, <2>2, <2>3 DEF WorkFails, ProcessSymbolThrows, ProgressWriteFails,
       TransactionFails, IngestEnqueueFails, WorkerCrash
  <2> QED
    BY <1>6, <2>1, <2>4
<1> QED
  BY <1>7, <1>8, <1>9, <1>10, <1>11 DEF Work

LEMMA StutterTicket ==
  ASSUME TicketInv, UNCHANGED vars
  PROVE  TicketInv' /\ \A r \in Runs : Final(r) => run'[r].status = run[r].status
<1>1. TypeInv'
  BY StutterType DEF TicketInv
<1>2. TicketInv'
  BY <1>1 DEF TicketInv, vars, ClaimFlag, TicketHeld, NoRunAhead, IngestAtMostOnce,
              Counted, Final
<1> QED
  BY <1>2 DEF vars

LEMMA StepTicket ==
  TicketInv /\ [Next]_vars =>
    TicketInv' /\ \A r \in Runs : Final(r) => run'[r].status = run[r].status
BY StartTicket, TaskTicket, StutterTicket DEF Next

LEMMA TicketAlways == Spec => []TicketInv
BY InitTicket, StepTicket, PTL DEF Spec

\* No run's auto-paper ingest is enqueued twice or before the run is final.
THEOREM IngestedAtMostOnce == Spec => []IngestAtMostOnce
<1>1. TicketInv => IngestAtMostOnce
  BY DEF TicketInv
<1> QED
  BY TicketAlways, <1>1, PTL

\* The status document counts each run once, when it completes.
THEOREM RunsAreCounted == Spec => []RunsCounted
<1>1. TicketInv => RunsCounted
  BY DEF TicketInv, Counted, RunsCounted, Final
<1> QED
  BY TicketAlways, <1>1, PTL

\* A final status is never written again.
THEOREM FinalStatusIsFinal == Spec => FinalStatusStays
<1>1. TicketInv /\ [Next]_vars =>
        [\A r \in Runs : run[r].status \in FinalStatus => run'[r].status = run[r].status]_vars
  BY StepTicket DEF Final
<1> QED
  BY TicketAlways, <1>1, PTL DEF Spec, FinalStatusStays

-----------------------------------------------------------------------------
(***************************************************************************)
(* The counters.  As long as each task of a run is in its first attempt,   *)
(* the counters are the number of tasks that have counted, each of them    *)
(* after its job was finished, and the run is final when all have.         *)
(***************************************************************************)
FirstAttempts(r) == \A s \in Symbols : task[<<r, s>>].attempts = 0
HasCounted == {"check", "ingest", "done"}
CountedOf(r) == {s \in Symbols : task[<<r, s>>].pc \in HasCounted}
CountsOk(r) ==
  /\ run[r].success + run[r].failure = Cardinality(CountedOf(r))
  /\ \A s \in Symbols :
       task[<<r, s>>].pc \in HasCounted \cup {"count"} => job[<<r, s>>] \in FinishedJob
  /\ Final(r) => CountedOf(r) = Symbols
CountInv == TypeInv /\ \A r \in Runs : FirstAttempts(r) => CountsOk(r)

LEMMA InitCount == Init => CountInv
<1> SUFFICES ASSUME Init, NEW r \in Runs PROVE TypeInv /\ CountsOk(r)
  BY InitType DEF CountInv
<1>1. \A s \in Symbols : task[<<r, s>>].pc = "none"
  BY DEF Init, FreshAttempt, Tasks
<1>2. CountedOf(r) = {}
  BY <1>1 DEF CountedOf, HasCounted
<1>3. run[r].success = 0 /\ run[r].failure = 0 /\ ~Final(r)
  BY DEF Init, Final, FinalStatus
<1> QED
  BY <1>1, <1>2, <1>3, InitType, FS_EmptySet DEF CountsOk, HasCounted

\* Counters, finality and who has counted stay as they are; jobs may be marked.
LEMMA SameCounts ==
  ASSUME NEW r \in Runs, CountsOk(r),
         run'[r].success = run[r].success, run'[r].failure = run[r].failure,
         Final(r)' => Final(r),
         \A s \in Symbols : task'[<<r, s>>].pc \in HasCounted <=> task[<<r, s>>].pc \in HasCounted,
         \A s \in Symbols : task'[<<r, s>>].pc \in HasCounted \cup {"count"} =>
           \/ job'[<<r, s>>] \in FinishedJob
           \/ /\ task[<<r, s>>].pc \in HasCounted \cup {"count"}
              /\ job'[<<r, s>>] = job[<<r, s>>]
  PROVE  CountsOk(r)'
<1>1. CountedOf(r)' = CountedOf(r)
  BY DEF CountedOf
<1> QED
  BY <1>1 DEF CountsOk

LEMMA StartCount ==
  ASSUME CountInv, Start \/ StarterCrash \/ \E s \in Symbols : JobEnqueueFails(s)
  PROVE  CountInv'
<1> USE DEF docs
<1>0. TypeInv /\ TypeInv' /\ TypeOK /\ starter \in StarterState
  BY StartType DEF CountInv, TypeInv, TypeOK
<1> SUFFICES ASSUME NEW r \in Runs, FirstAttempts(r)' PROVE CountsOk(r)'
  BY <1>0 DEF CountInv
<1>1. CASE CreateDailyRun
  <2>1. FirstAttempts(r)
    BY <1>1 DEF CreateDailyRun, FirstAttempts
  <2>2. CountsOk(r)
    BY <2>1 DEF CountInv
  <2>3. /\ run'[r].success = run[r].success /\ run'[r].failure = run[r].failure
        /\ Final(r)' => Final(r)
    BY <1>0, <1>1 DEF CreateDailyRun, Final, FinalStatus, TypeOK, RunDoc
  <2> QED
    BY <1>1, <2>2, <2>3, SameCounts DEF CreateDailyRun
<1>2. CASE FinishEnqueue \/ StarterCrash
  <2>1. UNCHANGED <<run, job, task>>
    BY <1>2 DEF FinishEnqueue, StarterCrash
  <2> QED
    BY <2>1 DEF CountInv, FirstAttempts, CountsOk, CountedOf, Final
\* A job is marked pending before its task is enqueued, never after.
<1>3. ASSUME NEW s \in Symbols, CreateJobAndEnqueue(s) \/ JobEnqueueFails(s)
      PROVE  CountsOk(r)'
  <2>1. /\ CreateJob(s) /\ UNCHANGED run
        /\ task' = task \/ task' = [task EXCEPT ![<<starter.run, s>>].pc = "queued"]
    BY <1>3 DEF CreateJobAndEnqueue, JobEnqueueFails
  <2>2. /\ <<starter.run, s>> \in Tasks
        /\ task[<<starter.run, s>>].pc = "none"
        /\ job' = [job EXCEPT ![<<starter.run, s>>] = "PENDING"]
    BY <1>0, <2>1 DEF CreateJob, TypeInv, NoTaskAhead, Ahead, Tasks, StarterState
  <2>3. \A u \in Tasks : /\ u # <<starter.run, s>> => task'[u] = task[u] /\ job'[u] = job[u]
                         /\ task'[u].attempts = task[u].attempts
    <3>1. job' = [job EXCEPT ![<<starter.run, s>>] = "PENDING"] /\ DOMAIN job = Tasks
      BY <1>0, <2>2 DEF TypeOK
    <3>2. \/ task' = task
          \/ task' = [task EXCEPT ![<<starter.run, s>>] =
                        [task[<<starter.run, s>>] EXCEPT !.pc = "queued"]]
      BY <2>1
    <3>3. task[<<starter.run, s>>] \in TaskState /\ DOMAIN task = Tasks
      BY <1>0, <2>2 DEF TypeOK
    <3>4. [task[<<starter.run, s>>] EXCEPT !.pc = "queued"].attempts
          = task[<<starter.run, s>>].attempts
      BY <3>3 DEF TaskState
    <3>5. \A u \in Tasks : u # <<starter.run, s>> => task'[u] = task[u] /\ job'[u] = job[u]
      BY <3>1, <3>2, <3>3
    <3>6. task'[<<starter.run, s>>].attempts = task[<<starter.run, s>>].attempts
      BY <2>2, <3>2, <3>3, <3>4
    <3> QED
      BY <3>5, <3>6
  <2>4. task'[<<starter.run, s>>].pc \in {"none", "queued"}
    BY <1>0, <2>1, <2>2 DEF TypeOK, TaskState
  <2>5. \A i \in Symbols : <<r, i>> \in Tasks
    BY DEF Tasks
  <2>6. FirstAttempts(r)
    BY <2>3, <2>5 DEF FirstAttempts
  <2>7. CountsOk(r)
    BY <2>6 DEF CountInv
  <2>8. \A i \in Symbols :
          \/ task'[<<r, i>>] = task[<<r, i>>] /\ job'[<<r, i>>] = job[<<r, i>>]
          \/ task'[<<r, i>>].pc \in {"none", "queued"} /\ task[<<r, i>>].pc = "none"
    BY <2>2, <2>3, <2>4, <2>5
  <2> QED
    BY <2>1, <2>7, <2>8, SameCounts DEF HasCounted, Final
<1> QED
  BY <1>1, <1>2, <1>3 DEF Start

\* How a task's step moves it, if its attempt goes on.
LEMMA TaskMoves ==
  ASSUME TypeInv, NEW t \in Tasks, Work(t) \/ WorkFails(t), task'[t].attempts = 0
  PROVE  /\ task[t].attempts = 0
         /\ \/ /\ task[t].pc \notin HasCounted /\ task'[t].pc \notin HasCounted
               /\ UNCHANGED run
               /\ task'[t].pc = "count" => task[t].pc = "mark" /\ MarkComplete(t)
            \/ task[t].pc = "count" /\ task'[t].pc \in HasCounted /\ UpdateRunCounters(t)
            \/ /\ task[t].pc \in HasCounted /\ task'[t].pc \in HasCounted
               /\ run' = run \/ (EvalRunCompletion(t) /\ CompletionDue(run[t[1]]))
               /\ UNCHANGED job
<1> USE DEF docs, HasCounted
<1>1. task \in [Tasks -> TaskState] /\ task[t] \in TaskState /\ task[t].attempts \in Nat
  BY DEF TypeInv, TypeOK, TaskState
<1>2. task' # [task EXCEPT ![t] = Retried(@.attempts + 1)]
  BY <1>1 DEF Retried, FreshAttempt
<1>3. ASSUME Return(t)
      PROVE  task'[t].pc = "done" /\ task[t].attempts = 0
  BY <1>1, <1>3 DEF Return, Retried, FreshAttempt
<1>4. ASSUME Caught(t)
      PROVE  task'[t].pc = "mark" /\ task[t].attempts = 0
  BY <1>1, <1>4 DEF Caught, TaskState
<1>5. ASSUME NEW from, NEW to, Goto(t, from, to)
      PROVE  task[t].pc = from /\ task'[t].pc = to /\ task[t].attempts = 0
  BY <1>1, <1>5 DEF Goto, TaskState
<1>6. CASE MarkInProgress(t) \/ ProcessSymbol(t)
  BY <1>5, <1>6 DEF MarkInProgress, ProcessSymbol
<1>7. CASE MarkComplete(t)
  BY <1>5, <1>7 DEF MarkComplete
<1>8. CASE UpdateRunCounters(t)
  BY <1>5, <1>8 DEF UpdateRunCounters
<1>9. CASE EvalRunCompletion(t)
  <2>1. CASE CompletionDue(run[t[1]])
    <3>1. /\ task[t].pc = "check" /\ UNCHANGED job
          /\ task' = [task EXCEPT ![t].pc = "ingest"]
      BY <1>9, <2>1 DEF EvalRunCompletion
    <3>2. task'[t].pc = "ingest" /\ task[t].attempts = 0
      BY <1>1, <3>1 DEF TaskState
    <3> QED
      BY <1>9, <2>1, <3>1, <3>2
  <2>2. CASE ~CompletionDue(run[t[1]])
    <3>1. task[t].pc = "check" /\ UNCHANGED <<run, job>> /\ Return(t)
      BY <1>9, <2>2 DEF EvalRunCompletion
    <3>2. task'[t].pc = "done" /\ task[t].attempts = 0
      BY <1>3, <3>1
    <3>3. run' = run /\ job' = job
      BY <3>1
    <3> QED
      BY <3>1, <3>2, <3>3
  <2> QED
    BY <2>1, <2>2
<1>10. CASE EnqueueAutoPaperIngest(t) \/ TransactionFails(t) \/ IngestEnqueueFails(t)
  <2>1. task[t].pc \in {"check", "ingest"} /\ UNCHANGED <<run, job>> /\ Return(t)
    BY <1>10 DEF EnqueueAutoPaperIngest, TransactionFails, IngestEnqueueFails
  <2>2. task'[t].pc = "done" /\ task[t].attempts = 0
    BY <1>3, <2>1
  <2>3. run' = run /\ job' = job
    BY <2>1
  <2> QED
    BY <2>1, <2>2, <2>3
<1>11. CASE ProcessSymbolThrows(t) \/ ProgressWriteFails(t)
  BY <1>2, <1>4, <1>11 DEF ProcessSymbolThrows, ProgressWriteFails
<1>12. CASE WorkerCrash(t)
  BY <1>2, <1>12 DEF WorkerCrash
<1> QED
  BY <1>6, <1>7, <1>8, <1>9, <1>10, <1>11, <1>12 DEF Work, WorkFails

LEMMA OtherRuns ==
  ASSUME TypeInv, NEW t \in Tasks, Work(t) \/ WorkFails(t)
  PROVE  /\ \A r \in Runs : r # t[1] => run'[r] = run[r]
         /\ \A u \in Tasks : u # t => job'[u] = job[u]
BY DEF docs, TypeInv, TypeOK, Work, WorkFails, MarkInProgress, ProcessSymbol, MarkComplete,
   UpdateRunCounters, EvalRunCompletion, EnqueueAutoPaperIngest, ProcessSymbolThrows,
   ProgressWriteFails, TransactionFails, IngestEnqueueFails, WorkerCrash

LEMMA TaskCount ==
  ASSUME CountInv, NEW t \in Tasks, Work(t) \/ WorkFails(t)
  PROVE  CountInv'
<1>0. TypeInv /\ TypeInv' /\ TypeOK /\ TypeOK'
  BY TaskStepType DEF CountInv, TypeInv
<1> SUFFICES ASSUME NEW r \in Runs, FirstAttempts(r)' PROVE CountsOk(r)'
  BY <1>0 DEF CountInv
<1>1. /\ \A s \in Symbols : <<r, s>> \in Tasks
      /\ t[1] \in Runs /\ t[2] \in Symbols /\ t = <<t[1], t[2]>>
      /\ \A u \in Tasks : u # t => task'[u] = task[u] /\ job'[u] = job[u]
  BY <1>0, TaskParts, TaskStepFrame, OtherRuns DEF Tasks
<1>2. CASE r # t[1]
  <2>1. run'[r] = run[r]
    BY <1>0, <1>2, OtherRuns
  <2>2. \A s \in Symbols : task'[<<r, s>>] = task[<<r, s>>] /\ job'[<<r, s>>] = job[<<r, s>>]
    BY <1>1, <1>2
  <2>3. CountsOk(r)
    BY <2>2 DEF CountInv, FirstAttempts
  <2> QED
    BY <2>1, <2>2, <2>3, SameCounts DEF Final
<1>3. CASE r = t[1]
  <2>1. task'[t].attempts = 0
    BY <1>1, <1>3 DEF FirstAttempts
  <2>2. task[t].attempts = 0 /\ \A s \in Symbols : s # t[2] => task'[<<r, s>>] = task[<<r, s>>]
                                                           /\ job'[<<r, s>>] = job[<<r, s>>]
    BY <1>0, <1>1, <1>3, <2>1, TaskMoves
  <2>3. FirstAttempts(r)
    BY <1>1, <1>3, <2>2 DEF FirstAttempts
  <2>4. CountsOk(r)
    BY <2>3 DEF CountInv
  <2>5. CASE /\ task[t].pc \notin HasCounted /\ task'[t].pc \notin HasCounted
             /\ UNCHANGED run
             /\ task'[t].pc = "count" => task[t].pc = "mark" /\ MarkComplete(t)
    <3>1. task'[t].pc = "count" => job'[t] \in FinishedJob
      BY <1>0, <2>5 DEF MarkComplete, TypeOK, TaskState
    <3>2. \A s \in Symbols :
            task'[<<r, s>>].pc \in HasCounted <=> task[<<r, s>>].pc \in HasCounted
      BY <1>1, <1>3, <2>2, <2>5
    <3>3. \A s \in Symbols : task'[<<r, s>>].pc \in HasCounted \cup {"count"} =>
            \/ job'[<<r, s>>] \in FinishedJob
            \/ /\ task[<<r, s>>].pc \in HasCounted \cup {"count"}
               /\ job'[<<r, s>>] = job[<<r, s>>]
      BY <1>1, <1>3, <2>2, <2>5, <3>1
    <3> QED
      BY <2>4, <2>5, <3>2, <3>3, SameCounts DEF Final
  <2>6. CASE task[t].pc = "count" /\ task'[t].pc \in HasCounted /\ UpdateRunCounters(t)
    <3>1. /\ run' = [run EXCEPT ![r] = CountOutcome(run[r], task[t].outcome)] /\ job' = job
          /\ run[r] \in RunDoc
      BY <1>0, <1>3, <2>6 DEF UpdateRunCounters, TypeOK
    <3>2. /\ run'[r].success + run'[r].failure = run[r].success + run[r].failure + 1
          /\ run'[r].status = run[r].status
      BY <1>0, <3>1 DEF CountOutcome, TypeOK, RunDoc
    <3>3. CountedOf(r)' = CountedOf(r) \cup {t[2]} /\ t[2] \notin CountedOf(r)
      BY <1>1, <1>3, <2>2, <2>6 DEF CountedOf, HasCounted
    <3>4. IsFiniteSet(CountedOf(r))
      BY SymbolsAssumption, FS_Subset DEF CountedOf
    <3>5. Cardinality(CountedOf(r)') = Cardinality(CountedOf(r)) + 1
      BY <3>3, <3>4, FS_AddElement
    <3>6. \A s \in Symbols :
            task'[<<r, s>>].pc \in HasCounted \cup {"count"} => job'[<<r, s>>] \in FinishedJob
      BY <1>1, <1>3, <2>2, <2>4, <2>6, <3>1 DEF CountsOk
    <3>7. Final(r)' => CountedOf(r)' = Symbols
      BY <1>1, <2>4, <3>2, <3>3 DEF CountsOk, Final
    <3> QED
      BY <2>4, <3>2, <3>5, <3>6, <3>7 DEF CountsOk
  <2>7. CASE /\ task[t].pc \in HasCounted /\ task'[t].pc \in HasCounted
             /\ run' = run \/ (EvalRunCompletion(t) /\ CompletionDue(run[t[1]]))
             /\ UNCHANGED job
    <3>1. \A s \in Symbols :
            task'[<<r, s>>].pc \in HasCounted <=> task[<<r, s>>].pc \in HasCounted
      BY <1>1, <1>3, <2>2, <2>7
    <3>2. \A s \in Symbols : task'[<<r, s>>].pc \in HasCounted \cup {"count"} =>
            task[<<r, s>>].pc \in HasCounted \cup {"count"}
      BY <1>1, <1>3, <2>2, <2>7
    <3>3. CASE run' = run
      BY <2>4, <2>7, <3>1, <3>2, <3>3, SameCounts DEF Final, CountsOk
    \* The counters are full: every task of the run has counted.
    <3>4. CASE EvalRunCompletion(t) /\ CompletionDue(run[t[1]])
      <4>1. /\ run'[r].success = run[r].success /\ run'[r].failure = run[r].failure
            /\ run[r].success + run[r].failure >= TotalSymbols
        BY <1>0, <1>3, <3>4 DEF EvalRunCompletion, CompletionDue, TypeOK, RunDoc
      <4>2. CountedOf(r)' = CountedOf(r)
        BY <3>1 DEF CountedOf
      <4>3. CountedOf(r) \subseteq Symbols /\ IsFiniteSet(Symbols)
        BY SymbolsAssumption DEF CountedOf
      <4>4. /\ IsFiniteSet(CountedOf(r)) /\ Cardinality(CountedOf(r)) <= TotalSymbols
            /\ Cardinality(CountedOf(r)) = TotalSymbols => CountedOf(r) = Symbols
            /\ Cardinality(CountedOf(r)) \in Nat
        BY <4>3, FS_Subset, FS_CardinalityType DEF TotalSymbols
      <4>5. CountedOf(r) = Symbols
        BY <2>4, <4>1, <4>4, TotalIsNat DEF CountsOk
      <4> QED
        BY <2>4, <2>7, <3>2, <4>1, <4>2, <4>5 DEF CountsOk
    <3> QED
      BY <2>7, <3>3, <3>4
  <2> QED
    BY <1>0, <2>1, <2>5, <2>6, <2>7, TaskMoves
<1> QED
  BY <1>2, <1>3

LEMMA StepCount == CountInv /\ [Next]_vars => CountInv'
<1>1. ASSUME CountInv, UNCHANGED vars PROVE CountInv'
  BY <1>1, StutterType DEF CountInv, vars, FirstAttempts, CountsOk, CountedOf, Final
<1> QED
  BY <1>1, StartCount, TaskCount DEF Next

\* A run none of whose tasks was run again is not closed while one of its jobs is
\* in flight.
THEOREM CompletionIsNotEarly == Spec => []CompletionNotEarly
<1>1. CountInv => CompletionNotEarly
  BY DEF CountInv, CountsOk, CountedOf, FirstAttempts, Final, CompletionNotEarly
<1> QED
  BY InitCount, StepCount, <1>1, PTL DEF Spec

-----------------------------------------------------------------------------
(***************************************************************************)
(* The last finisher looks at the counters.                                *)
(***************************************************************************)
PendingInv ==
  /\ TypeInv
  /\ \A r \in Runs : CompletionDue(run[r]) => \E s \in Symbols : task[<<r, s>>].pc = "check"

LEMMA InitPending == Init => PendingInv
BY InitType, TotalIsNat DEF Init, PendingInv, CompletionDue

\* The dispatch changes a run's status only.
LEMMA StartRun ==
  ASSUME TypeOK, Start \/ StarterCrash \/ \E s \in Symbols : JobEnqueueFails(s), NEW r \in Runs
  PROVE  /\ run'[r].success = run[r].success /\ run'[r].failure = run[r].failure
         /\ run'[r].completionProcessed = run[r].completionProcessed
         /\ run'[r].status \in {run[r].status, "RUNNING"}
<1>1. CASE UNCHANGED run
  BY <1>1
<1>2. CASE CreateDailyRun
  <2>1. run' = [run EXCEPT ![starter.run].status = "RUNNING"] /\ run \in [Runs -> RunDoc]
    BY <1>2 DEF CreateDailyRun, TypeOK
  <2> QED
    BY <2>1 DEF RunDoc
<1> QED
  BY <1>1, <1>2 DEF Start, StarterCrash, JobEnqueueFails, FinishEnqueue, CreateJob,
     CreateJobAndEnqueue, docs

\* No task that checks has its job created again.
LEMMA StartPending ==
  ASSUME PendingInv, Start \/ StarterCrash \/ \E s \in Symbols : JobEnqueueFails(s)
  PROVE  PendingInv'
<1>0. TypeInv' /\ TypeOK /\ NoTaskAhead
  BY StartType DEF PendingInv, TypeInv
<1>1. \A r \in Runs : /\ run'[r].success = run[r].success /\ run'[r].failure = run[r].failure
                      /\ run'[r].completionProcessed = run[r].completionProcessed
  BY <1>0, StartRun
<1>2. ASSUME NEW t \in Tasks, task[t].pc = "check" PROVE task'[t].pc = "check"
  <2>1. CASE UNCHANGED task
    BY <1>2, <2>1
  <2>2. ASSUME NEW s \in Symbols, CreateJobAndEnqueue(s) PROVE task'[t].pc = "check"
    <3>1. <<starter.run, s>> \in Tasks /\ task[<<starter.run, s>>].pc = "none"
      BY <1>0, <2>2 DEF CreateJobAndEnqueue, CreateJob, NoTaskAhead, Ahead, Tasks, TypeOK,
         StarterState
    <3> QED
      BY <1>0, <1>2, <2>2, <3>1 DEF CreateJobAndEnqueue, TypeOK
  <2> QED
    BY <2>1, <2>2 DEF Start, StarterCrash, JobEnqueueFails, CreateDailyRun, FinishEnqueue
<1>3. \A r \in Runs, s \in Symbols : <<r, s>> \in Tasks
  BY DEF Tasks
<1> QED
  BY <1>0, <1>1, <1>2, <1>3 DEF PendingInv, CompletionDue

LEMMA TaskPending ==
  ASSUME PendingInv, {"transaction", "crashAfterCount"} \cap Faults = {},
         NEW t \in Tasks, Work(t) \/ WorkFails(t)
  PROVE  PendingInv'
<1>0. TypeInv /\ TypeInv' /\ TypeOK
  BY TaskStepType DEF PendingInv, TypeInv
<1>1. /\ \A u \in Tasks : u # t => task'[u] = task[u]
      /\ \A r \in Runs : r # t[1] => run'[r] = run[r]
  BY <1>0, TaskStepFrame, OtherRuns
<1>2. task \in [Tasks -> TaskState] /\ task[t] \in TaskState /\ run \in [Runs -> RunDoc]
      /\ t[1] \in Runs /\ t[2] \in Symbols /\ t = <<t[1], t[2]>>
  BY <1>0, TaskParts DEF TypeOK, Tasks
<1> SUFFICES ASSUME NEW r \in Runs, CompletionDue(run[r])'
             PROVE  \E s \in Symbols : task'[<<r, s>>].pc = "check"
  BY <1>0 DEF PendingInv
<1>3. \A s \in Symbols : <<r, s>> \in Tasks
  BY DEF Tasks
<1>4. CASE UpdateRunCounters(t) /\ r = t[1]
  BY <1>2, <1>4 DEF UpdateRunCounters, Goto
<1>5. CASE task[t].pc # "check" /\ ~(UpdateRunCounters(t) /\ r = t[1])
  <2>1. run'[r] = run[r]
    BY <1>1, <1>5 DEF Work, WorkFails, MarkInProgress, ProcessSymbol, MarkComplete,
       EvalRunCompletion, EnqueueAutoPaperIngest, ProcessSymbolThrows, ProgressWriteFails,
       TransactionFails, IngestEnqueueFails, WorkerCrash, docs
  <2>2. PICK s \in Symbols : task[<<r, s>>].pc = "check"
    BY <2>1 DEF PendingInv
  <2> QED
    BY <1>1, <1>3, <1>5, <2>2
<1>6. CASE task[t].pc = "check"
  <2>1. EvalRunCompletion(t)
    BY <1>6 DEF Work, WorkFails, MarkInProgress, ProcessSymbol, MarkComplete, UpdateRunCounters,
       EnqueueAutoPaperIngest, ProcessSymbolThrows, ProgressWriteFails, TransactionFails,
       IngestEnqueueFails, WorkerCrash, Goto
  <2>2. CASE r = t[1]
    <3>1. ~CompletionDue(run[r])'
      <4>1. CASE CompletionDue(run[r])
        <5>1. run' = [run EXCEPT ![r].status = StatusOf(run[r]), ![r].completionProcessed = TRUE]
          BY <2>1, <2>2, <4>1 DEF EvalRunCompletion
        <5>2. run'[r].completionProcessed
          BY <1>2, <5>1 DEF RunDoc
        <5> QED
          BY <5>2 DEF CompletionDue
      <4>2. CASE ~CompletionDue(run[r])
        BY <2>1, <2>2, <4>2 DEF EvalRunCompletion, CompletionDue
      <4> QED
        BY <4>1, <4>2
    <3> QED
      BY <3>1
  <2>3. CASE r # t[1]
    <3>1. run'[r] = run[r] /\ \A s \in Symbols : task'[<<r, s>>] = task[<<r, s>>]
      BY <1>1, <1>2, <1>3, <2>3
    <3> QED
      BY <3>1 DEF PendingInv
  <2> QED
    BY <2>2, <2>3
<1> QED
  BY <1>4, <1>5, <1>6

\* A run whose counters are full has a task that is about to look at them.
THEOREM CompletionIsPending ==
  ASSUME {"transaction", "crashAfterCount"} \cap Faults = {}
  PROVE  Spec => []CompletionPending
<1>1. PendingInv /\ [Next]_vars => PendingInv'
  <2>1. ASSUME PendingInv, UNCHANGED vars PROVE PendingInv'
    BY <2>1, StutterType DEF PendingInv, vars
  <2> QED
    BY <2>1, StartPending, TaskPending DEF Next
<1>2. PendingInv => CompletionPending
  BY DEF PendingInv, CompletionPending
<1> QED
  BY InitPending, <1>1, <1>2, PTL DEF Spec

-----------------------------------------------------------------------------
(***************************************************************************)
(* A run without a counted failure.                                        *)
(***************************************************************************)
AllSucceeded(r) ==
  /\ run[r].success = Cardinality(CountedOf(r))
  /\ \A s \in Symbols :
       /\ task[<<r, s>>].pc \in HasCounted =>
            task[<<r, s>>].outcome = "SUCCESS" /\ job[<<r, s>>] = "SUCCESS"
       /\ task[<<r, s>>].pc = "count" => job[<<r, s>>] = task[<<r, s>>].outcome
  /\ Final(r) => CountedOf(r) = Symbols
SuccessInv ==
  /\ TypeInv
  /\ \A r \in Runs : /\ run[r].status = "SUCCESS" => run[r].failure = 0
                     /\ run[r].failure = 0 => AllSucceeded(r)

LEMMA InitSuccess == Init => SuccessInv
<1> SUFFICES ASSUME Init, NEW r \in Runs
             PROVE  TypeInv /\ run[r].status # "SUCCESS" /\ AllSucceeded(r)
  BY InitType DEF SuccessInv
<1>1. \A s \in Symbols : task[<<r, s>>].pc = "none"
  BY DEF Init, FreshAttempt, Tasks
<1>2. CountedOf(r) = {}
  BY <1>1 DEF CountedOf, HasCounted
<1>3. run[r].success = 0 /\ ~Final(r)
  BY DEF Init, Final, FinalStatus
<1> QED
  BY <1>1, <1>2, <1>3, InitType, FS_EmptySet DEF AllSucceeded, HasCounted, Final, FinalStatus

\* The tasks and jobs of a run change only where nothing was counted.
LEMMA SameSuccesses ==
  ASSUME NEW r \in Runs, AllSucceeded(r),
         run'[r].success = run[r].success, Final(r)' => Final(r),
         \A s \in Symbols :
           \/ task'[<<r, s>>] = task[<<r, s>>] /\ job'[<<r, s>>] = job[<<r, s>>]
           \/ /\ task[<<r, s>>].pc \notin HasCounted /\ task'[<<r, s>>].pc \notin HasCounted
              /\ task'[<<r, s>>].pc = "count" => job'[<<r, s>>] = task'[<<r, s>>].outcome
           \/ /\ task[<<r, s>>].pc \in HasCounted /\ task'[<<r, s>>].pc \in HasCounted
              /\ task'[<<r, s>>].outcome = "SUCCESS" /\ job'[<<r, s>>] = job[<<r, s>>]
  PROVE  AllSucceeded(r)'
<1>1. \A s \in Symbols : task'[<<r, s>>].pc \in HasCounted <=> task[<<r, s>>].pc \in HasCounted
  OBVIOUS
<1>2. CountedOf(r)' = CountedOf(r)
  BY <1>1 DEF CountedOf
<1> QED
  BY <1>2 DEF AllSucceeded, HasCounted

LEMMA StartSuccess ==
  ASSUME SuccessInv, Start \/ StarterCrash \/ \E s \in Symbols : JobEnqueueFails(s)
  PROVE  SuccessInv'
<1>0. TypeInv' /\ TypeOK /\ NoTaskAhead
  BY StartType DEF SuccessInv, TypeInv
<1>1. \A r \in Runs : /\ run'[r].success = run[r].success /\ run'[r].failure = run[r].failure
                      /\ run'[r].status \in {run[r].status, "RUNNING"}
  BY <1>0, StartRun
<1>2. ASSUME NEW t \in Tasks
      PROVE  \/ task'[t] = task[t] /\ job'[t] = job[t]
             \/ task[t].pc = "none" /\ task'[t].pc \in {"none", "queued"}
  <2>1. CASE UNCHANGED <<task, job>>
    BY <2>1
  <2>2. ASSUME NEW s \in Symbols, CreateJobAndEnqueue(s) \/ JobEnqueueFails(s)
        PROVE  \/ task'[t] = task[t] /\ job'[t] = job[t]
               \/ task[t].pc = "none" /\ task'[t].pc \in {"none", "queued"}
    <3>1. /\ <<starter.run, s>> \in Tasks /\ task[<<starter.run, s>>].pc = "none"
          /\ job' = [job EXCEPT ![<<starter.run, s>>] = "PENDING"]
          /\ task' = task \/ task' = [task EXCEPT ![<<starter.run, s>>].pc = "queued"]
      BY <1>0, <2>2 DEF CreateJobAndEnqueue, JobEnqueueFails, CreateJob, NoTaskAhead, Ahead,
         Tasks, TypeOK, StarterState
    <3> QED
      BY <1>0, <3>1 DEF TypeOK, TaskState
  <2> QED
    BY <2>1, <2>2 DEF Start, StarterCrash, JobEnqueueFails, CreateDailyRun, FinishEnqueue, docs
<1>3. \A r \in Runs, s \in Symbols : <<r, s>> \in Tasks
  BY DEF Tasks
<1>4. ASSUME NEW r \in Runs, run'[r].failure = 0 PROVE AllSucceeded(r)'
  <2>1. AllSucceeded(r) /\ (Final(r)' => Final(r))
    BY <1>1, <1>4 DEF SuccessInv, Final, FinalStatus
  <2>2. \A s \in Symbols :
           \/ task'[<<r, s>>] = task[<<r, s>>] /\ job'[<<r, s>>] = job[<<r, s>>]
           \/ task[<<r, s>>].pc = "none" /\ task'[<<r, s>>].pc \in {"none", "queued"}
    BY <1>2, <1>3
  <2> QED
    BY <1>1, <2>1, <2>2, SameSuccesses DEF HasCounted
<1> QED
  BY <1>0, <1>1, <1>4 DEF SuccessInv

\* How a task of a run without a counted failure moves.
LEMMA SuccessMoves ==
  ASSUME TypeInv, "crashAfterCount" \notin Faults, NEW t \in Tasks, Work(t) \/ WorkFails(t),
         task[t].pc \in HasCounted => task[t].outcome = "SUCCESS"
  PROVE  \/ /\ task[t].pc \notin HasCounted /\ task'[t].pc \notin HasCounted
            /\ UNCHANGED run
            /\ task'[t].pc = "count" => job'[t] = task'[t].outcome
         \/ /\ UpdateRunCounters(t) /\ task[t].pc = "count" /\ task'[t].pc \in HasCounted
            /\ task'[t].outcome = task[t].outcome
         \/ /\ task[t].pc \in HasCounted /\ task'[t].pc \in HasCounted
            /\ task'[t].outcome = "SUCCESS" /\ UNCHANGED job
            /\ run' = run \/ (EvalRunCompletion(t) /\ CompletionDue(run[t[1]]))
<1> USE DEF docs, HasCounted
<1>1. task \in [Tasks -> TaskState] /\ task[t] \in TaskState /\ job \in [Tasks -> {"absent", "PENDING", "IN_PROGRESS"} \cup FinishedJob]
  BY DEF TypeInv, TypeOK
<1>2. \A n : Retried(n).pc \in {"queued", "dead"}
  BY DEF Retried, FreshAttempt
<1>3. ASSUME Return(t), task[t].pc \in HasCounted
      PROVE  task'[t].pc = "done" /\ task'[t].outcome = "SUCCESS"
  BY <1>1, <1>3 DEF Return, FreshAttempt
<1>4. ASSUME NEW from, NEW to, Goto(t, from, to)
      PROVE  task[t].pc = from /\ task'[t].pc = to /\ task'[t].outcome = task[t].outcome
  BY <1>1, <1>4 DEF Goto, TaskState
<1>5. CASE MarkInProgress(t) \/ ProcessSymbol(t)
  BY <1>4, <1>5 DEF MarkInProgress, ProcessSymbol
<1>6. CASE MarkComplete(t)
  <2>1. job'[t] = task[t].outcome
    BY <1>1, <1>6 DEF MarkComplete
  <2> QED
    BY <1>4, <1>6, <2>1 DEF MarkComplete
<1>7. CASE UpdateRunCounters(t)
  BY <1>4, <1>7 DEF UpdateRunCounters
<1>8. CASE EvalRunCompletion(t)
  <2>1. CASE CompletionDue(run[t[1]])
    <3>1. task'[t].pc = "ingest" /\ task'[t].outcome = task[t].outcome
      BY <1>1, <1>8, <2>1 DEF EvalRunCompletion, TaskState
    <3> QED
      BY <1>8, <2>1, <3>1 DEF EvalRunCompletion
  <2>2. CASE ~CompletionDue(run[t[1]])
    BY <1>3, <1>8, <2>2 DEF EvalRunCompletion
  <2> QED
    BY <2>1, <2>2
<1>9. CASE EnqueueAutoPaperIngest(t) \/ TransactionFails(t) \/ IngestEnqueueFails(t)
  BY <1>3, <1>9 DEF EnqueueAutoPaperIngest, TransactionFails, IngestEnqueueFails
<1>10. CASE ProcessSymbolThrows(t) \/ ProgressWriteFails(t) \/ WorkerCrash(t)
  <2>1. Caught(t) => task'[t].pc = "mark"
    BY <1>1 DEF Caught, TaskState
  <2>2. task' = [task EXCEPT ![t] = Retried(@.attempts + 1)] => task'[t].pc \in {"queued", "dead"}
    BY <1>1, <1>2
  <2> QED
    BY <1>10, <2>1, <2>2 DEF ProcessSymbolThrows, ProgressWriteFails, WorkerCrash
<1> QED
  BY <1>5, <1>6, <1>7, <1>8, <1>9, <1>10 DEF Work, WorkFails

LEMMA TaskSuccess ==
  ASSUME SuccessInv, "crashAfterCount" \notin Faults, NEW t \in Tasks, Work(t) \/ WorkFails(t)
  PROVE  SuccessInv'
<1>0. TypeInv /\ TypeInv' /\ TypeOK /\ TypeOK'
  BY TaskStepType DEF SuccessInv, TypeInv
<1>1. /\ \A u \in Tasks : u # t => task'[u] = task[u] /\ job'[u] = job[u]
      /\ \A r \in Runs : r # t[1] => run'[r] = run[r]
  BY <1>0, TaskStepFrame, OtherRuns
<1>2. t[1] \in Runs /\ t[2] \in Symbols /\ t = <<t[1], t[2]>> /\ task[t].outcome \in FinishedJob
  BY <1>0, TaskParts DEF TypeOK, Tasks, TaskState
<1>3. \A r \in Runs : run[r] \in RunDoc /\ run'[r] \in RunDoc /\ run[r].failure \in Nat
                      /\ run[r].success \in Nat
  BY <1>0 DEF TypeOK, RunDoc
<1> SUFFICES ASSUME NEW r \in Runs
             PROVE  /\ run'[r].status = "SUCCESS" => run'[r].failure = 0
                    /\ run'[r].failure = 0 => AllSucceeded(r)'
  BY <1>0 DEF SuccessInv
<1>4. \A s \in Symbols : <<r, s>> \in Tasks
  BY DEF Tasks
<1>5. CASE r # t[1]
  <2>1. run'[r] = run[r]
    BY <1>1, <1>5
  <2>2. \A s \in Symbols : task'[<<r, s>>] = task[<<r, s>>] /\ job'[<<r, s>>] = job[<<r, s>>]
    BY <1>1, <1>2, <1>4, <1>5
  <2>3. run'[r].failure = 0 => AllSucceeded(r)'
    BY <2>1, <2>2, SameSuccesses DEF SuccessInv, Final
  <2> QED
    BY <2>1, <2>3 DEF SuccessInv
<1>6. CASE r = t[1]
  <2>1. CASE UpdateRunCounters(t)
    <3>1. /\ run' = [run EXCEPT ![r] = CountOutcome(run[r], task[t].outcome)] /\ job' = job
          /\ task[t].pc = "count" /\ task' = [task EXCEPT ![t].pc = "check"]
      BY <1>6, <2>1 DEF UpdateRunCounters, Goto
    <3>2. /\ run'[r].status = run[r].status
          /\ IF task[t].outcome = "SUCCESS"
             THEN run'[r].success = run[r].success + 1 /\ run'[r].failure = run[r].failure
             ELSE run'[r].failure = run[r].failure + 1
      BY <1>0, <1>3, <3>1 DEF CountOutcome, TypeOK, RunDoc
    <3>3. task'[t].pc = "check" /\ task'[t].outcome = task[t].outcome
      BY <1>0, <3>1 DEF TypeOK, TaskState
    \* A run that ended in SUCCESS has no task left that could count.
    <3>4. run'[r].status = "SUCCESS" => run'[r].failure = 0
      <4>1. CASE run[r].status = "SUCCESS"
        <5>1. AllSucceeded(r) /\ Final(r)
          BY <4>1 DEF SuccessInv, Final, FinalStatus
        <5>2. t[2] \in CountedOf(r)
          BY <1>2, <5>1 DEF AllSucceeded
        <5> QED
          BY <1>2, <1>6, <3>1, <5>2 DEF CountedOf, HasCounted
      <4> QED
        BY <3>2, <4>1
    <3>5. ASSUME run'[r].failure = 0 PROVE AllSucceeded(r)'
      <4>1. task[t].outcome = "SUCCESS" /\ run[r].failure = 0
        BY <1>3, <3>2, <3>5
      <4>2. AllSucceeded(r)
        BY <4>1 DEF SuccessInv
      <4>3. job[t] = "SUCCESS"
        BY <1>2, <1>6, <3>1, <4>1, <4>2 DEF AllSucceeded
      <4>4. CountedOf(r)' = CountedOf(r) \cup {t[2]} /\ t[2] \notin CountedOf(r)
        BY <1>1, <1>2, <1>4, <1>6, <3>1, <3>3 DEF CountedOf, HasCounted
      <4>5. IsFiniteSet(CountedOf(r))
        BY SymbolsAssumption, FS_Subset DEF CountedOf
      <4>6. Cardinality(CountedOf(r)') = Cardinality(CountedOf(r)) + 1
        BY <4>4, <4>5, FS_AddElement
      <4>7. ~Final(r)'
        BY <1>2, <3>2, <4>2, <4>4 DEF AllSucceeded, Final
      <4>8. \A s \in Symbols : s # t[2] => /\ task'[<<r, s>>] = task[<<r, s>>]
                                           /\ job'[<<r, s>>] = job[<<r, s>>]
        BY <1>1, <1>2, <1>4, <1>6
      <4>9. \A s \in Symbols :
              /\ task'[<<r, s>>].pc \in HasCounted =>
                   task'[<<r, s>>].outcome = "SUCCESS" /\ job'[<<r, s>>] = "SUCCESS"
              /\ task'[<<r, s>>].pc = "count" => job'[<<r, s>>] = task'[<<r, s>>].outcome
        BY <1>2, <1>6, <3>1, <3>3, <4>1, <4>2, <4>3, <4>8 DEF AllSucceeded
      <4> QED
        BY <3>2, <4>1, <4>2, <4>6, <4>7, <4>9 DEF AllSucceeded
    <3> QED
      BY <3>4, <3>5
  <2>2. CASE ~UpdateRunCounters(t)
    <3>1. run'[r].failure = run[r].failure /\ run'[r].success = run[r].success
      BY <1>0, <2>2 DEF Work, WorkFails, MarkInProgress, ProcessSymbol, MarkComplete,
         EvalRunCompletion, EnqueueAutoPaperIngest, ProcessSymbolThrows, ProgressWriteFails,
         TransactionFails, IngestEnqueueFails, WorkerCrash, docs, TypeOK, RunDoc
    <3>2. CASE run'[r] = run[r]
      <4>1. ASSUME run[r].failure = 0 PROVE AllSucceeded(r)'
        <5>1. AllSucceeded(r)
          BY <4>1 DEF SuccessInv
        <5>2. task[t].pc \in HasCounted => task[t].outcome = "SUCCESS"
          BY <1>2, <1>6, <5>1 DEF AllSucceeded
        <5>3. \A s \in Symbols :
                 \/ task'[<<r, s>>] = task[<<r, s>>] /\ job'[<<r, s>>] = job[<<r, s>>]
                 \/ /\ task[<<r, s>>].pc \notin HasCounted /\ task'[<<r, s>>].pc \notin HasCounted
                    /\ task'[<<r, s>>].pc = "count" => job'[<<r, s>>] = task'[<<r, s>>].outcome
                 \/ /\ task[<<r, s>>].pc \in HasCounted /\ task'[<<r, s>>].pc \in HasCounted
                    /\ task'[<<r, s>>].outcome = "SUCCESS" /\ job'[<<r, s>>] = job[<<r, s>>]
          BY <1>0, <1>1, <1>4, <2>2, <5>2, SuccessMoves
        <5> QED
          BY <3>2, <5>1, <5>3, SameSuccesses DEF Final
      <4> QED
        BY <3>2, <4>1 DEF SuccessInv
    <3>3. CASE run'[r] # run[r]
      <4>1. EvalRunCompletion(t) /\ CompletionDue(run[r])
        BY <1>6, <2>2, <3>3 DEF Work, WorkFails, MarkInProgress, ProcessSymbol, MarkComplete,
           EvalRunCompletion, EnqueueAutoPaperIngest, ProcessSymbolThrows, ProgressWriteFails,
           TransactionFails, IngestEnqueueFails, WorkerCrash, docs
      <4>2. /\ run' = [run EXCEPT ![r].status = StatusOf(run[r]), ![r].completionProcessed = TRUE]
            /\ task[t].pc = "check" /\ task' = [task EXCEPT ![t].pc = "ingest"] /\ job' = job
        BY <1>6, <4>1 DEF EvalRunCompletion
      <4>3. run'[r].status = StatusOf(run[r])
        BY <1>0, <4>2 DEF TypeOK, RunDoc
      <4>4. run'[r].status = "SUCCESS" => run'[r].failure = 0
        BY <1>3, <3>1, <4>3 DEF StatusOf
      <4>5. ASSUME run[r].failure = 0 PROVE AllSucceeded(r)'
        <5>1. AllSucceeded(r)
          BY <4>5 DEF SuccessInv
        <5>2. task'[t].pc = "ingest" /\ task'[t].outcome = task[t].outcome
          BY <1>0, <4>2 DEF TypeOK, TaskState
        <5>3. \A s \in Symbols : s # t[2] => task'[<<r, s>>] = task[<<r, s>>]
          BY <1>1, <1>2, <1>4, <1>6
        <5>4. \A s \in Symbols :
                /\ task'[<<r, s>>].pc \in HasCounted <=> task[<<r, s>>].pc \in HasCounted
                /\ task'[<<r, s>>].outcome = task[<<r, s>>].outcome
                /\ task'[<<r, s>>].pc = "count" => task[<<r, s>>].pc = "count"
          BY <1>2, <1>6, <4>2, <5>2, <5>3 DEF HasCounted
        <5>5. CountedOf(r)' = CountedOf(r)
          BY <5>4 DEF CountedOf
        <5>6. CountedOf(r) \subseteq Symbols /\ IsFiniteSet(Symbols)
          BY SymbolsAssumption DEF CountedOf
        <5>7. /\ Cardinality(CountedOf(r)) <= TotalSymbols /\ Cardinality(CountedOf(r)) \in Nat
              /\ Cardinality(CountedOf(r)) = TotalSymbols => CountedOf(r) = Symbols
          BY <5>6, FS_Subset, FS_CardinalityType DEF TotalSymbols
        <5>8. Cardinality(CountedOf(r)) >= TotalSymbols
          BY <1>3, <4>1, <4>5, <5>1, TotalIsNat DEF AllSucceeded, CompletionDue
        <5>9. CountedOf(r) = Symbols
          BY <5>7, <5>8, TotalIsNat
        <5> QED
          BY <3>1, <4>2, <5>1, <5>4, <5>5, <5>9 DEF AllSucceeded
      <4> QED
        BY <3>1, <4>4, <4>5
    <3> QED
      BY <3>2, <3>3
  <2> QED
    BY <2>1, <2>2
<1> QED
  BY <1>5, <1>6

\* A run that ends in SUCCESS has no job that failed or is still under way.
THEOREM SuccessIsEarned ==
  ASSUME "crashAfterCount" \notin Faults PROVE Spec => []SuccessMeansAll
<1>1. SuccessInv /\ [Next]_vars => SuccessInv'
  <2>1. ASSUME SuccessInv, UNCHANGED vars PROVE SuccessInv'
    BY <2>1, StutterType DEF SuccessInv, vars, AllSucceeded, CountedOf, Final
  <2> QED
    BY <2>1, StartSuccess, TaskSuccess DEF Next
<1>2. SuccessInv => SuccessMeansAll
  BY TaskParts DEF SuccessInv, AllSucceeded, CountedOf, Final, FinalStatus, SuccessMeansAll, Tasks
<1> QED
  BY InitSuccess, <1>1, <1>2, PTL DEF Spec
=============================================================================
