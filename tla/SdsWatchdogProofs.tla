-------------------------- MODULE SdsWatchdogProofs --------------------------
(***************************************************************************)
(* Proofs about the watchdog beside the pipeline, for every set of         *)
(* intervals and symbols and every combination of faults.  A retried       *)
(* dispatch sends consumers again, so that nothing of what SdsCompletion   *)
(* proves about the claim carries over: who holds it is proved anew.       *)
(***************************************************************************)
EXTENDS SdsWatchdog, SdsCompletionProofs

WdState == [pc : WdPC, pass : WdPass, todo : SUBSET Runs, cur : Runs \cup {NoRun},
            next : 1..(Len(Consumers) + 1), failed : BOOLEAN]

\* The run the watchdog has forced and is about to report.
WdShape == WdTypeOK /\ (wd.pc = "union" => wd.cur \in Runs)

LEMMA WdParts == ASSUME WdShape PROVE TypeOK /\ wd \in WdState
BY DEF WdShape, WdTypeOK, WdState

LEMMA IdleWdType == IdleWd \in WdState /\ IdleWd.pc = "idle"
BY ConsumersLength DEF IdleWd, WdState, WdPC, WdPass, NoRun

\* fireSequenceCompletion returns to the pass that called it, its loop reset.
LEMMA AfterFireType ==
  ASSUME wd \in WdState
  PROVE  /\ AfterFire \in WdState /\ AfterFire.pc \in {"force", "retry", "idle"}
         /\ AfterFire.next = 1 /\ AfterFire.failed = FALSE
<1>1. 1 \in 1..(Len(Consumers) + 1)
  BY ConsumersLength
<1>2. CASE wd.pass = "runs"
  <2>1. AfterFire = [wd EXCEPT !.pc = "force", !.next = 1, !.failed = FALSE]
    BY <1>2 DEF AfterFire
  <2> QED
    BY <1>1, <2>1 DEF WdState, WdPC
<1>3. CASE wd.pass = "seqs"
  <2>1. AfterFire = [wd EXCEPT !.pc = "retry", !.next = 1, !.failed = FALSE]
    BY <1>3 DEF AfterFire
  <2> QED
    BY <1>1, <2>1 DEF WdState, WdPC
<1>4. CASE wd.pass = "retry"
  <2>1. AfterFire = IdleWd
    BY <1>4 DEF AfterFire
  <2> QED
    BY <2>1, IdleWdType DEF IdleWd
<1> QED
  BY <1>2, <1>3, <1>4 DEF WdState, WdPass

\* A run that is forced completes with the interval it names.
LEMMA RunInterval == ASSUME NEW r \in Runs PROVE r[2] \in Intervals
BY ProducerRun DEF Runs

LEMMA TickShape ==
  ASSUME WdShape, Tick PROVE TypeOK' /\ wd' \in WdState /\ (wd'.pc = "union" => wd'.cur \in Runs)
<1> DEFINE Good == TypeOK' /\ wd' \in WdState /\ (wd'.pc = "union" => wd'.cur \in Runs)
<1>1. TypeOK /\ wd \in WdState
  BY WdParts
<1>2. ASSUME NEW r \in Runs, ForceRun(r) PROVE Good
  <2>1. TypeOK'
    BY <1>1, <1>2 DEF ForceRun, TypeOK, RunDoc, TerminalRun
  <2> QED
    BY <1>1, <1>2, <2>1 DEF ForceRun, WdState, WdPC
<1>3. CASE ReportForced
  <2>1. wd.cur[2] \in Intervals
    BY <1>3, RunInterval DEF ReportForced, WdShape
  <2>2. seq' \in SeqDoc
    BY <1>1, <1>3, <2>1 DEF ReportForced, TypeOK, SeqDoc
  <2> QED
    BY <1>1, <1>3, <2>2 DEF ReportForced, TypeOK, WdState, WdPC
<1>4. CASE \/ RereadSequence \/ FinishRuns \/ QueryFailedDispatches
           \/ \E stale \in BOOLEAN : QueryStaleSequences(stale)
  <2>1. TypeOK'
    BY <1>1, <1>4 DEF RereadSequence, FinishRuns, QueryStaleSequences, QueryFailedDispatches,
      vars, TypeOK
  <2>2. wd' \in WdState /\ wd'.pc # "union"
    BY <1>1, <1>4, IdleWdType DEF RereadSequence, FinishRuns, QueryStaleSequences,
      QueryFailedDispatches, WdState, WdPC, WdPass
  <2> QED
    BY <2>1, <2>2
<1>5. CASE ResetSequence
  BY <1>1, <1>5 DEF ResetSequence, TypeOK, SeqDoc, WdState, WdPC
<1>6. CASE WdClaim
  <2>1. seq' \in SeqDoc
    BY <1>1, <1>6 DEF WdClaim, TypeOK, SeqDoc, TerminalSeq
  <2>2. wd' \in WdState /\ wd'.pc # "union"
    BY <1>1, <1>6, AfterFireType DEF WdClaim, WdState, WdPC
  <2> QED
    BY <1>1, <1>6, <2>1, <2>2 DEF WdClaim, TypeOK
<1>7. CASE WdEnqueueConsumer
  <2>1. dispatched' \in [ConsumerIds -> 0..DispatchCap]
    BY <1>1, <1>7, CountDispatchType DEF WdEnqueueConsumer, TypeOK
  <2>2. wd.next + 1 \in 1..(Len(Consumers) + 1)
    BY <1>1, <1>7, ConsumersLength DEF WdEnqueueConsumer, WdMore, WdState
  <2>3. wd' \in WdState /\ wd'.pc # "union"
    BY <1>1, <1>7, <2>2 DEF WdEnqueueConsumer, WdState, WdPC
  <2> QED
    BY <1>1, <1>7, <2>1, <2>3 DEF WdEnqueueConsumer, TypeOK
<1>8. CASE WdFinishDispatch
  <2>1. seq' \in SeqDoc
    BY <1>1, <1>8 DEF WdFinishDispatch, DispatchOutcome, TypeOK, SeqDoc, TerminalSeq
  <2>2. wd' \in WdState /\ wd'.pc # "union"
    BY <1>1, <1>8, AfterFireType DEF WdFinishDispatch
  <2> QED
    BY <1>1, <1>8, <2>1, <2>2 DEF WdFinishDispatch, TypeOK
<1> QED
  BY <1>2, <1>3, <1>4, <1>5, <1>6, <1>7, <1>8 DEF Tick

LEMMA WdShapeNext == WdShape /\ [WdNext]_wdVars => WdShape'
<1> SUFFICES ASSUME WdShape, [WdNext]_wdVars PROVE WdShape'
  OBVIOUS
<1>1. TypeOK /\ wd \in WdState
  BY WdParts
<1>2. TypeOK' /\ wd' \in WdState /\ (wd'.pc = "union" => wd'.cur \in Runs)
  <2>1. CASE Next /\ UNCHANGED wd
    BY <1>1, <2>1, NextType DEF WdShape
  <2>2. ASSUME NEW S \in SUBSET Runs, QueryStaleRuns(S)
        PROVE  TypeOK' /\ wd' \in WdState /\ wd'.pc # "union"
    <3>1. wd' = [IdleWd EXCEPT !.pc = "force", !.todo = S] /\ UNCHANGED vars
      BY <2>2 DEF QueryStaleRuns
    <3> QED
      BY <1>1, <3>1, IdleWdType, NextType DEF WdState, WdPC
  <2>3. CASE WdEnqueueConsumerFails
    <3>1. wd.next + 1 \in 1..(Len(Consumers) + 1)
      BY <1>1, <2>3, ConsumersLength DEF WdEnqueueConsumerFails, WdMore, WdState
    <3>2. wd' \in WdState /\ wd'.pc # "union"
      BY <1>1, <2>3, <3>1 DEF WdEnqueueConsumerFails, WdState, WdPC
    <3> QED
      BY <1>1, <2>3, <3>2, NextType DEF WdEnqueueConsumerFails
  <2>4. CASE WdCrash
    BY <1>1, <2>4, IdleWdType, NextType DEF WdCrash
  <2>5. CASE UNCHANGED wdVars
    BY <1>1, <2>5, NextType DEF wdVars, WdShape
  <2> QED
    BY <2>1, <2>2, <2>3, <2>4, <2>5, TickShape DEF WdNext
<1> QED
  BY <1>2 DEF WdShape, WdTypeOK, WdState

LEMMA WdShapeInit == WdInit => WdShape
BY InitType, IdleWdType DEF WdInit, WdShape, WdTypeOK, WdState

\* The documents, the processes and the tick keep their shapes.
THEOREM WdTypeCorrect == WdSpec => []WdTypeOK
<1>1. WdShape => WdTypeOK
  BY DEF WdShape
<1> QED
  BY <1>1, WdShapeInit, WdShapeNext, PTL DEF WdSpec

-----------------------------------------------------------------------------
(***************************************************************************)
(* The shared claim.  Whoever is in the dispatch loop is there alone, on a *)
(* sequence that is over and whose outcome is not yet written; the reset   *)
(* of a failed dispatch therefore never takes the claim from anybody.      *)
(***************************************************************************)
Held == wd.pc = "dispatch" \/ \E t \in Tasks : task[t].pc = "dispatch"

ClaimShared ==
  /\ \A t \in Tasks : task[t].pc = "dispatch" =>
       wd.pc # "dispatch" /\ \A u \in Tasks : task[u].pc = "dispatch" => u = t
  /\ Held => /\ seq.status \in TerminalSeq
             /\ seq.status # "completed_but_not_dispatched" /\ ~seq.enqueued
  /\ wd.pc = "reset" => seq.status = "completed_but_not_dispatched"
  /\ seq.enqueued => seq.status \in TerminalSeq /\ seq.status # "completed_but_not_dispatched"

\* Of the loops under way, the consumers behind them were sent or one failed.
LoopsTell ==
  /\ \A t \in Tasks : task[t].pc = "dispatch" /\ ~task[t].failed =>
       \A c \in ConsumerIds : c < task[t].next => dispatched[c] > 0
  /\ wd.pc = "dispatch" /\ ~wd.failed =>
       \A c \in ConsumerIds : c < wd.next => dispatched[c] > 0
  /\ wd.pc # "dispatch" => wd.next = 1 /\ ~wd.failed

SharedInv ==
  /\ WdShape
  /\ TasksFresh
  /\ ClaimShared
  /\ LoopsTell
  /\ EnqueuedHonest

\* What a step of the pipeline does that neither makes a claim nor sends nor
\* ends a loop: the sequence stays as it is or is created; a failed send may
\* be noted.
Aside ==
  /\ dispatched' = dispatched
  /\ \/ seq'.status = seq.status /\ seq'.enqueued = seq.enqueued
     \/ seq.status = "absent" /\ seq'.status = "processing" /\ ~seq'.enqueued
  /\ \A u \in Tasks : task'[u].pc = "dispatch" =>
       task[u].pc = "dispatch" /\ (task'[u] = task[u] \/ task'[u].failed)

LEMMA PipelineSteps ==
  ASSUME TypeOK, [Next]_vars
  PROVE  \/ Aside
         \/ \E t \in Tasks : \/ ClaimSequence(t) /\ ClaimAllowed
                             \/ EnqueueConsumer(t) \/ FinishDispatch(t)
<1> USE DEF docs
<1>1. ASSUME UNCHANGED <<seq, dispatched, task>> PROVE Aside
  BY <1>1 DEF Aside
<1>2. ASSUME NEW t \in Tasks, NEW from, NEW to, Goto(t, from, to), to # "dispatch"
      PROVE  \A u \in Tasks : task'[u].pc = "dispatch" => task'[u] = task[u]
  BY <1>2 DEF Goto, TypeOK, TaskState
<1>3. ASSUME NEW p \in Producers, Produce(p) PROVE Aside
  <2>1. CASE JoinSequence(p)
    BY <2>1 DEF JoinSequence, Aside
  <2>2. ASSUME NEW s \in Symbols, EnqueueTask(p, s) PROVE Aside
    <3>1. \A u \in Tasks : task'[u].pc = "dispatch" => task'[u] = task[u]
      BY <2>2 DEF EnqueueTask, TypeOK, TaskState, Tasks
    <3>2. UNCHANGED <<seq, dispatched>>
      BY <2>2 DEF EnqueueTask
    <3> QED
      BY <3>1, <3>2 DEF Aside
  <2> QED
    BY <1>1, <1>3, <2>1, <2>2
    DEF Produce, ReceivePdr, CreateRun, FinishEnqueue, FallbackCreateRun
<1>4. ASSUME NEW t \in Tasks, Work(t), ~EnqueueConsumer(t), ~FinishDispatch(t),
             ~(ClaimSequence(t) /\ ClaimAllowed)
      PROVE  Aside
  <2>1. CASE CheckSyncRunCompletion(t)
    <3>1. seq'.status = seq.status /\ seq'.enqueued = seq.enqueued
      BY <2>1 DEF CheckSyncRunCompletion, CompletionTransaction, AddInterval, TypeOK, SeqDoc
    <3>2. dispatched' = dispatched /\ Goto(t, "check", "peek")
      BY <2>1 DEF CheckSyncRunCompletion
    <3> QED
      BY <1>2, <3>1, <3>2 DEF Aside
  <2>2. CASE ~CheckSyncRunCompletion(t)
    <3>1. UNCHANGED <<seq, dispatched>> /\ \E from, to : Goto(t, from, to) /\ to # "dispatch"
      BY <1>4, <2>2 DEF Work, WorkerSync, WorkerMark, MaybeFireSequenceCompletion, ClaimSequence
    <3> QED
      BY <1>2, <3>1 DEF Aside
  <2> QED
    BY <2>1, <2>2
<1>5. ASSUME NEW t \in Tasks, EnqueueConsumerFails(t) PROVE Aside
  <2>1. /\ task' = [task EXCEPT ![t] = PastConsumer(task[t], TRUE)]
        /\ task[t].pc = "dispatch" /\ UNCHANGED <<seq, dispatched>>
    BY <1>5 DEF EnqueueConsumerFails
  <2> QED
    BY <2>1 DEF Aside, PastConsumer, TypeOK
<1>6. ASSUME NEW t \in Tasks, WorkerCrash(t) PROVE Aside
  <2>1. /\ task' = [task EXCEPT ![t] = Restarted(task[t].attempts + 1)]
        /\ UNCHANGED <<seq, dispatched>>
    BY <1>6 DEF WorkerCrash
  <2>2. Restarted(task[t].attempts + 1).pc # "dispatch"
    BY DEF Restarted
  <2> QED
    BY <2>1, <2>2 DEF Aside, TypeOK
<1> QED
  BY <1>1, <1>3, <1>4, <1>5, <1>6
  DEF Next, Fail, FallbackCheck, ProducerCrash, EnqueueTaskFails, vars

LEMMA AsideShared ==
  ASSUME SharedInv, Aside, wd' = wd PROVE ClaimShared' /\ LoopsTell' /\ EnqueuedHonest'
<1>1. ClaimShared /\ LoopsTell /\ EnqueuedHonest
  BY DEF SharedInv
<1>2. ClaimShared'
  BY <1>1 DEF ClaimShared, Held, Aside, TerminalSeq
<1>3. LoopsTell' /\ EnqueuedHonest'
  BY <1>1 DEF LoopsTell, EnqueuedHonest, Aside
<1> QED
  BY <1>2, <1>3

\* A consumer is counted: what was sent stays sent.
LEMMA CountGrows ==
  ASSUME TypeOK, NEW c \in ConsumerIds, CountDispatch(c)
  PROVE  /\ dispatched'[c] > 0
         /\ \A d \in ConsumerIds : dispatched[d] > 0 => dispatched'[d] > 0
BY BoundsAssumption DEF CountDispatch, TypeOK

LEMMA WorkShared ==
  ASSUME SharedInv, NEW t \in Tasks, wd' = wd,
         \/ ClaimSequence(t) /\ ClaimAllowed
         \/ EnqueueConsumer(t) \/ FinishDispatch(t)
  PROVE  ClaimShared' /\ LoopsTell' /\ EnqueuedHonest'
<1>1. TypeOK /\ TasksFresh /\ ClaimShared /\ LoopsTell /\ EnqueuedHonest
  BY WdParts DEF SharedInv
<1>2. CASE ClaimSequence(t) /\ ClaimAllowed
  <2>1. /\ seq'.status = "completed" /\ seq'.enqueued = seq.enqueued /\ dispatched' = dispatched
        /\ seq.status \notin TerminalSeq /\ Goto(t, "claim", "dispatch")
    BY <1>1, <1>2 DEF ClaimSequence, ClaimAllowed, TypeOK, SeqDoc
  <2>2. ~Held /\ ~seq.enqueued /\ wd.pc # "reset"
    BY <1>1, <2>1 DEF ClaimShared, TerminalSeq
  <2>3. /\ \A u \in Tasks : u # t => task'[u] = task[u]
        /\ task'[t].next = 1 /\ task'[t].failed = FALSE
    BY <1>1, <2>1 DEF Goto, TasksFresh, TypeOK, TaskState, Early
  <2>4. ClaimShared'
    BY <2>1, <2>2, <2>3 DEF ClaimShared, Held, TerminalSeq
  <2>5. LoopsTell' /\ EnqueuedHonest'
    BY <1>1, <2>1, <2>2, <2>3 DEF LoopsTell, EnqueuedHonest, Held, ConsumerIds
  <2> QED
    BY <2>4, <2>5
<1>3. CASE EnqueueConsumer(t)
  <2>1. PICK c \in ConsumerIds : c = task[t].next
    BY <1>1, <1>3, ConsumersLength DEF EnqueueConsumer, MoreConsumers, TypeOK, TaskState, ConsumerIds
  <2>2. /\ task[t].pc = "dispatch" /\ seq' = seq /\ CountDispatch(c)
        /\ task' = [task EXCEPT ![t] = PastConsumer(@, @.failed)]
    BY <1>3, <2>1 DEF EnqueueConsumer
  <2>3. /\ task'[t].pc = "dispatch" /\ task'[t].next = c + 1 /\ task'[t].failed = task[t].failed
        /\ \A u \in Tasks : u # t => task[u].pc # "dispatch" /\ task'[u] = task[u]
        /\ wd.pc # "dispatch"
    BY <1>1, <2>1, <2>2 DEF PastConsumer, TypeOK, ClaimShared
  <2>4. dispatched'[c] > 0 /\ \A d \in ConsumerIds : dispatched[d] > 0 => dispatched'[d] > 0
    BY <1>1, <2>2, CountGrows
  <2>5. ClaimShared'
    BY <1>1, <2>2, <2>3 DEF ClaimShared, Held
  <2>6. ASSUME ~task[t].failed, NEW d \in ConsumerIds, d < c + 1 PROVE dispatched'[d] > 0
    <3>1. d = c \/ d < c
      BY <2>6 DEF ConsumerIds
    <3> QED
      BY <1>1, <2>1, <2>2, <2>4, <2>6, <3>1 DEF LoopsTell
  <2>7. LoopsTell'
    BY <1>1, <2>3, <2>6 DEF LoopsTell
  <2>8. EnqueuedHonest'
    BY <1>1, <2>2, <2>4 DEF EnqueuedHonest
  <2> QED
    BY <2>5, <2>7, <2>8
<1>4. CASE FinishDispatch(t)
  <2>1. /\ task[t].pc = "dispatch" /\ seq.status \in TerminalSeq /\ wd.pc # "dispatch"
        /\ seq.status # "completed_but_not_dispatched" /\ dispatched' = dispatched
        /\ \A u \in Tasks : task'[u].pc # "dispatch"
    BY <1>1, <1>4 DEF FinishDispatch, Goto, ClaimShared, Held, TypeOK, TaskState
  <2>2. \A c \in ConsumerIds : c < task[t].next
    BY <1>1, <1>4, ConsumersLength DEF FinishDispatch, MoreConsumers, ConsumerIds, TypeOK, TaskState
  <2>3. CASE task[t].failed
    <3>1. seq'.status = "completed_but_not_dispatched" /\ ~seq'.enqueued
      BY <1>1, <1>4, <2>3 DEF FinishDispatch, DispatchOutcome, TypeOK, SeqDoc
    <3> QED
      BY <1>1, <2>1, <3>1 DEF ClaimShared, Held, LoopsTell, EnqueuedHonest
  <2>4. CASE ~task[t].failed
    <3>1. seq'.status = seq.status /\ \A c \in ConsumerIds : dispatched'[c] > 0
      BY <1>1, <1>4, <2>1, <2>2, <2>4 DEF FinishDispatch, DispatchOutcome, LoopsTell, TypeOK, SeqDoc
    <3> QED
      BY <1>1, <2>1, <3>1 DEF ClaimShared, Held, LoopsTell, EnqueuedHonest
  <2> QED
    BY <2>3, <2>4
<1> QED
  BY <1>2, <1>3, <1>4

\* The steps of the watchdog.
LEMMA WatchdogShared ==
  ASSUME SharedInv, [WdNext]_wdVars
  PROVE  \/ [Next]_vars /\ wd' = wd
         \/ ClaimShared' /\ LoopsTell' /\ EnqueuedHonest'
<1> USE DEF vars
<1>1. TypeOK /\ wd \in WdState /\ ClaimShared /\ LoopsTell /\ EnqueuedHonest
  BY WdParts DEF SharedInv
<1> DEFINE Good == ClaimShared' /\ LoopsTell' /\ EnqueuedHonest'
\* The tick goes on outside the loop and leaves claim and outcome alone.
<1>2. ASSUME UNCHANGED <<dispatched, task>>, seq'.enqueued = seq.enqueued,
             \/ seq'.status = seq.status
             \/ seq.status = "absent" /\ seq'.status = "unset",
             wd.pc # "dispatch", wd'.pc \notin {"dispatch", "reset"}, wd'.next = 1, ~wd'.failed
      PROVE  Good
  BY <1>1, <1>2 DEF ClaimShared, LoopsTell, EnqueuedHonest, Held, TerminalSeq
<1>3. ASSUME \/ \E r \in Runs : ForceRun(r)
             \/ RereadSequence \/ FinishRuns \/ \E stale \in BOOLEAN : QueryStaleSequences(stale)
      PROVE  Good
  <2>1. /\ UNCHANGED <<dispatched, task, seq>> /\ wd.pc \notin {"dispatch"}
        /\ wd'.pc \notin {"dispatch", "reset"} /\ wd'.next = wd.next /\ wd'.failed = wd.failed
    BY <1>1, <1>3 DEF ForceRun, RereadSequence, FinishRuns, QueryStaleSequences, WdState
  <2> QED
    BY <1>1, <1>2, <2>1 DEF LoopsTell
<1>4. CASE ReportForced
  <2>1. seq'.enqueued = seq.enqueued
        /\ \/ seq'.status = seq.status
           \/ seq.status = "absent" /\ seq'.status = "unset"
    BY <1>1, <1>4 DEF ReportForced, ClaimShared, TerminalSeq, TypeOK, SeqDoc
  <2>2. /\ UNCHANGED <<dispatched, task>> /\ wd.pc # "dispatch"
        /\ wd'.pc = "reread" /\ wd'.next = wd.next /\ wd'.failed = wd.failed
    BY <1>1, <1>4 DEF ReportForced, WdState
  <2> QED
    BY <1>1, <1>2, <2>1, <2>2 DEF LoopsTell
<1>5. CASE QueryFailedDispatches
  <2>1. CASE seq.status = "completed_but_not_dispatched"
    <3>1. /\ UNCHANGED <<dispatched, task, seq>> /\ wd.pc = "retry" /\ wd'.pc = "reset"
          /\ wd'.next = wd.next /\ wd'.failed = wd.failed
      BY <1>1, <1>5, <2>1 DEF QueryFailedDispatches, WdState
    <3> QED
      BY <1>1, <2>1, <3>1 DEF ClaimShared, LoopsTell, EnqueuedHonest, Held
  <2>2. CASE seq.status # "completed_but_not_dispatched"
    <3>1. UNCHANGED <<dispatched, task, seq>> /\ wd.pc = "retry" /\ wd' = IdleWd
      BY <1>5, <2>2 DEF QueryFailedDispatches
    <3> QED
      BY <1>1, <1>2, <3>1 DEF IdleWd
  <2> QED
    BY <2>1, <2>2
<1>6. CASE ResetSequence
  <2>1. /\ UNCHANGED <<dispatched, task>> /\ wd.pc = "reset" /\ wd'.pc = "claim"
        /\ seq'.status = "processing" /\ seq'.enqueued = seq.enqueued
        /\ wd'.next = wd.next /\ wd'.failed = wd.failed
    BY <1>1, <1>6 DEF ResetSequence, TypeOK, SeqDoc, WdState
  <2>2. ~Held /\ ~seq.enqueued
    BY <1>1, <2>1 DEF ClaimShared
  <2> QED
    BY <1>1, <2>1, <2>2 DEF ClaimShared, LoopsTell, EnqueuedHonest, Held
<1>7. CASE WdClaim
  <2>1. CASE ClaimAllowed
    <3>1. /\ UNCHANGED <<dispatched, task>> /\ wd.pc = "claim" /\ wd'.pc = "dispatch"
          /\ seq'.status = "completed" /\ seq'.enqueued = seq.enqueued
          /\ seq.status \notin TerminalSeq /\ wd'.next = 1 /\ ~wd'.failed
      BY <1>1, <1>7, <2>1 DEF WdClaim, ClaimAllowed, TypeOK, SeqDoc, WdState, LoopsTell
    <3>2. ~Held /\ ~seq.enqueued
      BY <1>1, <3>1 DEF ClaimShared
    <3> QED
      BY <1>1, <3>1, <3>2 DEF ClaimShared, LoopsTell, EnqueuedHonest, Held, TerminalSeq, ConsumerIds
  <2>2. CASE ~ClaimAllowed
    BY <1>1, <1>2, <1>7, <2>2, AfterFireType DEF WdClaim
  <2> QED
    BY <2>1, <2>2
<1>8. CASE WdEnqueueConsumer
  <2>1. PICK c \in ConsumerIds : c = wd.next
    BY <1>1, <1>8, ConsumersLength DEF WdEnqueueConsumer, WdMore, WdState, ConsumerIds
  <2>2. /\ UNCHANGED <<task, seq>> /\ CountDispatch(c) /\ wd.pc = "dispatch"
        /\ wd'.pc = "dispatch" /\ wd'.next = c + 1 /\ wd'.failed = wd.failed
    BY <1>1, <1>8, <2>1 DEF WdEnqueueConsumer, WdState
  <2>3. dispatched'[c] > 0 /\ \A d \in ConsumerIds : dispatched[d] > 0 => dispatched'[d] > 0
    BY <1>1, <2>2, CountGrows
  <2>4. ASSUME ~wd.failed, NEW d \in ConsumerIds, d < c + 1 PROVE dispatched'[d] > 0
    <3>1. d = c \/ d < c
      BY <2>4 DEF ConsumerIds
    <3> QED
      BY <1>1, <2>1, <2>2, <2>3, <2>4, <3>1 DEF LoopsTell
  <2>5. ClaimShared'
    BY <1>1, <2>2 DEF ClaimShared, Held
  <2>6. LoopsTell' /\ EnqueuedHonest'
    BY <1>1, <2>2, <2>3, <2>4 DEF LoopsTell, EnqueuedHonest, ClaimShared
  <2> QED
    BY <2>5, <2>6
<1>9. CASE WdEnqueueConsumerFails
  <2>1. /\ UNCHANGED <<dispatched, task, seq>> /\ wd.pc = "dispatch"
        /\ wd'.pc = "dispatch" /\ wd'.failed
    BY <1>1, <1>9 DEF WdEnqueueConsumerFails, WdState
  <2> QED
    BY <1>1, <2>1 DEF ClaimShared, LoopsTell, EnqueuedHonest, Held
<1>10. CASE WdFinishDispatch
  <2>1. /\ UNCHANGED <<dispatched, task>> /\ wd.pc = "dispatch" /\ seq.status \in TerminalSeq
        /\ seq.status # "completed_but_not_dispatched"
        /\ \A u \in Tasks : task[u].pc # "dispatch"
    BY <1>1, <1>10 DEF WdFinishDispatch, ClaimShared, Held
  <2>2. wd'.pc \notin {"dispatch", "reset"} /\ wd'.next = 1 /\ ~wd'.failed
    BY <1>1, <1>10, AfterFireType DEF WdFinishDispatch
  <2>3. \A c \in ConsumerIds : c < wd.next
    BY <1>1, <1>10, ConsumersLength DEF WdFinishDispatch, WdMore, ConsumerIds, WdState
  <2>4. CASE wd.failed
    <3>1. seq'.status = "completed_but_not_dispatched" /\ ~seq'.enqueued
      BY <1>1, <1>10, <2>4 DEF WdFinishDispatch, DispatchOutcome, TypeOK, SeqDoc
    <3> QED
      BY <1>1, <2>1, <2>2, <3>1 DEF ClaimShared, Held, LoopsTell, EnqueuedHonest
  <2>5. CASE ~wd.failed
    <3>1. seq'.status = seq.status /\ \A c \in ConsumerIds : dispatched'[c] > 0
      BY <1>1, <1>10, <2>1, <2>3, <2>5 DEF WdFinishDispatch, DispatchOutcome, LoopsTell, TypeOK, SeqDoc
    <3> QED
      BY <1>1, <2>1, <2>2, <3>1 DEF ClaimShared, Held, LoopsTell, EnqueuedHonest
  <2> QED
    BY <2>4, <2>5
<1>11. ASSUME NEW S \in SUBSET Runs, QueryStaleRuns(S) PROVE Good
  <2>1. /\ UNCHANGED <<dispatched, task, seq>> /\ wd.pc = "idle"
        /\ wd'.pc = "force" /\ wd'.next = 1 /\ ~wd'.failed
    BY <1>1, <1>11 DEF QueryStaleRuns, IdleWd
  <2> QED
    BY <1>1, <1>2, <2>1
<1>12. CASE WdCrash
  BY <1>1, <1>12 DEF WdCrash, IdleWd, ClaimShared, LoopsTell, EnqueuedHonest, Held
<1> QED
  BY <1>3, <1>4, <1>5, <1>6, <1>7, <1>8, <1>9, <1>10, <1>11, <1>12 DEF WdNext, Tick, wdVars

LEMMA SharedNext == SharedInv /\ [WdNext]_wdVars => SharedInv'
<1> SUFFICES ASSUME SharedInv, [WdNext]_wdVars PROVE SharedInv'
  OBVIOUS
<1>1. TypeOK /\ TasksFresh /\ WdShape'
  BY WdParts, WdShapeNext DEF SharedInv
<1>2. ClaimShared' /\ LoopsTell' /\ EnqueuedHonest'
  BY <1>1, WatchdogShared, PipelineSteps, AsideShared, WorkShared
<1>3. TasksFresh'
  <2>1. CASE [Next]_vars
    BY <1>1, <2>1, FreshNext
  <2>2. CASE UNCHANGED <<sub, task>>
    BY <1>1, <2>2 DEF TasksFresh
  <2> QED
    BY <2>1, <2>2 DEF WdNext, Tick, wdVars, vars, QueryStaleRuns, ForceRun, ReportForced,
      RereadSequence, FinishRuns, QueryStaleSequences, QueryFailedDispatches, ResetSequence,
      WdClaim, WdEnqueueConsumer, WdEnqueueConsumerFails, WdFinishDispatch, WdCrash
<1> QED
  BY <1>1, <1>2, <1>3 DEF SharedInv

LEMMA SharedInit == WdInit => SharedInv
<1> SUFFICES ASSUME WdInit PROVE SharedInv
  OBVIOUS
<1>1. \A t \in Tasks : task[t] = IdleTask
  BY DEF WdInit, Init
<1>2. TasksFresh
  BY <1>1 DEF TasksFresh, WdInit, Init, IdleTask, Tasks
<1>3. ClaimShared /\ LoopsTell /\ EnqueuedHonest
  BY <1>1 DEF ClaimShared, Held, LoopsTell, EnqueuedHonest, WdInit, Init, IdleTask, IdleWd
<1> QED
  BY <1>2, <1>3, WdShapeInit DEF SharedInv

LEMMA SharedInvariant == WdSpec => []SharedInv
BY SharedInit, SharedNext, PTL DEF WdSpec

\* Workers and the watchdog share one claim: at most one of them is in the
\* dispatch loop, also while a failed dispatch is reset under it.
THEOREM SharedClaimIsExclusive == WdSpec => []SharedClaimExclusive
<1>1. ASSUME SharedInv PROVE SharedClaimExclusive
  <2> DEFINE holders == {t \in Tasks : task[t].pc = "dispatch"}
  <2>1. ClaimShared
    BY <1>1 DEF SharedInv
  <2>2. Cardinality(holders) <= 1
    <3>1. CASE holders = {}
      BY <3>1, FS_EmptySet
    <3>2. CASE holders # {}
      <4>1. PICK t \in holders : TRUE
        BY <3>2
      <4>2. holders = {t}
        BY <2>1, <4>1 DEF ClaimShared
      <4>3. Cardinality({t}) = 1
        BY FS_Singleton
      <4> HIDE DEF holders
      <4> QED
        BY <4>2, <4>3
    <3> QED
      BY <3>1, <3>2
  <2>3. wd.pc = "dispatch" => holders = {}
    BY <2>1 DEF ClaimShared
  <2>4. holders # {} \/ wd.pc = "dispatch" => seq.status \in TerminalSeq
    BY <2>1 DEF ClaimShared, Held
  <2> QED
    BY <2>2, <2>3, <2>4 DEF SharedClaimExclusive
<1> QED
  BY <1>1, SharedInvariant, PTL

\* completionEnqueued is set only when every consumer was sent at least once,
\* however many dispatches failed and were retried before.
THEOREM EnqueuedIsHonest == WdSpec => []EnqueuedHonest
<1>1. SharedInv => EnqueuedHonest
  BY DEF SharedInv
<1> QED
  BY <1>1, SharedInvariant, PTL

-----------------------------------------------------------------------------
(***************************************************************************)
(* Forced runs.  No step of the pipeline forces a run or takes an interval *)
(* out of the list; a list is replaced only with the document it is in,    *)
(* and a document that does not exist yet has none (NoIntervalsYet).       *)
(***************************************************************************)
ForcedInv == WdShape /\ NoIntervalsYet /\ ForcedRunReported

\* What all steps but ForceRun keep.
Kept ==
  /\ seq.intervals \subseteq seq'.intervals
  /\ NoIntervalsYet'
  /\ \A r \in Runs : run'[r].status = "forced_complete" => run[r].status = "forced_complete"

LEMMA PipelineKeeps == ASSUME TypeOK, NoIntervalsYet, [Next]_vars PROVE Kept
<1> USE DEF docs
<1>1. ASSUME UNCHANGED <<run, seq>> PROVE Kept
  BY <1>1 DEF Kept, NoIntervalsYet
<1>2. ASSUME NEW p \in Producers, Produce(p) PROVE Kept
  <2>0. RunOf(p) \in Runs
    BY DEF Runs
  <2>1. CASE ReceivePdr(p) \/ \E s \in Symbols : EnqueueTask(p, s)
    BY <1>1, <2>1 DEF ReceivePdr, EnqueueTask
  <2>2. ASSUME NEW S, WriteRun(p, S), UNCHANGED seq PROVE Kept
    BY <2>0, <2>2 DEF WriteRun, Kept, NoIntervalsYet, TypeOK
  <2>3. CASE CreateRun(p) \/ FallbackCreateRun(p)
    BY <2>2, <2>3 DEF CreateRun, FallbackCreateRun
  <2>4. CASE JoinSequence(p)
    BY <2>4 DEF JoinSequence, Kept, NoIntervalsYet, TypeOK
  <2>5. CASE FinishEnqueue(p)
    BY <2>0, <2>5 DEF FinishEnqueue, Kept, NoIntervalsYet, TypeOK, RunDoc
  <2> QED
    BY <1>2, <2>1, <2>3, <2>4, <2>5 DEF Produce
<1>3. ASSUME NEW t \in Tasks, Work(t) PROVE Kept
  <2>0. RunOf(t[1]) \in Runs
    BY TaskRun
  <2>1. CASE WorkerSync(t) \/ MaybeFireSequenceCompletion(t) \/ EnqueueConsumer(t)
    BY <1>1, <2>1 DEF WorkerSync, MaybeFireSequenceCompletion, EnqueueConsumer
  <2>2. CASE WorkerMark(t)
    BY <2>0, <2>2 DEF WorkerMark, Kept, NoIntervalsYet, TypeOK, RunDoc
  <2>3. CASE CheckSyncRunCompletion(t)
    <3>1. ASSUME NEW r \in Runs, CompleteRun(r), UNCHANGED seq \/ AddInterval(r[2]) PROVE Kept
      <4>1. \A u \in Runs : run'[u].status = "forced_complete" => run[u].status = "forced_complete"
        BY <3>1 DEF CompleteRun, TypeOK, RunDoc
      <4>2. seq.intervals \subseteq seq'.intervals /\ NoIntervalsYet'
        BY <3>1 DEF AddInterval, NoIntervalsYet, TypeOK, SeqDoc
      <4> QED
        BY <4>1, <4>2 DEF Kept
    <3> QED
      BY <1>1, <2>0, <2>3, <3>1 DEF CheckSyncRunCompletion, CompletionTransaction
  <2>4. CASE ClaimSequence(t)
    BY <2>4 DEF ClaimSequence, Kept, NoIntervalsYet, TypeOK, SeqDoc, TerminalSeq
  <2>5. CASE FinishDispatch(t)
    BY <2>5 DEF FinishDispatch, DispatchOutcome, Kept, NoIntervalsYet, TypeOK, SeqDoc
  <2> QED
    BY <1>3, <2>1, <2>2, <2>3, <2>4, <2>5 DEF Work
<1>4. CASE Fail \/ FallbackCheck \/ UNCHANGED vars
  BY <1>1, <1>4 DEF Fail, FallbackCheck, ProducerCrash, EnqueueTaskFails, EnqueueConsumerFails,
    WorkerCrash, vars
<1> QED
  BY <1>2, <1>3, <1>4 DEF Next

LEMMA ForcedNext ==
  ASSUME "watchdogCrash" \notin Faults
  PROVE  ForcedInv /\ [WdNext]_wdVars => ForcedInv'
<1> SUFFICES ASSUME ForcedInv, [WdNext]_wdVars PROVE ForcedInv'
  OBVIOUS
<1>1. TypeOK /\ wd \in WdState /\ WdShape' /\ WdShape /\ NoIntervalsYet
  BY WdParts, WdShapeNext DEF ForcedInv
<1> DEFINE Good == NoIntervalsYet' /\ ForcedRunReported'
<1> SUFFICES Good
  BY <1>1 DEF ForcedInv
<1>2. ASSUME Kept, wd.pc # "union" \/ UNCHANGED wd PROVE Good
  BY <1>2 DEF Kept, ForcedInv, ForcedRunReported
<1>3. ASSUME UNCHANGED vars, wd.pc # "union" \/ UNCHANGED wd PROVE Good
  BY <1>1, <1>2, <1>3, PipelineKeeps
<1>4. CASE Next /\ UNCHANGED wd
  BY <1>1, <1>2, <1>4, PipelineKeeps
<1>5. ASSUME NEW r \in Runs, ForceRun(r) PROVE Good
  <2>1. wd.pc = "force" /\ wd'.pc = "union" /\ wd'.cur = r /\ UNCHANGED seq
    BY <1>1, <1>5 DEF ForceRun, WdState
  <2>2. \A u \in Runs : u # r => run'[u] = run[u]
    BY <1>1, <1>5 DEF ForceRun, TypeOK
  <2>3. \A u \in Runs : run'[u].status = "forced_complete" => u = r \/ u[2] \in seq'.intervals
    BY <2>1, <2>2 DEF ForcedInv, ForcedRunReported
  <2> QED
    BY <1>1, <2>1, <2>3 DEF NoIntervalsYet, ForcedRunReported
<1>6. CASE ReportForced
  <2>1. UNCHANGED run /\ wd.pc = "union"
    BY <1>6 DEF ReportForced
  <2>2. seq.intervals \cup {wd.cur[2]} \subseteq seq'.intervals /\ seq'.status # "absent"
    BY <1>1, <1>6 DEF ReportForced, NoIntervalsYet, TypeOK, SeqDoc
  <2> QED
    BY <2>1, <2>2 DEF ForcedInv, ForcedRunReported, NoIntervalsYet
<1>7. ASSUME UNCHANGED run, wd.pc # "union", seq'.intervals = seq.intervals,
             seq'.status = "absent" => seq.status = "absent"
      PROVE  Good
  BY <1>1, <1>2, <1>7 DEF Kept, NoIntervalsYet
<1>8. CASE WdClaim \/ ResetSequence \/ WdEnqueueConsumer \/ WdFinishDispatch
  BY <1>1, <1>7, <1>8 DEF WdClaim, ResetSequence, WdEnqueueConsumer, WdFinishDispatch,
    DispatchOutcome, TypeOK, SeqDoc
<1>9. CASE \/ RereadSequence \/ FinishRuns \/ QueryFailedDispatches \/ WdEnqueueConsumerFails
           \/ \E stale \in BOOLEAN : QueryStaleSequences(stale)
           \/ \E S \in SUBSET Runs : QueryStaleRuns(S)
  BY <1>3, <1>9 DEF RereadSequence, FinishRuns, QueryFailedDispatches, WdEnqueueConsumerFails,
    QueryStaleSequences, QueryStaleRuns
<1>10. CASE UNCHANGED wdVars
  BY <1>3, <1>10 DEF wdVars
<1>11. ~WdCrash
  BY DEF WdCrash
<1> QED
  BY <1>4, <1>5, <1>6, <1>8, <1>9, <1>10, <1>11 DEF WdNext, Tick

LEMMA ForcedInit == WdInit => ForcedInv
BY WdShapeInit DEF WdInit, Init, ForcedInv, NoIntervalsYet, ForcedRunReported

\* A run the watchdog forced has reported its interval to the sequence, or the
\* watchdog is about to do so.  The hypothesis is needed: a tick that dies
\* between the two writes leaves the run terminal and its interval unreported.
THEOREM ForcedRunIsReported ==
  ASSUME "watchdogCrash" \notin Faults
  PROVE  WdSpec => []ForcedRunReported
<1>1. ForcedInv => ForcedRunReported
  BY DEF ForcedInv
<1> QED
  BY <1>1, ForcedInit, ForcedNext, PTL DEF WdSpec
==============================================================================
