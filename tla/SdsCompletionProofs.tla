------------------------- MODULE SdsCompletionProofs -------------------------
(***************************************************************************)
(* Proofs about SdsCompletion for every set of intervals and symbols, any  *)
(* number of deliveries and attempts, and every combination of faults.     *)
(***************************************************************************)
EXTENDS SdsCompletion, FiniteSetTheorems, TLAPS

\* The two consumer lists are not empty (fireSequenceCompletion).
LEMMA ConsumersLength == Len(Consumers) \in Nat \ {0}
BY DEF Consumers

\* A producer works on an interval and on a run of the model.
LEMMA ProducerRun ==
  ASSUME NEW p \in Producers
  PROVE  RunOf(p) \in Runs /\ p[2] \in Intervals /\ RunOf(p)[2] = p[2]
BY DEF Producers, LiveProducers, FallbackProducers, Runs, RunOf

\* A task belongs to a producer and names a symbol.
LEMMA TaskRun ==
  ASSUME NEW t \in Tasks
  PROVE  t[1] \in Producers /\ t[2] \in Symbols /\ RunOf(t[1]) \in Runs
         /\ RunOf(t[1])[2] \in Intervals
BY ProducerRun DEF Tasks

LEMMA InitType == Init => TypeOK
<1> SUFFICES ASSUME Init PROVE TypeOK
  OBVIOUS
<1>1. run \in [Runs -> RunDoc]
  BY DEF Init, RunDoc
<1>2. seq \in SeqDoc
  BY DEF Init, SeqDoc
<1>3. dispatched \in [ConsumerIds -> 0..DispatchCap]
  BY BoundsAssumption DEF Init
<1>4. sub \in [Producers -> SubState]
  BY DEF Init, SubState, SubPC
<1>5. task \in [Tasks -> TaskState]
  BY BoundsAssumption, ConsumersLength DEF Init, TaskState, IdleTask, TaskPC
<1> QED
  BY <1>1, <1>2, <1>3, <1>4, <1>5 DEF Init, TypeOK

\* A step of a task's program counter keeps the tasks' type.
LEMMA GotoType ==
  ASSUME TypeOK, NEW t \in Tasks, NEW from, NEW to \in TaskPC, Goto(t, from, to)
  PROVE  task' \in [Tasks -> TaskState]
BY DEF TypeOK, Goto, TaskState

\* Giving one task a well-formed record keeps the tasks' type.
LEMMA TaskUpdate ==
  ASSUME TypeOK, NEW t \in Tasks, NEW x \in TaskState, task' = [task EXCEPT ![t] = x]
  PROVE  task' \in [Tasks -> TaskState]
BY DEF TypeOK

LEMMA PastConsumerType ==
  ASSUME NEW k \in TaskState, k.next <= Len(Consumers), NEW f \in BOOLEAN
  PROVE  PastConsumer(k, f) \in TaskState
<1>1. k.attempts \in 0..MaxAttempts /\ k.next \in 1..(Len(Consumers) + 1)
  BY DEF TaskState
<1>2. k.next + 1 \in 1..(Len(Consumers) + 1)
  BY <1>1, ConsumersLength
<1> QED
  BY <1>1, <1>2 DEF PastConsumer, TaskState, TaskPC

LEMMA CountDispatchType ==
  ASSUME dispatched \in [ConsumerIds -> 0..DispatchCap], NEW c, CountDispatch(c)
  PROVE  dispatched' \in [ConsumerIds -> 0..DispatchCap]
<1> DEFINE n == IF dispatched[c] < DispatchCap THEN dispatched[c] + 1 ELSE dispatched[c]
<1>1. c \in ConsumerIds => n \in 0..DispatchCap
  BY BoundsAssumption
<1>2. dispatched' = [dispatched EXCEPT ![c] = n]
  BY DEF CountDispatch
<1> HIDE DEF n
<1> QED
  BY <1>1, <1>2

LEMMA ProduceType ==
  ASSUME TypeOK, NEW p \in Producers, Produce(p) PROVE TypeOK'
<1> USE ProducerRun DEF TypeOK, docs
<1>1. CASE ReceivePdr(p)
  BY <1>1 DEF ReceivePdr, SubState, SubPC
<1>2. ASSUME NEW S \in SUBSET Symbols, WriteRun(p, S)
      PROVE  run' \in [Runs -> RunDoc] /\ sub' \in [Producers -> SubState]
  BY <1>2 DEF WriteRun, RunDoc, SubState, SubPC
<1>3. CASE CreateRun(p)
  <2>1. PICK S \in ResolveSymbolSet(p) : WriteRun(p, S)
    BY <1>3 DEF CreateRun
  <2>2. S \in SUBSET Symbols
    BY <2>1, SymbolSetsAssumption DEF ResolveSymbolSet, RunDoc
  <2> QED
    BY <1>2, <1>3, <2>1, <2>2 DEF CreateRun
<1>4. CASE JoinSequence(p)
  BY <1>4 DEF JoinSequence, SeqDoc, SubState, SubPC
<1>5. CASE FinishEnqueue(p)
  <2>4. sub[p].failed \in SUBSET Symbols
    BY DEF SubState
  <2>1. run' \in [Runs -> RunDoc]
    BY <1>5, <2>4 DEF FinishEnqueue, RunDoc
  <2>2. sub' \in [Producers -> SubState]
    BY <1>5 DEF FinishEnqueue, SubState, SubPC
  <2>3. accounted' \in [Runs -> SUBSET Symbols]
    BY <1>5 DEF FinishEnqueue, SubState
  <2> QED
    BY <1>5, <2>1, <2>2, <2>3 DEF FinishEnqueue
<1>6. CASE FallbackCreateRun(p)
  BY <1>2, <1>6, SymbolSetsAssumption DEF FallbackCreateRun
<1>7. ASSUME NEW s \in Symbols, EnqueueTask(p, s) PROVE TypeOK'
  <2>1. sub' \in [Producers -> SubState]
    BY <1>7 DEF EnqueueTask, SubState
  <2>2. task' \in [Tasks -> TaskState]
    BY <1>7 DEF EnqueueTask, TaskState, TaskPC
  <2> QED
    BY <1>7, <2>1, <2>2 DEF EnqueueTask
<1> QED
  BY <1>1, <1>3, <1>4, <1>5, <1>6, <1>7 DEF Produce

LEMMA WorkType ==
  ASSUME TypeOK, NEW t \in Tasks, Work(t) PROVE TypeOK'
<1> USE TaskRun, ConsumersLength DEF docs
<1>1. CASE WorkerSync(t)
  BY <1>1, GotoType DEF WorkerSync, TypeOK, TaskPC
<1>2. CASE WorkerMark(t)
  BY <1>2, GotoType DEF WorkerMark, TypeOK, TaskPC, RunDoc
<1>3. CASE CheckSyncRunCompletion(t)
  <2> DEFINE r == RunOf(t[1])
  <2>1. run' \in [Runs -> RunDoc]
    <3>1. run' = run \/ CompleteRun(r)
      BY <1>3 DEF CheckSyncRunCompletion, CompletionTransaction
    <3>2. ASSUME CompleteRun(r) PROVE run' \in [Runs -> RunDoc]
      BY <3>2 DEF CompleteRun, TypeOK, RunDoc, TerminalRun
    <3> QED
      BY <3>1, <3>2 DEF TypeOK
  <2>2. seq' \in SeqDoc
    <3>1. seq' = seq \/ AddInterval(r[2])
      BY <1>3 DEF CheckSyncRunCompletion, CompletionTransaction
    <3>2. ASSUME AddInterval(r[2]) PROVE seq' \in SeqDoc
      BY <3>2 DEF AddInterval, TypeOK, SeqDoc
    <3> QED
      BY <3>1, <3>2 DEF TypeOK
  <2>3. task' \in [Tasks -> TaskState]
    BY <1>3, GotoType DEF CheckSyncRunCompletion, TaskPC
  <2> QED
    BY <1>3, <2>1, <2>2, <2>3 DEF CheckSyncRunCompletion, TypeOK
<1>4. CASE MaybeFireSequenceCompletion(t)
  BY <1>4, GotoType DEF MaybeFireSequenceCompletion, TypeOK, TaskPC
<1>5. CASE ClaimSequence(t)
  <2>1. seq' \in SeqDoc
    BY <1>5 DEF ClaimSequence, TypeOK, SeqDoc, TerminalSeq
  <2>2. task' \in [Tasks -> TaskState]
    BY <1>5, GotoType DEF ClaimSequence, TaskPC
  <2> QED
    BY <1>5, <2>1, <2>2 DEF ClaimSequence, TypeOK
<1>6. CASE EnqueueConsumer(t)
  <2>1. task[t] \in TaskState /\ task[t].failed \in BOOLEAN
    BY DEF TypeOK, TaskState
  <2>2. PastConsumer(task[t], task[t].failed) \in TaskState
    BY <1>6, <2>1, PastConsumerType DEF EnqueueConsumer, MoreConsumers
  <2>3. task' \in [Tasks -> TaskState]
    BY <1>6, <2>2, TaskUpdate DEF EnqueueConsumer
  <2>4. dispatched' \in [ConsumerIds -> 0..DispatchCap]
    BY <1>6, CountDispatchType DEF EnqueueConsumer, TypeOK
  <2> QED
    BY <1>6, <2>3, <2>4 DEF EnqueueConsumer, TypeOK
<1>7. CASE FinishDispatch(t)
  <2>1. seq' \in SeqDoc
    BY <1>7 DEF FinishDispatch, DispatchOutcome, TypeOK, SeqDoc, TerminalSeq
  <2>2. task' \in [Tasks -> TaskState]
    BY <1>7, GotoType DEF FinishDispatch, TaskPC
  <2> QED
    BY <1>7, <2>1, <2>2 DEF FinishDispatch, TypeOK
<1> QED
  BY <1>1, <1>2, <1>3, <1>4, <1>5, <1>6, <1>7 DEF Work

LEMMA FailType ==
  ASSUME TypeOK, Fail PROVE TypeOK'
<1> USE DEF docs
<1>1. ASSUME NEW p \in Producers, ProducerCrash(p) PROVE TypeOK'
  BY <1>1 DEF ProducerCrash, TypeOK, SubState, SubPC
<1>2. ASSUME NEW p \in Producers, NEW s \in Symbols, EnqueueTaskFails(p, s) PROVE TypeOK'
  BY <1>2 DEF EnqueueTaskFails, TypeOK, SubState, SubPC
<1>3. ASSUME NEW t \in Tasks, EnqueueConsumerFails(t) PROVE TypeOK'
  <2>1. PastConsumer(task[t], TRUE) \in TaskState
    BY <1>3, PastConsumerType DEF EnqueueConsumerFails, MoreConsumers, TypeOK
  <2> QED
    BY <1>3, <2>1, TaskUpdate DEF EnqueueConsumerFails, TypeOK
<1>4. ASSUME NEW t \in Tasks, WorkerCrash(t) PROVE TypeOK'
  <2>1. Restarted(task[t].attempts + 1) \in TaskState
    BY <1>4, BoundsAssumption, ConsumersLength
    DEF WorkerCrash, Restarted, TypeOK, TaskState, TaskPC
  <2> QED
    BY <1>4, <2>1, TaskUpdate DEF WorkerCrash, TypeOK
<1> QED
  BY <1>1, <1>2, <1>3, <1>4 DEF Fail

LEMMA NextType == TypeOK /\ [Next]_vars => TypeOK'
<1> SUFFICES ASSUME TypeOK, [Next]_vars PROVE TypeOK'
  OBVIOUS
<1>1. CASE FallbackCheck
  BY <1>1 DEF FallbackCheck, TypeOK, docs
<1>2. CASE UNCHANGED vars
  BY <1>2 DEF vars, TypeOK
<1> QED
  BY <1>1, <1>2, ProduceType, WorkType, FailType DEF Next

\* Every document, task and process keeps its shape in every execution.
THEOREM TypeCorrect == Spec => []TypeOK
BY InitType, NextType, PTL DEF Spec
-----------------------------------------------------------------------------
(***************************************************************************)
(* The claim.  AtMostOnceDispatch is not inductive: it needs to know that  *)
(* nothing is sent before the claim, that the claim has one holder, and    *)
(* that the consumers ahead of the holder's loop are unsent.               *)
(***************************************************************************)
UnsentBeforeClaim ==
  seq.status \notin TerminalSeq => \A c \in ConsumerIds : dispatched[c] = 0
UnsentAhead ==
  \A t \in Tasks : task[t].pc = "dispatch" =>
    \A c \in ConsumerIds : c >= task[t].next => dispatched[c] = 0
NoIntervalsYet == seq.status = "absent" => seq.intervals = {}
ClaimInv ==
  /\ TypeOK
  /\ ClaimExclusive
  /\ UnsentBeforeClaim
  /\ UnsentAhead
  /\ NoIntervalsYet
  /\ AtMostOnceDispatch

\* What every step but the winning claim and a dispatch does: it sends nothing,
\* neither makes nor undoes a claim, reports at most one interval.
Quiet ==
  /\ dispatched' = dispatched
  /\ seq'.status \in TerminalSeq <=> seq.status \in TerminalSeq
  /\ \A u \in Tasks : task'[u].pc = "dispatch" =>
       task[u].pc = "dispatch" /\ task'[u].next >= task[u].next
  /\ \/ seq'.intervals = seq.intervals
     \/ \E iv \in Intervals : seq'.intervals = seq.intervals \cup {iv}
  /\ seq'.status = "absent" => seq.status = "absent" /\ seq'.intervals = seq.intervals

\* Steps that leave the sequence and the dispatch queue alone, and at most move
\* a task, are quiet when the task does not enter the dispatch loop.
LEMMA UnchangedQuiet ==
  ASSUME TypeOK, UNCHANGED <<seq, dispatched>>,
         task' = task
         \/ \E t \in Tasks, x \in TaskState :
              /\ task' = [task EXCEPT ![t] = x]
              /\ x.pc = "dispatch" => task[t].pc = "dispatch" /\ x.next >= task[t].next
  PROVE  Quiet
<1>1. \A u \in Tasks : task[u].next >= task[u].next
  BY ConsumersLength DEF TypeOK, TaskState
<1>2. \A u \in Tasks : task'[u].pc = "dispatch" =>
        task[u].pc = "dispatch" /\ task'[u].next >= task[u].next
  BY <1>1 DEF TypeOK
<1> QED
  BY <1>2 DEF Quiet

\* A jump of the program counter that does not enter the dispatch loop.
LEMMA GotoQuiet ==
  ASSUME TypeOK, NEW t \in Tasks, NEW from, NEW to, Goto(t, from, to), to # "dispatch"
  PROVE  \A u \in Tasks : task'[u].pc = "dispatch" =>
           task[u].pc = "dispatch" /\ task'[u].next >= task[u].next
<1>1. \A u \in Tasks : task[u].next >= task[u].next
  BY ConsumersLength DEF TypeOK, TaskState
<1> QED
  BY <1>1 DEF Goto, TypeOK, TaskState

LEMMA ProduceQuiet ==
  ASSUME TypeOK, NoIntervalsYet, NEW p \in Producers, Produce(p) PROVE Quiet
<1> USE DEF docs
<1>1. ASSUME NEW s \in Symbols, EnqueueTask(p, s) PROVE Quiet
  <2>1. \A u \in Tasks : task'[u].pc = "dispatch" =>
          task[u].pc = "dispatch" /\ task'[u].next = task[u].next
    BY <1>1 DEF EnqueueTask, TypeOK, TaskState, Tasks
  <2>2. \A u \in Tasks : task[u].next >= task[u].next
    BY ConsumersLength DEF TypeOK, TaskState
  <2> QED
    BY <1>1, <2>1, <2>2 DEF EnqueueTask, Quiet
<1>2. CASE JoinSequence(p)
  <2>1. \A u \in Tasks : task[u].next >= task[u].next
    BY ConsumersLength DEF TypeOK, TaskState
  <2> QED
    BY <1>2, <2>1 DEF JoinSequence, Quiet, NoIntervalsYet, TerminalSeq
<1>3. CASE ReceivePdr(p) \/ CreateRun(p) \/ FinishEnqueue(p) \/ FallbackCreateRun(p)
  BY <1>3, UnchangedQuiet DEF ReceivePdr, CreateRun, FinishEnqueue, FallbackCreateRun
<1> QED
  BY <1>1, <1>2, <1>3 DEF Produce

LEMMA FailQuiet ==
  ASSUME TypeOK, Fail PROVE Quiet
<1> USE DEF docs
<1>1. ASSUME NEW p \in Producers, ProducerCrash(p) PROVE Quiet
  BY <1>1, UnchangedQuiet DEF ProducerCrash
<1>2. ASSUME NEW p \in Producers, NEW s \in Symbols, EnqueueTaskFails(p, s) PROVE Quiet
  BY <1>2, UnchangedQuiet DEF EnqueueTaskFails
<1>3. ASSUME NEW t \in Tasks, EnqueueConsumerFails(t) PROVE Quiet
  <2> DEFINE x == PastConsumer(task[t], TRUE)
  <2>1. x \in TaskState
    BY <1>3, PastConsumerType DEF EnqueueConsumerFails, MoreConsumers, TypeOK
  <2>2. task[t].pc = "dispatch" /\ x.next >= task[t].next
    BY <1>3, ConsumersLength DEF EnqueueConsumerFails, PastConsumer, TypeOK, TaskState
  <2>3. task' = [task EXCEPT ![t] = x] /\ UNCHANGED <<seq, dispatched>>
    BY <1>3 DEF EnqueueConsumerFails
  <2> QED
    BY <2>1, <2>2, <2>3, UnchangedQuiet
<1>4. ASSUME NEW t \in Tasks, WorkerCrash(t) PROVE Quiet
  <2> DEFINE x == Restarted(task[t].attempts + 1)
  <2>1. x \in TaskState
    BY <1>4, BoundsAssumption, ConsumersLength
    DEF WorkerCrash, Restarted, TypeOK, TaskState, TaskPC
  <2>2. x.pc # "dispatch"
    BY DEF Restarted
  <2>3. task' = [task EXCEPT ![t] = x] /\ UNCHANGED <<seq, dispatched>>
    BY <1>4 DEF WorkerCrash
  <2> QED
    BY <2>1, <2>2, <2>3, UnchangedQuiet
<1> QED
  BY <1>1, <1>2, <1>3, <1>4 DEF Fail

LEMMA WorkQuiet ==
  ASSUME TypeOK, UnsentBeforeClaim, ClaimExclusive, NEW t \in Tasks, Work(t)
  PROVE  Quiet \/ (ClaimSequence(t) /\ ClaimAllowed) \/ EnqueueConsumer(t)
<1> USE DEF docs
<1>1. CASE WorkerSync(t) \/ WorkerMark(t) \/ MaybeFireSequenceCompletion(t)
  BY <1>1, GotoQuiet DEF WorkerSync, WorkerMark, MaybeFireSequenceCompletion, Quiet
<1>2. CASE CheckSyncRunCompletion(t)
  <2>1. seq' = seq \/ AddInterval(RunOf(t[1])[2])
    BY <1>2 DEF CheckSyncRunCompletion, CompletionTransaction
  <2>2. /\ seq'.status = seq.status
        /\ \/ seq'.intervals = seq.intervals
           \/ \E iv \in Intervals : seq'.intervals = seq.intervals \cup {iv}
        /\ seq'.status = "absent" => seq'.intervals = seq.intervals
    BY <2>1, TaskRun DEF AddInterval, TypeOK, SeqDoc
  <2> QED
    BY <1>2, <2>2, GotoQuiet DEF CheckSyncRunCompletion, Quiet
<1>3. CASE ClaimSequence(t) /\ ~ClaimAllowed
  BY <1>3, GotoQuiet DEF ClaimSequence, Quiet
<1>4. CASE FinishDispatch(t)
  <2>1. seq.status \in TerminalSeq
    BY <1>4 DEF FinishDispatch, Goto, ClaimExclusive
  <2>2. seq'.status \in TerminalSeq /\ seq'.status # "absent" /\ seq'.intervals = seq.intervals
    BY <1>4, <2>1 DEF FinishDispatch, DispatchOutcome, TerminalSeq, TypeOK, SeqDoc
  <2> QED
    BY <1>4, <2>1, <2>2, GotoQuiet DEF FinishDispatch, Quiet
<1> QED
  BY <1>1, <1>2, <1>3, <1>4 DEF Work

LEMMA NextQuiet ==
  ASSUME ClaimInv, [Next]_vars
  PROVE  Quiet \/ \E t \in Tasks : (ClaimSequence(t) /\ ClaimAllowed) \/ EnqueueConsumer(t)
<1> USE DEF ClaimInv
<1>1. CASE FallbackCheck \/ UNCHANGED vars
  BY <1>1, UnchangedQuiet DEF FallbackCheck, docs, vars
<1> QED
  BY <1>1, ProduceQuiet, WorkQuiet, FailQuiet DEF Next

LEMMA QuietClaimInv ==
  ASSUME ClaimInv, TypeOK', Quiet PROVE ClaimInv'
<1> USE DEF ClaimInv, Quiet
<1>1. ClaimExclusive'
  BY DEF ClaimExclusive
<1>2. UnsentBeforeClaim'
  BY DEF UnsentBeforeClaim
<1>3. UnsentAhead'
  <2> SUFFICES ASSUME NEW t \in Tasks, task'[t].pc = "dispatch",
                      NEW c \in ConsumerIds, c >= task'[t].next
               PROVE  dispatched[c] = 0
    BY DEF UnsentAhead
  <2>1. task[t].pc = "dispatch" /\ task'[t].next >= task[t].next
    OBVIOUS
  <2>2. task[t].next \in Nat /\ task'[t].next \in Nat /\ c \in Nat
    BY ConsumersLength DEF TypeOK, TaskState, ConsumerIds
  <2>3. c >= task[t].next
    BY <2>1, <2>2
  <2> QED
    BY <2>1, <2>3 DEF UnsentAhead
<1>4. NoIntervalsYet'
  BY DEF NoIntervalsYet
<1>5. AtMostOnceDispatch'
  BY DEF AtMostOnceDispatch
<1> QED
  BY <1>1, <1>2, <1>3, <1>4, <1>5

\* Winning the claim: nothing was sent and nobody held it.
LEMMA ClaimStep ==
  ASSUME ClaimInv, TypeOK', NEW t \in Tasks, ClaimSequence(t), ClaimAllowed
  PROVE  /\ ClaimInv'
         /\ seq' = [seq EXCEPT !.status = "completed"]
         /\ dispatched' = dispatched
<1> USE DEF ClaimInv
<1>1. /\ seq' = [seq EXCEPT !.status = "completed"]
      /\ dispatched' = dispatched
      /\ Goto(t, "claim", "dispatch")
  BY DEF ClaimSequence
<1>2. seq'.status = "completed"
  BY <1>1 DEF TypeOK, SeqDoc
<1>3. \A u \in Tasks : task[u].pc # "dispatch"
  BY DEF ClaimAllowed, ClaimExclusive
<1>4. \A c \in ConsumerIds : dispatched[c] = 0
  BY DEF ClaimAllowed, UnsentBeforeClaim
<1>5. \A u \in Tasks : u # t => task'[u] = task[u]
  BY <1>1 DEF Goto, TypeOK
<1>6. ClaimExclusive'
  BY <1>2, <1>3, <1>5 DEF ClaimExclusive, TerminalSeq
<1>7. UnsentBeforeClaim' /\ UnsentAhead' /\ NoIntervalsYet' /\ AtMostOnceDispatch'
  BY <1>1, <1>2, <1>4 DEF UnsentBeforeClaim, UnsentAhead, NoIntervalsYet, AtMostOnceDispatch, TerminalSeq
<1> QED
  BY <1>1, <1>6, <1>7

\* The claim's holder sends the next consumer, which was never sent.
LEMMA DispatchStep ==
  ASSUME ClaimInv, TypeOK', NEW t \in Tasks, EnqueueConsumer(t)
  PROVE  /\ ClaimInv'
         /\ seq' = seq /\ seq.status \in TerminalSeq
         /\ \E c \in ConsumerIds : dispatched[c] = 0 /\ dispatched' = [dispatched EXCEPT ![c] = 1]
<1> USE DEF ClaimInv
<1> DEFINE c == task[t].next
<1>1. /\ task[t].pc = "dispatch" /\ seq' = seq
      /\ task' = [task EXCEPT ![t] = PastConsumer(@, @.failed)]
  BY DEF EnqueueConsumer
<1>2. c \in ConsumerIds
  BY ConsumersLength DEF EnqueueConsumer, MoreConsumers, TypeOK, TaskState, ConsumerIds
<1>3. dispatched[c] = 0
  BY <1>1, <1>2, ConsumersLength DEF UnsentAhead, ConsumerIds
<1>4. dispatched' = [dispatched EXCEPT ![c] = 1]
  <2>1. dispatched' = [dispatched EXCEPT ![c] = IF @ < DispatchCap THEN @ + 1 ELSE @]
    BY DEF EnqueueConsumer, CountDispatch
  <2> HIDE DEF c
  <2>2. (IF dispatched[c] < DispatchCap THEN dispatched[c] + 1 ELSE dispatched[c]) = 1
    BY <1>3, BoundsAssumption
  <2> QED
    BY <2>1, <2>2
<1>5. \A u \in Tasks : u # t => task'[u] = task[u] /\ task[u].pc # "dispatch"
  BY <1>1 DEF TypeOK, ClaimExclusive
<1>6. task'[t].next = c + 1 /\ c \in Nat
  BY <1>1, <1>2, ConsumersLength DEF TypeOK, PastConsumer, ConsumerIds
<1>7. seq.status \in TerminalSeq
  BY <1>1 DEF ClaimExclusive
<1>8. ClaimExclusive'
  BY <1>1, <1>5, <1>7 DEF ClaimExclusive
<1>9. UnsentAhead'
  <2> SUFFICES ASSUME NEW d \in ConsumerIds, d >= c + 1 PROVE dispatched'[d] = 0
    BY <1>5, <1>6 DEF UnsentAhead
  <2>1. d # c /\ d >= c
    BY <1>6 DEF ConsumerIds
  <2> QED
    BY <1>1, <1>4, <2>1 DEF UnsentAhead, TypeOK
<1>10. UnsentBeforeClaim' /\ NoIntervalsYet' /\ AtMostOnceDispatch'
  BY <1>1, <1>4, <1>7 DEF UnsentBeforeClaim, NoIntervalsYet, AtMostOnceDispatch, TypeOK
<1> HIDE DEF c
<1> QED
  BY <1>1, <1>2, <1>3, <1>4, <1>7, <1>8, <1>9, <1>10

LEMMA ClaimInvInit == Init => ClaimInv
<1> SUFFICES ASSUME Init PROVE ClaimInv
  OBVIOUS
<1>1. \A t \in Tasks : task[t].pc = "none"
  BY DEF Init, IdleTask
<1>2. \A c \in ConsumerIds : dispatched[c] = 0
  BY DEF Init
<1> QED
  BY <1>1, <1>2, InitType
  DEF ClaimInv, ClaimExclusive, UnsentBeforeClaim, UnsentAhead, NoIntervalsYet, AtMostOnceDispatch, Init

LEMMA ClaimInvNext == ClaimInv /\ [Next]_vars => ClaimInv'
<1> SUFFICES ASSUME ClaimInv, [Next]_vars PROVE ClaimInv'
  OBVIOUS
<1>1. TypeOK'
  BY NextType DEF ClaimInv
<1> QED
  BY <1>1, NextQuiet, QuietClaimInv, ClaimStep, DispatchStep

LEMMA ClaimInvariant == Spec => []ClaimInv
BY ClaimInvInit, ClaimInvNext, PTL DEF Spec

\* No consumer is dispatched twice, however many workers, retries, redeliveries
\* and fallback runs race for the completion of the sequence.
THEOREM DispatchedAtMostOnce == Spec => []AtMostOnceDispatch
<1>1. ClaimInv => AtMostOnceDispatch
  BY DEF ClaimInv
<1> QED
  BY <1>1, ClaimInvariant, PTL

\* The claim is exclusive: one worker at a time is between winning it and its
\* last write, and only on a sequence that is over.
THEOREM ClaimHasOneHolder == Spec => []ClaimExclusive
<1>1. ClaimInv => ClaimExclusive
  BY DEF ClaimInv
<1> QED
  BY <1>1, ClaimInvariant, PTL

-----------------------------------------------------------------------------
LEMMA FanInInit == Init => FanIn!Init
BY DEF Init, FanIn!Init, TerminalSeq

LEMMA FanInNext == ClaimInv /\ ClaimInv' /\ [Next]_vars => [FanIn!Next]_(FanIn!fanIn)
<1> SUFFICES ASSUME ClaimInv, ClaimInv', [Next]_vars
             PROVE  FanIn!Next \/ UNCHANGED FanIn!fanIn
  OBVIOUS
<1> USE DEF FanIn!Next, FanIn!fanIn
<1>1. CASE Quiet
  <2>1. CASE seq'.intervals = seq.intervals
    BY <1>1, <2>1 DEF Quiet
  <2>2. CASE seq'.intervals # seq.intervals
    <3>1. PICK iv \in Intervals : seq'.intervals = seq.intervals \cup {iv}
      BY <1>1, <2>2 DEF Quiet
    <3>2. FanIn!Report(iv)
      BY <1>1, <2>2, <3>1 DEF Quiet, FanIn!Report
    <3> QED
      BY <3>2
  <2> QED
    BY <2>1, <2>2
<1>2. ASSUME NEW t \in Tasks, ClaimSequence(t), ClaimAllowed PROVE FanIn!Claim
  <2>1. seq' = [seq EXCEPT !.status = "completed"] /\ dispatched' = dispatched
    BY <1>2, ClaimStep DEF ClaimInv
  <2>2. seq.intervals = Intervals /\ seq.status \notin TerminalSeq
    BY <1>2 DEF ClaimAllowed, ClaimInv, TypeOK, SeqDoc
  <2>3. seq'.status \in TerminalSeq /\ seq'.intervals = seq.intervals
    BY <2>1 DEF ClaimInv, TypeOK, SeqDoc, TerminalSeq
  <2> QED
    BY <2>1, <2>2, <2>3 DEF FanIn!Claim
<1>3. ASSUME NEW t \in Tasks, EnqueueConsumer(t) PROVE \E c \in ConsumerIds : FanIn!Send(c)
  BY <1>3, DispatchStep DEF ClaimInv, FanIn!Send
<1> QED
  BY <1>1, <1>2, <1>3, NextQuiet

\* The workers, subscribers and the fallback together implement the fan-in that
\* the downstream passes rely on.
THEOREM FanInImplemented == Spec => ImplementsFanIn
BY ClaimInvariant, FanInInit, FanInNext, PTL DEF Spec, ImplementsFanIn, FanIn!Spec

-----------------------------------------------------------------------------
(***************************************************************************)
(* The outcome.  A claim's holder knows of the consumers behind its loop   *)
(* whether one was not sent; a task that reaches the claim starts its loop *)
(* at the first consumer, also when it is tried again.                     *)
(***************************************************************************)
Early == {"none", "queued", "synced", "check", "peek", "claim"}

TasksFresh ==
  /\ \A p \in Producers, s \in Symbols :
       sub[p].pc \in {"idle", "create"} \/ s \in sub[p].todo => task[<<p, s>>].pc = "none"
  /\ \A t \in Tasks : task[t].pc \in Early => task[t].next = 1 /\ task[t].failed = FALSE

LoopKnows ==
  \A t \in Tasks : task[t].pc = "dispatch" =>
    /\ ~seq.enqueued /\ seq.status # "completed_but_not_dispatched"
    /\ task[t].failed => \E c \in ConsumerIds : c < task[t].next /\ dispatched[c] = 0
    /\ ~task[t].failed => \A c \in ConsumerIds : c < task[t].next => dispatched[c] > 0

EnqueuedAfterClaim == seq.enqueued => seq.status \in TerminalSeq

OutcomeInv ==
  /\ ClaimInv
  /\ TasksFresh
  /\ LoopKnows
  /\ EnqueuedAfterClaim
  /\ OutcomeHonest

\* A jump before the claim, or out of it, leaves the loop's variables alone.
LEMMA GotoFresh ==
  ASSUME TypeOK, TasksFresh, sub' = sub, NEW t \in Tasks, NEW from, NEW to, Goto(t, from, to),
         from # "none", to # "none", to \in Early => from \in Early
  PROVE  TasksFresh'
BY DEF TasksFresh, Goto, TypeOK, TaskState, Tasks

LEMMA FreshNext ==
  ASSUME TypeOK, TasksFresh, [Next]_vars PROVE TasksFresh'
<1> USE DEF docs
<1>1. CASE UNCHANGED <<sub, task>>
  BY <1>1 DEF TasksFresh
<1>2. ASSUME NEW p \in Producers, NEW s \in Symbols, EnqueueTask(p, s) PROVE TasksFresh'
  <2>1. <<p, s>> \in Tasks /\ task[<<p, s>>].pc = "none"
    BY <1>2 DEF EnqueueTask, TasksFresh, Tasks
  <2>2. ASSUME NEW q \in Producers, NEW x \in Symbols,
               sub'[q].pc \in {"idle", "create"} \/ x \in sub'[q].todo
        PROVE  task'[<<q, x>>].pc = "none"
    <3>1. sub[q].pc \in {"idle", "create"} \/ x \in sub[q].todo
      BY <1>2, <2>2 DEF EnqueueTask, TypeOK, SubState
    <3>2. <<q, x>> # <<p, s>>
      BY <1>2, <2>2 DEF EnqueueTask, TypeOK, SubState
    <3> QED
      BY <1>2, <3>1, <3>2 DEF EnqueueTask, TasksFresh, TypeOK, Tasks
  <2>3. \A t \in Tasks : task'[t].pc \in Early => task'[t].next = 1 /\ task'[t].failed = FALSE
    BY <1>2, <2>1 DEF EnqueueTask, TasksFresh, TypeOK, TaskState, Early
  <2> QED
    BY <2>2, <2>3 DEF TasksFresh
<1>3. ASSUME NEW p \in Producers,
             \/ ReceivePdr(p) \/ CreateRun(p) \/ JoinSequence(p) \/ FinishEnqueue(p)
             \/ FallbackCreateRun(p) \/ ProducerCrash(p)
             \/ \E s \in Symbols : EnqueueTaskFails(p, s)
      PROVE  TasksFresh'
  <2>1. task' = task
    BY <1>3 DEF ReceivePdr, CreateRun, JoinSequence, FinishEnqueue, FallbackCreateRun,
      ProducerCrash, EnqueueTaskFails
  <2>2. \A q \in Producers, x \in Symbols :
          sub'[q].pc \in {"idle", "create"} \/ x \in sub'[q].todo =>
            sub[q].pc \in {"idle", "create"} \/ x \in sub[q].todo
    <3>1. CASE CreateRun(p) \/ FallbackCreateRun(p)
      BY <3>1 DEF CreateRun, FallbackCreateRun, WriteRun, TypeOK, SubState
    <3>2. CASE ReceivePdr(p) \/ JoinSequence(p) \/ FinishEnqueue(p) \/ ProducerCrash(p)
      BY <3>2 DEF ReceivePdr, JoinSequence, FinishEnqueue, ProducerCrash, TypeOK, SubState
    <3>3. ASSUME NEW s \in Symbols, EnqueueTaskFails(p, s) PROVE <2>2
      BY <3>3 DEF EnqueueTaskFails, TypeOK, SubState
    <3> QED
      BY <1>3, <3>1, <3>2, <3>3
  <2> QED
    BY <2>1, <2>2 DEF TasksFresh
<1>4. ASSUME NEW t \in Tasks, Work(t) PROVE TasksFresh'
  <2>1. CASE EnqueueConsumer(t)
    BY <2>1 DEF EnqueueConsumer, TasksFresh, PastConsumer, TypeOK, TaskState, Tasks, Early
  <2>2. CASE \/ WorkerSync(t) \/ WorkerMark(t) \/ CheckSyncRunCompletion(t)
             \/ MaybeFireSequenceCompletion(t) \/ ClaimSequence(t) \/ FinishDispatch(t)
    BY <2>2, GotoFresh DEF WorkerSync, WorkerMark, CheckSyncRunCompletion,
      MaybeFireSequenceCompletion, ClaimSequence, FinishDispatch, Early
  <2> QED
    BY <1>4, <2>1, <2>2 DEF Work
<1>5. ASSUME NEW t \in Tasks, EnqueueConsumerFails(t) \/ WorkerCrash(t) PROVE TasksFresh'
  <2>1. CASE EnqueueConsumerFails(t)
    <3>1. /\ task' = [task EXCEPT ![t] = PastConsumer(task[t], TRUE)] /\ sub' = sub
          /\ task[t].pc # "none"
      BY <2>1 DEF EnqueueConsumerFails
    <3>2. PastConsumer(task[t], TRUE).pc \notin Early
      BY DEF PastConsumer, Early
    <3> QED
      BY <3>1, <3>2 DEF TasksFresh, TypeOK, Tasks
  <2>2. CASE WorkerCrash(t)
    <3> DEFINE x == Restarted(task[t].attempts + 1)
    <3>1. /\ task' = [task EXCEPT ![t] = x] /\ sub' = sub
          /\ task[t].pc # "none"
      BY <2>2 DEF WorkerCrash
    <3>2. x.pc # "none" /\ x.next = 1 /\ x.failed = FALSE
      BY DEF Restarted
    <3> HIDE DEF x
    <3> QED
      BY <3>1, <3>2 DEF TasksFresh, TypeOK, Tasks
  <2> QED
    BY <1>5, <2>1, <2>2
<1> QED
  BY <1>1, <1>2, <1>3, <1>4, <1>5 DEF Next, Produce, Fail, FallbackCheck, vars

\* A step that sends nothing, moves nobody in the dispatch loop, and touches of
\* the sequence neither the outcome nor whether it is over.
LEMMA CalmOutcome ==
  ASSUME LoopKnows, EnqueuedAfterClaim, OutcomeHonest, dispatched' = dispatched,
         seq'.enqueued = seq.enqueued,
         seq'.status \in TerminalSeq <=> seq.status \in TerminalSeq,
         seq'.status = "completed_but_not_dispatched"
           <=> seq.status = "completed_but_not_dispatched",
         \A u \in Tasks : task'[u].pc = "dispatch" => task'[u] = task[u]
  PROVE  LoopKnows' /\ EnqueuedAfterClaim' /\ OutcomeHonest'
BY DEF LoopKnows, EnqueuedAfterClaim, OutcomeHonest

LEMMA WorkOutcome ==
  ASSUME OutcomeInv, NEW t \in Tasks, Work(t)
  PROVE  LoopKnows' /\ EnqueuedAfterClaim' /\ OutcomeHonest'
<1> USE DEF docs
<1>1. /\ TypeOK /\ TasksFresh /\ LoopKnows /\ EnqueuedAfterClaim /\ OutcomeHonest
      /\ ClaimExclusive /\ UnsentAhead
  BY DEF OutcomeInv, ClaimInv
<1>2. ASSUME NEW from, NEW to, Goto(t, from, to), to # "dispatch"
      PROVE  \A u \in Tasks : task'[u].pc = "dispatch" => task'[u] = task[u]
  BY <1>1, <1>2 DEF Goto, TypeOK, TaskState
<1>3. CASE WorkerSync(t) \/ WorkerMark(t) \/ MaybeFireSequenceCompletion(t)
  BY <1>1, <1>2, <1>3, CalmOutcome DEF WorkerSync, WorkerMark, MaybeFireSequenceCompletion
<1>4. CASE CheckSyncRunCompletion(t)
  <2>1. seq'.status = seq.status /\ seq'.enqueued = seq.enqueued
    BY <1>1, <1>4 DEF CheckSyncRunCompletion, CompletionTransaction, AddInterval, TypeOK, SeqDoc
  <2>2. dispatched' = dispatched /\ Goto(t, "check", "peek")
    BY <1>4 DEF CheckSyncRunCompletion
  <2> QED
    BY <1>1, <1>2, <2>1, <2>2, CalmOutcome
<1>5. CASE ClaimSequence(t)
  <2>1. CASE ~ClaimAllowed
    BY <1>1, <1>2, <1>5, <2>1, CalmOutcome DEF ClaimSequence
  <2>2. CASE ClaimAllowed
    <3>1. /\ seq'.status = "completed" /\ seq'.enqueued = seq.enqueued /\ ~seq.enqueued
          /\ dispatched' = dispatched /\ \A u \in Tasks : task[u].pc # "dispatch"
      BY <1>1, <1>5, <2>2
      DEF ClaimSequence, ClaimAllowed, TypeOK, SeqDoc, EnqueuedAfterClaim, ClaimExclusive
    <3>2. \A u \in Tasks : u # t => task'[u] = task[u]
      BY <1>1, <1>5, <2>2 DEF ClaimSequence, Goto, TypeOK
    <3>3. task'[t].next = 1 /\ task'[t].failed = FALSE
      BY <1>1, <1>5, <2>2 DEF ClaimSequence, Goto, TasksFresh, TypeOK, TaskState, Early
    <3>4. LoopKnows'
      BY <3>1, <3>2, <3>3 DEF LoopKnows, ConsumerIds
    <3> QED
      BY <3>1, <3>4 DEF EnqueuedAfterClaim, OutcomeHonest, TerminalSeq
  <2> QED
    BY <2>1, <2>2
<1>6. CASE EnqueueConsumer(t)
  <2>1. PICK c \in ConsumerIds : c = task[t].next
    BY <1>1, <1>6, ConsumersLength DEF EnqueueConsumer, MoreConsumers, TypeOK, TaskState, ConsumerIds
  <2>2. /\ task[t].pc = "dispatch" /\ seq' = seq /\ CountDispatch(c)
        /\ task' = [task EXCEPT ![t] = PastConsumer(@, @.failed)]
    BY <1>6, <2>1 DEF EnqueueConsumer
  <2>3. /\ task'[t].next = c + 1 /\ task'[t].failed = task[t].failed /\ c \in Nat
        /\ \A u \in Tasks : u # t => task[u].pc # "dispatch" /\ task'[u] = task[u]
    BY <1>1, <2>1, <2>2 DEF PastConsumer, TypeOK, ClaimExclusive, ConsumerIds
  <2>4. dispatched'[c] > 0 /\ \A d \in ConsumerIds : d # c => dispatched'[d] = dispatched[d]
    BY <1>1, <2>2, BoundsAssumption DEF CountDispatch, TypeOK
  <2>5. LoopKnows'
    <3>1. ASSUME task[t].failed
          PROVE  \E d \in ConsumerIds : d < task'[t].next /\ dispatched'[d] = 0
      <4>1. PICK d \in ConsumerIds : d < c /\ dispatched[d] = 0
        BY <1>1, <2>1, <2>2, <3>1 DEF LoopKnows
      <4>2. d # c /\ d < c + 1
        BY <2>3, <4>1 DEF ConsumerIds
      <4> QED
        BY <2>3, <2>4, <4>1, <4>2
    <3>2. ASSUME ~task[t].failed, NEW d \in ConsumerIds, d < task'[t].next PROVE dispatched'[d] > 0
      <4>1. d = c \/ d < c
        BY <2>3, <3>2 DEF ConsumerIds
      <4> QED
        BY <1>1, <2>1, <2>2, <2>4, <3>2, <4>1 DEF LoopKnows
    <3> QED
      BY <1>1, <2>2, <2>3, <3>1, <3>2 DEF LoopKnows
  <2>6. EnqueuedAfterClaim' /\ OutcomeHonest'
    BY <1>1, <2>2 DEF LoopKnows, EnqueuedAfterClaim, OutcomeHonest
  <2> QED
    BY <2>5, <2>6
<1>7. CASE FinishDispatch(t)
  <2>1. /\ task[t].pc = "dispatch" /\ seq.status \in TerminalSeq
        /\ \A u \in Tasks : task'[u].pc # "dispatch"
    BY <1>1, <1>7 DEF FinishDispatch, Goto, ClaimExclusive, TypeOK, TaskState
  <2>2. \A c \in ConsumerIds : c < task[t].next
    BY <1>1, <1>7, ConsumersLength DEF FinishDispatch, MoreConsumers, ConsumerIds, TypeOK, TaskState
  <2>3. CASE task[t].failed
    <3>1. seq'.enqueued = FALSE /\ \E c \in ConsumerIds : dispatched'[c] = 0
      BY <1>1, <1>7, <2>1, <2>3 DEF FinishDispatch, DispatchOutcome, LoopKnows, TypeOK, SeqDoc
    <3> QED
      BY <2>1, <3>1 DEF LoopKnows, EnqueuedAfterClaim, OutcomeHonest
  <2>4. CASE ~task[t].failed
    <3>1. seq'.status = seq.status /\ seq.status # "completed_but_not_dispatched"
          /\ \A c \in ConsumerIds : dispatched'[c] > 0
      BY <1>1, <1>7, <2>1, <2>2, <2>4 DEF FinishDispatch, DispatchOutcome, LoopKnows, TypeOK, SeqDoc
    <3> QED
      BY <2>1, <3>1 DEF LoopKnows, EnqueuedAfterClaim, OutcomeHonest
  <2> QED
    BY <2>3, <2>4
<1> QED
  BY <1>3, <1>4, <1>5, <1>6, <1>7 DEF Work

LEMMA OutcomeNext == OutcomeInv /\ [Next]_vars => OutcomeInv'
<1> SUFFICES ASSUME OutcomeInv, [Next]_vars PROVE OutcomeInv'
  OBVIOUS
<1> USE DEF docs
<1>1. /\ TypeOK /\ TasksFresh /\ LoopKnows /\ EnqueuedAfterClaim /\ OutcomeHonest
      /\ ClaimExclusive
  BY DEF OutcomeInv, ClaimInv
<1>2. ClaimInv' /\ TasksFresh'
  BY <1>1, ClaimInvNext, FreshNext DEF OutcomeInv
<1> DEFINE Told == LoopKnows' /\ EnqueuedAfterClaim' /\ OutcomeHonest'
<1>3. ASSUME UNCHANGED <<seq, dispatched>>,
             \A u \in Tasks : task'[u].pc = "dispatch" => task'[u] = task[u]
      PROVE  Told
  BY <1>1, <1>3 DEF LoopKnows, EnqueuedAfterClaim, OutcomeHonest
<1>4. ASSUME NEW p \in Producers, Produce(p) PROVE Told
  <2>1. CASE JoinSequence(p)
    <3>1. /\ seq'.enqueued = seq.enqueued /\ task' = task /\ dispatched' = dispatched
          /\ seq.status = "absent" => seq'.status = "processing"
          /\ seq.status # "absent" => seq'.status = seq.status
      BY <1>1, <2>1 DEF JoinSequence, EnqueuedAfterClaim, TypeOK, SeqDoc, TerminalSeq
    <3> QED
      BY <1>1, <3>1, CalmOutcome DEF TerminalSeq
  <2>2. ASSUME NEW s \in Symbols, EnqueueTask(p, s) PROVE Told
    <3>1. \A u \in Tasks : task'[u].pc = "dispatch" => task'[u] = task[u]
      BY <1>1, <2>2 DEF EnqueueTask, TypeOK, TaskState, Tasks
    <3>2. UNCHANGED <<seq, dispatched>>
      BY <2>2 DEF EnqueueTask
    <3> QED
      BY <1>3, <3>1, <3>2
  <2> QED
    BY <1>3, <1>4, <2>1, <2>2
    DEF Produce, ReceivePdr, CreateRun, FinishEnqueue, FallbackCreateRun
<1>5. ASSUME NEW t \in Tasks, EnqueueConsumerFails(t) PROVE Told
  <2>1. PICK c \in ConsumerIds : c = task[t].next
    BY <1>1, <1>5, ConsumersLength
    DEF EnqueueConsumerFails, MoreConsumers, TypeOK, TaskState, ConsumerIds
  <2>2. /\ task[t].pc = "dispatch" /\ UNCHANGED <<seq, dispatched>>
        /\ task' = [task EXCEPT ![t] = PastConsumer(@, TRUE)]
    BY <1>5 DEF EnqueueConsumerFails
  <2>3. /\ task'[t].next = c + 1 /\ task'[t].failed = TRUE /\ c \in Nat
        /\ \A u \in Tasks : u # t => task[u].pc # "dispatch" /\ task'[u] = task[u]
    BY <1>1, <2>1, <2>2 DEF PastConsumer, TypeOK, ClaimExclusive, ConsumerIds
  <2>4. dispatched[c] = 0 /\ c < c + 1
    BY <2>1, <2>2, <2>3 DEF OutcomeInv, ClaimInv, UnsentAhead, ConsumerIds
  <2>5. LoopKnows'
    <3>1. c < task'[t].next
      BY <2>3, <2>4
    <3> QED
      BY <1>1, <2>2, <2>3, <2>4, <3>1 DEF LoopKnows
  <2> QED
    BY <1>1, <2>2, <2>5 DEF EnqueuedAfterClaim, OutcomeHonest
<1>6. ASSUME NEW t \in Tasks, WorkerCrash(t) PROVE Told
  <2>1. \A u \in Tasks : task'[u].pc = "dispatch" => task'[u] = task[u]
    BY <1>1, <1>6 DEF WorkerCrash, Restarted, TypeOK
  <2>2. UNCHANGED <<seq, dispatched>>
    BY <1>6 DEF WorkerCrash
  <2> QED
    BY <1>3, <2>1, <2>2
<1>7. Told
  BY <1>3, <1>4, <1>5, <1>6, WorkOutcome
  DEF Next, Fail, FallbackCheck, ProducerCrash, EnqueueTaskFails, vars
<1> QED
  BY <1>2, <1>7 DEF OutcomeInv

\* The outcome fields of the sequence tell the truth about what was sent.
THEOREM OutcomeIsHonest == Spec => []OutcomeHonest
<1>1. ASSUME Init PROVE OutcomeInv
  <2>1. \A t \in Tasks : task[t] = IdleTask
    BY <1>1 DEF Init
  <2>2. TasksFresh
    BY <1>1, <2>1 DEF TasksFresh, Init, IdleTask, Tasks
  <2>3. LoopKnows /\ EnqueuedAfterClaim /\ OutcomeHonest
    BY <1>1, <2>1 DEF LoopKnows, EnqueuedAfterClaim, OutcomeHonest, Init, IdleTask
  <2> QED
    BY <1>1, <2>2, <2>3, ClaimInvInit DEF OutcomeInv
<1>2. OutcomeInv => OutcomeHonest
  BY DEF OutcomeInv
<1> QED
  BY <1>1, <1>2, OutcomeNext, PTL DEF Spec

-----------------------------------------------------------------------------
(***************************************************************************)
(* Nothing is waited for that nobody is to do.  The step that makes the    *)
(* claim, or the completion of a run, possible leaves its task ahead of    *)
(* the check that tries it, and a task that dies is tried again or dead.   *)
(***************************************************************************)
LEMMA FailStep ==
  ASSUME TypeOK, Fail
  PROVE  /\ run' = run /\ seq' = seq
         /\ \A u \in Tasks :
              task'[u] = task[u] \/ task'[u].pc \in {"queued", "dead"} \/ task[u].pc = "dispatch"
<1>1. ASSUME NEW p \in Producers, ProducerCrash(p) \/ \E s \in Symbols : EnqueueTaskFails(p, s)
      PROVE  run' = run /\ seq' = seq /\ task' = task
  BY <1>1 DEF ProducerCrash, EnqueueTaskFails, docs
<1>2. ASSUME NEW t \in Tasks, EnqueueConsumerFails(t) \/ WorkerCrash(t)
      PROVE  /\ run' = run /\ seq' = seq /\ \A u \in Tasks : u # t => task'[u] = task[u]
             /\ task'[t].pc \in {"queued", "dead"} \/ task[t].pc = "dispatch"
  <2>1. CASE EnqueueConsumerFails(t)
    BY <2>1 DEF EnqueueConsumerFails, docs, TypeOK
  <2>2. CASE WorkerCrash(t)
    <3>1. /\ task' = [task EXCEPT ![t] = Restarted(task[t].attempts + 1)]
          /\ run' = run /\ seq' = seq
      BY <2>2 DEF WorkerCrash, docs
    <3>2. Restarted(task[t].attempts + 1).pc \in {"queued", "dead"}
      BY DEF Restarted
    <3> QED
      BY <3>1, <3>2 DEF TypeOK
  <2> QED
    BY <1>2, <2>1, <2>2
<1> QED
  BY <1>1, <1>2 DEF Fail

LEMMA PendingNext ==
  ASSUME ClaimInv, SequenceClaimPending, [Next]_vars PROVE SequenceClaimPending'
<1> USE DEF docs
<1>1. TypeOK /\ ClaimExclusive /\ NoIntervalsYet
  BY DEF ClaimInv
<1> DEFINE Yet == {"queued", "synced", "check", "peek", "claim", "dead"}
<1>2. SUFFICES ASSUME SequenceReady' PROVE \E t \in Tasks : task'[t].pc \in Yet
  BY DEF SequenceClaimPending
<1>3. ASSUME SequenceReady,
             \A u \in Tasks : task[u].pc \in Yet => task'[u].pc \in Yet
      PROVE  \E t \in Tasks : task'[t].pc \in Yet
  BY <1>3 DEF SequenceClaimPending
<1>4. ASSUME seq' = seq PROVE SequenceReady
  BY <1>2, <1>4 DEF SequenceReady
<1>5. ASSUME NEW p \in Producers, Produce(p) PROVE \E t \in Tasks : task'[t].pc \in Yet
  <2>1. CASE JoinSequence(p)
    <3>1. seq.status # "absent"
      BY <1>1, <1>2, <2>1, IntervalsAssumption DEF JoinSequence, SequenceReady
    <3>2. seq' = seq /\ task' = task
      BY <2>1, <3>1 DEF JoinSequence
    <3> QED
      BY <1>3, <1>4, <3>2
  <2>2. ASSUME NEW s \in Symbols, EnqueueTask(p, s) PROVE \E t \in Tasks : task'[t].pc \in Yet
    <3>1. <<p, s>> \in Tasks /\ task'[<<p, s>>].pc = "queued"
      BY <1>1, <2>2 DEF EnqueueTask, TypeOK, TaskState, Tasks
    <3> QED
      BY <3>1
  <2> QED
    BY <1>3, <1>4, <1>5, <2>1, <2>2
    DEF Produce, ReceivePdr, CreateRun, FinishEnqueue, FallbackCreateRun
<1>6. ASSUME NEW t \in Tasks, Work(t) PROVE \E u \in Tasks : task'[u].pc \in Yet
  <2>1. ASSUME NEW from, NEW to \in Yet, Goto(t, from, to) PROVE task'[t].pc \in Yet
    BY <1>1, <2>1 DEF Goto, TypeOK, TaskState
  <2>2. CASE WorkerSync(t) \/ WorkerMark(t) \/ CheckSyncRunCompletion(t)
    <3>1. \E from, to : to \in Yet /\ Goto(t, from, to)
      BY <2>2 DEF WorkerSync, WorkerMark, CheckSyncRunCompletion
    <3> QED
      BY <2>1, <3>1
  <2>3. CASE MaybeFireSequenceCompletion(t)
    BY <1>4, <2>1, <2>3 DEF MaybeFireSequenceCompletion
  <2>4. CASE ClaimSequence(t)
    <3>1. CASE ClaimAllowed
      BY <1>1, <1>2, <2>4, <3>1 DEF ClaimSequence, SequenceReady, TypeOK, SeqDoc, TerminalSeq
    <3>2. CASE ~ClaimAllowed
      BY <1>4, <2>4, <3>2 DEF ClaimSequence, ClaimAllowed, SequenceReady
    <3> QED
      BY <3>1, <3>2
  <2>5. CASE EnqueueConsumer(t)
    <3>1. task[t].pc = "dispatch" /\ seq' = seq
      BY <2>5 DEF EnqueueConsumer
    <3> QED
      BY <1>1, <1>4, <3>1 DEF ClaimExclusive, SequenceReady
  <2>6. CASE FinishDispatch(t)
    <3>1. seq.status \in TerminalSeq
      BY <1>1, <2>6 DEF FinishDispatch, Goto, ClaimExclusive
    <3>2. seq'.status \in TerminalSeq
      BY <1>1, <2>6, <3>1 DEF FinishDispatch, DispatchOutcome, TypeOK, SeqDoc, TerminalSeq
    <3> QED
      BY <1>2, <3>2 DEF SequenceReady
  <2> QED
    BY <1>6, <2>2, <2>3, <2>4, <2>5, <2>6 DEF Work
<1>7. CASE Fail
  <2>1. \A u \in Tasks : task[u].pc \in Yet => task'[u].pc \in Yet
    BY <1>1, <1>7, FailStep
  <2>2. seq' = seq
    BY <1>1, <1>7, FailStep
  <2> QED
    BY <1>3, <1>4, <2>1, <2>2
<1> QED
  BY <1>3, <1>4, <1>5, <1>6, <1>7 DEF Next, FallbackCheck, vars

\* A sequence with all its intervals has a worker that is yet to try the claim,
\* unless Cloud Tasks gave it up.
THEOREM SequenceClaimIsPending == Spec => []SequenceClaimPending
<1>1. Init => ClaimInv /\ SequenceClaimPending
  BY ClaimInvInit DEF Init, SequenceClaimPending, SequenceReady
<1>2. ClaimInv /\ SequenceClaimPending /\ [Next]_vars => ClaimInv' /\ SequenceClaimPending'
  BY PendingNext, ClaimInvNext
<1> QED
  BY <1>1, <1>2, PTL DEF Spec

NothingFailed == \A p \in Producers : sub[p].failed = {}

LEMMA RunPendingNext ==
  ASSUME TypeOK, "taskEnqueue" \notin Faults, NothingFailed, RunCheckPending, [Next]_vars
  PROVE  NothingFailed' /\ RunCheckPending'
<1> USE DEF docs
<1>1. NothingFailed'
  <2>1. CASE sub' = sub
    BY <2>1 DEF NothingFailed
  <2>2. ASSUME NEW p \in Producers, CreateRun(p) \/ FallbackCreateRun(p) PROVE NothingFailed'
    BY <2>2 DEF CreateRun, FallbackCreateRun, WriteRun, NothingFailed, TypeOK
  <2>3. ASSUME NEW p \in Producers, \/ ReceivePdr(p) \/ JoinSequence(p) \/ FinishEnqueue(p)
                                   \/ ProducerCrash(p) \/ \E s \in Symbols : EnqueueTask(p, s)
        PROVE  NothingFailed'
    <3>1. \E x : sub' = [sub EXCEPT ![p].pc = x] \/ sub' = [sub EXCEPT ![p].todo = x]
      BY <2>3 DEF ReceivePdr, JoinSequence, FinishEnqueue, ProducerCrash, EnqueueTask
    <3> QED
      BY <3>1 DEF NothingFailed, TypeOK, SubState
  <2>4. ASSUME NEW t \in Tasks, Work(t) \/ EnqueueConsumerFails(t) \/ WorkerCrash(t)
        PROVE  sub' = sub
    BY <2>4 DEF Work, WorkerSync, WorkerMark, CheckSyncRunCompletion, MaybeFireSequenceCompletion,
      ClaimSequence, EnqueueConsumer, FinishDispatch, EnqueueConsumerFails, WorkerCrash
  <2> QED
    BY <2>1, <2>2, <2>3, <2>4 DEF Next, Produce, FallbackCheck, Fail, EnqueueTaskFails, vars
<1> DEFINE Yet == {"queued", "synced", "check", "dead"}
<1>2. SUFFICES ASSUME NEW r \in Runs, run'[r].status = "processing", run'[r].symbols # {},
                      AllProcessed(run'[r])
               PROVE  \E t \in Tasks : RunOf(t[1]) = r /\ task'[t].pc \in Yet
  BY <1>1 DEF RunCheckPending
<1> DEFINE Goal == \E t \in Tasks : RunOf(t[1]) = r /\ task'[t].pc \in Yet
<1>3. ASSUME run'[r] = run[r],
             \A u \in Tasks : RunOf(u[1]) = r /\ task[u].pc \in Yet => task'[u].pc \in Yet
      PROVE  Goal
  BY <1>2, <1>3 DEF RunCheckPending
<1>4. ASSUME NEW p \in Producers, NEW S \in SUBSET Symbols, WriteRun(p, S), task' = task
      PROVE  Goal
  <2>1. CASE RunOf(p) = r
    <3>1. run'[r].symbols = S /\ run'[r].processed = {}
      BY <1>4, <2>1 DEF WriteRun, TypeOK
    <3>2. Cardinality(S) \in Nat \ {0}
      BY <1>2, <3>1, FiniteAssumption, FS_Subset, FS_CardinalityType, FS_EmptySet
    <3> QED
      BY <1>2, <3>1, <3>2, FS_EmptySet DEF AllProcessed
  <2>2. CASE RunOf(p) # r
    BY <1>3, <1>4, <2>2 DEF WriteRun, TypeOK
  <2> QED
    BY <2>1, <2>2
<1>5. ASSUME NEW p \in Producers, Produce(p) PROVE Goal
  <2>1. CASE CreateRun(p)
    <3>1. PICK S \in ResolveSymbolSet(p) : WriteRun(p, S)
      BY <2>1 DEF CreateRun
    <3>2. S \in SUBSET Symbols
      BY <3>1, SymbolSetsAssumption, ProducerRun DEF ResolveSymbolSet, TypeOK, RunDoc
    <3> QED
      BY <1>4, <2>1, <3>1, <3>2 DEF CreateRun
  <2>2. CASE FallbackCreateRun(p)
    BY <1>4, <2>2, SymbolSetsAssumption DEF FallbackCreateRun
  <2>3. CASE FinishEnqueue(p)
    <3>1. run'[r] = run[r]
      BY <2>3 DEF FinishEnqueue, NothingFailed, TypeOK, RunDoc
    <3> QED
      BY <1>3, <2>3, <3>1 DEF FinishEnqueue
  <2>4. CASE ReceivePdr(p) \/ JoinSequence(p)
    BY <1>3, <2>4 DEF ReceivePdr, JoinSequence
  <2>5. ASSUME NEW s \in Symbols, EnqueueTask(p, s) PROVE Goal
    <3>1. \A u \in Tasks : task[u].pc \in Yet => task'[u].pc \in Yet
      BY <2>5 DEF EnqueueTask, TypeOK, TaskState, Tasks
    <3> QED
      BY <1>3, <2>5, <3>1 DEF EnqueueTask
  <2> QED
    BY <1>5, <2>1, <2>2, <2>3, <2>4, <2>5 DEF Produce
<1>6. ASSUME NEW t \in Tasks, Work(t) PROVE Goal
  <2>1. ASSUME NEW from, NEW to, Goto(t, from, to), run'[r] = run[r],
               from \in Yet => to \in Yet
        PROVE  Goal
    BY <1>3, <2>1 DEF Goto, TypeOK, TaskState
  <2>2. CASE WorkerMark(t)
    <3>1. CASE RunOf(t[1]) = r
      BY <2>2, <3>1 DEF WorkerMark, Goto, TypeOK, TaskState
    <3>2. CASE RunOf(t[1]) # r
      BY <2>1, <2>2, <3>2 DEF WorkerMark, TypeOK
    <3> QED
      BY <3>1, <3>2
  <2>3. CASE CheckSyncRunCompletion(t)
    <3>1. CASE RunOf(t[1]) = r
      BY <1>2, <2>3, <3>1
      DEF CheckSyncRunCompletion, CompletionTransaction, CompleteRun, TypeOK, RunDoc, TerminalRun
    <3>2. CASE RunOf(t[1]) # r
      <4>1. run'[r] = run[r]
        BY <2>3, <3>2 DEF CheckSyncRunCompletion, CompletionTransaction, CompleteRun, TypeOK
      <4>2. \A u \in Tasks : RunOf(u[1]) = r => task'[u] = task[u]
        BY <2>3, <3>2 DEF CheckSyncRunCompletion, Goto, TypeOK
      <4> QED
        BY <1>3, <4>1, <4>2
    <3> QED
      BY <3>1, <3>2
  <2>4. CASE WorkerSync(t)
    BY <2>1, <2>4 DEF WorkerSync
  <2>5. CASE MaybeFireSequenceCompletion(t) \/ ClaimSequence(t) \/ FinishDispatch(t)
    <3>1. run' = run /\ \E from, to : Goto(t, from, to) /\ from \notin Yet
      BY <2>5 DEF MaybeFireSequenceCompletion, ClaimSequence, FinishDispatch
    <3> QED
      BY <2>1, <3>1
  <2>6. CASE EnqueueConsumer(t)
    BY <1>3, <2>6 DEF EnqueueConsumer, PastConsumer, TypeOK
  <2> QED
    BY <1>6, <2>2, <2>3, <2>4, <2>5, <2>6 DEF Work
<1>7. CASE Fail
  <2>1. \A u \in Tasks : task[u].pc \in Yet => task'[u].pc \in Yet
    BY <1>7, FailStep
  <2>2. run' = run
    BY <1>7, FailStep
  <2> QED
    BY <1>3, <2>1, <2>2
<1> QED
  BY <1>3, <1>5, <1>6, <1>7 DEF Next, FallbackCheck, vars

\* A run that has everything it waits for has a worker that is yet to check it,
\* as long as no enqueue fails: the symbols of a failed enqueue are added to the
\* processed ones without a check (sds-core.ts), a hazard of its own.
THEOREM RunCheckIsPending ==
  ASSUME "taskEnqueue" \notin Faults PROVE Spec => []RunCheckPending
<1>1. Init => TypeOK /\ NothingFailed /\ RunCheckPending
  BY InitType DEF Init, NothingFailed, RunCheckPending
<1>2. TypeOK /\ NothingFailed /\ RunCheckPending /\ [Next]_vars
        => TypeOK' /\ NothingFailed' /\ RunCheckPending'
  BY RunPendingNext, NextType
<1> QED
  BY <1>1, <1>2, PTL DEF Spec

-----------------------------------------------------------------------------
(***************************************************************************)
(* The fan-in is complete when a run keeps the list it was created with.   *)
(* A redelivered POST A message fetches its list anew, so that the run may *)
(* be written over with another one: the hazard SdsListChange shows.  Then *)
(* nothing follows from the completion; the theorem is about the rest.     *)
(***************************************************************************)
ListsAgree ==
  \/ SequenceLetter # "A"
  \/ MaxDeliveries = 1
  \/ \A S, T \in SymbolSets : S = T

RunsInv ==
  /\ \A r \in Runs :
       /\ run[r].status = "absent" => run[r].symbols = {}
       /\ run[r].status # "absent" =>
            /\ run[r].symbols \in SymbolSets
            /\ \E p \in Producers : RunOf(p) = r /\ sub[p].pc \notin {"idle", "create"}
       /\ run[r].processed \subseteq run[r].symbols /\ run[r].processed \subseteq accounted[r]
  /\ \A p \in Producers : /\ sub[p].todo \subseteq run[RunOf(p)].symbols
                          /\ sub[p].failed \subseteq run[RunOf(p)].symbols
  /\ \A t \in Tasks :
       /\ task[t].pc # "none" => t[2] \in run[RunOf(t[1])].symbols
       /\ task[t].pc = "synced" => t[2] \in accounted[RunOf(t[1])]

\* A run that exists keeps its list, and what it accounted for.
RunsGrow ==
  \A r \in Runs :
    /\ run[r].status # "absent" =>
         run'[r].status # "absent" /\ run'[r].symbols = run[r].symbols
    /\ accounted[r] \subseteq accounted'[r]

\* The list a run is created with is the one it had, or the run is new.
LEMMA SameList ==
  ASSUME ListsAgree, TypeOK, RunsInv, NEW p \in Producers, CreateRun(p),
         NEW S \in ResolveSymbolSet(p)
  PROVE  /\ S \in SymbolSets
         /\ run[RunOf(p)].status = "absent" \/ S = run[RunOf(p)].symbols
<1> DEFINE r == RunOf(p)
<1>1. r \in Runs /\ (run[r].status # "absent" => run[r].symbols \in SymbolSets)
  BY ProducerRun DEF RunsInv
<1>2. S \in SymbolSets
  BY <1>1 DEF ResolveSymbolSet
<1>3. CASE SequenceLetter # "A"
  BY <1>2, <1>3 DEF ResolveSymbolSet
<1>4. CASE MaxDeliveries = 1
  <2>1. SUFFICES ASSUME run[r].status # "absent" PROVE FALSE
    BY <1>2
  <2>2. PICK q \in Producers : RunOf(q) = r /\ sub[q].pc \notin {"idle", "create"}
    BY <1>1, <2>1 DEF RunsInv
  <2>3. p = q
    BY <1>4, <2>2 DEF CreateRun, RunOf, Producers, LiveProducers, FallbackProducers
  <2> QED
    BY <2>2, <2>3 DEF CreateRun
<1>5. CASE \A T, U \in SymbolSets : T = U
  BY <1>1, <1>2, <1>5
<1> QED
  BY <1>3, <1>4, <1>5 DEF ListsAgree

LEMMA RunsWritten ==
  ASSUME TypeOK, RunsInv, NEW p \in Producers, NEW S \in SymbolSets, WriteRun(p, S),
         run[RunOf(p)].status = "absent" \/ S = run[RunOf(p)].symbols,
         UNCHANGED <<task, accounted>>
  PROVE  RunsInv' /\ RunsGrow
<1> DEFINE r == RunOf(p)
<1>1. r \in Runs /\ run[r].symbols \subseteq S /\ S \subseteq Symbols
  BY ProducerRun, SymbolSetsAssumption DEF RunsInv
<1>2. /\ run'[r] = [status |-> "processing", symbols |-> S, processed |-> {}]
      /\ \A x \in Runs : x # r => run'[x] = run[x]
      /\ sub'[p] = [pc |-> "join", todo |-> S, failed |-> {}]
      /\ \A q \in Producers : q # p => sub'[q] = sub[q]
  BY <1>1 DEF WriteRun, TypeOK
<1>3. RunsGrow
  BY <1>2 DEF RunsGrow
<1>4. \A x \in Runs : run[x].symbols \subseteq run'[x].symbols
  BY <1>1, <1>2
<1>5. ASSUME NEW x \in Runs
      PROVE  /\ run'[x].status = "absent" => run'[x].symbols = {}
             /\ run'[x].status # "absent" =>
                  /\ run'[x].symbols \in SymbolSets
                  /\ \E q \in Producers : RunOf(q) = x /\ sub'[q].pc \notin {"idle", "create"}
             /\ run'[x].processed \subseteq run'[x].symbols
             /\ run'[x].processed \subseteq accounted'[x]
  <2>1. CASE x = r
    BY <1>2, <2>1
  <2>2. CASE x # r
    <3>1. run'[x] = run[x] /\ \A q \in Producers : RunOf(q) = x => sub'[q] = sub[q]
      BY <1>2, <2>2
    <3> QED
      BY <3>1 DEF RunsInv
  <2> QED
    BY <2>1, <2>2
<1>6. ASSUME NEW q \in Producers
      PROVE  /\ sub'[q].todo \subseteq run'[RunOf(q)].symbols
             /\ sub'[q].failed \subseteq run'[RunOf(q)].symbols
  BY <1>2, <1>4, ProducerRun DEF RunsInv
<1>7. ASSUME NEW t \in Tasks
      PROVE  /\ task'[t].pc # "none" => t[2] \in run'[RunOf(t[1])].symbols
             /\ task'[t].pc = "synced" => t[2] \in accounted'[RunOf(t[1])]
  BY <1>4, TaskRun DEF RunsInv
<1> QED
  BY <1>3, <1>5, <1>6, <1>7 DEF RunsInv

\* A step that moves no list, and only what the producers and the tasks do.
LEMMA RunsKept ==
  ASSUME TypeOK, RunsInv, UNCHANGED <<run, accounted>>,
         \A p \in Producers : /\ sub'[p].todo \subseteq sub[p].todo
                              /\ sub'[p].failed \subseteq sub[p].failed \cup sub[p].todo
                              /\ sub[p].pc \notin {"idle", "create"} =>
                                   sub'[p].pc \notin {"idle", "create"},
         \A t \in Tasks :
           /\ task'[t].pc # "none" => task[t].pc # "none" \/ t[2] \in sub[t[1]].todo
           /\ task'[t].pc = "synced" => task[t].pc = "synced"
  PROVE  RunsInv' /\ RunsGrow
<1>1. RunsGrow
  BY DEF RunsGrow
<1>2. ASSUME NEW r \in Runs, run'[r].status # "absent"
      PROVE  \E p \in Producers : RunOf(p) = r /\ sub'[p].pc \notin {"idle", "create"}
  BY <1>2 DEF RunsInv
<1>3. \A p \in Producers : /\ sub'[p].todo \subseteq run'[RunOf(p)].symbols
                           /\ sub'[p].failed \subseteq run'[RunOf(p)].symbols
  BY DEF RunsInv
<1>4. \A t \in Tasks :
        /\ task'[t].pc # "none" => t[2] \in run'[RunOf(t[1])].symbols
        /\ task'[t].pc = "synced" => t[2] \in accounted'[RunOf(t[1])]
  BY TaskRun DEF RunsInv
<1> QED
  BY <1>1, <1>2, <1>3, <1>4 DEF RunsInv

\* The other writes of a run: the failed enqueues, a processed symbol, the status.
LEMMA RunsMarked ==
  ASSUME TypeOK, RunsInv, NEW r \in Runs, NEW S \in SUBSET Symbols, S \subseteq run[r].symbols,
         run' = [run EXCEPT ![r].processed = @ \cup S],
         S \subseteq accounted'[r], \A x \in Runs : accounted[x] \subseteq accounted'[x],
         \A p \in Producers : /\ sub'[p].todo = sub[p].todo /\ sub'[p].failed = sub[p].failed
                              /\ sub[p].pc \notin {"idle", "create"} =>
                                   sub'[p].pc \notin {"idle", "create"},
         \A t \in Tasks : /\ task'[t].pc # "none" => task[t].pc # "none"
                          /\ task'[t].pc = "synced" => task[t].pc = "synced"
  PROVE  RunsInv' /\ RunsGrow
<1>1. /\ \A x \in Runs : /\ run'[x].status = run[x].status /\ run'[x].symbols = run[x].symbols
                         /\ x # r => run'[x].processed = run[x].processed
      /\ run'[r].processed = run[r].processed \cup S
  BY DEF TypeOK, RunDoc
<1>2. RunsGrow
  BY <1>1 DEF RunsGrow
<1>3. \A x \in Runs : /\ run'[x].processed \subseteq run'[x].symbols
                      /\ run'[x].processed \subseteq accounted'[x]
  BY <1>1 DEF RunsInv
<1>4. ASSUME NEW x \in Runs, run'[x].status # "absent"
      PROVE  \E p \in Producers : RunOf(p) = x /\ sub'[p].pc \notin {"idle", "create"}
  BY <1>1, <1>4 DEF RunsInv
<1>5. \A t \in Tasks :
        /\ task'[t].pc # "none" => t[2] \in run'[RunOf(t[1])].symbols
        /\ task'[t].pc = "synced" => t[2] \in accounted'[RunOf(t[1])]
  BY <1>1, TaskRun DEF RunsInv
<1>6. \A p \in Producers : /\ sub'[p].todo \subseteq run'[RunOf(p)].symbols
                           /\ sub'[p].failed \subseteq run'[RunOf(p)].symbols
  BY <1>1, ProducerRun DEF RunsInv
<1> QED
  BY <1>1, <1>2, <1>3, <1>4, <1>5, <1>6 DEF RunsInv

LEMMA RunsNext ==
  ASSUME ListsAgree, TypeOK, RunsInv, [Next]_vars PROVE RunsInv' /\ RunsGrow
<1> USE DEF docs
<1> DEFINE Good == RunsInv' /\ RunsGrow
<1>1. ASSUME NEW p \in Producers, Produce(p) PROVE Good
  <2>1. CASE CreateRun(p)
    <3>1. PICK S \in ResolveSymbolSet(p) : WriteRun(p, S)
      BY <2>1 DEF CreateRun
    <3> QED
      BY <2>1, <3>1, SameList, RunsWritten DEF CreateRun
  <2>2. CASE FallbackCreateRun(p)
    BY <2>2, RunsWritten DEF FallbackCreateRun
  <2>3. CASE FinishEnqueue(p)
    <3> DEFINE r == RunOf(p)
               S == sub[p].failed
    <3>1. r \in Runs /\ S \in SUBSET Symbols /\ S \subseteq run[r].symbols
      BY ProducerRun DEF RunsInv, TypeOK, SubState
    <3>2. /\ run' = [run EXCEPT ![r].processed = @ \cup S]
          /\ accounted' = [accounted EXCEPT ![r] = @ \cup S] /\ task' = task
      BY <2>3 DEF FinishEnqueue
    <3>3. \A q \in Producers : /\ sub'[q].todo = sub[q].todo /\ sub'[q].failed = sub[q].failed
                               /\ sub[q].pc \notin {"idle", "create"} =>
                                    sub'[q].pc \notin {"idle", "create"}
      BY <2>3 DEF FinishEnqueue, TypeOK, SubState
    <3>4. S \subseteq accounted'[r] /\ \A x \in Runs : accounted[x] \subseteq accounted'[x]
      BY <3>1, <3>2 DEF TypeOK
    <3> HIDE DEF r, S
    <3> QED
      BY <3>1, <3>2, <3>3, <3>4, RunsMarked
  <2>4. CASE ReceivePdr(p) \/ JoinSequence(p)
    <3>1. UNCHANGED <<run, accounted, task>>
      BY <2>4 DEF ReceivePdr, JoinSequence
    <3>2. \A q \in Producers : /\ sub'[q].todo = sub[q].todo /\ sub'[q].failed = sub[q].failed
                               /\ sub[q].pc \notin {"idle", "create"} =>
                                    sub'[q].pc \notin {"idle", "create"}
      BY <2>4 DEF ReceivePdr, JoinSequence, TypeOK, SubState
    <3> QED
      BY <3>1, <3>2, RunsKept
  <2>5. ASSUME NEW s \in Symbols, EnqueueTask(p, s) PROVE Good
    <3>1. UNCHANGED <<run, accounted>>
      BY <2>5 DEF EnqueueTask
    <3>2. \A q \in Producers : /\ sub'[q].todo \subseteq sub[q].todo
                               /\ sub'[q].failed = sub[q].failed /\ sub'[q].pc = sub[q].pc
      BY <2>5 DEF EnqueueTask, TypeOK, SubState
    <3>3. \A t \in Tasks : /\ task'[t].pc # "none" => task[t].pc # "none" \/ t[2] \in sub[t[1]].todo
                           /\ task'[t].pc = "synced" => task[t].pc = "synced"
      BY <2>5 DEF EnqueueTask, TypeOK, TaskState
    <3> QED
      BY <3>1, <3>2, <3>3, RunsKept
  <2> QED
    BY <1>1, <2>1, <2>2, <2>3, <2>4, <2>5 DEF Produce
<1>2. ASSUME UNCHANGED <<run, accounted, sub>>,
             \A t \in Tasks : /\ task'[t].pc # "none" => task[t].pc # "none"
                              /\ task'[t].pc = "synced" => task[t].pc = "synced"
      PROVE  Good
  BY <1>2, RunsKept
<1>3. ASSUME NEW t \in Tasks, Work(t) PROVE Good
  <2> DEFINE r == RunOf(t[1])
  <2>1. r \in Runs /\ t[2] \in Symbols
    BY TaskRun
  <2>2. ASSUME NEW from, NEW to, Goto(t, from, to), from # "none", to # "synced"
        PROVE  \A u \in Tasks : /\ task'[u].pc # "none" => task[u].pc # "none"
                                /\ task'[u].pc = "synced" => task[u].pc = "synced"
    BY <2>2 DEF Goto, TypeOK, TaskState
  <2>3. CASE WorkerSync(t)
    <3>1. UNCHANGED <<run, sub>> /\ Goto(t, "queued", "synced")
          /\ accounted' = [accounted EXCEPT ![r] = @ \cup {t[2]}]
      BY <2>3 DEF WorkerSync
    <3>2. t[2] \in accounted'[r] /\ \A x \in Runs : accounted[x] \subseteq accounted'[x]
      BY <2>1, <3>1 DEF TypeOK
    <3>3. \A u \in Tasks : /\ task'[u].pc # "none" => task[u].pc # "none"
                           /\ task'[u].pc = "synced" => u = t \/ task[u].pc = "synced"
      BY <3>1 DEF Goto, TypeOK, TaskState
    <3>4. \A u \in Tasks :
            /\ task'[u].pc # "none" => u[2] \in run'[RunOf(u[1])].symbols
            /\ task'[u].pc = "synced" => u[2] \in accounted'[RunOf(u[1])]
      BY <3>1, <3>2, <3>3, TaskRun DEF RunsInv
    <3>5. \A x \in Runs : run[x].processed \subseteq accounted'[x]
      BY <3>2 DEF RunsInv
    <3> QED
      BY <3>1, <3>2, <3>4, <3>5 DEF RunsInv, RunsGrow
  <2>4. CASE WorkerMark(t)
    <3>1. /\ task[t].pc = "synced" /\ UNCHANGED <<sub, accounted>> /\ Goto(t, "synced", "check")
          /\ run' = [run EXCEPT ![r].processed = @ \cup {t[2]}]
      BY <2>4 DEF WorkerMark, Goto
    <3>2. {t[2]} \subseteq run[r].symbols /\ {t[2]} \subseteq accounted'[r] /\ {t[2]} \in SUBSET Symbols
      BY <2>1, <3>1 DEF RunsInv
    <3>3. \A u \in Tasks : /\ task'[u].pc # "none" => task[u].pc # "none"
                           /\ task'[u].pc = "synced" => task[u].pc = "synced"
      BY <2>2, <3>1
    <3> HIDE DEF r
    <3> QED
      BY <2>1, <3>1, <3>2, <3>3, RunsMarked
  <2>5. CASE CheckSyncRunCompletion(t)
    <3>1. /\ UNCHANGED <<sub, accounted>> /\ Goto(t, "check", "peek")
          /\ \/ run' = run
             \/ run[r].status = "processing" /\ CompleteRun(r)
      BY <2>5 DEF CheckSyncRunCompletion, CompletionTransaction
    <3>2. \A x \in Runs : /\ run'[x].symbols = run[x].symbols /\ run'[x].processed = run[x].processed
                          /\ run'[x].status = "absent" <=> run[x].status = "absent"
      BY <2>1, <3>1 DEF CompleteRun, TypeOK, RunDoc
    <3>3. \A u \in Tasks : /\ task'[u].pc # "none" => task[u].pc # "none"
                           /\ task'[u].pc = "synced" => task[u].pc = "synced"
      BY <2>2, <3>1
    <3>4. RunsGrow
      BY <3>1, <3>2 DEF RunsGrow
    <3>5. \A u \in Tasks :
            /\ task'[u].pc # "none" => u[2] \in run'[RunOf(u[1])].symbols
            /\ task'[u].pc = "synced" => u[2] \in accounted'[RunOf(u[1])]
      BY <3>1, <3>2, <3>3, TaskRun DEF RunsInv
    <3>6. \A p \in Producers : /\ sub'[p].todo \subseteq run'[RunOf(p)].symbols
                               /\ sub'[p].failed \subseteq run'[RunOf(p)].symbols
      BY <3>1, <3>2, ProducerRun DEF RunsInv
    <3> QED
      BY <3>1, <3>2, <3>4, <3>5, <3>6 DEF RunsInv
  <2>6. CASE MaybeFireSequenceCompletion(t) \/ ClaimSequence(t) \/ FinishDispatch(t)
    <3>1. UNCHANGED <<run, accounted, sub>>
          /\ \E from, to : Goto(t, from, to) /\ from # "none" /\ to # "synced"
      BY <2>6 DEF MaybeFireSequenceCompletion, ClaimSequence, FinishDispatch
    <3> QED
      BY <1>2, <2>2, <3>1
  <2>7. CASE EnqueueConsumer(t)
    <3>1. UNCHANGED <<run, accounted, sub>> /\ task[t].pc # "none"
          /\ task' = [task EXCEPT ![t] = PastConsumer(@, @.failed)]
      BY <2>7 DEF EnqueueConsumer
    <3> QED
      BY <1>2, <3>1 DEF PastConsumer, TypeOK
  <2> QED
    BY <1>3, <2>3, <2>4, <2>5, <2>6, <2>7 DEF Work
<1>4. ASSUME NEW p \in Producers, ProducerCrash(p) PROVE Good
  <2>1. \A q \in Producers : /\ sub'[q].todo = sub[q].todo /\ sub'[q].failed = sub[q].failed
                             /\ sub[q].pc \notin {"idle", "create"} =>
                                  sub'[q].pc \notin {"idle", "create"}
    BY <1>4 DEF ProducerCrash, TypeOK, SubState
  <2> QED
    BY <1>4, <2>1, RunsKept DEF ProducerCrash
<1>5. ASSUME NEW p \in Producers, NEW s \in Symbols, EnqueueTaskFails(p, s) PROVE Good
  <2>1. \A q \in Producers : /\ sub'[q].todo \subseteq sub[q].todo
                             /\ sub'[q].failed \subseteq sub[q].failed \cup sub[q].todo
                             /\ sub'[q].pc = sub[q].pc
    BY <1>5 DEF EnqueueTaskFails, TypeOK, SubState
  <2> QED
    BY <1>5, <2>1, RunsKept DEF EnqueueTaskFails
<1>6. ASSUME NEW t \in Tasks, EnqueueConsumerFails(t) PROVE Good
  <2>1. UNCHANGED <<run, accounted, sub>> /\ task[t].pc # "none"
        /\ task' = [task EXCEPT ![t] = PastConsumer(task[t], TRUE)]
    BY <1>6 DEF EnqueueConsumerFails
  <2> QED
    BY <1>2, <2>1 DEF PastConsumer, TypeOK
<1>7. ASSUME NEW t \in Tasks, WorkerCrash(t) PROVE Good
  <2>1. UNCHANGED <<run, accounted, sub>> /\ task[t].pc # "none"
        /\ task' = [task EXCEPT ![t] = Restarted(task[t].attempts + 1)]
    BY <1>7 DEF WorkerCrash
  <2>2. Restarted(task[t].attempts + 1).pc # "synced"
    BY DEF Restarted
  <2> QED
    BY <1>2, <2>1, <2>2 DEF TypeOK
<1> QED
  BY <1>1, <1>2, <1>3, <1>4, <1>5, <1>6, <1>7 DEF Next, Fail, FallbackCheck, vars

\* In an interval some run with symbols had all of them accounted for.
Attempted(iv) ==
  \E r \in Runs : /\ r[2] = iv /\ run[r].status # "absent"
                  /\ run[r].symbols # {} /\ run[r].symbols \subseteq accounted[r]

\* Reported intervals were attempted, and a claimed sequence has them all.
Reported ==
  /\ \A iv \in seq.intervals : Attempted(iv)
  /\ seq.status \in TerminalSeq => Intervals \subseteq seq.intervals

\* Only the completion of a run with symbols reports an interval.
LEMMA IntervalReported ==
  ASSUME ClaimInv, [Next]_vars, NEW iv \in seq'.intervals, iv \notin seq.intervals
  PROVE  \E r \in Runs : /\ r[2] = iv /\ run[r].status = "processing"
                         /\ run[r].symbols # {} /\ AllProcessed(run[r])
<1> USE DEF docs
<1>1. TypeOK /\ NoIntervalsYet
  BY DEF ClaimInv
<1>2. PICK t \in Tasks : CheckSyncRunCompletion(t)
  <2>1. ASSUME NEW p \in Producers, Produce(p) PROVE seq'.intervals = seq.intervals
    <3>1. CASE JoinSequence(p)
      BY <1>1, <3>1 DEF JoinSequence, NoIntervalsYet
    <3>2. CASE ~JoinSequence(p)
      BY <2>1, <3>2 DEF Produce, ReceivePdr, CreateRun, FinishEnqueue, FallbackCreateRun, EnqueueTask
    <3> QED
      BY <3>1, <3>2
  <2>2. ASSUME NEW t \in Tasks,
               \/ WorkerSync(t) \/ WorkerMark(t) \/ MaybeFireSequenceCompletion(t)
               \/ ClaimSequence(t) \/ EnqueueConsumer(t) \/ FinishDispatch(t)
        PROVE  seq'.intervals = seq.intervals
    BY <1>1, <2>2 DEF WorkerSync, WorkerMark, MaybeFireSequenceCompletion, ClaimSequence,
      EnqueueConsumer, FinishDispatch, DispatchOutcome, TypeOK, SeqDoc
  <2>3. CASE Fail
    BY <1>1, <2>3, FailStep
  <2> QED
    BY <2>1, <2>2, <2>3 DEF Next, Work, FallbackCheck, vars
<1> DEFINE r == RunOf(t[1])
<1>3. CompletionTransaction(r) /\ r \in Runs
  BY <1>2, TaskRun DEF CheckSyncRunCompletion
<1>4. run[r].status = "processing" /\ run[r].symbols # {} /\ AllProcessed(run[r])
      /\ AddInterval(r[2])
  BY <1>3 DEF CompletionTransaction
<1>5. seq'.intervals \subseteq seq.intervals \cup {r[2]}
  BY <1>1, <1>4 DEF AddInterval, TypeOK, SeqDoc
<1> QED
  BY <1>3, <1>4, <1>5

LEMMA ReportedNext ==
  ASSUME ListsAgree, ClaimInv, RunsInv, Reported, [Next]_vars PROVE Reported'
<1>1. TypeOK /\ ClaimExclusive /\ RunsInv' /\ RunsGrow
  BY RunsNext DEF ClaimInv
<1>2. ASSUME NEW iv, Attempted(iv) PROVE Attempted(iv)'
  BY <1>1, <1>2 DEF Attempted, RunsGrow
<1>3. ASSUME NEW r \in Runs, run[r].status = "processing", run[r].symbols # {},
             AllProcessed(run[r])
      PROVE  Attempted(r[2])
  <2>1. /\ run[r].processed \subseteq run[r].symbols /\ run[r].processed \subseteq accounted[r]
        /\ run[r].symbols \subseteq Symbols
    BY <1>1 DEF RunsInv, TypeOK, RunDoc
  <2>2. IsFiniteSet(run[r].symbols)
    BY <2>1, FiniteAssumption, FS_Subset
  <2>3. /\ Cardinality(run[r].symbols) \in Nat /\ Cardinality(run[r].processed) \in Nat
        /\ Cardinality(run[r].processed) <= Cardinality(run[r].symbols)
        /\ Cardinality(run[r].processed) = Cardinality(run[r].symbols)
             => run[r].processed = run[r].symbols
    BY <2>1, <2>2, FS_Subset, FS_CardinalityType
  <2>4. run[r].processed = run[r].symbols
    BY <1>3, <2>3 DEF AllProcessed
  <2> QED
    BY <1>3, <2>1, <2>4 DEF Attempted
<1>4. \A iv \in seq'.intervals : Attempted(iv)'
  <2> SUFFICES ASSUME NEW iv \in seq'.intervals PROVE Attempted(iv)'
    OBVIOUS
  <2>1. Attempted(iv)
    BY <1>3, IntervalReported DEF Reported
  <2> QED
    BY <1>2, <2>1
<1>5. seq'.status \in TerminalSeq => Intervals \subseteq seq'.intervals
  <2>1. CASE Quiet
    BY <2>1 DEF Quiet, Reported
  <2>2. ASSUME NEW t \in Tasks, ClaimSequence(t), ClaimAllowed PROVE Intervals \subseteq seq'.intervals
    BY <1>1, <2>2 DEF ClaimSequence, ClaimAllowed, TypeOK, SeqDoc
  <2>3. ASSUME NEW t \in Tasks, EnqueueConsumer(t) PROVE seq' = seq
    BY <2>3 DEF EnqueueConsumer
  <2> QED
    BY <2>1, <2>2, <2>3, NextQuiet DEF Reported
<1> QED
  BY <1>4, <1>5 DEF Reported

\* The consumers start only after, in every interval, the symbols of one of its
\* runs were attempted or reported as impossible to enqueue, for every sequence
\* B or C whatever is redelivered, and for A when the list does not change.
THEOREM FanInIsComplete ==
  ASSUME ListsAgree PROVE Spec => []FanInComplete
<1>1. ASSUME Init PROVE ClaimInv /\ RunsInv /\ Reported
  <2>1. RunsInv
    BY <1>1, TaskRun DEF Init, RunsInv, IdleTask
  <2>2. Reported
    BY <1>1 DEF Init, Reported, TerminalSeq
  <2> QED
    BY <1>1, <2>1, <2>2, ClaimInvInit
<1>2. ClaimInv /\ RunsInv /\ Reported /\ [Next]_vars => ClaimInv' /\ RunsInv' /\ Reported'
  <2> SUFFICES ASSUME ClaimInv, RunsInv, Reported, [Next]_vars
               PROVE  ClaimInv' /\ RunsInv' /\ Reported'
    OBVIOUS
  <2>1. TypeOK
    BY DEF ClaimInv
  <2> QED
    BY <2>1, RunsNext, ReportedNext, ClaimInvNext
<1>3. ClaimInv /\ RunsInv /\ Reported => FanInComplete
  <2> SUFFICES ASSUME ClaimInv, Reported, NEW c \in ConsumerIds, dispatched[c] > 0,
                      NEW iv \in Intervals
               PROVE  Attempted(iv)
    BY DEF FanInComplete, Attempted
  <2>1. seq.status \in TerminalSeq
    BY DEF ClaimInv, UnsentBeforeClaim
  <2> QED
    BY <2>1 DEF Reported
<1> QED
  BY <1>1, <1>2, <1>3, PTL DEF Spec
==============================================================================
