---------------------------- MODULE SdsCompletion ----------------------------
(***************************************************************************)
(* The POST half of symbol-data-sync (SDS) for one market date and one     *)
(* sequence letter: the Pub/Sub subscriber and the 3 PM fallback that      *)
(* create interval runs, the Cloud Task workers that sync one symbol each, *)
(* the per-interval completion check, the sequence fan-in and the dispatch *)
(* of the downstream consumers.                                            *)
(*                                                                         *)
(* A step of the model is one awaited Firestore read, write or transaction *)
(* or one Cloud Tasks enqueue; everything between two awaits is local to a *)
(* process.  The watchdog is not deployed (index.ts:125-127) and is added  *)
(* by SdsWatchdog.                                                         *)
(***************************************************************************)
EXTENDS Integers, FiniteSets, Sequences

CONSTANTS
  Intervals,       \* REQUIRED_INTERVALS
  Symbols,         \* every symbol a PDR may name
  SymbolSets,      \* the symbol lists resolveSymbolSet may return
  SequenceLetter,  \* "A", "B" or "C"
  FallbackEnabled, \* does the 3 PM fallback fire in this run of the model?
  Faults,          \* which kinds of failure may happen
  MaxDeliveries,   \* bound: Pub/Sub deliveries of one PDR message
  MaxAttempts,     \* retryConfig.maxAttempts of symbolDataSyncWorker
  DispatchCap      \* bound: consumer tasks are counted up to this number

FaultKinds == {"taskEnqueue", "consumerEnqueue", "subscriberCrash",
               "workerCrash", "dispatcherCrash", "watchdogCrash"}

ASSUME IntervalsAssumption == Intervals # {} /\ IsFiniteSet(Intervals)
ASSUME SymbolSetsAssumption == SymbolSets \subseteq SUBSET Symbols /\ SymbolSets # {}
ASSUME FiniteAssumption == IsFiniteSet(Symbols)
ASSUME LetterAssumption == SequenceLetter \in {"A", "B", "C"}
ASSUME FallbackAssumption == FallbackEnabled \in BOOLEAN
ASSUME FaultsAssumption == Faults \subseteq FaultKinds
ASSUME BoundsAssumption == /\ MaxDeliveries \in Nat \ {0}
                           /\ MaxAttempts \in Nat \ {0}
                           /\ DispatchCap \in Nat /\ DispatchCap >= 2

(***************************************************************************)
(* A producer is one execution that creates an interval run and enqueues   *)
(* its tasks: the n-th delivery of the PDR message of an interval, or the  *)
(* fallback working on an interval.  Deliveries of one message share the   *)
(* run document, the fallback has run ids of its own.                      *)
(***************************************************************************)
LiveProducers == {"live"} \X Intervals \X (1..MaxDeliveries)
FallbackProducers ==
  IF FallbackEnabled /\ SequenceLetter = "A"
  THEN {"fallback"} \X Intervals \X {1} ELSE {}
Producers == LiveProducers \cup FallbackProducers
RunOf(p) == <<p[1], p[2]>>
Runs == {RunOf(p) : p \in Producers}
Tasks == Producers \X Symbols

TerminalRun == {"completed", "failed", "completed_with_errors",
                "forced_complete", "completed_but_not_dispatched"}
TerminalRunInCore == TerminalRun \ {"completed_but_not_dispatched"}
TerminalSeq == {"completed", "completed_but_not_dispatched", "forced_complete"}
ActiveSeq == TerminalSeq \cup {"processing"}

Consumers == IF SequenceLetter = "A"
             THEN <<"selection", "settlement", "st-nightly">>
             ELSE <<"settlement-scoped", "st-nightly-scoped">>
ConsumerIds == 1..Len(Consumers)

VARIABLES
  run,        \* symbol-data-sync-runs/{runId}
  seq,        \* symbol-data-sync-sequences/{sequenceRunId}
  dispatched, \* tasks put on the sdsConsumerDispatch queue, per consumer
  sub,        \* the producers' local state
  fallback,   \* progress of the fallback timer
  task,       \* the symbolDataSyncWorker tasks and their local state
  accounted   \* history: symbols of a run attempted, or failed to enqueue

docs == <<run, seq, dispatched>>
vars == <<run, seq, dispatched, sub, fallback, task, accounted>>

SubPC == {"idle", "create", "join", "enqueue", "done", "skipped", "crashed"}
TaskPC == {"none", "queued", "synced", "check", "peek", "claim", "dispatch",
           "done", "dead"}

RunDoc == [status : {"absent", "processing"} \cup TerminalRun,
           symbols : SUBSET Symbols, processed : SUBSET Symbols]
\* "unset" is a sequence document without a status field.
SeqDoc == [status : {"absent", "unset", "processing"} \cup TerminalSeq,
           intervals : SUBSET Intervals, enqueued : BOOLEAN]
SubState == [pc : SubPC, todo : SUBSET Symbols, failed : SUBSET Symbols]
TaskState == [pc : TaskPC, attempts : 0..MaxAttempts,
              next : 1..(Len(Consumers) + 1), failed : BOOLEAN]

\* Every variable keeps its shape.
TypeOK ==
  /\ run \in [Runs -> RunDoc]
  /\ seq \in SeqDoc
  /\ dispatched \in [ConsumerIds -> 0..DispatchCap]
  /\ sub \in [Producers -> SubState]
  /\ fallback \in {"idle", "creating", "skipped"}
  /\ task \in [Tasks -> TaskState]
  /\ accounted \in [Runs -> SUBSET Symbols]

\* A task before it is enqueued, and one about to start over.
IdleTask == [pc |-> "none", attempts |-> 0, next |-> 1, failed |-> FALSE]
Restarted(n) ==
  [pc |-> IF n < MaxAttempts THEN "queued" ELSE "dead",
   attempts |-> n, next |-> 1, failed |-> FALSE]

Init ==
  /\ run = [r \in Runs |-> [status |-> "absent", symbols |-> {}, processed |-> {}]]
  /\ seq = [status |-> "absent", intervals |-> {}, enqueued |-> FALSE]
  /\ dispatched = [c \in ConsumerIds |-> 0]
  /\ sub = [p \in Producers |-> [pc |-> "idle", todo |-> {}, failed |-> {}]]
  /\ fallback = "idle"
  /\ task = [t \in Tasks |-> IdleTask]
  /\ accounted = [r \in Runs |-> {}]

-----------------------------------------------------------------------------
(***************************************************************************)
(* handlePdrMessage: read the run document, stop if it is terminal, write  *)
(* a fresh one, join the sequence, enqueue one task per symbol.            *)
(***************************************************************************)

\* The idempotency read.  A message is redelivered only after it was delivered.
ReceivePdr(p) ==
  /\ p \in LiveProducers /\ sub[p].pc = "idle"
  /\ p[3] > 1 => sub[<<p[1], p[2], p[3] - 1>>].pc # "idle"
  /\ sub' = [sub EXCEPT ![p].pc =
               IF run[RunOf(p)].status \in TerminalRunInCore
               THEN "skipped" ELSE "create"]
  /\ UNCHANGED <<docs, fallback, task, accounted>>

\* A redelivered POST B or C message names the same includeSymbols; the tracked
\* symbols of a POST A run are fetched anew by every delivery.
ResolveSymbolSet(p) ==
  IF SequenceLetter # "A" /\ run[RunOf(p)].status # "absent"
  THEN {run[RunOf(p)].symbols} ELSE SymbolSets

\* The unconditional set of the run document, shared with the fallback.
WriteRun(p, S) ==
  /\ run' = [run EXCEPT ![RunOf(p)] =
               [status |-> "processing", symbols |-> S, processed |-> {}]]
  /\ sub' = [sub EXCEPT ![p] = [pc |-> "join", todo |-> S, failed |-> {}]]

CreateRun(p) ==
  /\ p \in LiveProducers /\ sub[p].pc = "create"
  /\ \E S \in ResolveSymbolSet(p) : WriteRun(p, S)
  /\ UNCHANGED <<seq, dispatched, fallback, task, accounted>>

\* createPostRun's transaction on the sequence document.
JoinSequence(p) ==
  /\ sub[p].pc = "join"
  /\ seq' = IF seq.status = "absent"
            THEN [status |-> "processing", intervals |-> {}, enqueued |-> FALSE]
            ELSE seq
  /\ sub' = [sub EXCEPT ![p].pc = "enqueue"]
  /\ UNCHANGED <<run, dispatched, fallback, task, accounted>>

EnqueueTask(p, s) ==
  /\ sub[p].pc = "enqueue" /\ s \in sub[p].todo
  /\ sub' = [sub EXCEPT ![p].todo = @ \ {s}]
  /\ task' = [task EXCEPT ![<<p, s>>].pc = "queued"]
  /\ UNCHANGED <<docs, fallback, accounted>>

EnqueueTaskFails(p, s) ==
  /\ "taskEnqueue" \in Faults
  /\ sub[p].pc = "enqueue" /\ s \in sub[p].todo
  /\ sub' = [sub EXCEPT ![p].todo = @ \ {s}, ![p].failed = @ \cup {s}]
  /\ UNCHANGED <<docs, fallback, task, accounted>>

\* After the loop the symbols that could not be enqueued count as processed.
FinishEnqueue(p) ==
  /\ sub[p].pc = "enqueue" /\ sub[p].todo = {}
  /\ run' = [run EXCEPT ![RunOf(p)].processed = @ \cup sub[p].failed]
  /\ accounted' = [accounted EXCEPT ![RunOf(p)] = @ \cup sub[p].failed]
  /\ sub' = [sub EXCEPT ![p].pc = "done"]
  /\ UNCHANGED <<seq, dispatched, fallback, task>>

\* The function instance dies; the trigger is not configured to retry.
ProducerCrash(p) ==
  /\ "subscriberCrash" \in Faults
  /\ sub[p].pc \in {"create", "join", "enqueue"}
  /\ sub' = [sub EXCEPT ![p].pc = "crashed"]
  /\ UNCHANGED <<docs, fallback, task, accounted>>

-----------------------------------------------------------------------------
(***************************************************************************)
(* sdsFallback: query the sequences of the day, then create the interval   *)
(* runs one after the other.                                               *)
(***************************************************************************)

FallbackCheck ==
  /\ FallbackProducers # {} /\ fallback = "idle"
  /\ fallback' = IF seq.status \in ActiveSeq THEN "skipped" ELSE "creating"
  /\ UNCHANGED <<docs, sub, task, accounted>>

FallbackCreateRun(p) ==
  /\ p \in FallbackProducers /\ fallback = "creating"
  /\ sub[p].pc = "idle" /\ run[RunOf(p)].status = "absent"
  /\ \A q \in FallbackProducers : sub[q].pc \in {"idle", "done"}
  /\ \E S \in SymbolSets :
       /\ \A q \in FallbackProducers :
            run[RunOf(q)].status # "absent" => run[RunOf(q)].symbols = S
       /\ WriteRun(p, S)
  /\ UNCHANGED <<seq, dispatched, fallback, task, accounted>>

-----------------------------------------------------------------------------
(***************************************************************************)
(* symbolDataSyncWorker: sync the symbol, mark it processed, then run the  *)
(* completion check and, when it holds the claim, dispatch the consumers.  *)
(***************************************************************************)
Goto(t, from, to) == task[t].pc = from /\ task' = [task EXCEPT ![t].pc = to]

\* processSymbolInterval: never throws, whatever the bars fetched.
WorkerSync(t) ==
  /\ Goto(t, "queued", "synced")
  /\ accounted' = [accounted EXCEPT ![RunOf(t[1])] = @ \cup {t[2]}]
  /\ UNCHANGED <<docs, sub, fallback>>

\* Mutant: the completion check is skipped when the sync returned an error.
WorkerMarkMayReturn(t) ==
  /\ Goto(t, "synced", "check") \/ Goto(t, "synced", "done")
  /\ run' = [run EXCEPT ![RunOf(t[1])].processed = @ \cup {t[2]}]
  /\ UNCHANGED <<seq, dispatched, sub, fallback, accounted>>

\* The finally block: arrayUnion of the symbol.
WorkerMark(t) ==
  /\ Goto(t, "synced", "check")
  /\ run' = [run EXCEPT ![RunOf(t[1])].processed = @ \cup {t[2]}]
  /\ UNCHANGED <<seq, dispatched, sub, fallback, accounted>>

\* Mutants: the comparison is off by one, either way.
AlmostAllProcessed(doc) == Cardinality(doc.processed) + 1 >= Cardinality(doc.symbols)
MoreThanAllProcessed(doc) == Cardinality(doc.processed) > Cardinality(doc.symbols)

\* "processedSymbols.length >= symbols.length"
AllProcessed(doc) == Cardinality(doc.processed) >= Cardinality(doc.symbols)

CompleteRun(r) == run' = [run EXCEPT ![r].status = "completed"]

\* Mutant: completedIntervals is rebuilt from nothing instead of extended.
AddIntervalForgets(iv) == seq' = [seq EXCEPT !.intervals = {iv}]

AddInterval(iv) ==
  seq' = IF seq.status = "absent" THEN seq
         ELSE [seq EXCEPT !.intervals = @ \cup {iv}]

\* The transaction of checkSyncRunCompletion: a run that is over or unfinished
\* is left alone, an empty one completes without reporting its interval.
CompletionTransaction(r) ==
  \/ /\ run[r].status \in TerminalRun \cup {"absent"} \/ ~AllProcessed(run[r])
     /\ UNCHANGED <<run, seq>>
  \/ /\ run[r].status = "processing" /\ run[r].symbols = {}
     /\ CompleteRun(r)
     /\ UNCHANGED seq
  \/ /\ run[r].status = "processing" /\ run[r].symbols # {} /\ AllProcessed(run[r])
     /\ CompleteRun(r)
     /\ AddInterval(r[2])

\* Mutant: a worker that finds the run completed returns before the fan-in check.
CheckReturnsEarly(t) ==
  /\ Goto(t, "check", IF run[RunOf(t[1])].status \in TerminalRun THEN "done" ELSE "peek")
  /\ CompletionTransaction(RunOf(t[1]))
  /\ UNCHANGED <<dispatched, sub, fallback, accounted>>

\* The fan-in check follows the transaction whatever it found.
CheckSyncRunCompletion(t) ==
  /\ Goto(t, "check", "peek")
  /\ CompletionTransaction(RunOf(t[1]))
  /\ UNCHANGED <<dispatched, sub, fallback, accounted>>

\* Not missing, not terminal, every interval in.
SequenceReady ==
  /\ seq.status \notin TerminalSeq \cup {"absent"}
  /\ Intervals \subseteq seq.intervals

\* maybeFireSequenceCompletion's plain read.
MaybeFireSequenceCompletion(t) ==
  /\ Goto(t, "peek", IF SequenceReady THEN "claim" ELSE "done")
  /\ UNCHANGED <<docs, sub, fallback, accounted>>

\* Mutant: the claim does not look at the status again.
ClaimIgnoresStatus == Intervals \subseteq seq.intervals

\* The conditions are read again inside fireSequenceCompletion's transaction.
ClaimAllowed ==
  /\ seq.status \notin TerminalSeq \cup {"absent"}
  /\ Intervals \subseteq seq.intervals

\* The conditional transaction: only one caller wins.
ClaimSequence(t) ==
  /\ IF ClaimAllowed
     THEN /\ seq' = [seq EXCEPT !.status = "completed"]
          /\ Goto(t, "claim", "dispatch")
     ELSE /\ Goto(t, "claim", "done")
          /\ UNCHANGED seq
  /\ UNCHANGED <<run, dispatched, sub, fallback, accounted>>

CountDispatch(c) ==
  dispatched' = [dispatched EXCEPT ![c] = IF @ < DispatchCap THEN @ + 1 ELSE @]

\* Mutant: the loop over the consumers runs once too often.
MoreConsumersOffByOne(t) == task[t].next <= Len(Consumers) + 1

MoreConsumers(t) == task[t].next <= Len(Consumers)

\* The dispatcher k after one more turn of the loop.
PastConsumer(k, failed) ==
  [pc |-> "dispatch", attempts |-> k.attempts, next |-> k.next + 1, failed |-> failed]

EnqueueConsumer(t) ==
  /\ task[t].pc = "dispatch" /\ MoreConsumers(t)
  /\ CountDispatch(task[t].next)
  /\ task' = [task EXCEPT ![t] = PastConsumer(@, @.failed)]
  /\ UNCHANGED <<run, seq, sub, fallback, accounted>>

EnqueueConsumerFails(t) ==
  /\ "consumerEnqueue" \in Faults
  /\ task[t].pc = "dispatch" /\ MoreConsumers(t)
  /\ task' = [task EXCEPT ![t] = PastConsumer(@, TRUE)]
  /\ UNCHANGED <<docs, sub, fallback, accounted>>

\* Mutant: completionEnqueued is set whether or not an enqueue failed.
OutcomeAlwaysEnqueued(failed) ==
  seq' = [seq EXCEPT !.status = IF failed THEN "completed_but_not_dispatched" ELSE @,
                     !.enqueued = TRUE]

\* The last write of fireSequenceCompletion.
DispatchOutcome(failed) ==
  seq' = IF failed
         THEN [seq EXCEPT !.status = "completed_but_not_dispatched", !.enqueued = FALSE]
         ELSE [seq EXCEPT !.enqueued = TRUE]

FinishDispatch(t) ==
  /\ Goto(t, "dispatch", "done") /\ ~MoreConsumers(t)
  /\ DispatchOutcome(task[t].failed)
  /\ UNCHANGED <<run, dispatched, sub, fallback, accounted>>

(***************************************************************************)
(* A worker dies, times out or throws, or its acknowledgement is lost:     *)
(* Cloud Tasks runs the handler again, up to MaxAttempts times.  A crash   *)
(* while the worker holds the claim is a fault kind of its own.            *)
(***************************************************************************)
WorkerCrash(t) ==
  /\ \/ "workerCrash" \in Faults /\ task[t].pc \in {"synced", "check", "peek", "claim", "done"}
     \/ "dispatcherCrash" \in Faults /\ task[t].pc = "dispatch"
  /\ task[t].attempts < MaxAttempts
  /\ task[t].pc = "done" => task[t].attempts + 1 < MaxAttempts
  /\ task' = [task EXCEPT ![t] = Restarted(@.attempts + 1)]
  /\ UNCHANGED <<docs, sub, fallback, accounted>>

-----------------------------------------------------------------------------
Produce(p) ==
  \/ ReceivePdr(p) \/ CreateRun(p) \/ JoinSequence(p) \/ FinishEnqueue(p)
  \/ FallbackCreateRun(p)
  \/ \E s \in Symbols : EnqueueTask(p, s)

Work(t) ==
  \/ WorkerSync(t) \/ WorkerMark(t) \/ CheckSyncRunCompletion(t)
  \/ MaybeFireSequenceCompletion(t) \/ ClaimSequence(t)
  \/ EnqueueConsumer(t) \/ FinishDispatch(t)

Fail ==
  \/ \E p \in Producers : ProducerCrash(p) \/ \E s \in Symbols : EnqueueTaskFails(p, s)
  \/ \E t \in Tasks : EnqueueConsumerFails(t) \/ WorkerCrash(t)

Next ==
  \/ \E p \in Producers : Produce(p)
  \/ FallbackCheck
  \/ \E t \in Tasks : Work(t)
  \/ Fail

Spec == Init /\ [][Next]_vars

(***************************************************************************)
(* Pub/Sub delivers every message at least once, a started function and a  *)
(* queued task keep running; redeliveries, the fallback's clock and faults *)
(* are owed to nobody.                                                     *)
(***************************************************************************)
FairProducers == {p \in Producers : p[3] = 1}
Fairness ==
  /\ \A p \in Producers : WF_vars(sub[p].pc # "idle" /\ Produce(p))
  /\ \A p \in FairProducers : WF_vars(ReceivePdr(p))
  /\ \A t \in Tasks : WF_vars(Work(t))

FairSpec == Spec /\ Fairness

-----------------------------------------------------------------------------
(***************************************************************************)
(* Properties.                                                             *)
(***************************************************************************)

\* No consumer is put on the dispatch queue twice, whatever workers race for
\* the completion, crash, are retried, or belong to a redelivered message or
\* to the fallback (fireSequenceCompletion's claim).
AtMostOnceDispatch == \A c \in ConsumerIds : dispatched[c] <= 1

\* A worker between winning the claim and its last write of the sequence is
\* the only one there, and the sequence it holds is already terminal.
ClaimExclusive ==
  \A t \in Tasks : task[t].pc = "dispatch" =>
    /\ seq.status \in TerminalSeq
    /\ \A u \in Tasks : task[u].pc = "dispatch" => u = t

\* The consumers start only after, in every interval, all symbols of one of
\* its runs were attempted or reported as impossible to enqueue.
FanInComplete ==
  (\E c \in ConsumerIds : dispatched[c] > 0) =>
    \A iv \in Intervals : \E r \in Runs :
      /\ r[2] = iv /\ run[r].status # "absent"
      /\ run[r].symbols # {} /\ run[r].symbols \subseteq accounted[r]

\* The outcome fields tell the truth: completionEnqueued only when every
\* consumer was sent, completed_but_not_dispatched only when one was not.
OutcomeHonest ==
  /\ seq.enqueued => \A c \in ConsumerIds : dispatched[c] > 0
  /\ seq.status = "completed_but_not_dispatched" =>
       \E c \in ConsumerIds : dispatched[c] = 0

\* A run that has everything it waits for always has a worker that is yet to
\* run the completion check, unless Cloud Tasks gave one up.
RunCheckPending ==
  \A r \in Runs :
    run[r].status = "processing" /\ run[r].symbols # {} /\ AllProcessed(run[r]) =>
      \E t \in Tasks : /\ RunOf(t[1]) = r
                      /\ task[t].pc \in {"queued", "synced", "check", "dead"}

\* A sequence with all its intervals always has a worker that is yet to try
\* the claim: the check outside the transaction loses no completion, even
\* when the worker that completed the last interval dies in between.
SequenceClaimPending ==
  SequenceReady =>
    \E t \in Tasks : task[t].pc \in {"queued", "synced", "check", "peek", "claim", "dead"}

\* A run that is over is not reopened (the idempotency read of
\* handlePdrMessage, "skip if run doc already exists with terminal status").
TerminalRunStays ==
  [][\A r \in Runs : run[r].status \in TerminalRun => run'[r].status \in TerminalRun]_vars

\* ADR-005: when a run completes "every expected symbol has been attempted".
CompletedRunAttempted ==
  \A r \in Runs : run[r].status = "completed" => run[r].symbols \subseteq accounted[r]

\* The PRD's race prevention: no PDR-triggered run and fallback run write the
\* same symbol's documents at the same time.
NoConcurrentFallback ==
  \A t, u \in Tasks :
    t[1][1] = "live" /\ u[1][1] = "fallback" /\ t[1][2] = u[1][2] /\ t[2] = u[2] =>
      ~(task[t].pc = "queued" /\ task[u].pc = "queued")

\* Marking the symbols that could not be enqueued lets the run complete.
RunReachesCompletion ==
  \A r \in Runs : run[r].status = "processing" ~> run[r].status \in TerminalRun

\* The day's sequence is resolved: every consumer is sent, or the document
\* says that one was not, also when a redelivery or the fallback starts runs
\* over.  Only a worker that Cloud Tasks gave up may keep it open.
SequenceResolves ==
  <>(\/ seq.enqueued \/ seq.status = "completed_but_not_dispatched"
     \/ \E t \in Tasks : task[t].pc = "dead")

(***************************************************************************)
(* The detailed model implements the fan-in the consumers rely on.         *)
(***************************************************************************)
FanIn == INSTANCE SequenceFanIn WITH
  Consumers <- ConsumerIds,
  reported <- seq.intervals,
  claimed <- seq.status \in TerminalSeq,
  sent <- dispatched
ImplementsFanIn == FanIn!Spec
=============================================================================
