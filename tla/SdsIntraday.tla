----------------------------- MODULE SdsIntraday -----------------------------
(***************************************************************************)
(* The PRE half of symbol-data-sync for one PDR message: the subscriber    *)
(* fetches one bulk snapshot, writes the intraday documents in one batch,  *)
(* and completes the run itself: no worker tasks, no sequence, and no      *)
(* transaction.  Every delivery of the message, and the watchdog when it   *)
(* runs, goes through checkIntradayRunCompletion.                          *)
(***************************************************************************)
EXTENDS Integers, FiniteSets

CONSTANTS
  Symbols,         \* every symbol that may be tracked
  TrackedSets,     \* what resolveSymbolSet may return
  MaxDeliveries,   \* bound: Pub/Sub deliveries of the message
  WatchdogEnabled, \* is the scheduled watchdog deployed?
  Faults,          \* which kinds of failure may happen
  DispatchCap      \* bound: st-intraday tasks are counted up to this number

FaultKinds == {"fetch", "batch", "consumerEnqueue", "outcomeWrite",
               "subscriberCrash", "watchdogCrash"}

ASSUME SymbolsAssumption == IsFiniteSet(Symbols)
ASSUME TrackedAssumption == TrackedSets \subseteq SUBSET Symbols /\ TrackedSets # {}
ASSUME WatchdogAssumption == WatchdogEnabled \in BOOLEAN
ASSUME FaultsAssumption == Faults \subseteq FaultKinds
ASSUME BoundsAssumption == /\ MaxDeliveries \in Nat \ {0}
                           /\ DispatchCap \in Nat /\ DispatchCap >= 2

Deliveries == 1..MaxDeliveries
Watchdog == 0
Actors == Deliveries \cup (IF WatchdogEnabled THEN {Watchdog} ELSE {})

TerminalRun == {"completed", "failed", "forced_complete", "completed_but_not_dispatched"}
TerminalRunInCore == TerminalRun \ {"completed_but_not_dispatched"}

VARIABLES
  run,        \* symbol-data-sync-runs/{runId}
  written,    \* symbols whose intraday/latest was written by this run
  dispatched, \* st-intraday tasks enqueued
  actor       \* the local state of every delivery and of the watchdog

docs == <<run, written, dispatched>>
vars == <<run, written, dispatched, actor>>

ActorPC == {"idle", "create", "fetch", "fetchFailed", "commit", "report", "check",
            "empty", "gated", "complete", "enqueue", "sent", "unsent", "force",
            "retry", "done", "crashed"}
RunDoc == [status : {"absent", "processing"} \cup TerminalRun,
           symbols : SUBSET Symbols, processed : SUBSET Symbols,
           failed : SUBSET Symbols, enqueued : BOOLEAN]
\* asked: the symbols of this delivery; failed: those it has no snapshot of.
ActorState == [pc : ActorPC, asked : SUBSET Symbols, failed : SUBSET Symbols]

\* Every variable keeps its shape.
TypeOK ==
  /\ run \in RunDoc
  /\ written \in SUBSET Symbols
  /\ dispatched \in 0..DispatchCap
  /\ actor \in [Actors -> ActorState]

Init ==
  /\ run = [status |-> "absent", symbols |-> {}, processed |-> {}, failed |-> {},
            enqueued |-> FALSE]
  /\ written = {}
  /\ dispatched = 0
  /\ actor = [a \in Actors |-> [pc |-> "idle", asked |-> {}, failed |-> {}]]

Goto(a, from, to) == actor[a].pc = from /\ actor' = [actor EXCEPT ![a].pc = to]

-----------------------------------------------------------------------------
(***************************************************************************)
(* handlePdrMessage and handleIntradayRun.                                 *)
(***************************************************************************)

\* The idempotency read.
ReceivePdr(d) ==
  /\ d \in Deliveries
  /\ d > 1 => actor[d - 1].pc # "idle"
  /\ Goto(d, "idle", IF run.status \in TerminalRunInCore THEN "done" ELSE "create")
  /\ UNCHANGED docs

CreateRun(d) ==
  /\ actor[d].pc = "create"
  /\ \E S \in TrackedSets :
       /\ run' = [status |-> "processing", symbols |-> S, processed |-> {},
                  failed |-> {}, enqueued |-> FALSE]
       /\ actor' = [actor EXCEPT ![d] = [pc |-> "fetch", asked |-> S, failed |-> {}]]
  /\ UNCHANGED <<written, dispatched>>

\* The bulk endpoint answers for some of the symbols.
FetchSnapshot(d) ==
  /\ actor[d].pc = "fetch"
  /\ \E missing \in SUBSET actor[d].asked :
       actor' = [actor EXCEPT ![d].pc = "commit", ![d].failed = missing]
  /\ UNCHANGED docs

FetchFails(d) ==
  /\ "fetch" \in Faults
  /\ Goto(d, "fetch", "fetchFailed")
  /\ UNCHANGED docs

\* The run is marked failed and no completion check follows.
ReportFetchFailed(d) ==
  /\ Goto(d, "fetchFailed", "done")
  /\ run' = [run EXCEPT !.processed = actor[d].asked, !.failed = actor[d].asked,
                        !.status = "failed"]
  /\ UNCHANGED <<written, dispatched>>

CommitBatch(d) ==
  /\ Goto(d, "commit", "report")
  /\ written' = written \cup (actor[d].asked \ actor[d].failed)
  /\ UNCHANGED <<run, dispatched>>

\* The batch is all or nothing: every symbol counts as failed.
BatchFails(d) ==
  /\ "batch" \in Faults
  /\ actor[d].pc = "commit"
  /\ actor' = [actor EXCEPT ![d].pc = "report", ![d].failed = actor[d].asked]
  /\ UNCHANGED docs

ReportProcessed(d) ==
  /\ Goto(d, "report", "check")
  /\ run' = [run EXCEPT !.processed = actor[d].asked, !.failed = actor[d].failed]
  /\ UNCHANGED <<written, dispatched>>

-----------------------------------------------------------------------------
(***************************************************************************)
(* checkIntradayRunCompletion: one read, then writes that do not look at   *)
(* the document again.  The read decides the branch, kept in the pc.       *)
(***************************************************************************)

\* Mutant: exactly half of the symbols missing still passes.
GateAboveHalf(doc) == 2 * Cardinality(doc.failed) > Cardinality(doc.symbols)

\* INTRADAY_MAX_FAILURE_RATIO = 0.5 blocks the dispatch.
QualityGate(doc) == 2 * Cardinality(doc.failed) >= Cardinality(doc.symbols)

BranchOf(doc) ==
  CASE doc.status \in TerminalRun \cup {"absent"} -> "done"
    [] doc.status = "processing" /\ doc.symbols = {} -> "empty"
    [] doc.status = "processing" /\ doc.symbols # {} ->
         IF Cardinality(doc.processed) < Cardinality(doc.symbols) THEN "done"
         ELSE IF QualityGate(doc) THEN "gated" ELSE "complete"

CheckIntradayRunCompletion(a) ==
  /\ Goto(a, "check", BranchOf(run))
  /\ UNCHANGED docs

CompleteEmpty(a) ==
  /\ Goto(a, "empty", "done")
  /\ run' = [run EXCEPT !.status = "completed"]
  /\ UNCHANGED <<written, dispatched>>

BlockDispatch(a) ==
  /\ Goto(a, "gated", "done")
  /\ run' = [run EXCEPT !.status = "completed_but_not_dispatched", !.enqueued = FALSE]
  /\ UNCHANGED <<written, dispatched>>

CompleteRun(a) ==
  /\ Goto(a, "complete", "enqueue")
  /\ run' = [run EXCEPT !.status = "completed"]
  /\ UNCHANGED <<written, dispatched>>

EnqueueConsumer(a) ==
  /\ Goto(a, "enqueue", "sent")
  /\ dispatched' = IF dispatched < DispatchCap THEN dispatched + 1 ELSE dispatched
  /\ UNCHANGED <<run, written>>

EnqueueConsumerFails(a) ==
  /\ "consumerEnqueue" \in Faults
  /\ Goto(a, "enqueue", "unsent")
  /\ UNCHANGED docs

RecordSent(a) ==
  /\ Goto(a, "sent", "done")
  /\ run' = [run EXCEPT !.enqueued = TRUE]
  /\ UNCHANGED <<written, dispatched>>

\* The write is inside the same try block as the enqueue.
RecordSentFails(a) ==
  /\ "outcomeWrite" \in Faults
  /\ Goto(a, "sent", "unsent")
  /\ UNCHANGED docs

RecordUnsent(a) ==
  /\ Goto(a, "unsent", "done")
  /\ run' = [run EXCEPT !.status = "completed_but_not_dispatched", !.enqueued = FALSE]
  /\ UNCHANGED <<written, dispatched>>

\* The function instance dies or passes its 120 s; the trigger does not retry.
SubscriberCrash(d) ==
  /\ "subscriberCrash" \in Faults
  /\ d \in Deliveries /\ actor[d].pc \notin {"idle", "done", "crashed"}
  /\ actor' = [actor EXCEPT ![d].pc = "crashed"]
  /\ UNCHANGED docs

-----------------------------------------------------------------------------
(***************************************************************************)
(* The watchdog's share in intraday runs, when it is deployed.             *)
(***************************************************************************)
Idle(a) == actor[a].pc \in {"idle", "done", "crashed"}

\* Nobody works on the run: a live subscriber is gone after 120 s, a run is stale
\* after 5 minutes.  A redelivery that has not created its run yet changes nothing.
Abandoned == /\ run.status = "processing" /\ (WatchdogEnabled => Idle(Watchdog))
             /\ \A d \in Deliveries : Idle(d) \/ actor[d].pc = "create"

\* Mutant: only lastActivityAt counts, which a run without progress lacks.
FindStaleActiveRun ==
  /\ WatchdogEnabled /\ Abandoned /\ run.processed # {}
  /\ actor' = [actor EXCEPT ![Watchdog].pc = "force"]
  /\ UNCHANGED docs

\* The query for runs in 'processing'.
FindStaleRun ==
  /\ WatchdogEnabled /\ Abandoned
  /\ actor' = [actor EXCEPT ![Watchdog].pc = "force"]
  /\ UNCHANGED docs

\* The run found is closed as it is, whatever became of it since.
ForceStaleRun ==
  /\ WatchdogEnabled /\ Goto(Watchdog, "force", "done")
  /\ run' = [run EXCEPT !.status = "forced_complete"]
  /\ UNCHANGED <<written, dispatched>>

\* Mutant: the query asks for completionEnqueued instead of the status.
QueryNotEnqueued ==
  /\ WatchdogEnabled /\ run.status \in TerminalRun /\ ~run.enqueued
  /\ Idle(Watchdog)
  /\ actor' = [actor EXCEPT ![Watchdog].pc = "retry"]
  /\ UNCHANGED docs

\* The query for completed_but_not_dispatched.
QueryFailedDispatch ==
  /\ WatchdogEnabled /\ run.status = "completed_but_not_dispatched"
  /\ Idle(Watchdog)
  /\ actor' = [actor EXCEPT ![Watchdog].pc = "retry"]
  /\ UNCHANGED docs

\* Mutant: reset to 'completed', as the comment in the code warns.
RetryAsCompleted ==
  /\ WatchdogEnabled /\ Goto(Watchdog, "retry", "check")
  /\ run' = [run EXCEPT !.status = "completed", !.enqueued = FALSE]
  /\ UNCHANGED <<written, dispatched>>

RetryDispatch ==
  /\ WatchdogEnabled /\ Goto(Watchdog, "retry", "check")
  /\ run' = [run EXCEPT !.status = "processing", !.enqueued = FALSE]
  /\ UNCHANGED <<written, dispatched>>

WatchdogCrash ==
  /\ WatchdogEnabled /\ "watchdogCrash" \in Faults /\ ~Idle(Watchdog)
  /\ actor' = [actor EXCEPT ![Watchdog].pc = "crashed"]
  /\ UNCHANGED docs

-----------------------------------------------------------------------------
Deliver(d) ==
  \/ CreateRun(d) \/ FetchSnapshot(d) \/ ReportFetchFailed(d) \/ CommitBatch(d)
  \/ ReportProcessed(d)

Complete(a) ==
  \/ CheckIntradayRunCompletion(a) \/ CompleteEmpty(a) \/ BlockDispatch(a)
  \/ CompleteRun(a) \/ EnqueueConsumer(a) \/ RecordSent(a) \/ RecordUnsent(a)

Retry == FindStaleRun \/ ForceStaleRun \/ QueryFailedDispatch \/ RetryDispatch

Fail ==
  \/ \E d \in Deliveries : FetchFails(d) \/ BatchFails(d) \/ SubscriberCrash(d)
  \/ \E a \in Actors : EnqueueConsumerFails(a) \/ RecordSentFails(a)
  \/ WatchdogCrash

Next ==
  \/ \E d \in Deliveries : ReceivePdr(d) \/ Deliver(d)
  \/ \E a \in Actors : Complete(a)
  \/ Retry
  \/ Fail

Spec == Init /\ [][Next]_vars

\* The message is delivered once for sure, what runs keeps running, the
\* watchdog is scheduled for ever, its ticks do not all die between a query and
\* the write that follows, and an enqueue it repeats is served at last.
FairSpec ==
  /\ Spec
  /\ WF_vars(ReceivePdr(1))
  /\ \A d \in Deliveries : WF_vars(Deliver(d))
  /\ \A a \in Actors : WF_vars(Complete(a)) /\ SF_vars(EnqueueConsumer(a))
  /\ WF_vars(FindStaleRun) /\ SF_vars(ForceStaleRun) /\ WF_vars(QueryFailedDispatch) /\ WF_vars(RetryDispatch)

-----------------------------------------------------------------------------
(***************************************************************************)
(* Properties.                                                             *)
(***************************************************************************)

\* ST is started only on fresh prices: of the symbols that one of the deliveries
\* asked for more than half have an intraday document written by this run, even
\* when deliveries overwrite each other's run document (the quality gate).
DispatchedOnFreshPrices ==
  dispatched > 0 => \E d \in Deliveries :
    2 * Cardinality(actor[d].asked \cap written) > Cardinality(actor[d].asked)

\* No second delivery of the message has begun.
Single == \A d \in Deliveries : d > 1 => actor[d].pc = "idle"

\* completionEnqueued tells the truth, and a run whose last word is
\* 'completed' was dispatched, is about to be, had nothing to dispatch, or
\* lost the execution that was to dispatch it.
OutcomeHonest ==
  /\ run.enqueued => dispatched > 0
  /\ Single /\ run.status = "completed" /\ run.symbols # {} =>
       dispatched > 0 \/ \E a \in Actors : actor[a].pc \in {"enqueue", "unsent", "crashed"}

\* A delivery and the watchdog do not start ST again once the document says
\* that it was started.
SentOnce == [][Single /\ run.enqueued => dispatched' = dispatched]_vars

\* One message, one ST run.
DispatchedOnce == dispatched <= 1

\* A run whose consumer could not be enqueued is retried by the watchdog
\* until it is, unless a tick dies over it or another delivery takes over.
FailedDispatchRetried ==
  run.status = "completed_but_not_dispatched" /\ ~QualityGate(run) ~>
    dispatched > 0 \/ actor[Watchdog].pc = "crashed" \/ ~Single

\* Every failed dispatch is retried until ST is started.
EveryFailedDispatchRetried ==
  run.status = "completed_but_not_dispatched" /\ ~QualityGate(run) ~> dispatched > 0

\* Whatever fails, the run does not stay open.
RunIsResolved == run.status = "processing" ~> run.status \in TerminalRun
=============================================================================
