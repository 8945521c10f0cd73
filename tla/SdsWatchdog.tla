----------------------------- MODULE SdsWatchdog -----------------------------
(***************************************************************************)
(* runWatchdog beside the running pipeline of SdsCompletion: the scheduled *)
(* function that forces stale interval runs, completes stale sequences and *)
(* retries failed dispatches.  Its export is commented out at present      *)
(* (index.ts:125-127); the code, its tests and the design documents are    *)
(* kept, so it is modelled as it would run.                                *)
(*                                                                         *)
(* Each awaited read or write of a tick is a step, and the workers run     *)
(* between them.  Ticks do not overlap: every 5 minutes, timeout 120 s.    *)
(***************************************************************************)
EXTENDS SdsCompletion

VARIABLE wd \* the local state of the current tick

WdPC == {"idle", "force", "union", "reread", "claim", "dispatch",
         "staleSeqs", "retry", "reset"}
\* Which of the three passes of the tick is under way.
WdPass == {"runs", "seqs", "retry"}

NoRun == <<>>
IdleWd == [pc |-> "idle", pass |-> "runs", todo |-> {}, cur |-> NoRun, next |-> 1, failed |-> FALSE]

WdTypeOK ==
  /\ TypeOK
  /\ wd \in [pc : WdPC, pass : WdPass, todo : SUBSET Runs, cur : Runs \cup {NoRun},
             next : 1..(Len(Consumers) + 1), failed : BOOLEAN]

WdInit == Init /\ wd = IdleWd

-----------------------------------------------------------------------------
(***************************************************************************)
(* Pass 1: stale runs.  lastActivityAt is written by the step before the   *)
(* completion check and startedAt before the enqueue loop; with function   *)
(* timeouts of 120 s (300 s for the fallback) a run older than 5 minutes   *)
(* has no process between those steps.  Its tasks may still be queued.     *)
(***************************************************************************)
\* Mutant: a run that never had activity is not looked at.
MayBeStaleAfterActivity(r) ==
  /\ run[r].status = "processing" /\ run[r].processed # {}
  /\ \A p \in Producers : RunOf(p) = r => sub[p].pc \notin {"join", "enqueue"}
  /\ \A t \in Tasks : RunOf(t[1]) = r =>
       task[t].pc \notin {"check", "peek", "claim", "dispatch"}

MayBeStale(r) ==
  /\ run[r].status = "processing"
  /\ \A p \in Producers : RunOf(p) = r => sub[p].pc \notin {"join", "enqueue"}
  /\ \A t \in Tasks : RunOf(t[1]) = r =>
       task[t].pc \notin {"check", "peek", "claim", "dispatch"}

\* The query; S are the runs older than the threshold.
QueryStaleRuns(S) ==
  /\ wd.pc = "idle" /\ \A r \in S : MayBeStale(r)
  /\ wd' = [IdleWd EXCEPT !.pc = "force", !.todo = S]
  /\ UNCHANGED vars

\* "Force mark as complete": a merge that does not read the run again.
ForceRun(r) ==
  /\ wd.pc = "force" /\ r \in wd.todo
  /\ run' = [run EXCEPT ![r].status = "forced_complete"]
  /\ wd' = [wd EXCEPT !.pc = "union", !.todo = @ \ {r}, !.cur = r]
  /\ UNCHANGED <<seq, dispatched, sub, fallback, task, accounted>>

\* Mutant: the interval is pushed onto the snapshot's list and written back.
ReportForcedFromNothing ==
  /\ wd.pc = "union"
  /\ seq' = IF seq.status = "absent"
            THEN [status |-> "unset", intervals |-> {wd.cur[2]}, enqueued |-> FALSE]
            ELSE [seq EXCEPT !.intervals = {wd.cur[2]}]
  /\ wd' = [wd EXCEPT !.pc = "reread"]
  /\ UNCHANGED <<run, dispatched, sub, fallback, task, accounted>>

\* arrayUnion with merge: it also creates a sequence document without a status.
ReportForced ==
  /\ wd.pc = "union"
  /\ seq' = IF seq.status = "absent"
            THEN [status |-> "unset", intervals |-> {wd.cur[2]}, enqueued |-> FALSE]
            ELSE [seq EXCEPT !.intervals = @ \cup {wd.cur[2]}]
  /\ wd' = [wd EXCEPT !.pc = "reread"]
  /\ UNCHANGED <<run, dispatched, sub, fallback, task, accounted>>

RereadSequence ==
  /\ wd.pc = "reread"
  /\ wd' = [wd EXCEPT !.pc = IF Intervals \subseteq seq.intervals THEN "claim" ELSE "force"]
  /\ UNCHANGED vars

FinishRuns ==
  /\ wd.pc = "force" /\ wd.todo = {}
  /\ wd' = [wd EXCEPT !.pc = "staleSeqs", !.pass = "seqs"]
  /\ UNCHANGED vars

-----------------------------------------------------------------------------
(***************************************************************************)
(* Passes 2 and 3: a stale sequence is offered to fireSequenceCompletion,  *)
(* a failed dispatch is reset to "processing" and offered again.           *)
(***************************************************************************)
QueryStaleSequences(stale) ==
  /\ wd.pc = "staleSeqs"
  /\ wd' = [wd EXCEPT !.pc = IF stale /\ seq.status = "processing" THEN "claim" ELSE "retry"]
  /\ UNCHANGED vars

\* Mutant: a claimed sequence that is not yet dispatched is retried as well.
QueryUndispatched ==
  /\ wd.pc = "retry"
  /\ wd' = IF seq.status \in {"completed", "completed_but_not_dispatched"} /\ ~seq.enqueued
           THEN [wd EXCEPT !.pc = "reset", !.pass = "retry"] ELSE IdleWd
  /\ UNCHANGED vars

QueryFailedDispatches ==
  /\ wd.pc = "retry"
  /\ wd' = IF seq.status = "completed_but_not_dispatched"
           THEN [wd EXCEPT !.pc = "reset", !.pass = "retry"] ELSE IdleWd
  /\ UNCHANGED vars

ResetSequence ==
  /\ wd.pc = "reset"
  /\ seq' = [seq EXCEPT !.status = "processing"]
  /\ wd' = [wd EXCEPT !.pc = "claim"]
  /\ UNCHANGED <<run, dispatched, sub, fallback, task, accounted>>

\* Where the tick goes on when fireSequenceCompletion returns.
AfterFire ==
  CASE wd.pass = "runs"  -> [wd EXCEPT !.pc = "force", !.next = 1, !.failed = FALSE]
    [] wd.pass = "seqs"  -> [wd EXCEPT !.pc = "retry", !.next = 1, !.failed = FALSE]
    [] wd.pass = "retry" -> IdleWd

WdClaim ==
  /\ wd.pc = "claim"
  /\ IF ClaimAllowed
     THEN /\ seq' = [seq EXCEPT !.status = "completed"]
          /\ wd' = [wd EXCEPT !.pc = "dispatch"]
     ELSE wd' = AfterFire /\ UNCHANGED seq
  /\ UNCHANGED <<run, dispatched, sub, fallback, task, accounted>>

WdMore == wd.next <= Len(Consumers)

WdEnqueueConsumer ==
  /\ wd.pc = "dispatch" /\ WdMore
  /\ CountDispatch(wd.next)
  /\ wd' = [wd EXCEPT !.next = @ + 1]
  /\ UNCHANGED <<run, seq, sub, fallback, task, accounted>>

WdEnqueueConsumerFails ==
  /\ "consumerEnqueue" \in Faults
  /\ wd.pc = "dispatch" /\ WdMore
  /\ wd' = [wd EXCEPT !.next = @ + 1, !.failed = TRUE]
  /\ UNCHANGED vars

WdFinishDispatch ==
  /\ wd.pc = "dispatch" /\ ~WdMore
  /\ DispatchOutcome(wd.failed)
  /\ wd' = AfterFire
  /\ UNCHANGED <<run, dispatched, sub, fallback, task, accounted>>

\* A timeout or an exception ends the tick wherever it is.
WdCrash ==
  /\ "watchdogCrash" \in Faults
  /\ wd.pc # "idle"
  /\ wd' = IdleWd
  /\ UNCHANGED vars

-----------------------------------------------------------------------------
Tick ==
  \/ \E r \in Runs : ForceRun(r)
  \/ ReportForced \/ RereadSequence \/ FinishRuns
  \/ \E stale \in BOOLEAN : QueryStaleSequences(stale)
  \/ QueryFailedDispatches \/ ResetSequence
  \/ WdClaim \/ WdEnqueueConsumer \/ WdFinishDispatch

WdNext ==
  \/ Next /\ UNCHANGED wd
  \/ \E S \in SUBSET Runs : QueryStaleRuns(S)
  \/ Tick
  \/ WdEnqueueConsumerFails
  \/ WdCrash

wdVars == <<vars, wd>>
WdSpec == WdInit /\ [][WdNext]_wdVars

(***************************************************************************)
(* The scheduler keeps starting ticks and a started one goes on; a run     *)
(* that stands still and a sequence in "processing" grow older than their  *)
(* thresholds, so a query that keeps coming back takes them up.            *)
(***************************************************************************)
WdFairness ==
  /\ \A p \in Producers : WF_wdVars(sub[p].pc # "idle" /\ Produce(p) /\ UNCHANGED wd)
  /\ \A p \in FairProducers : WF_wdVars(ReceivePdr(p) /\ UNCHANGED wd)
  /\ \A t \in Tasks : WF_wdVars(Work(t) /\ UNCHANGED wd)
  /\ WF_wdVars(Tick)
  /\ WF_wdVars(\E S \in SUBSET Runs : QueryStaleRuns(S))
  /\ \A r \in Runs :
       SF_wdVars(\E S \in SUBSET Runs : r \in S /\ QueryStaleRuns(S))
  /\ SF_wdVars(seq.status = "processing" /\ QueryStaleSequences(TRUE))
WdFairSpec == WdSpec /\ WdFairness

-----------------------------------------------------------------------------
\* Workers and the watchdog share one claim: at most one of them is in the
\* dispatch loop, also while a failed dispatch is reset under it.
SharedClaimExclusive ==
  LET holders == {t \in Tasks : task[t].pc = "dispatch"} IN
  /\ Cardinality(holders) <= 1
  /\ wd.pc = "dispatch" => holders = {}
  /\ holders # {} \/ wd.pc = "dispatch" => seq.status \in TerminalSeq

\* completionEnqueued is set only when every consumer was sent at least once,
\* however many dispatches failed and were retried before.
EnqueuedHonest == seq.enqueued => \A c \in ConsumerIds : dispatched[c] > 0

\* A run the watchdog forced has reported its interval to the sequence, or the
\* watchdog is about to do so (the PRD: a completed run adds its interval).
ForcedRunReported ==
  \A r \in Runs : run[r].status = "forced_complete" =>
    r[2] \in seq.intervals \/ (wd.pc = "union" /\ wd.cur = r)

\* A consumer starts only after every interval had a run with symbols
\* ("skips sequence fan-in so downstream consumers don't fire with no data").
EmptyRunNeverFires ==
  (\E c \in ConsumerIds : dispatched[c] > 0) =>
    \A iv \in Intervals : \E r \in Runs : r[2] = iv /\ run[r].symbols # {}

\* Once every interval has a run document, the consumers are sent, whatever
\* tasks, workers or subscribers were lost.  The one escape is a sequence
\* document that a forced run's report created, without a status, because the
\* subscribers died before they joined: the queries of passes 2 and 3 filter by
\* status, so nothing may ever take it up again.
WatchdogUnblocks ==
  (\A iv \in Intervals : \E r \in Runs : r[2] = iv /\ run[r].status # "absent")
    ~> seq.enqueued \/ [](seq.status = "unset")

\* The same without the escape: what WdStatusless.cfg refutes.
EveryRunUnblocks ==
  (\A iv \in Intervals : \E r \in Runs : r[2] = iv /\ run[r].status # "absent")
    ~> seq.enqueued

\* The PRD: a stale sequence completes with whatever intervals have reported.
StaleSequenceCompletes == seq.status = "processing" ~> seq.status \in TerminalSeq

\* A claimed sequence is dispatched in the end, by its claimer or by a retry.
ClaimedIsDispatched == seq.status \in TerminalSeq ~> seq.enqueued
==============================================================================
