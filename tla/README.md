# A verification project for rel-str

rel-str is a trading dashboard: an Angular front end over Firebase, whose Cloud
Functions (`functions/src`) synchronise market data, scan symbols with trading
strategies every day, compute relative-strength series, keep a paper-trading
ledger and talk to the Robinhood MCP server. The protocols between those
functions are what this project models: they run as short-lived executions that
share nothing but Firestore documents and Cloud Tasks queues, they are delivered
at least once, retried, killed at a timeout, and race each other.

The directory holds TLA+ modules, TLC configurations and TLAPS proofs. Paths below
are relative to the repository's root.

## The system and its parts

| part | where | state | operations |
|---|---|---|---|
| SDS subscriber | `symbol-data-sync/sds.ts`, `sds-core.ts` | a run document per interval, the day's sequence document | receive a PDR message, create the run, join the sequence, enqueue one task per symbol, record the failed enqueues |
| SDS fallback | `sds-fallback*.ts` | runs of its own | query the active sequences at 3 PM, create runs for what is missing |
| SDS worker | `sds-worker*.ts` | `processedSymbols` of its run | sync a symbol, mark it, check the run's completion |
| SDS completion | `sds-completion*.ts` | run status, `completedIntervals`, sequence status, `completionEnqueued` | complete a run, fan in its interval, claim the sequence, enqueue the consumers, record the outcome |
| SDS intraday | `sds-core.ts:181-252`, `sds-completion.ts:315-385` | one run document | fetch snapshots, commit a batch, quality gate, dispatch |
| SDS watchdog | `sds-watchdog*.ts` (its export is commented out, `index.ts:125-127`) | none of its own | force stale runs and sequences, retry failed dispatches |
| ST scan run | `common/st-*.ts`, `st-cloud-function/worker.ts`, `run-progress.ts` | run, job and status documents | create a run with its jobs, process a symbol, count, complete the run, enqueue the paper-trading ingest |
| paper-trading ledger | `paper-trading/ledger.ts`, `repository.ts`, `engine/position-repository.ts` | account, trades with fills, marks and variant runs | open, stage, fill, cancel, mark, exit, settle |
| closing parties | `paper-trading/exits/eval-pass.ts`, `passes/signal-settlement-pass.ts`, `callables.ts` | the copies of trades they listed | evaluate exits, backfill, settle expired options, close by hand |
| order tickets and the fill pass | `order-tickets/st-order-ticket-writer.ts`, `paper-trading/passes/expression-fill-pass.ts`, `callables.ts`, `position-groups/` | ticket documents, minted trades, the position group | stage, select a contract, mint, dedupe, join, mark filled, heal, cancel |
| relative-strength runs | `webhooks/partner-webhooks.ts`, `rs/time-series/` | run, job and partner-event documents | create a run with its jobs, compute and archive a series, count, close the run, mirror it, trigger heatmaps, drain |
| Robinhood session | `rh-agent-mcp/cloud-api`, `tools`, `auth`, `client` | the cached session and the pending connect of an instance; the stored credential | acquire, call, recover, rebuild, refresh, store under a revision check |

`PROJECT.json` lists the remaining components with the reason each is not modelled:
the auto-paper ingest, the options strategy engine, screenshot capture, the
backtest/replay/spread fan-outs, the broker adapter, proxies, administration, the
front end.

How they interact: a *PDR message* (partner data is ready) makes SDS create an
interval run; its workers finish in any order; the last one completes the run
and reports the interval to the sequence; the worker that sees all three intervals
claims the sequence and enqueues the consumers (option selection, settlement, the ST
scan). The scan has one task per symbol; its last finisher closes the run and
enqueues the auto-paper ingest, which turns signals into paper trades. Signals a
user accepts become order tickets that the noon pass fills with a trade each. Passes and
users mark, cancel, fill and close these trades until the ledger has the result. The
partner's data-ready event starts a relative-strength run in the same manner: a task
per pair, counters, a last finisher. Contracts and quotes come from Robinhood through a
session each server instance keeps warm.

What is hard: who is last is decided by reads of shared documents, some in
transactions and some not; claims and the work they claim are separate writes;
everything may be delivered twice or die in between; a retry repeats effects that
had been made; closing a trade and finalizing its variant run are two transactions
with a nightly repair. The hazards in `PROJECT.json` name each line where it bites.

## Modules

| module | models | notes |
|---|---|---|
| `SdsCompletion` | subscriber, fallback, workers, completion, fan-in, dispatch | one market date, one sequence letter |
| `SequenceFanIn` | the promise of the fan-in to its consumers | abstract; `SdsCompletion!ImplementsFanIn` is the refinement |
| `SdsWatchdog` | `SdsCompletion` composed with the watchdog | extends it, one more process over the same documents |
| `SdsIntraday` | an intraday run from message to ST dispatch, with the watchdog | |
| `StRun` | scan runs and their tasks | |
| `PaperLedger` | ledger transactions and the parties that close a trade | |
| `TicketFill` | fill passes over staged tickets, cancels between their steps | several passes, dying and overlapping |
| `TicketLife` | what a ticket promises its owner | abstract; `TicketFill!ImplementsTicketLife` is the refinement |
| `RsRun` | realtime and backfill runs of relative-strength jobs | |
| `RhSession` | the warm session of an instance and the stored credential | checked directly, it has no MC module |
| `SdsCompletionProofs`, `SdsIntradayProofs`, `StRunProofs`, `PaperLedgerProofs`, `TicketFillProofs`, `RsRunProofs`, `RhSessionProofs` | theorems about the module of that name | the types, every safety and action property the runs check, both refinements |
| `SdsWatchdogProofs` | theorems about the composition | extends `SdsCompletionProofs`, whose lemmas about the pipeline it reuses |
| `MC*` | instances for TLC | model values, sets, symmetry |

An action is the code between two awaits. In `SdsCompletion` the state of a process is a record with
a program counter (`sub`, `task`), the documents are `run` and `seq`, the queue of
consumers is the counter `dispatched`. What a process read before an await and uses
after it is part of its record, which is how stale reads come into the model.
A crash leaves the documents as they are; a Cloud Task is then queued again until its
`maxAttempts` (`Restarted`), a subscriber is not. `Faults` says which kinds of
failure an instance has: a failed enqueue of a task or consumer, a died subscriber,
worker, dispatcher or tick, a failed transaction. `accounted` is a history variable,
used by properties only.

In `StRun` a task is `work -> mark -> count -> check -> ingest`. A failing attempt is
counted and rethrown, as in `worker.ts:141-153`, and its retry counts again.
`starter` is the dispatch that creates a run; when it dies and is retried, the next
attempt makes another run (`MaxStarts`).

In `SdsIntraday` the actors are the deliveries of the message and the watchdog; both
go through `checkIntradayRunCompletion`, which has no transaction, hence its reads
and writes are separate actions. The watchdog's query for a stale run and its forcing
write are two more (`FindStaleRun`, `ForceStaleRun`): the run may have moved on in between.

In `PaperLedger` each transaction of the code is one action. Every trade has one
governing and one shadow variant run. A manual close and the settlement pass are
`closer`s: read, close, record; the evaluation (`eval`) works on the copy of the trade
it listed (`snap`). Quantity and multiplier scale every amount alike and are 1; an
expiry closes at price 0, and so may a manual close, which takes any finite quote
(`callables.ts:886-889`). Other quotes are prices of `Prices`; whether a variant fires is
nondeterministic. The evaluation and settlement passes run one after the other in one
nightly function; a second execution, by a redelivered or overlapping invocation, is
what makes them overlap, and `repository.ts:234-236` guards against that race.

In `TicketFill` a pass has one piece of `work` per ticket it listed, between `check` and
`mark` as in `fillStagedTicket`, and the pending trades it drains. Trades are told
apart by contract and sequence number, since those make the id two tickets contend
for; the price, the legs and the account are `PaperLedger`'s. A trade of an older
format under the ticket's seed id is `own` when `sameAcceptMember` says so. A
`Scene` is a situation to start from; the accept that stages the tickets is not
modelled. `overlapped`, `abandoned` and `reported` are history: two passes at once, a
failure after a position was opened, a logged duplicate.

In `RsRun` a `hook` is a delivery of the data-ready message or the backfill request, a
task is `queued -> compute -> mark -> count -> check -> finalize -> mirror -> heatmap`;
`check` reads the counters outside the transaction of `count`, and what it read is used
by the steps after it. The archive write and its increment are one step. The
admin drain is one more executor of a pending job. `broken` records which repetition
or loss has happened (`Breaks`: a message processed again, a recount, a rewrite, a task whose
enqueue was reported as failed, a killed handler, used-up attempts, a failed
mirror), so that each property says which of them it survives. Reads and writes whose failure
the handler only logs may fail (`DeliverUnread`, `WriteLogged`). A `Scene` is a situation to
start from; among them are a message that selects no pair and a run id with
lower-case letters.

In `RhSession` a connect attempt goes on when its bound has fired, which is why
attempts and the pending promise are separate; a request that timed out keeps its
place (`result`), because the code behind it goes on too. Names of closed connections
are reused. Tokens are numbers in the order they are issued. A token is `expired` when the
instance's clock says so, which is all a refresh looks at, and `revoked` when the server
refuses it; one may be without the other. What happens outside
the instance (a peer's rotation, an expiry, a revocation, a dropped or wedged transport)
and a credential that cannot be loaded count against `MaxFaults`.

## What is checked

`tlc -workers 2 -config <run>.cfg <module>`.

| run | instance | shows |
|---|---|---|
| `SdsFaults` | 2 intervals, 2 symbols, every failure, 2 attempts | `AtMostOnceDispatch`: no consumer is enqueued twice. `FanInComplete`: consumers start only after every interval had a run all of whose symbols were attempted. `OutcomeHonest`: `completionEnqueued` and `completed_but_not_dispatched` say what happened. `SequenceClaimPending`: the peek outside the transaction overlooks no last interval. `ImplementsFanIn`: refinement of `SequenceFanIn` |
| `SdsProducers` | sequence A, one interval, redelivery, fallback, crashing workers, fairness | `RunCheckPending`: a full run always has a worker that is yet to check it; `SequenceResolves`: the sequence gets an outcome |
| `WdFaults` | 2 intervals, one symbol, every failure including dying ticks | `SharedClaimExclusive`: workers and watchdog share one claim, `EnqueuedHonest` |
| `WdUnblocks` | lost task enqueues, dead workers and subscribers, fairness | `WatchdogUnblocks`: once every interval has a run the consumers are sent in the end, unless the sequence document is one without a status, which the watchdog's queries never see (`WdStatusless`); `ForcedRunReported` |
| `IntradayFaults` | tracked lists of 0, 2 and 3 symbols that change, 2 deliveries, every failure, fairness | `DispatchedOnFreshPrices`: a scan starts only when prices were written for more than half of the symbols that one of the deliveries asked for; `SentOnce`; `RunIsResolved`; `FailedDispatchRetried` |
| `StFaults` | 2 symbols, 2 starts, retried tasks, failing enqueues and transactions | `IngestAtMostOnce`: the completion's follow-up is enqueued once per run; `CompletionNotEarly`: no run whose tasks were not retried completes with a job in flight; `FinalStatusStays` |
| `StCompletes` | 2 symbols, 3 attempts, throwing and crashing tasks, fairness | `CompletionPending`: a run with full counters has a task that is about to look at them; `SuccessMeansAll`: a run that ends in SUCCESS has no failed or unfinished job, however often retries counted; `RunCompletes` |
| `LedgerRaces` | a short and a long trade, prices 1 and 2, all parties, lost updates and crashes | `CashMatchesPnl`: cash and realized P&L, computed apart by three formulas, differ by the entry cash of the open trades, which the account counts; `FinalTradeFrozen`; `ExitedRunStays`; `GoverningRunHonest`: the governing run tells the price the trade was closed at |
| `LedgerBackfill` | one trade, lost updates and crashes, fairness | `GoverningRunFinalized`: a lost run update is repaired |
| `TicketFaults` | 3 tickets contending in a pass; 2 tickets, a cancel and a trade under the seed id; 1 ticket under 2 passes; one failure, fairness | `OnePosition`: one position per ticket while passes do not overlap. `DuplicateReported`: when they do, the second trade is logged. `CancelledHasNoPosition`: a cancel that races the mint loses to the fill. `GroupHoldsFilled`: a filled ticket's trade is in its group, counted once. `ImplementsTicketLife`: refinement. `TicketResolved`: every staged ticket is filled or cancelled, every position's ticket says filled |
| `RsFaults` | 2 jobs realtime, 2 jobs backfill, 1 job with a redelivery, no job, a lower-case id; 2 failures, 2 attempts, fairness | `FinalMeansFinished`: a closed run has finished each job. `FinalStatusHonest`: its status agrees with its counters. `HeatmapAfterWrites`: heatmaps only when at most 2% of the enqueued jobs lack their archive (the gate at `rs-time-series-jobs.worker.ts:787`). `RunFinishes`: the run closes and its event with it, however tasks crash and retry, unless no pair was selected, a job has no task, the handler was killed, a task's attempts are used up or the mirror failed; the event only when its id is the run's |
| `RhFaults` | 3 requests, 4 connects, a streak of 2 timeouts, 2 failures, fairness | `NoSessionLeaks`: a live session is the cached one. `QuietRequestServed`: an instance left alone heals; a request is not held to it that starts while a connect is pending and a dead session is cached, which `RhClosedAdopted` shows it may be handed, nor one whose stored token the server refuses before the clock says so. `CredentialNotStranded`: the stored refresh token has not been exchanged. `RequestAnswered`, although a connect may hang for ever |

The runs do not check again what is proved and says less: each module's `TypeOK`, the claim
of a pipeline without its watchdog (`ClaimExclusive`), the count of the completed scan runs
(`RunsCounted`), and the outcome an intraday run records (`SdsIntraday!OutcomeHonest`:
`completionEnqueued` tells the truth, and a completed run was dispatched or its execution is
not done with it). All of them hold when added to a run of their module.

Each property has a mutant in `PROJECT.json`, an operator beside the one it replaces,
commented *Mutant*: a dropped guard, an unread status, an off-by-one, a lost update.

**Bounds.** Two intervals stand for three, since the fan-in treats all alike and two
are enough for the last interval to arrive between a peek and a claim. Two symbols
are enough for two last finishers; two deliveries for a redelivery between two
steps; two attempts for a retry of each step, three in `StCompletes`
where the number matters. `DispatchCap = 2` stops counting tasks once a duplicate
is visible, so it hides no violation of an at-most-once property. Tracked lists of none, two
and three symbols put the quality gate below, exactly at and above one half. Two trades are what the
ledger's account needs to mix two positions' amounts, of both sides; two prices tell
entry, mark and exit apart, beside the 0 of an expiry or a worthless close. Three tickets are what the two mint attempts need: one wins,
one is rescanned, one gives up until the next pass; two passes overlap; one contract
makes every ticket contend, and one failure hits each step once, after which the next pass
has to heal it. Two jobs have two last finishers; the redelivery needs one job only,
for it is about the counters. Two failures combine a crash with a retry, and with two
attempts they also exhaust a task, as five do in the code (`rs-time-series-jobs.worker.ts:192`). Three
requests are the failing one, its peer and the one that comes after; a fourth connect
only runs when names are reused; a streak of 2 stands for 3. `MaxFaults` bounds what goes
wrong, so liveness says what happens after the last disturbance. Symmetry is used in runs without liveness. Deadlock is
not checked: all modelled work ends at some point (a day's sequence is dispatched,
all tasks are done), which is the intended end of the model.

**Fairness.** Producers and tasks that were started go on and queued tasks are served
(weak fairness): Cloud Functions run a started instance until it returns or dies, and
Cloud Tasks serves its queue. No failure is owed to anyone. A message is delivered
at least once. The watchdog is scheduled for ever, so that its queries are fair;
strongly so for a run that stays stale, since the query is on only between its ticks
(in `SdsIntraday` the query fairly, its forcing write strongly fairly).
A consumer enqueue that is retried for ever is served at last (`SdsIntraday`).
The nightly evaluation lists every candidate, and not every night dies on the same
trade (`PaperLedger`, strong fairness). The schedule starts fill passes for ever
(`0 12 * * 1-5`), and one that is not killed does its steps. Promises settle and timers fire
in a server instance (`RhSession`), but a connect that hangs need never go on. In `RsRun` and
`RhSession` each process takes boundedly many steps, so fairness of their union is
enough and weaker than fairness of each. Liveness properties except where noted have
the tasks Cloud Tasks gave up (`dead`) as an outcome of their own.

## What is proved

`tlapm <module>Proofs.tla`, for the eight proof modules. The assumptions on the constants are
those of the modules' `ASSUME`s: finite sets, positive bounds, any subset of the failures;
where a theorem needs more it states it, and the second table below says why. Every theorem holds
for every size of the instance, not only for the one a run explores. All invariants and
action properties the runs check are theorems, and so are the two refinements.

Each safety proof follows one scheme: an inductive invariant that contains the property,
lemmas for the groups of actions that leave the same part of the state alone, one lemma or
step per action that does not, and PTL for the last step. Each invariant was first checked by TLC on
the run's instance. What it says is what the code relies on without stating it:

| module | theorems | inductive invariant, and why it is needed |
|---|---|---|
| `SdsCompletionProofs` | `DispatchedAtMostOnce`, `ClaimHasOneHolder`, `FanInImplemented` | `ClaimInv`: nothing is sent before the claim, the holder has sent only consumers before the one it is at, a sequence that does not exist has no intervals. A step leaves claim, consumers and dispatchers alone (*quiet*, one lemma for all), or is the claim, or a dispatch. A crash of a dispatcher is quiet because a terminal sequence is not claimed again. In the refinement the claim is `Claim`, an enqueue `Send`, the completion transaction `Report`, the rest stutters |
| | `OutcomeIsHonest` | `OutcomeInv`: the holder of the claim knows of the consumers behind its loop whether one was not sent, and a retried task starts its loop at the first |
| | `SequenceClaimIsPending` | who adds the last interval goes on to the peek, and who peeks at all of them to the claim |
| | `RunCheckIsPending` | `NothingFailed`: without a failed enqueue, only a worker that goes on to check fills up a run |
| | `FanInIsComplete` | `RunsInv`, `Reported`: a run keeps the list it was created with, has processed only what was accounted for, and an interval is reported by a run that has it all |
| `SdsWatchdogProofs` | `SharedClaimIsExclusive`, `EnqueuedIsHonest` | `SharedInv`: whoever is in the dispatch loop, worker or tick, is there alone, on a terminal sequence whose outcome is not written yet, so the reset of a failed dispatch never takes the claim from anybody |
| | `ForcedRunIsReported` | `ForcedInv`: intervals are never removed and only the watchdog forces |
| `SdsIntradayProofs` | `DispatchedPricesAreFresh` | `FreshInv`: the run document's symbols, counts and the documents written may be three deliveries' (there is no transaction); the processed symbols are still those of one delivery, and those of them that did not fail were written. `GatePasses` does the counting |
| | `SentOnlyOnce`, `OutcomeIsHonest` | `SingleInv`: after one delivery, one actor at a time works on the run, and its status tells where it is |
| `StRunProofs` | `IngestedAtMostOnce`, `RunsAreCounted`, `FinalStatusIsFinal` | `TicketInv`: `completionProcessed` and a final status go together, a task about to enqueue the ingest is its run's only ticket holder, the status document counts the final runs |
| | `CompletionIsNotEarly` | `CountInv`: while a run's tasks are in their first attempts its counters are the number of tasks that have counted, each after its job was finished |
| | `CompletionIsPending`, `SuccessIsEarned` | `PendingInv`: counters that are full have a task at its check. `SuccessInv`: while no failure was counted, successes are the tasks that have counted; a task that counted twice counted a failure first |
| `PaperLedgerProofs` | `GoverningRunIsHonest`, `FinalTradesFrozen`, `ExitedRunsStay` | `LedgerInv`: the state of each run fits its trade's status and exit (`Consistent`), and what a closer or the evaluation remembers of a trade bounds what it can be now (`CloserKnows`, `EvalKnows`). `Forward` is the guarantee all parties give: what a step of anybody may do to a document |
| | `CashAlwaysMatches` | the sum over the open trades gains or loses one term in a step (`CashEntered`, `CashLeft`; an additive table on the subsets exists and is the one `MapThenSumSet` chooses, both by the least counterexample) |
| `TicketFillProofs` | `CancelledTicketsHaveNoPosition`, `FilledTradesAreInTheGroup`, `DuplicatesAreReported` | `TicketInv`: the numbers of a contract's trades have no gap and a scan found a taken number or the next one (`Contiguous`); what a pass knows at each step (`WorksOk`); a seed of the ticket's own accept excludes a minted trade (`SeedsAgree`). `OpenIsClosing`: a position whose ticket does not say so is being closed out |
| | `TicketsHaveOnePosition`, `TicketLifeImplemented` | `Alone`: while passes do not overlap, the one that runs has seen that there is no trade |
| `RsRunProofs` | `ClosedRunsAreFinished`, `StatusIsHonest`, `HeatmapsFollowWrites` | `RunInv`: with one handler and each job counted once, the counters are those of the counted jobs and never expect too little, whoever has seen them full has seen every job, and what was read before the transaction still holds (`ReadsOk`, `WritesOk`) |
| `RhSessionProofs` | `NothingLeaks` | inductive with the types: the only step that opens a session caches it, when nothing is cached, and each step that takes one out of the cache starts to close it (`Rebuilt`) |
| | `NotStranded` | `Rotation`: tokens in use were issued; an attempt that exchanges a token holds the stored one exactly when it holds the stored revision, so that the revision check is a check of the token; what an exchange issued is nobody else's |
| | `QuietRequestsAreServed` | `Ready`: what a request rests on, disturbed or not. `QuietServed`: a pending connect reaches its handshake with a token the server accepts, because `quiet` leaves out one refused early, and once the request has recovered, the only session it can be handed is one that answers |

`TypeCorrect` (`WdTypeCorrect`) is proved in each module; in `StRun` it needs that a queued task has an attempt
left, in `RsRun` that only jobs of the run are touched, in `TicketFill` all of `TicketInv`.

Hypotheses beyond the constants' assumptions are kept only where the code needs them: without
each of them TLC finds the property violated, in the instance of the configuration named.

| theorem | hypothesis | what happens without it |
|---|---|---|
| `RunCheckIsPending` | no enqueue of a worker task fails | failed ones are added to `processedSymbols` and nobody checks: `SdsEnqueueFailure` |
| `FanInIsComplete` | `ListsAgree`: letter B or C, or one delivery, or one list | a redelivery rewrites an A run with another list: `SdsListChange` |
| `ForcedRunIsReported` | no tick dies | the tick dies between the two writes: `WdHalfForced` |
| `CompletionIsPending` | no completion transaction fails, no task dies between its count and its check | the last finisher never looks: `StTransactionLost`, with either fault |
| `SuccessIsEarned` | no task dies between its count and its check | its retry counts a success twice and fills the counters early: `StTransactionLost` with `crashAfterCount` for its fault |
| `ClosedRunsAreFinished`, `StatusIsHonest`, `HeatmapsFollowWrites` | `SingleInterval`: a message is about one interval | the run expects one job per pair and closes early: `RsIntervals` (`FinalStatusHonest` needs a failed job, `MaxFaults = 1`) |

Others are part of the properties: `FinalMeansFinished` speaks of runs whose message was processed once,
whose jobs were counted once and whose tasks were all expected (`RsHeatmapStale`), `CompletionNotEarly` of runs
without a retried task (`StDoubleCount`), `OnePosition` of passes that do not overlap,
`QuietRequestServed` of refreshes that lose no race and of tokens not refused early.

Only model-checked: liveness, which is out of the prover's reach as is `ENABLED`
(`SequenceResolves`, `WatchdogUnblocks`, `RunIsResolved`, `FailedDispatchRetried`, `RunCompletes`,
`GoverningRunFinalized`, `TicketResolved`, `RunFinishes`, `RequestAnswered`), and the claims TLC
finds violated, below.

## Observations

Configurations beside the listed runs reproduce, on the same modules, places where the code differs
from its comments and documents, or where a stronger claim than the listed one fails. Each
states one property and TLC finds it violated. The first three contradict a comment
outright:

1. `SdsEnqueueFailure` (`sds-core.ts:165`): symbols whose tasks could not be enqueued
   are added to `processedSymbols` so that "the run can reach completion"; nobody
   checks the run after that write, and if it was the last one missing, it stays open.
2. `StDoubleCount` (`run-progress.ts:58`): a failing attempt is counted and rethrown, and
   each retry counts again, so the counters fill while other jobs are in flight, where
   the comment at lines 41-44 promises a no-op. `CompletionNotEarly` shows that this needs
   a retried task.
3. `LedgerEquity` (`ledger.ts:676`): an exit subtracts the position's value at its last
   marks from the account's equity; marks move `lastMark` without adding to it. Buy
   at 1, mark at 2, sell: the account is flat and its equity is not its cash, which
   `ledger.ts:18` says it is.

| configuration | property | what happens |
|---|---|---|
| `SdsReopen` | `TerminalRunStays` | the idempotency read (`sds-core.ts:64`) and the write (`:77`) are not one transaction: a redelivery reopens a run |
| `SdsListChange` | `CompletedRunAttempted` | lengths are compared (`sds-completion.ts:130`); after a redelivery with another list, a run completes without an expected symbol |
| `SdsFallbackRace` | `NoConcurrentFallback` | a PDR message after the fallback's query makes two runs of one interval work at once |
| `WdRetryDuplicates` | `AtMostOnceDispatch` | a watchdog retry sends all consumers again, also those that had been sent |
| `WdEmptyRun` | `EmptyRunNeverFires` | a forced empty run is reported to the sequence |
| `WdStaleSequence` | `StaleSequenceCompletes` | a stale sequence goes through the claim that needs all intervals |
| `WdHalfForced` | `ForcedRunReported` | a tick dies between forcing a run and reporting it |
| `WdLostDispatch` | `ClaimedIsDispatched` | a claimer dies before the enqueues; the watchdog's query does not see it |
| `WdStatusless` | `EveryRunUnblocks` | a forced run creates a sequence document without a status |
| `IntradayDuplicate` | `DispatchedOnce` | overlapping deliveries both start the scan |
| `IntradayRetryLost` | `EveryFailedDispatchRetried` | a tick dies between resetting a run and checking it |
| `StTransactionLost` | `RunCompletes` | the last finisher's transaction fails and is swallowed; with `jobEnqueue` as the only fault it is violated too, by a job whose task was not enqueued and which counts in `totalSymbols` |
| `RsIntervals` | `FinalMeansFinished` | all intervals of a message write one run document, each with the number of pairs as `expectedJobs` (`partner-webhooks.ts:916`, `:925`): the run closes when as many jobs are done, where the design note counts pairs times intervals |
| `RsLostJob` | `LostJobDoesNotBlock` | `expectedJobs` is lowered for a job that could not be created "so that success + failure counters can reach expected" (`partner-webhooks.ts:956`), but when it comes last, nobody checks the counters again |
| `RsLowerCase` | `EventFollowsRun` | the run's id is upper-cased (`:916`), the event's is not (`partner-events.ts:68-69`): the mirror writes to another document |
| `RsHeatmapStale` | `HeatmapsAreComplete` | a redelivery resets the counters but not `archiveWritesComplete`, so the gate opens before the archives are written |
| `RhPeerClosed` | `PeerKeepsSession` | `recover` clears the entry and waits up to 5 s for the close; a request that caches a session meanwhile has it closed by the rebuild that follows (`rh-session-cache.ts:105-107`, `:157-160`), which "never close a connection owned by an in-flight sibling request" (`:96`) denies |
| `RhClosedAdopted` | `RecoverGivesUsable` | a late connect closes its own session and then hands out the entry it had read before the wait (`:171-174`), which may have failed and been closed meanwhile |

The watchdog's rows are about the code as it would run if it were exported again.

Five more facts the models record without a configuration of their own. Two overlapping
fill passes can mint two trades for one ticket, between the look at line 525 and the write at
line 535 of `expression-fill-pass.ts`; the code only logs it. A ticket cancelled after its
position was minted stays cancelled when the close-out then fails (`abandoned`), for the
next pass lists staged tickets only. A refresh that the server rejects because a peer has
just exchanged the token does not adopt the peer's credential (`RefreshRejected`): only the
revision conflict at the store does (`robinhood-mcp-connection.ts:69`). A data-ready message
that selects no pair (`partner-webhooks.ts:796-801`, a retry without `includeSymbols`) writes a
run with `expectedJobs` 0 (`:925-928`); nobody checks a run without jobs, so it stays
`IN_PROGRESS` and its event `processing`. An access token that the server revokes
early, or that was stored without `expires_in`, is not refreshed: the refresh goes by the clock
(`robinhood-mcp-connection.ts:62`, `token-refresh-policy.ts:22-32`) and the transport has no
`authProvider` (`robinhood-mcp-session.ts:19-25`), so every recovery connects with it again
and fails.

## Not modelled

Most of the repository's lines are not protocol: the Angular front end, sample data,
indicators and strategies, chart code, formatting, one-off administration. The modules
cover the server functions whose correctness depends on who runs when; the map names a
few thousand of some two hundred thousand lines, and no faithful model would reach a
large share of the rest.

Contents: bars, prices of other instruments, indicators, strategies, formatting. In
the ledger: assignment and held shares (the options strategy engine), multi-leg
orders, other users' accounts, partial quantities (the code refuses them), and the working
state of trailing variants, whose writes are there (`EvalHolds`) with their effect on
the run's state only. In SDS: message parsing, and the consumers other
than the scan. In the tickets: the broker's states (`submitted`, `cancel_pending`,
`expired`), the accept that stages them with its retries, and ticket notes
(`recordTicketError`), which no code reads. In the relative-strength runs: the inline loop used
when the task queue is switched off, heartbeats, the pairs registry, and the phases of a
backfill (one more dimension of its jobs). In the session: the connect-per-call mode,
which shares nothing, and the local bootstrap of the credential. Firestore transactions are
atomic and serializable, as its documentation promises; no write of a single document is torn.

Steps taken together: an ST job document and its task are written in one action
(`CreateJobAndEnqueue`), where a death between the two leaves a job without a task as a failed
enqueue does; a fill pass lists the staged tickets and the pending trades at once (`StartPass`) and looks
for a ticket's minted and seed trades at once (`Check`); a peer instance exchanges and stores its token in
one step (`PeerRotates`), the race inside being that of two attempts of the instance.
An SDS consumer enqueue that was delivered and yet reports an error (`sds-completion.ts:279`) is
left out: in the model a consumer reported as failed was not sent.

## Plan

1. Proofs: a refinement for the scan run (a run closes once, when its jobs are finished)
   and the shared lemmas of the counting arguments in `StRunProofs` and `RsRunProofs`.
2. `AutoPaperIngest`: the ingest task, composed with `StRun` through its enqueue, with the
   equity tickets its retry leaves staged.
3. `ReplayRun`: the fan-outs of backtest, options replay and spread runs beside `StRun`,
   with their retry callables.
4. `LifecycleCapture`: capture claims after a fill's commit; `PaperLedger` with assignment
   (the settlement pass of the engine); the bar-merging functions as operators against a
   reference definition.
