----------------------------- MODULE PaperLedger -----------------------------
(***************************************************************************)
(* The paper-trading ledger of one account: the transactions of ledger.ts  *)
(* and the repositories that open, mark, cancel and close single-leg       *)
(* signal trades, and the passes and callables that race to close them.    *)
(*                                                                         *)
(* A step is one Firestore transaction, or the read of a document list a   *)
(* pass then works from.  A close and the update of the governing variant  *)
(* run that follows it are two transactions.  A quantity and a multiplier  *)
(* scale every amount alike and are 1 here.                                *)
(***************************************************************************)
EXTENDS Integers, FiniteSets, Sequences, FiniteSetsExt

CONSTANTS
  Trades,  \* the trade ids
  Side,    \* the side of each trade's order
  Prices,  \* the positive prices a quote may show
  Faults   \* which kinds of failure may happen

FaultKinds == {"crash", "runUpdate"}

ASSUME TradesAssumption == IsFiniteSet(Trades) /\ Trades # {}
ASSUME SideAssumption == Side \in [Trades -> {"SHORT", "LONG"}]
ASSUME PricesAssumption == Prices \subseteq Nat \ {0}
ASSUME FaultsAssumption == Faults \subseteq FaultKinds

NoPrice == -1
ExitPrices == Prices \cup {0}
RunKeys == {"governing", "shadow"}
Closers == {"manual", "settlement"}
FinalStatus == {"CLOSED", "EXPIRED", "CANCELLED"}

VARIABLES
  account, \* the account document
  trade,   \* the trade documents
  closer,  \* handleClosePaperTrade and the settlement pass
  eval     \* the nightly exit evaluation, on the trade it has reached

docs == <<account, trade>>
vars == <<account, trade, closer, eval>>

RunDoc == [state : {"ACTIVE", "EXITED"}, price : ExitPrices \cup {NoPrice}]
\* exits: the prices of the exit fills; mark: the mark of the evaluated date.
TradeDoc == [status : {"absent", "PENDING", "OPEN"} \cup FinalStatus,
             entry : Prices \cup {NoPrice}, lastMark : ExitPrices, exits : Seq(ExitPrices),
             mark : Prices \cup {NoPrice}, realizedPnl : Int, runs : [RunKeys -> RunDoc]]
Account == [cash : Int, equity : Int, realizedPnl : Int, openTradeCount : Int]
CloserState == [pc : {"idle", "close", "record"}, id : Trades, price : ExitPrices]
\* What the evaluation uses of the trade it listed.
Snapshot == [status : {"absent", "OPEN", "CLOSED"}, exits : Seq(ExitPrices),
             mark : Prices \cup {NoPrice}, runs : [RunKeys -> RunDoc]]
EvalState == [pc : {"idle", "runs", "exit", "record"}, id : Trades, snap : Snapshot,
              todo : SUBSET RunKeys]

ActiveRun == [state |-> "ACTIVE", price |-> NoPrice]
ExitedRun(p) == [state |-> "EXITED", price |-> p]
SnapshotOf(doc) ==
  [status |-> doc.status, exits |-> doc.exits, mark |-> doc.mark, runs |-> doc.runs]
AbsentTrade == [status |-> "absent", entry |-> NoPrice, lastMark |-> 0, exits |-> <<>>,
                mark |-> NoPrice, realizedPnl |-> 0, runs |-> [k \in RunKeys |-> ActiveRun]]

\* Every variable keeps its shape.
TypeOK ==
  /\ account \in Account
  /\ trade \in [Trades -> TradeDoc]
  /\ closer \in [Closers -> CloserState]
  /\ eval \in EvalState

SomeTrade == CHOOSE t \in Trades : TRUE
IdleCloser == [pc |-> "idle", id |-> SomeTrade, price |-> 0]
IdleEval == [pc |-> "idle", id |-> SomeTrade, snap |-> SnapshotOf(AbsentTrade), todo |-> {}]

Init ==
  /\ account = [cash |-> 0, equity |-> 0, realizedPnl |-> 0, openTradeCount |-> 0]
  /\ trade = [t \in Trades |-> AbsentTrade]
  /\ closer = [c \in Closers |-> IdleCloser]
  /\ eval = IdleEval

-----------------------------------------------------------------------------
(***************************************************************************)
(* Fill arithmetic.                                                        *)
(***************************************************************************)
SignedCashDelta(t, p) == IF Side[t] = "SHORT" THEN p ELSE -p
ComputeExitPnl(t, entry, exit) ==
  IF Side[t] = "SHORT" THEN entry - exit ELSE exit - entry
ValueAt(t, p) == IF Side[t] = "SHORT" THEN -p ELSE p
PositionValue(t) == ValueAt(t, trade[t].lastMark)

(***************************************************************************)
(* Entries.                                                                *)
(***************************************************************************)
PostEntry(t, p) ==
  account' = [account EXCEPT !.cash = @ + SignedCashDelta(t, p),
                             !.equity = @ + SignedCashDelta(t, p) + ValueAt(t, p),
                             !.openTradeCount = @ + 1]

\* A second entry under the same id throws.
ApplyEntryFill(t, p) ==
  /\ trade[t].status = "absent"
  /\ \E m \in {p, NoPrice} :
       trade' = [trade EXCEPT ![t] =
                   [AbsentTrade EXCEPT !.status = "OPEN", !.entry = p, !.lastMark = p, !.mark = m]]
  /\ PostEntry(t, p)
  /\ UNCHANGED <<closer, eval>>

CreatePendingTrade(t) ==
  /\ trade[t].status = "absent"
  /\ trade' = [trade EXCEPT ![t].status = "PENDING"]
  /\ UNCHANGED <<account, closer, eval>>

\* Mutant: the status the pass listed is not read again.
StillPendingAsListed(t) == trade[t].status \in {"PENDING", "CANCELLED"}

StillPending(t) == trade[t].status = "PENDING"

\* The fill pass lists the pending trades and selects a contract first: what
\* counts is the status the transaction reads.
ApplyPendingFill(t, p) ==
  /\ StillPending(t)
  /\ trade' = [trade EXCEPT ![t].status = "OPEN", ![t].entry = p,
                            ![t].lastMark = p, ![t].mark = p]
  /\ PostEntry(t, p)
  /\ UNCHANGED <<closer, eval>>

CancelPendingTrade(t) ==
  /\ trade[t].status = "PENDING"
  /\ trade' = [trade EXCEPT ![t].status = "CANCELLED",
                            ![t].runs = [k \in RunKeys |-> ExitedRun(NoPrice)]]
  /\ UNCHANGED <<account, closer, eval>>

\* Intraday marks and the official close; the account is not written.
MarkSignalTrade(t, p) ==
  /\ trade[t].status = "OPEN"
  /\ trade' = [trade EXCEPT ![t].lastMark = p, ![t].mark = p]
  /\ UNCHANGED <<account, closer, eval>>

-----------------------------------------------------------------------------
(***************************************************************************)
(* The transactions the closing parties share.                             *)
(***************************************************************************)

IsOpen(t) == trade[t].status = "OPEN"

ApplyExitFill(t, p) ==
  LET pnl == ComputeExitPnl(t, trade[t].entry, p) IN
  /\ IsOpen(t)
  /\ trade' = [trade EXCEPT ![t].status = "CLOSED", ![t].exits = Append(@, p),
                            ![t].lastMark = p, ![t].realizedPnl = pnl]
  /\ account' = [account EXCEPT !.cash = @ - SignedCashDelta(t, p),
                                !.equity = @ - SignedCashDelta(t, p) - PositionValue(t),
                                !.realizedPnl = @ + pnl,
                                !.openTradeCount = @ - 1]

\* Mutant: the premium is booked as cash a second time.
ExpiredAccountWithCash(acct, t, premium) ==
  [acct EXCEPT !.cash = @ + premium, !.equity = @ - PositionValue(t),
               !.realizedPnl = @ + premium, !.openTradeCount = Max({0, @ - 1})]

\* The account after an expiry: no cash moves, the premium becomes realized.
ExpiredAccount(acct, t, premium) ==
  [acct EXCEPT !.equity = @ - PositionValue(t), !.realizedPnl = @ + premium,
               !.openTradeCount = Max({0, @ - 1})]

\* A worthless expiry: the premium is realized, the leg is worth nothing, the
\* governing run ends in the same transaction.
MarkPositionSettled(t) ==
  LET premium == SignedCashDelta(t, trade[t].entry) IN
  /\ IsOpen(t)
  /\ trade' = [trade EXCEPT ![t].status = "EXPIRED", ![t].lastMark = 0,
                            ![t].realizedPnl = @ + premium,
                            ![t].runs["governing"] = IF @.state = "ACTIVE" THEN ExitedRun(0) ELSE @]
  /\ account' = ExpiredAccount(account, t, premium)

\* Mutant: the run is written whatever its state has become.
MayUpdateAlways(t, k) == TRUE

\* "EXITED is terminal": a stale read must not resurrect a finalized run.
MayUpdate(t, k) == trade[t].runs[k].state # "EXITED"

UpdateVariantRun(t, k, doc) ==
  trade' = IF MayUpdate(t, k) THEN [trade EXCEPT ![t].runs[k] = doc] ELSE trade

-----------------------------------------------------------------------------
(***************************************************************************)
(* A manual close and the settlement pass: read an open trade, find a      *)
(* price, close it, finalize its governing run.                            *)
(***************************************************************************)
CloserRead(c, t) ==
  /\ closer[c].pc = "idle" /\ trade[t].status = "OPEN"
  /\ closer' = [closer EXCEPT ![c] = [IdleCloser EXCEPT !.pc = "close", !.id = t]]
  /\ UNCHANGED <<docs, eval>>

\* A manual close asks the market and takes any finite quote, an in-the-money
\* settlement takes the day's bar.
CloserExits(c, p) ==
  /\ closer[c].pc = "close"
  /\ ApplyExitFill(closer[c].id, p)
  /\ closer' = [closer EXCEPT ![c].pc = "record", ![c].price = p]
  /\ UNCHANGED eval

SettleExpired ==
  /\ closer["settlement"].pc = "close"
  /\ MarkPositionSettled(closer["settlement"].id)
  /\ closer' = [closer EXCEPT !["settlement"] = IdleCloser]
  /\ UNCHANGED eval

\* The transaction throws, or no quote or bar was found.
CloserGivesUp(c) ==
  /\ closer[c].pc = "close"
  /\ closer' = [closer EXCEPT ![c] = IdleCloser]
  /\ UNCHANGED <<docs, eval>>

CloserRecords(c) ==
  /\ closer[c].pc = "record"
  /\ UpdateVariantRun(closer[c].id, "governing", ExitedRun(closer[c].price))
  /\ closer' = [closer EXCEPT ![c] = IdleCloser]
  /\ UNCHANGED <<account, eval>>

\* The update throws and is logged, or the process dies before it.
CloserRecordFails(c) ==
  /\ Faults # {}
  /\ closer[c].pc = "record"
  /\ closer' = [closer EXCEPT ![c] = IdleCloser]
  /\ UNCHANGED <<docs, eval>>

-----------------------------------------------------------------------------
(***************************************************************************)
(* runExitEvalPass: every run of every candidate, from the listed copy.    *)
(***************************************************************************)
ActiveRuns(doc) == {k \in RunKeys : doc.runs[k].state = "ACTIVE"}

\* Mutant: the list has the open trades only.
CandidatesOpenOnly == {"OPEN"}

\* "PENDING trades are intentionally excluded"; expired ones are not listed either.
Candidates == {"OPEN", "CLOSED"}

EvalList(t) ==
  /\ eval.pc = "idle"
  /\ trade[t].status \in Candidates /\ ActiveRuns(trade[t]) # {}
  /\ eval' = [pc |-> "runs", id |-> t, snap |-> SnapshotOf(trade[t]),
              todo |-> ActiveRuns(trade[t])]
  /\ UNCHANGED <<docs, closer>>

EvalPast(k) == eval' = [eval EXCEPT !.pc = "runs", !.todo = @ \ {k}]

\* A run may be evaluated on an open trade, a shadow run also on a closed one,
\* after the backfill.
Evaluates(k) ==
  /\ eval.pc = "runs" /\ k \in eval.todo
  /\ eval.snap.status = "CLOSED" => "governing" \notin eval.todo

\* No mark for the date, nothing fired and nothing moved, or an error.
EvalSkips(k) ==
  /\ Evaluates(k)
  /\ EvalPast(k)
  /\ UNCHANGED <<docs, closer>>

\* The variant did not fire; its working state moved and the run is written
\* back as it was listed.
EvalHolds(k) ==
  /\ Evaluates(k) /\ eval.snap.mark # NoPrice
  /\ UpdateVariantRun(eval.id, k, eval.snap.runs[k])
  /\ EvalPast(k)
  /\ UNCHANGED <<account, closer>>

ShadowFires ==
  /\ Evaluates("shadow") /\ eval.snap.mark # NoPrice
  /\ UpdateVariantRun(eval.id, "shadow", ExitedRun(eval.snap.mark))
  /\ EvalPast("shadow")
  /\ UNCHANGED <<account, closer>>

GoverningFires ==
  /\ Evaluates("governing") /\ eval.snap.mark # NoPrice
  /\ eval' = [eval EXCEPT !.pc = "exit"]
  /\ UNCHANGED <<docs, closer>>

EvalExits ==
  /\ eval.pc = "exit"
  /\ ApplyExitFill(eval.id, eval.snap.mark)
  /\ eval' = [eval EXCEPT !.pc = "record"]
  /\ UNCHANGED closer

\* The trade left OPEN since it was listed.
EvalExitThrows ==
  /\ eval.pc = "exit" /\ ~IsOpen(eval.id)
  /\ EvalPast("governing")
  /\ UNCHANGED <<docs, closer>>

EvalRecords ==
  /\ eval.pc = "record"
  /\ UpdateVariantRun(eval.id, "governing", ExitedRun(eval.snap.mark))
  /\ EvalPast("governing")
  /\ UNCHANGED <<account, closer>>

EvalRecordFails ==
  /\ "runUpdate" \in Faults
  /\ eval.pc = "record"
  /\ EvalPast("governing")
  /\ UNCHANGED <<docs, closer>>

\* Mutant: the backfill takes the day's mark.
BackfillPriceOfMark(doc) == IF doc.mark = NoPrice THEN doc.exits[1] ELSE doc.mark

BackfillPrice(doc) == doc.exits[1]

\* A governing run left ACTIVE by a close whose second step was lost.
EvalBackfills ==
  /\ eval.pc = "runs" /\ eval.snap.status = "CLOSED" /\ "governing" \in eval.todo
  /\ UpdateVariantRun(eval.id, "governing", ExitedRun(BackfillPrice(eval.snap)))
  /\ EvalPast("governing")
  /\ UNCHANGED <<account, closer>>

EvalDone ==
  /\ eval.pc = "runs" /\ eval.todo = {}
  /\ eval' = IdleEval
  /\ UNCHANGED <<docs, closer>>

\* The instance dies or passes its timeout.
EvalCrash ==
  /\ "crash" \in Faults
  /\ eval.pc # "idle"
  /\ eval' = IdleEval
  /\ UNCHANGED <<docs, closer>>

-----------------------------------------------------------------------------
Trading ==
  \E t \in Trades :
    \/ CreatePendingTrade(t) \/ CancelPendingTrade(t)
    \/ \E p \in Prices : ApplyEntryFill(t, p) \/ ApplyPendingFill(t, p) \/ MarkSignalTrade(t, p)

Close(c) ==
  \/ \E t \in Trades : CloserRead(c, t)
  \/ \E p \in IF c = "manual" THEN ExitPrices ELSE Prices : CloserExits(c, p)
  \/ CloserGivesUp(c) \/ CloserRecords(c) \/ CloserRecordFails(c)

Evaluate ==
  \/ \E k \in RunKeys : EvalSkips(k) \/ EvalHolds(k)
  \/ ShadowFires \/ GoverningFires
  \/ EvalExits \/ EvalExitThrows \/ EvalRecords \/ EvalBackfills \/ EvalDone

Next ==
  \/ Trading
  \/ \E c \in Closers : Close(c)
  \/ SettleExpired
  \/ \E t \in Trades : EvalList(t)
  \/ Evaluate
  \/ EvalRecordFails
  \/ EvalCrash

Spec == Init /\ [][Next]_vars

(***************************************************************************)
(* The evaluation runs every night over every candidate, and not every     *)
(* night dies on the same trade.                                           *)
(***************************************************************************)
FairSpec ==
  /\ Spec
  /\ WF_vars(Evaluate)
  /\ \A t \in Trades : /\ SF_vars(EvalList(t) /\ trade[t].status = "CLOSED")
                       /\ SF_vars(EvalBackfills /\ eval.id = t)

-----------------------------------------------------------------------------
(***************************************************************************)
(* Properties.                                                             *)
(***************************************************************************)
OpenTrades == {t \in Trades : trade[t].status = "OPEN"}

\* Cash and realized P&L are computed apart, by four transactions with three
\* formulas; what separates them is the entry cash of the open trades, however
\* the closing parties race. The account counts those trades, too.
CashMatchesPnl ==
  /\ account.openTradeCount = Cardinality(OpenTrades)
  /\ account.cash = account.realizedPnl
       + MapThenSumSet(LAMBDA t : SignedCashDelta(t, trade[t].entry), OpenTrades)

\* A trade that is over is neither closed, filled, cancelled nor marked again:
\* only its variant runs still move.
FinalTradeFrozen ==
  [][\A t \in Trades : trade[t].status \in FinalStatus =>
       trade'[t] = [trade[t] EXCEPT !.runs = trade'[t].runs]]_vars

\* "EXITED is terminal", with the exit event it was written with.
ExitedRunStays ==
  [][\A t \in Trades, k \in RunKeys : trade[t].runs[k].state = "EXITED" =>
       trade'[t].runs[k] = trade[t].runs[k]]_vars

\* The governing run tells the price the trade was closed at, whichever of the
\* closing parties or the backfill wrote it.
GoverningRunHonest ==
  \A t \in Trades :
    /\ trade[t].status \in {"absent", "PENDING", "OPEN"} =>
         trade[t].runs["governing"].state = "ACTIVE"
    /\ trade[t].status = "CLOSED" /\ trade[t].runs["governing"].state = "EXITED" =>
         trade[t].exits = <<trade[t].runs["governing"].price>>
    /\ trade[t].status = "EXPIRED" => trade[t].runs["governing"] = ExitedRun(0)

\* A close whose run update was lost is backfilled.
GoverningRunFinalized ==
  \A t \in Trades : trade[t].status = "CLOSED" ~> trade[t].runs["governing"].state = "EXITED"

\* "equity = cash + open liquidation value": with nothing open, equity is cash.
FlatEquityIsCash == OpenTrades = {} => account.equity = account.cash
==============================================================================
