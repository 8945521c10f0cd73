--------------------------- MODULE PaperLedgerProofs ---------------------------
(***************************************************************************)
(* Proofs about PaperLedger for every set of trades, whatever their sides, *)
(* every set of prices, and every combination of failures.                 *)
(***************************************************************************)
EXTENDS PaperLedger, FiniteSetTheorems, WellFoundedInduction, TLAPS

(***************************************************************************)
(* One document.  Consistent: the state of the governing run fits the      *)
(* status of the trade and its exit fill.  Forward: what a step of anybody *)
(* may do to a document; the parties that hold a copy rely on it.          *)
(***************************************************************************)
Entered == {"OPEN", "CLOSED", "EXPIRED"}

Consistent(doc) ==
  LET governing == doc.runs["governing"] IN
  /\ doc.status \in {"absent", "PENDING", "OPEN"} =>
       doc.exits = <<>> /\ governing.state = "ACTIVE"
  /\ doc.status \in {"absent", "PENDING"} => doc.runs["shadow"].state = "ACTIVE"
  /\ doc.status = "OPEN" => doc.entry \in Prices
  /\ doc.status = "CLOSED" => \E p \in ExitPrices :
       doc.exits = <<p>> /\ (governing.state = "EXITED" => governing.price = p)
  /\ doc.status = "EXPIRED" => governing = ExitedRun(0)

Forward(old, new) ==
  /\ old.status \in Entered => new.status \in Entered
  /\ old.status = "CLOSED" => new.status = "CLOSED" /\ new.exits = old.exits
  /\ old.status \in FinalStatus => new = [old EXCEPT !.runs = new.runs]
  /\ \A k \in RunKeys : old.runs[k].state = "EXITED" => new.runs[k] = old.runs[k]

\* A closer that is about to record holds the price the trade was closed at.
CloserKnows ==
  \A c \in Closers : closer[c].pc = "record" =>
    /\ trade[closer[c].id].status = "CLOSED"
    /\ trade[closer[c].id].exits = <<closer[c].price>>

\* What the evaluation's copy tells about the trade as it is now.
EvalKnows ==
  eval.pc # "idle" =>
    LET doc == trade[eval.id] IN
    /\ doc.status \in Entered
    /\ eval.snap.status = "CLOSED" => doc.status = "CLOSED" /\ doc.exits = eval.snap.exits
    /\ \A k \in eval.todo : eval.snap.runs[k].state = "ACTIVE"
    /\ eval.pc \in {"exit", "record"} => eval.snap.mark # NoPrice
    /\ eval.pc = "record" => doc.status = "CLOSED" /\ doc.exits = <<eval.snap.mark>>

LedgerInv ==
  /\ TypeOK
  /\ \A t \in Trades : Consistent(trade[t])
  /\ CloserKnows
  /\ EvalKnows

-----------------------------------------------------------------------------
(***************************************************************************)
(* The values the transactions compute keep their shape.                   *)
(***************************************************************************)
LEMMA PriceType ==
  /\ Prices \subseteq ExitPrices /\ 0 \in ExitPrices /\ 0 \notin Prices
  /\ NoPrice \notin ExitPrices /\ NoPrice \in Int /\ ExitPrices \subseteq Int
BY PricesAssumption DEF ExitPrices, NoPrice

LEMMA SomeTradeType == SomeTrade \in Trades
BY TradesAssumption DEF SomeTrade

LEMMA RunKeysValue == "governing" \in RunKeys /\ "shadow" \in RunKeys
                      /\ \A k \in RunKeys : k = "governing" \/ k = "shadow"
BY DEF RunKeys

LEMMA ArithmeticType ==
  ASSUME NEW t \in Trades, NEW p \in Int, NEW q \in Int
  PROVE  /\ SignedCashDelta(t, p) \in Int /\ ValueAt(t, p) \in Int
         /\ ComputeExitPnl(t, p, q) \in Int
         /\ ComputeExitPnl(t, p, q) = SignedCashDelta(t, p) - SignedCashDelta(t, q)
BY SideAssumption DEF SignedCashDelta, ValueAt, ComputeExitPnl

LEMMA ExitedRunType ==
  ASSUME NEW p \in ExitPrices \cup {NoPrice}
  PROVE  /\ ExitedRun(p) \in RunDoc
         /\ ExitedRun(p).state = "EXITED" /\ ExitedRun(p).price = p
BY DEF ExitedRun, RunDoc

LEMMA AbsentTradeType ==
  /\ AbsentTrade \in TradeDoc
  /\ \A k \in RunKeys : AbsentTrade.runs[k].state = "ACTIVE"
BY PriceType DEF AbsentTrade, TradeDoc, ActiveRun, RunDoc

LEMMA IdleType ==
  /\ IdleCloser \in CloserState /\ IdleCloser.pc = "idle"
  /\ IdleEval \in EvalState /\ IdleEval.pc = "idle"
<1>1. SnapshotOf(AbsentTrade) \in Snapshot
  BY AbsentTradeType DEF SnapshotOf, AbsentTrade, Snapshot, TradeDoc
<1> QED
  BY <1>1, PriceType, SomeTradeType DEF IdleCloser, CloserState, IdleEval, EvalState

\* The largest of 0 and a count, Math.max(0, count).
LEMMA MaxOfCount ==
  ASSUME NEW n \in Int PROVE Max({0, n}) = IF n >= 0 THEN n ELSE 0
BY DEF Max

LEMMA InitLedger == Init => LedgerInv
<1> SUFFICES ASSUME Init PROVE LedgerInv
  OBVIOUS
<1>1. TypeOK
  BY AbsentTradeType, IdleType DEF Init, TypeOK, Account
<1>2. \A t \in Trades : Consistent(trade[t])
  BY AbsentTradeType, RunKeysValue DEF Init, Consistent, AbsentTrade
<1>3. CloserKnows /\ EvalKnows
  BY IdleType DEF Init, CloserKnows, EvalKnows
<1> QED
  BY <1>1, <1>2, <1>3 DEF LedgerInv

-----------------------------------------------------------------------------
(***************************************************************************)
(* What a step does to the documents.                                      *)
(***************************************************************************)
DocsKept ==
  /\ trade' \in [Trades -> TradeDoc]
  /\ \A t \in Trades : Consistent(trade'[t]) /\ Forward(trade[t], trade'[t])

\* A step that writes one document, with a consistent one that is ahead of it.
LEMMA OneDocument ==
  ASSUME LedgerInv, NEW t \in Trades, NEW doc \in TradeDoc,
         trade' = [trade EXCEPT ![t] = doc], Consistent(doc), Forward(trade[t], doc)
  PROVE  DocsKept
<1>1. trade \in [Trades -> TradeDoc] /\ \A u \in Trades : Consistent(trade[u])
  BY DEF LedgerInv, TypeOK
<1>2. \A u \in Trades : Forward(trade[u], trade[u])
  BY <1>1 DEF Forward, TradeDoc
<1> QED
  BY <1>1, <1>2 DEF DocsKept

LEMMA SameDocuments == ASSUME LedgerInv, UNCHANGED trade PROVE DocsKept
<1>1. trade \in [Trades -> TradeDoc] /\ \A u \in Trades : Consistent(trade[u])
  BY DEF LedgerInv, TypeOK
<1>2. \A u \in Trades : Forward(trade[u], trade[u])
  BY <1>1 DEF Forward, TradeDoc
<1> QED
  BY <1>1, <1>2 DEF DocsKept

\* The write of a variant run: it counts only when the run is not EXITED, and
\* what is written into the governing run fits the close.
LEMMA RunWritten ==
  ASSUME LedgerInv, NEW t \in Trades, NEW k \in RunKeys, NEW r \in RunDoc,
         UpdateVariantRun(t, k, r), trade[t].status \in Entered,
         k = "governing" => \/ r.state = "ACTIVE"
                            \/ trade[t].status = "CLOSED" /\ trade[t].exits = <<r.price>>
  PROVE  DocsKept
<1>1. CASE ~MayUpdate(t, k)
  BY <1>1, SameDocuments DEF UpdateVariantRun
<1>2. CASE MayUpdate(t, k)
  <2> DEFINE old == trade[t]
             doc == [old EXCEPT !.runs = [old.runs EXCEPT ![k] = r]]
  <2>1. old \in TradeDoc /\ Consistent(old) /\ old.runs[k].state # "EXITED"
    BY <1>2 DEF LedgerInv, TypeOK, MayUpdate
  <2>2. trade' = [trade EXCEPT ![t] = doc]
    BY <1>2 DEF UpdateVariantRun, LedgerInv, TypeOK, TradeDoc
  <2>3. doc \in TradeDoc
    BY <2>1 DEF TradeDoc
  <2>4. /\ doc.status = old.status /\ doc.exits = old.exits /\ doc.entry = old.entry
        /\ doc.runs[k] = r /\ \A j \in RunKeys : j # k => doc.runs[j] = old.runs[j]
    BY <2>1 DEF TradeDoc
  <2>5. Forward(old, doc)
    <3>1. doc = [old EXCEPT !.runs = doc.runs]
      BY <2>1 DEF TradeDoc
    <3> QED
      BY <2>1, <2>4, <3>1 DEF Forward
  <2>6. Consistent(doc)
    <3>1. old.status # "EXPIRED" \/ k # "governing"
      BY <2>1, PriceType, ExitedRunType DEF Consistent
    <3>2. old.status = "CLOSED" => \E p \in ExitPrices : old.exits = <<p>>
      BY <2>1 DEF Consistent
    <3>3. old.status \in Entered
      OBVIOUS
    <3> HIDE DEF doc, old
    <3>4. k = "governing" => Consistent(doc)
      BY <2>1, <2>4, <3>1, <3>2, <3>3, RunKeysValue DEF Consistent, Entered, old
    <3>5. k # "governing" => Consistent(doc)
      BY <2>1, <2>4, <3>3, RunKeysValue DEF Consistent, Entered
    <3> QED
      BY <3>4, <3>5
  <2> HIDE DEF doc
  <2> QED
    BY <2>2, <2>3, <2>5, <2>6, OneDocument
<1> QED
  BY <1>1, <1>2

\* The exit closes an open trade at a price.
LEMMA ExitFilled ==
  ASSUME LedgerInv, NEW t \in Trades, NEW p \in ExitPrices, ApplyExitFill(t, p)
  PROVE  /\ DocsKept
         /\ trade[t].status = "OPEN" /\ trade'[t].status = "CLOSED"
         /\ trade'[t].exits = <<p>>
         /\ \A u \in Trades : u # t => trade'[u] = trade[u]
         /\ account' \in Account
         /\ account'.cash = account.cash - SignedCashDelta(t, p)
         /\ account'.realizedPnl = account.realizedPnl + ComputeExitPnl(t, trade[t].entry, p)
         /\ account'.openTradeCount = account.openTradeCount - 1
<1> DEFINE old == trade[t]
           pnl == ComputeExitPnl(t, old.entry, p)
           doc == [old EXCEPT !.status = "CLOSED", !.exits = Append(old.exits, p),
                              !.lastMark = p, !.realizedPnl = pnl]
<1>1. /\ old \in TradeDoc /\ Consistent(old) /\ old.status = "OPEN"
      /\ account \in Account
  BY DEF LedgerInv, TypeOK, ApplyExitFill, IsOpen
<1>2. trade' = [trade EXCEPT ![t] = doc]
  BY DEF ApplyExitFill, LedgerInv, TypeOK, TradeDoc
<1>3. old.exits = <<>> /\ Append(old.exits, p) = <<p>> /\ <<p>> \in Seq(ExitPrices)
  <2>1. old.exits = <<>>
    BY <1>1 DEF Consistent
  <2>2. p \in ExitPrices
    BY PriceType
  <2>3. Append(<<>>, p) = <<p>> /\ <<p>> \in Seq(ExitPrices)
    BY <2>2
  <2> QED
    BY <2>1, <2>3
<1>4. p \in Int /\ old.entry \in Int /\ old.lastMark \in Int /\ pnl \in Int
  <2>1. p \in Int /\ old.entry \in Int /\ old.lastMark \in Int
    BY <1>1, PriceType DEF TradeDoc
  <2> QED
    BY <2>1, ArithmeticType
<1>5. doc \in TradeDoc
  BY <1>1, <1>3, <1>4, PriceType DEF TradeDoc, FinalStatus
<1>6. doc.status = "CLOSED" /\ doc.exits = <<p>> /\ doc.runs = old.runs
  BY <1>1, <1>3 DEF TradeDoc
<1>7. Consistent(doc) /\ Forward(old, doc)
  BY <1>1, <1>6 DEF Consistent, Forward, Entered, FinalStatus
<1>8. /\ account' \in Account
      /\ account'.cash = account.cash - SignedCashDelta(t, p)
      /\ account'.realizedPnl = account.realizedPnl + pnl
      /\ account'.openTradeCount = account.openTradeCount - 1
  <2> DEFINE delta == SignedCashDelta(t, p)
             value == PositionValue(t)
  <2>1. delta \in Int /\ value \in Int
    BY <1>4, ArithmeticType DEF PositionValue
  <2>2. account' = [account EXCEPT !.cash = account.cash - delta,
                                   !.equity = account.equity - delta - value,
                                   !.realizedPnl = account.realizedPnl + pnl,
                                   !.openTradeCount = account.openTradeCount - 1]
    BY <1>1 DEF ApplyExitFill, Account
  <2>3. account.cash \in Int /\ account.equity \in Int /\ account.realizedPnl \in Int
        /\ account.openTradeCount \in Int
    BY <1>1 DEF Account
  <2>4. pnl \in Int
    BY <1>4
  <2> HIDE DEF pnl, delta, value
  <2>5. /\ account.cash - delta \in Int /\ account.equity - delta - value \in Int
        /\ account.realizedPnl + pnl \in Int /\ account.openTradeCount - 1 \in Int
    BY <2>1, <2>3, <2>4
  <2>6. account \in Account
    BY <1>1
  <2>7. /\ account' \in Account
        /\ account'.cash = account.cash - delta
        /\ account'.realizedPnl = account.realizedPnl + pnl
        /\ account'.openTradeCount = account.openTradeCount - 1
    BY <2>2, <2>5, <2>6 DEF Account
  <2> QED
    BY <2>7 DEF delta
<1> HIDE DEF doc
<1>9. DocsKept
  BY <1>2, <1>5, <1>7, OneDocument
<1>10. trade'[t] = doc /\ \A u \in Trades : u # t => trade'[u] = trade[u]
  BY <1>2 DEF LedgerInv, TypeOK
<1> QED
  BY <1>1, <1>6, <1>8, <1>9, <1>10

\* A fill, direct or of a pending trade, opens a trade at a price.
LEMMA EntryFilled ==
  ASSUME LedgerInv, NEW t \in Trades, NEW p \in Prices,
         ApplyEntryFill(t, p) \/ ApplyPendingFill(t, p)
  PROVE  /\ DocsKept
         /\ trade[t].status \in {"absent", "PENDING"} /\ trade'[t].status = "OPEN"
         /\ trade'[t].entry = p
         /\ \A u \in Trades : u # t => trade'[u] = trade[u]
         /\ account' \in Account
         /\ account'.cash = account.cash + SignedCashDelta(t, p)
         /\ account'.realizedPnl = account.realizedPnl
         /\ account'.openTradeCount = account.openTradeCount + 1
<1> DEFINE old == trade[t]
<1>1. /\ old \in TradeDoc /\ Consistent(old) /\ trade \in [Trades -> TradeDoc]
      /\ account \in Account
      /\ old.status \in {"absent", "PENDING"}
      /\ p \in ExitPrices /\ p \in Int
  BY PriceType DEF LedgerInv, TypeOK, ApplyEntryFill, ApplyPendingFill, StillPending
<1>2. \A k \in RunKeys : old.runs[k].state = "ACTIVE"
  BY <1>1, RunKeysValue DEF Consistent
<1>3. PICK doc \in TradeDoc :
        /\ trade' = [trade EXCEPT ![t] = doc]
        /\ doc.status = "OPEN" /\ doc.entry = p /\ doc.exits = <<>>
        /\ \A k \in RunKeys : doc.runs[k].state = "ACTIVE"
  <2>1. CASE ApplyEntryFill(t, p)
    <3>1. PICK m \in {p, NoPrice} :
            trade' = [trade EXCEPT ![t] =
                        [AbsentTrade EXCEPT !.status = "OPEN", !.entry = p, !.lastMark = p, !.mark = m]]
      BY <2>1 DEF ApplyEntryFill
    <3> DEFINE doc == [AbsentTrade EXCEPT !.status = "OPEN", !.entry = p, !.lastMark = p, !.mark = m]
    <3>2. doc \in TradeDoc
      BY <1>1, AbsentTradeType DEF TradeDoc
    <3>3. doc.status = "OPEN" /\ doc.entry = p /\ doc.exits = <<>> /\ doc.runs = AbsentTrade.runs
      BY DEF AbsentTrade
    <3> QED
      BY <3>1, <3>2, <3>3, AbsentTradeType
  <2>2. CASE ApplyPendingFill(t, p)
    <3> DEFINE doc == [old EXCEPT !.status = "OPEN", !.entry = p, !.lastMark = p, !.mark = p]
    <3>1. trade' = [trade EXCEPT ![t] = doc]
      BY <1>1, <2>2 DEF ApplyPendingFill, TradeDoc
    <3>2. doc \in TradeDoc
      BY <1>1 DEF TradeDoc
    <3>3. doc.status = "OPEN" /\ doc.entry = p /\ doc.exits = <<>> /\ doc.runs = old.runs
      BY <1>1 DEF TradeDoc, Consistent
    <3> QED
      BY <1>2, <3>1, <3>2, <3>3
  <2> QED
    BY <2>1, <2>2
<1>4. Consistent(doc) /\ Forward(old, doc)
  BY <1>1, <1>2, <1>3, RunKeysValue DEF Consistent, Forward, Entered, FinalStatus
<1>5. DocsKept
  BY <1>3, <1>4, OneDocument
<1>6. /\ account' \in Account
      /\ account'.cash = account.cash + SignedCashDelta(t, p)
      /\ account'.realizedPnl = account.realizedPnl
      /\ account'.openTradeCount = account.openTradeCount + 1
  <2> DEFINE delta == SignedCashDelta(t, p)
             value == ValueAt(t, p)
  <2>1. delta \in Int /\ value \in Int
    BY <1>1, ArithmeticType
  <2>2. account.cash \in Int /\ account.equity \in Int /\ account.realizedPnl \in Int
        /\ account.openTradeCount \in Int
    BY <1>1 DEF Account
  <2>3. account' = [account EXCEPT !.cash = account.cash + delta,
                                   !.equity = account.equity + delta + value,
                                   !.realizedPnl = account.realizedPnl,
                                   !.openTradeCount = account.openTradeCount + 1]
    BY <1>1 DEF ApplyEntryFill, ApplyPendingFill, PostEntry, Account
  <2> HIDE DEF delta, value
  <2>4. /\ account.cash + delta \in Int /\ account.equity + delta + value \in Int
        /\ account.openTradeCount + 1 \in Int
    BY <2>1, <2>2
  <2>5. account \in Account
    BY <1>1
  <2>6. /\ account' \in Account
        /\ account'.cash = account.cash + delta
        /\ account'.realizedPnl = account.realizedPnl
        /\ account'.openTradeCount = account.openTradeCount + 1
    BY <2>2, <2>3, <2>4, <2>5 DEF Account
  <2> QED
    BY <2>6 DEF delta
<1>7. trade'[t] = doc /\ \A u \in Trades : u # t => trade'[u] = trade[u]
  BY <1>1, <1>3
<1> QED
  BY <1>1, <1>3, <1>5, <1>6, <1>7

\* A worthless expiry ends the trade and its governing run.
LEMMA PositionSettled ==
  ASSUME LedgerInv, NEW t \in Trades, MarkPositionSettled(t)
  PROVE  /\ DocsKept
         /\ trade[t].status = "OPEN" /\ trade'[t].status = "EXPIRED"
         /\ \A u \in Trades : u # t => trade'[u] = trade[u]
         /\ account' \in Account
         /\ account'.cash = account.cash
         /\ account'.realizedPnl = account.realizedPnl + SignedCashDelta(t, trade[t].entry)
         /\ account'.openTradeCount = IF account.openTradeCount >= 1
                                      THEN account.openTradeCount - 1 ELSE 0
<1> DEFINE old == trade[t]
           premium == SignedCashDelta(t, old.entry)
           doc == [old EXCEPT !.status = "EXPIRED", !.lastMark = 0,
                              !.realizedPnl = old.realizedPnl + premium,
                              !.runs = [old.runs EXCEPT !["governing"] = ExitedRun(0)]]
<1>1. /\ old \in TradeDoc /\ Consistent(old) /\ trade \in [Trades -> TradeDoc]
      /\ account \in Account
      /\ old.status = "OPEN" /\ old.runs["governing"].state = "ACTIVE"
  BY DEF LedgerInv, TypeOK, MarkPositionSettled, IsOpen, Consistent
<1>2. old.entry \in Int /\ old.lastMark \in Int /\ old.realizedPnl \in Int
  BY <1>1, PriceType DEF TradeDoc
<1>3. premium \in Int /\ PositionValue(t) \in Int
  BY <1>2, ArithmeticType DEF PositionValue
<1>4. trade' = [trade EXCEPT ![t] = doc]
  BY <1>1 DEF MarkPositionSettled, TradeDoc, ActiveRun
<1>5. doc \in TradeDoc
  <2>1. ExitedRun(0) \in RunDoc /\ 0 \in ExitPrices
    BY PriceType, ExitedRunType
  <2>2. old.realizedPnl + premium \in Int
    BY <1>2, <1>3
  <2> HIDE DEF premium
  <2> QED
    BY <1>1, <2>1, <2>2, RunKeysValue DEF TradeDoc, FinalStatus
<1>6. /\ doc.status = "EXPIRED" /\ doc.runs["governing"] = ExitedRun(0)
      /\ doc.runs["shadow"] = old.runs["shadow"]
  BY <1>1, RunKeysValue DEF TradeDoc
<1>7. Consistent(doc) /\ Forward(old, doc)
  BY <1>1, <1>6, RunKeysValue DEF Consistent, Forward, Entered, FinalStatus
<1>8. /\ account' \in Account
      /\ account'.cash = account.cash
      /\ account'.realizedPnl = account.realizedPnl + premium
      /\ account'.openTradeCount = IF account.openTradeCount >= 1
                                   THEN account.openTradeCount - 1 ELSE 0
  <2> DEFINE value == PositionValue(t)
             count == IF account.openTradeCount >= 1 THEN account.openTradeCount - 1 ELSE 0
  <2>1. account.cash \in Int /\ account.equity \in Int /\ account.realizedPnl \in Int
        /\ account.openTradeCount \in Int
    BY <1>1 DEF Account
  <2>2. Max({0, account.openTradeCount - 1}) = count
    BY <2>1, MaxOfCount
  <2>3. account' = [account EXCEPT !.cash = account.cash,
                                   !.equity = account.equity - value,
                                   !.realizedPnl = account.realizedPnl + premium,
                                   !.openTradeCount = count]
    BY <1>1, <2>2 DEF MarkPositionSettled, ExpiredAccount, Account
  <2>4. count \in Int
    BY <2>1
  <2> HIDE DEF premium, value, count
  <2>5. account.equity - value \in Int /\ account.realizedPnl + premium \in Int
    BY <1>3, <2>1 DEF value
  <2>6. /\ account' \in Account /\ account'.cash = account.cash
        /\ account'.realizedPnl = account.realizedPnl + premium
        /\ account'.openTradeCount = count
    BY <1>1, <2>1, <2>3, <2>4, <2>5 DEF Account
  <2> QED
    BY <2>6 DEF count
<1>9. trade'[t] = doc /\ \A u \in Trades : u # t => trade'[u] = trade[u]
  BY <1>1, <1>4
<1> HIDE DEF doc
<1>10. DocsKept
  BY <1>4, <1>5, <1>7, OneDocument
<1> QED
  BY <1>1, <1>6, <1>8, <1>9, <1>10 DEF premium

\* What the evaluation and a closer hold about the trade they work on.
LEMMA EvalFacts ==
  ASSUME LedgerInv, eval.pc # "idle"
  PROVE  /\ eval \in EvalState /\ eval.id \in Trades /\ eval.snap \in Snapshot
         /\ eval.todo \subseteq RunKeys /\ trade[eval.id].status \in Entered
         /\ eval.snap.status = "CLOSED" => /\ trade[eval.id].status = "CLOSED"
                                           /\ trade[eval.id].exits = eval.snap.exits
BY DEF LedgerInv, TypeOK, EvalState, EvalKnows

\* Every step of the specification writes documents as OneDocument wants it.
LEMMA StepDocs ==
  ASSUME LedgerInv, [Next]_vars PROVE DocsKept /\ account' \in Account
<1> USE DEF docs
<1>1. trade \in [Trades -> TradeDoc] /\ account \in Account
  BY DEF LedgerInv, TypeOK
<1>2. CASE UNCHANGED vars
  BY <1>1, <1>2, SameDocuments DEF vars
<1>3. ASSUME NEW t \in Trades, CreatePendingTrade(t) PROVE DocsKept /\ account' \in Account
  <2> DEFINE doc == [trade[t] EXCEPT !.status = "PENDING"]
  <2>1. trade' = [trade EXCEPT ![t] = doc] /\ trade[t].status = "absent"
    BY <1>1, <1>3 DEF CreatePendingTrade, TradeDoc
  <2>2. doc \in TradeDoc /\ Consistent(trade[t]) /\ doc = [trade[t] EXCEPT !.status = "PENDING"]
    BY <1>1 DEF TradeDoc, LedgerInv
  <2>3. doc.status = "PENDING" /\ doc.runs = trade[t].runs /\ doc.exits = trade[t].exits
    BY <1>1 DEF TradeDoc
  <2> HIDE DEF doc
  <2>4. Consistent(doc) /\ Forward(trade[t], doc)
    BY <2>1, <2>2, <2>3 DEF Consistent, Forward, Entered, FinalStatus
  <2> QED
    BY <1>1, <1>3, <2>1, <2>2, <2>4, OneDocument DEF CreatePendingTrade
<1>4. ASSUME NEW t \in Trades, CancelPendingTrade(t) PROVE DocsKept /\ account' \in Account
  <2> DEFINE runs == [k \in RunKeys |-> ExitedRun(NoPrice)]
             doc == [trade[t] EXCEPT !.status = "CANCELLED", !.runs = runs]
  <2>1. trade' = [trade EXCEPT ![t] = doc] /\ trade[t].status = "PENDING"
    BY <1>1, <1>4 DEF CancelPendingTrade, TradeDoc
  <2>2. runs \in [RunKeys -> RunDoc]
    BY ExitedRunType
  <2>3. doc \in TradeDoc
    BY <1>1, <2>2 DEF TradeDoc, FinalStatus
  <2>4. Consistent(trade[t]) /\ doc.status = "CANCELLED"
    BY <1>1 DEF LedgerInv, TradeDoc
  <2> HIDE DEF doc
  <2>5. Consistent(doc) /\ Forward(trade[t], doc)
    BY <2>1, <2>4, RunKeysValue DEF Consistent, Forward, Entered, FinalStatus
  <2> QED
    BY <1>1, <1>4, <2>1, <2>3, <2>5, OneDocument DEF CancelPendingTrade
<1>5. ASSUME NEW t \in Trades, NEW p \in Prices, MarkSignalTrade(t, p)
      PROVE  DocsKept /\ account' \in Account
  <2> DEFINE doc == [trade[t] EXCEPT !.lastMark = p, !.mark = p]
  <2>1. trade' = [trade EXCEPT ![t] = doc] /\ trade[t].status = "OPEN"
    BY <1>1, <1>5 DEF MarkSignalTrade, TradeDoc
  <2>2. doc \in TradeDoc
    BY <1>1, PriceType DEF TradeDoc
  <2>3. /\ Consistent(trade[t]) /\ doc.status = "OPEN" /\ doc.runs = trade[t].runs
        /\ doc.exits = trade[t].exits /\ doc.entry = trade[t].entry
    BY <1>1, <2>1 DEF LedgerInv, TradeDoc
  <2> HIDE DEF doc
  <2>4. Consistent(doc) /\ Forward(trade[t], doc)
    BY <2>1, <2>3 DEF Consistent, Forward, Entered, FinalStatus
  <2> QED
    BY <1>1, <1>5, <2>1, <2>2, <2>4, OneDocument DEF MarkSignalTrade
<1>6. CASE Trading
  BY <1>3, <1>4, <1>5, <1>6, EntryFilled DEF Trading
<1>7. ASSUME NEW c \in Closers, Close(c) PROVE DocsKept /\ account' \in Account
  <2>1. CASE \E t \in Trades : CloserRead(c, t)
    BY <1>1, <2>1, SameDocuments DEF CloserRead
  <2>2. CASE \E p \in ExitPrices : CloserExits(c, p)
    BY <2>2, ExitFilled DEF CloserExits, LedgerInv, TypeOK, CloserState
  <2>3. CASE CloserGivesUp(c) \/ CloserRecordFails(c)
    BY <1>1, <2>3, SameDocuments DEF CloserGivesUp, CloserRecordFails
  <2>4. CASE CloserRecords(c)
    <3> DEFINE t == closer[c].id
               r == ExitedRun(closer[c].price)
    <3>1. t \in Trades /\ closer[c].price \in ExitPrices
      BY DEF LedgerInv, TypeOK, CloserState
    <3>2. r \in RunDoc /\ r.price = closer[c].price
      BY <3>1, ExitedRunType
    <3>3. trade[t].status = "CLOSED" /\ trade[t].exits = <<r.price>>
      BY <2>4, <3>2 DEF CloserRecords, LedgerInv, CloserKnows
    <3>4. UpdateVariantRun(t, "governing", r) /\ account' = account
      BY <2>4 DEF CloserRecords
    <3> HIDE DEF r, t
    <3>5. DocsKept
      BY <3>1, <3>2, <3>3, <3>4, RunKeysValue, RunWritten DEF Entered
    <3> QED
      BY <1>1, <3>4, <3>5
  <2> QED
    BY <1>7, PriceType, <2>1, <2>2, <2>3, <2>4 DEF Close
<1>8. CASE SettleExpired
  <2>1. closer["settlement"].id \in Trades
    BY DEF LedgerInv, TypeOK, CloserState, Closers
  <2> QED
    BY <1>8, <2>1, PositionSettled DEF SettleExpired
<1>9. CASE (\E t \in Trades : EvalList(t)) \/ EvalRecordFails \/ EvalCrash
  BY <1>1, <1>9, SameDocuments DEF EvalList, EvalRecordFails, EvalCrash
<1>10. CASE Evaluate
  <2>1. ASSUME NEW k \in RunKeys, EvalHolds(k) PROVE DocsKept /\ account' \in Account
    <3> DEFINE r == eval.snap.runs[k]
    <3>1. eval.pc # "idle" /\ k \in eval.todo
      BY <2>1 DEF EvalHolds, Evaluates
    <3>2. r \in RunDoc /\ r.state = "ACTIVE"
      BY <3>1, EvalFacts DEF LedgerInv, EvalKnows, Snapshot
    <3>3. UpdateVariantRun(eval.id, k, r) /\ account' = account
      BY <2>1 DEF EvalHolds
    <3> HIDE DEF r
    <3> QED
      BY <1>1, <3>1, <3>2, <3>3, EvalFacts, RunWritten
  <2>2. CASE ShadowFires
    <3> DEFINE r == ExitedRun(eval.snap.mark)
    <3>1. eval.pc # "idle"
      BY <2>2 DEF ShadowFires, Evaluates
    <3>2. r \in RunDoc
      BY <3>1, EvalFacts, ExitedRunType, PriceType DEF Snapshot
    <3>3. UpdateVariantRun(eval.id, "shadow", r) /\ account' = account
      BY <2>2 DEF ShadowFires
    <3> HIDE DEF r
    <3> QED
      BY <1>1, <3>1, <3>2, <3>3, EvalFacts, RunWritten, RunKeysValue
  <2>3. CASE EvalExits
    <3>1. eval.id \in Trades /\ eval.snap.mark \in Prices
      BY <2>3, EvalFacts DEF EvalExits, LedgerInv, EvalKnows, Snapshot
    <3> QED
      BY <2>3, <3>1, PriceType, ExitFilled DEF EvalExits
  <2>4. CASE EvalRecords
    <3> DEFINE r == ExitedRun(eval.snap.mark)
    <3>1. eval.pc # "idle"
      BY <2>4 DEF EvalRecords
    <3>2. r \in RunDoc /\ r.price = eval.snap.mark
      BY <3>1, EvalFacts, ExitedRunType, PriceType DEF Snapshot
    <3>3. UpdateVariantRun(eval.id, "governing", r) /\ account' = account
      BY <2>4 DEF EvalRecords
    <3>4. trade[eval.id].status = "CLOSED" /\ trade[eval.id].exits = <<eval.snap.mark>>
      BY <2>4 DEF EvalRecords, LedgerInv, EvalKnows
    <3> HIDE DEF r
    <3> QED
      BY <1>1, <3>1, <3>2, <3>3, <3>4, EvalFacts, RunWritten, RunKeysValue
  <2>5. CASE EvalBackfills
    <3> DEFINE price == eval.snap.exits[1]
               r == ExitedRun(price)
    <3>1. eval.pc # "idle" /\ eval.snap.status = "CLOSED"
      BY <2>5 DEF EvalBackfills
    <3>2. PICK p \in ExitPrices : trade[eval.id].exits = <<p>>
      BY <3>1, EvalFacts DEF LedgerInv, Consistent
    <3>3. eval.snap.exits = <<p>> /\ price = p
      BY <3>1, <3>2, EvalFacts
    <3>4. r \in RunDoc /\ r.price = p
      BY <3>3, ExitedRunType, PriceType
    <3>5. UpdateVariantRun(eval.id, "governing", r) /\ account' = account
      BY <2>5 DEF EvalBackfills, BackfillPrice
    <3> HIDE DEF r, price
    <3> QED
      BY <1>1, <3>1, <3>2, <3>4, <3>5, EvalFacts, RunWritten, RunKeysValue
  <2>6. CASE (\E k \in RunKeys : EvalSkips(k)) \/ GoverningFires \/ EvalExitThrows \/ EvalDone
    BY <1>1, <2>6, SameDocuments DEF EvalSkips, GoverningFires, EvalExitThrows, EvalDone
  <2> QED
    BY <1>10, <2>1, <2>2, <2>3, <2>4, <2>5, <2>6 DEF Evaluate
<1> QED
  BY <1>2, <1>6, <1>7, <1>8, <1>9, <1>10 DEF Next

-----------------------------------------------------------------------------
(***************************************************************************)
(* What a step does to the parties, and what they then know.               *)
(***************************************************************************)
LEMMA StepClosers ==
  ASSUME LedgerInv, [Next]_vars
  PROVE  closer' \in [Closers -> CloserState] /\ CloserKnows'
<1> USE DEF docs
<1>1. closer \in [Closers -> CloserState]
  BY DEF LedgerInv, TypeOK
<1>2. DocsKept
  BY StepDocs
<1> DEFINE Good ==
      /\ closer' \in [Closers -> CloserState]
      /\ \A c \in Closers : closer'[c].pc = "record" =>
           \/ closer'[c] = closer[c]
           \/ /\ trade'[closer'[c].id].status = "CLOSED"
              /\ trade'[closer'[c].id].exits = <<closer'[c].price>>
<1>3. Good
  <2>1. CASE UNCHANGED closer
    BY <1>1, <2>1
  <2>2. ASSUME NEW c \in Closers, closer' = [closer EXCEPT ![c] = IdleCloser]
        PROVE  Good
    BY <1>1, <2>2, IdleType
  <2>3. ASSUME NEW c \in Closers, NEW t \in Trades, CloserRead(c, t) PROVE Good
    <3> DEFINE new == [IdleCloser EXCEPT !.pc = "close", !.id = t]
    <3>1. new \in CloserState /\ new.pc = "close"
      BY IdleType DEF CloserState
    <3>2. closer' = [closer EXCEPT ![c] = new]
      BY <2>3 DEF CloserRead
    <3> HIDE DEF new
    <3> QED
      BY <1>1, <3>1, <3>2
  <2>4. ASSUME NEW c \in Closers, NEW p \in ExitPrices, CloserExits(c, p) PROVE Good
    <3> DEFINE new == [closer[c] EXCEPT !.pc = "record", !.price = p]
    <3>1. closer[c].id \in Trades /\ new \in CloserState
      BY <1>1, PriceType DEF CloserState
    <3>2. new.id = closer[c].id /\ new.price = p
      BY <1>1 DEF CloserState
    <3>3. closer' = [closer EXCEPT ![c] = new]
      BY <1>1, <2>4 DEF CloserExits, CloserState
    <3>4. /\ trade'[closer[c].id].status = "CLOSED"
          /\ trade'[closer[c].id].exits = <<p>>
      BY <2>4, <3>1, ExitFilled DEF CloserExits
    <3> HIDE DEF new
    <3> QED
      BY <1>1, <3>1, <3>2, <3>3, <3>4
  <2>5. ASSUME NEW c \in Closers, Close(c) PROVE Good
    BY <2>2, <2>3, <2>4, <2>5, PriceType
    DEF Close, CloserGivesUp, CloserRecords, CloserRecordFails
  <2>6. CASE SettleExpired
    BY <2>2, <2>6 DEF SettleExpired, Closers
  <2>7. CASE Trading \/ (\E t \in Trades : EvalList(t)) \/ EvalRecordFails \/ EvalCrash
    BY <2>1, <2>7 DEF Trading, CreatePendingTrade, CancelPendingTrade, ApplyEntryFill,
      ApplyPendingFill, MarkSignalTrade, EvalList, EvalRecordFails, EvalCrash
  <2>8. CASE Evaluate
    BY <2>1, <2>8 DEF Evaluate, EvalSkips, EvalHolds, ShadowFires, GoverningFires, EvalExits,
      EvalExitThrows, EvalRecords, EvalBackfills, EvalDone
  <2>9. CASE UNCHANGED vars
    BY <2>1, <2>9 DEF vars
  <2> QED
    BY <2>5, <2>6, <2>7, <2>8, <2>9 DEF Next
<1>4. CloserKnows'
  <2> SUFFICES ASSUME NEW c \in Closers, closer'[c].pc = "record"
               PROVE  /\ trade'[closer'[c].id].status = "CLOSED"
                      /\ trade'[closer'[c].id].exits = <<closer'[c].price>>
    BY DEF CloserKnows
  <2>1. CASE closer'[c] = closer[c]
    <3>1. /\ trade[closer[c].id].status = "CLOSED"
          /\ trade[closer[c].id].exits = <<closer[c].price>> /\ closer[c].id \in Trades
      BY <1>1, <2>1 DEF LedgerInv, CloserKnows, CloserState
    <3>2. Forward(trade[closer[c].id], trade'[closer[c].id])
      BY <1>2, <3>1 DEF DocsKept
    <3> QED
      BY <2>1, <3>1, <3>2 DEF Forward
  <2> QED
    BY <1>3, <2>1
<1> QED
  BY <1>3, <1>4

\* The evaluation's copy was listed as the documents were, and they only went
\* forward since.
LEMMA StepEval ==
  ASSUME LedgerInv, [Next]_vars PROVE eval' \in EvalState /\ EvalKnows'
<1> USE DEF docs
<1>1. eval \in EvalState /\ trade \in [Trades -> TradeDoc]
  BY DEF LedgerInv, TypeOK
<1>2. DocsKept
  BY StepDocs
<1> DEFINE Good == eval' \in EvalState /\ EvalKnows'
           id == eval.id
<1>3. ASSUME eval.pc # "idle"
      PROVE  /\ id \in Trades /\ trade'[id].status \in Entered
             /\ eval.snap.status = "CLOSED" => /\ trade'[id].status = "CLOSED"
                                               /\ trade'[id].exits = eval.snap.exits
             /\ trade[id].status = "CLOSED" => /\ trade'[id].status = "CLOSED"
                                               /\ trade'[id].exits = trade[id].exits
  <2>1. id \in Trades /\ Forward(trade[id], trade'[id])
    BY <1>2, <1>3, EvalFacts DEF DocsKept
  <2> QED
    BY <1>3, <2>1, EvalFacts DEF Forward
<1>4. CASE UNCHANGED eval
  BY <1>1, <1>3, <1>4 DEF LedgerInv, EvalKnows
<1>5. CASE eval' = IdleEval
  BY <1>5, IdleType DEF EvalKnows
<1>6. ASSUME NEW k \in RunKeys, EvalPast(k), eval.pc # "idle" PROVE Good
  <2>1. /\ eval'.pc = "runs" /\ eval'.id = id /\ eval'.snap = eval.snap
        /\ eval'.todo = eval.todo \ {k} /\ eval' \in EvalState
    BY <1>1, <1>6 DEF EvalPast, EvalState
  <2> QED
    BY <1>3, <1>6, <2>1 DEF LedgerInv, EvalKnows
<1>7. ASSUME NEW t \in Trades, EvalList(t) PROVE Good
  <2>1. /\ eval'.pc = "runs" /\ eval'.id = t /\ eval'.snap = SnapshotOf(trade[t])
        /\ eval'.todo = ActiveRuns(trade[t]) /\ trade' = trade
        /\ trade[t].status \in {"OPEN", "CLOSED"}
    BY <1>7 DEF EvalList, Candidates
  <2>2. SnapshotOf(trade[t]) \in Snapshot
    BY <1>1, <2>1 DEF SnapshotOf, Snapshot, TradeDoc
  <2>3. eval' \in EvalState
    BY <1>7, <2>2 DEF EvalList, EvalState, ActiveRuns
  <2> QED
    BY <2>1, <2>3 DEF EvalKnows, SnapshotOf, ActiveRuns, Entered
<1>8. CASE GoverningFires
  <2>1. /\ eval'.pc = "exit" /\ eval'.id = id /\ eval'.snap = eval.snap
        /\ eval'.todo = eval.todo /\ eval' \in EvalState /\ eval.snap.mark # NoPrice
        /\ eval.pc # "idle" /\ trade' = trade
    BY <1>1, <1>8 DEF GoverningFires, Evaluates, EvalState
  <2> QED
    BY <1>3, <2>1 DEF LedgerInv, EvalKnows
<1>9. CASE EvalExits
  <2>1. /\ eval'.pc = "record" /\ eval'.id = id /\ eval'.snap = eval.snap
        /\ eval'.todo = eval.todo /\ eval' \in EvalState /\ eval.pc = "exit"
    BY <1>1, <1>9 DEF EvalExits, EvalState
  <2>2. eval.snap.mark \in Prices /\ id \in Trades /\ eval.snap.mark # NoPrice
    BY <2>1, EvalFacts DEF LedgerInv, EvalKnows, Snapshot
  <2>3. trade'[id].status = "CLOSED" /\ trade'[id].exits = <<eval.snap.mark>>
    BY <1>9, <2>2, PriceType, ExitFilled DEF EvalExits
  <2> QED
    BY <1>3, <2>1, <2>2, <2>3 DEF LedgerInv, EvalKnows
<1>10. CASE Evaluate
  <2>1. CASE \E k \in RunKeys : EvalSkips(k) \/ EvalHolds(k)
    BY <1>6, <2>1 DEF EvalSkips, EvalHolds, Evaluates
  <2>2. CASE ShadowFires
    BY <1>6, <2>2, RunKeysValue DEF ShadowFires, Evaluates
  <2>3. CASE EvalExitThrows \/ EvalRecords \/ EvalBackfills
    BY <1>6, <2>3, RunKeysValue DEF EvalExitThrows, EvalRecords, EvalBackfills
  <2>4. CASE EvalDone
    BY <1>5, <2>4 DEF EvalDone
  <2> QED
    BY <1>8, <1>9, <1>10, <2>1, <2>2, <2>3, <2>4 DEF Evaluate
<1>11. CASE EvalRecordFails \/ EvalCrash
  BY <1>5, <1>6, <1>11, RunKeysValue DEF EvalRecordFails, EvalCrash
<1>12. CASE Trading \/ (\E c \in Closers : Close(c)) \/ SettleExpired \/ UNCHANGED vars
  BY <1>4, <1>12 DEF Trading, CreatePendingTrade, CancelPendingTrade, ApplyEntryFill,
    ApplyPendingFill, MarkSignalTrade, Close, CloserRead, CloserExits, CloserGivesUp,
    CloserRecords, CloserRecordFails, SettleExpired, vars
<1> QED
  BY <1>7, <1>10, <1>11, <1>12 DEF Next

LEMMA StepLedger == LedgerInv /\ [Next]_vars => LedgerInv'
BY StepDocs, StepClosers, StepEval DEF LedgerInv, TypeOK, DocsKept

\* The invariant of the documents and of what the parties know about them.
THEOREM LedgerInvariant == Spec => []LedgerInv
BY InitLedger, StepLedger, PTL DEF Spec

\* Every variable keeps its shape, whatever the sides and the prices.
THEOREM TypeCorrect == Spec => []TypeOK
<1>1. LedgerInv => TypeOK
  BY DEF LedgerInv
<1> QED
  BY <1>1, LedgerInvariant, PTL

\* The governing run ends with the price the trade was closed at, whichever of
\* the close, the settlement, the evaluation and its backfill wrote it.
THEOREM GoverningRunIsHonest == Spec => []GoverningRunHonest
<1>1. ASSUME LedgerInv PROVE GoverningRunHonest
  <2> SUFFICES ASSUME NEW t \in Trades PROVE Consistent(trade[t]) => GoverningRunHonest!(t)
    BY <1>1 DEF LedgerInv, GoverningRunHonest
  <2> QED
    BY DEF Consistent
<1> QED
  BY <1>1, LedgerInvariant, PTL

\* No step moves a trade that is over, but for its variant runs.
THEOREM FinalTradesFrozen == Spec => FinalTradeFrozen
<1>1. ASSUME LedgerInv, [Next]_vars, NEW t \in Trades, trade[t].status \in FinalStatus
      PROVE  trade'[t] = [trade[t] EXCEPT !.runs = trade'[t].runs]
  BY <1>1, StepDocs DEF DocsKept, Forward
<1>2. LedgerInv /\ [Next]_vars =>
        [\A t \in Trades : trade[t].status \in FinalStatus =>
           trade'[t] = [trade[t] EXCEPT !.runs = trade'[t].runs]]_vars
  BY <1>1
<1> QED
  BY <1>2, LedgerInvariant, PTL DEF Spec, FinalTradeFrozen

\* No step moves a run that EXITED, whoever still holds it as ACTIVE.
THEOREM ExitedRunsStay == Spec => ExitedRunStays
<1>1. ASSUME LedgerInv, [Next]_vars, NEW t \in Trades, NEW k \in RunKeys,
             trade[t].runs[k].state = "EXITED"
      PROVE  trade'[t].runs[k] = trade[t].runs[k]
  BY <1>1, StepDocs DEF DocsKept, Forward
<1>2. LedgerInv /\ [Next]_vars =>
        [\A t \in Trades, k \in RunKeys : trade[t].runs[k].state = "EXITED" =>
           trade'[t].runs[k] = trade[t].runs[k]]_vars
  BY <1>1
<1> QED
  BY <1>2, LedgerInvariant, PTL DEF Spec, ExitedRunStays

-----------------------------------------------------------------------------
(***************************************************************************)
(* Sums over a finite set.  MapThenSumSet is defined by recursion on the   *)
(* subsets; inductions on their number of elements go by the least         *)
(* counterexample.                                                         *)
(***************************************************************************)
LEMMA LeastNumber ==
  ASSUME NEW T \in SUBSET Nat, T # {} PROVE \E x \in T : \A y \in T : ~(y < x)
<1> DEFINE R == {ss \in Nat \X Nat : ss[1] < ss[2]}
<1>1. IsWellFoundedOn(R, Nat)
  BY NatLessThanWellFounded, Zenon DEF OpToRel
<1> HIDE DEF R
<1>2. PICK x \in T : \A y \in T : <<y, x>> \notin R
  BY <1>1, WFMin
<1> QED
  BY <1>2 DEF R

\* The table h gives every subset of S the sum of its weights.
Additive(h, w, S) ==
  /\ h \in [SUBSET S -> Int]
  /\ h[{}] = 0
  /\ \A U \in SUBSET S : \A x \in S \ U : h[U \cup {x}] = h[U] + w[x]

\* The table MapThenSumSet chooses, and the sum it reads from it.
IsTable(g, w, S) ==
  g = [U \in SUBSET S |-> IF U = {} THEN 0
                          ELSE LET x == CHOOSE x \in U : TRUE IN w[x] + g[U \ {x}]]

Total(w, S) == (CHOOSE g : IsTable(g, w, S))[S]

LEMMA AdditiveExists ==
  ASSUME NEW S, IsFiniteSet(S), NEW w \in [S -> Int] PROVE \E h : Additive(h, w, S)
<1> DEFINE Bad(R) == ~ \E h : Additive(h, w, R)
           T == {n \in Nat : \E R \in SUBSET S : n = Cardinality(R) /\ Bad(R)}
<1>1. SUFFICES ASSUME Bad(S) PROVE FALSE
  OBVIOUS
<1>2. Cardinality(S) \in T
  BY <1>1, FS_CardinalityType
<1>3. PICK n \in T : \A m \in T : ~(m < n)
  BY <1>2, LeastNumber
<1>4. PICK R \in SUBSET S : n = Cardinality(R) /\ Bad(R)
  BY <1>3
<1>5. R # {}
  <2>1. Additive([U \in SUBSET {} |-> 0], w, {})
    BY DEF Additive
  <2> QED
    BY <1>4, <2>1
<1>6. PICK x \in R : TRUE
  BY <1>5
<1> DEFINE Q == R \ {x}
<1>7. Cardinality(Q) \in Nat /\ Cardinality(Q) < n
  <2>1. IsFiniteSet(R)
    BY FS_Subset
  <2>2. Cardinality(Q) = n - 1
    BY <1>4, <1>6, <2>1, FS_RemoveElement
  <2>3. Cardinality(Q) \in Nat
    BY <2>1, FS_Subset, FS_CardinalityType
  <2> QED
    BY <2>2, <2>3
<1>8. ~ Bad(Q)
  <2>1. Cardinality(Q) \notin T
    BY <1>3, <1>7
  <2> QED
    BY <1>7, <2>1
<1>9. PICK h : Additive(h, w, Q)
  BY <1>8
<1> DEFINE g == [U \in SUBSET R |-> IF x \in U THEN h[U \ {x}] + w[x] ELSE h[U \ {x}]]
<1>10. w[x] \in Int /\ \A U \in SUBSET R : U \ {x} \in SUBSET Q /\ h[U \ {x}] \in Int
  BY <1>6, <1>9 DEF Additive
<1>11. g \in [SUBSET R -> Int] /\ g[{}] = 0
  <2>1. g \in [SUBSET R -> Int]
    BY <1>10
  <2>2. {} \ {x} = {} /\ {} \in SUBSET R /\ x \notin {}
    OBVIOUS
  <2>3. g[{}] = h[{}]
    BY <2>2, <1>9 DEF Additive
  <2> QED
    BY <1>9, <2>1, <2>3 DEF Additive
<1>12. /\ \A U \in SUBSET R : x \in U => g[U] = h[U \ {x}] + w[x]
       /\ \A U \in SUBSET R : x \notin U => g[U] = h[U \ {x}]
  OBVIOUS
<1> HIDE DEF g
<1>13. ASSUME NEW U \in SUBSET R, NEW y \in R \ U PROVE g[U \cup {y}] = g[U] + w[y]
  <2>1. U \cup {y} \in SUBSET R /\ w[y] \in Int
    OBVIOUS
  <2>2. CASE y = x
    <3>1. (U \cup {y}) \ {x} = U \ {x} /\ x \in U \cup {y} /\ x \notin U
      BY <2>2
    <3>2. g[U \cup {y}] = h[U \ {x}] + w[x] /\ g[U] = h[U \ {x}]
      BY <1>12, <2>1, <3>1
    <3> QED
      BY <2>2, <3>2
  <2>3. CASE y # x
    <3>1. (U \cup {y}) \ {x} = (U \ {x}) \cup {y} /\ (x \in U \cup {y} <=> x \in U)
      BY <2>3
    <3>2. h[(U \ {x}) \cup {y}] = h[U \ {x}] + w[y]
      BY <1>9, <1>10, <2>3 DEF Additive
    <3>3. CASE x \in U
      <4>1. g[U \cup {y}] = (h[U \ {x}] + w[y]) + w[x] /\ g[U] = h[U \ {x}] + w[x]
        BY <1>12, <2>1, <3>1, <3>2, <3>3
      <4> QED
        BY <1>10, <2>1, <4>1
    <3>4. CASE x \notin U
      BY <1>12, <2>1, <3>1, <3>2, <3>4
    <3> QED
      BY <3>3, <3>4
  <2> QED
    BY <2>2, <2>3
<1>14. Additive(g, w, R)
  BY <1>11, <1>13 DEF Additive
<1> QED
  BY <1>4, <1>14

\* The recursion has one solution, the additive table.
LEMMA TotalValue ==
  ASSUME NEW S, IsFiniteSet(S), NEW w \in [S -> Int], NEW h, Additive(h, w, S) PROVE Total(w, S) = h[S]
<1>1. ASSUME NEW U \in SUBSET S, U # {}
      PROVE  LET x == CHOOSE x \in U : TRUE IN x \in U /\ h[U] = w[x] + h[U \ {x}]
  <2> DEFINE x == CHOOSE x \in U : TRUE
  <2>1. x \in U
    BY <1>1
  <2> HIDE DEF x
  <2>2. U \ {x} \in SUBSET S /\ x \in S \ (U \ {x}) /\ (U \ {x}) \cup {x} = U
    BY <2>1
  <2>3. h[U] = h[U \ {x}] + w[x] /\ w[x] \in Int /\ h[U \ {x}] \in Int
    BY <2>1, <2>2 DEF Additive
  <2>4. h[U] = w[x] + h[U \ {x}]
    BY <2>3
  <2> QED
    BY <2>1, <2>4 DEF x
<1>2. IsTable(h, w, S)
  <2> DEFINE f == [U \in SUBSET S |-> IF U = {} THEN 0
                     ELSE LET x == CHOOSE x \in U : TRUE IN w[x] + h[U \ {x}]]
  <2>1. \A U \in SUBSET S : h[U] = f[U]
    BY <1>1 DEF Additive
  <2> QED
    BY <2>1 DEF Additive, IsTable
<1> DEFINE g == CHOOSE g : IsTable(g, w, S)
<1>3. IsTable(g, w, S)
  BY <1>2
<1> HIDE DEF g
<1> DEFINE T == {n \in Nat : \E U \in SUBSET S : n = Cardinality(U) /\ g[U] # h[U]}
<1>4. SUFFICES ASSUME g[S] # h[S] PROVE FALSE
  BY DEF Total, g
<1>5. PICK n \in T : \A m \in T : ~(m < n)
  <2>1. Cardinality(S) \in T
    BY <1>4, FS_CardinalityType
  <2> QED
    BY <2>1, LeastNumber
<1>6. PICK U \in SUBSET S : n = Cardinality(U) /\ g[U] # h[U]
  BY <1>5
<1>7. U # {}
  BY <1>3, <1>6 DEF IsTable, Additive
<1> DEFINE x == CHOOSE x \in U : TRUE
<1>8. x \in U /\ h[U] = w[x] + h[U \ {x}]
  BY <1>1, <1>7
<1>9. g[U] = w[x] + g[U \ {x}]
  BY <1>3, <1>7 DEF IsTable
<1> HIDE DEF x
<1>10. U \ {x} \in SUBSET S /\ g[U \ {x}] # h[U \ {x}]
  BY <1>6, <1>8, <1>9
<1>11. Cardinality(U \ {x}) \in Nat /\ Cardinality(U \ {x}) < n
  <2>1. IsFiniteSet(U) /\ IsFiniteSet(U \ {x})
    BY FS_Subset
  <2>2. Cardinality(U \ {x}) = n - 1
    BY <1>6, <1>8, <2>1, FS_RemoveElement
  <2>3. Cardinality(U \ {x}) \in Nat
    BY <2>1, FS_CardinalityType
  <2> QED
    BY <2>2, <2>3
<1> QED
  BY <1>5, <1>10, <1>11

\* Weights that agree with w on a subset sum to what w's table says of it.
LEMMA AdditiveTable ==
  ASSUME NEW S, IsFiniteSet(S), NEW w \in [S -> Int]
  PROVE  \E h : /\ Additive(h, w, S)
                /\ \A U \in SUBSET S : \A v : (v \in [U -> Int] /\ \A x \in U : v[x] = w[x])
                     => Total(v, U) = h[U]
<1>1. PICK h : Additive(h, w, S)
  BY AdditiveExists
<1>2. ASSUME NEW U \in SUBSET S, NEW v \in [U -> Int], \A x \in U : v[x] = w[x]
      PROVE  Total(v, U) = h[U]
  <2> DEFINE g == [V \in SUBSET U |-> h[V]]
  <2>1. IsFiniteSet(U)
    BY FS_Subset
  <2>2. g \in [SUBSET U -> Int] /\ g[{}] = 0 /\ g[U] = h[U]
    BY <1>1 DEF Additive
  <2>3. ASSUME NEW V \in SUBSET U, NEW x \in U \ V PROVE g[V \cup {x}] = g[V] + v[x]
    <3>1. h[V \cup {x}] = h[V] + w[x]
      BY <1>1 DEF Additive
    <3> QED
      BY <1>2, <3>1
  <2> HIDE DEF g
  <2>4. Additive(g, v, U)
    BY <2>2, <2>3 DEF Additive
  <2> QED
    BY <2>1, <2>2, <2>4, TotalValue
<1> QED
  BY <1>1, <1>2

-----------------------------------------------------------------------------
(***************************************************************************)
(* The cash of the account.                                                *)
(***************************************************************************)
EntryCash == MapThenSumSet(LAMBDA t : SignedCashDelta(t, trade[t].entry), OpenTrades)

EntryDelta == [t \in Trades |-> SignedCashDelta(t, trade[t].entry)]
OpenDelta == [t \in OpenTrades |-> SignedCashDelta(t, trade[t].entry)]

LEMMA EntryCashTotal == EntryCash = Total(OpenDelta, OpenTrades)
BY DEF EntryCash, MapThenSumSet, MapThenFoldSet, Total, IsTable, OpenDelta

\* What the entry cash of the open trades is made of.
CashFacts ==
  /\ EntryDelta \in [Trades -> Int] /\ IsFiniteSet(OpenTrades)
  /\ OpenTrades \subseteq Trades /\ OpenDelta \in [OpenTrades -> Int]
  /\ account.cash \in Int /\ account.realizedPnl \in Int
  /\ \A t \in OpenTrades : OpenDelta[t] = EntryDelta[t]
  /\ EntryCash = Total(OpenDelta, OpenTrades)

LEMMA CashNow == LedgerInv => CashFacts
<1> SUFFICES ASSUME LedgerInv PROVE CashFacts
  OBVIOUS
<1>1. \A t \in Trades : trade[t].entry \in Int
  BY PriceType DEF LedgerInv, TypeOK, TradeDoc
<1>2. \A t \in Trades : SignedCashDelta(t, trade[t].entry) \in Int
  BY <1>1, ArithmeticType
<1>3. IsFiniteSet(OpenTrades)
  BY TradesAssumption, FS_Subset DEF OpenTrades
<1>4. /\ EntryDelta \in [Trades -> Int] /\ OpenTrades \subseteq Trades
      /\ OpenDelta \in [OpenTrades -> Int]
      /\ \A t \in OpenTrades : OpenDelta[t] = EntryDelta[t]
  BY <1>2 DEF EntryDelta, OpenDelta, OpenTrades
<1>5. account.cash \in Int /\ account.realizedPnl \in Int
  BY DEF LedgerInv, TypeOK, Account
<1> QED
  BY <1>3, <1>4, <1>5, EntryCashTotal DEF CashFacts

LEMMA CashNext == LedgerInv' => CashFacts'
BY CashNow, PTL

\* The trades that are open stay open as they were entered.
LEMMA CashKept ==
  ASSUME LedgerInv, LedgerInv', CashMatchesPnl, account' = account,
         \A t \in Trades : /\ trade'[t].status = "OPEN" <=> trade[t].status = "OPEN"
                           /\ trade[t].status = "OPEN" => trade'[t].entry = trade[t].entry
  PROVE  CashMatchesPnl'
<1>1. OpenTrades' = OpenTrades
  BY DEF OpenTrades
<1>2. OpenDelta' = OpenDelta
  BY <1>1 DEF OpenDelta, OpenTrades
<1>3. EntryCash' = EntryCash
  BY <1>1, <1>2, CashNow, CashNext DEF CashFacts
<1> QED
  BY <1>1, <1>3 DEF CashMatchesPnl, EntryCash

\* A trade enters: the account moves by its entry cash, and counts it.
LEMMA CashEntered ==
  ASSUME LedgerInv, LedgerInv', CashMatchesPnl, NEW t \in Trades,
         trade[t].status # "OPEN", trade'[t].status = "OPEN",
         \A u \in Trades : u # t => trade'[u] = trade[u],
         account'.cash = account.cash + EntryDelta'[t],
         account'.realizedPnl = account.realizedPnl,
         account'.openTradeCount = account.openTradeCount + 1
  PROVE  CashMatchesPnl'
<1>1. OpenTrades' = OpenTrades \cup {t} /\ t \notin OpenTrades
  BY DEF OpenTrades
<1>2. /\ EntryDelta \in [Trades -> Int] /\ IsFiniteSet(OpenTrades)
      /\ OpenTrades \subseteq Trades /\ OpenDelta \in [OpenTrades -> Int]
      /\ account.cash \in Int /\ account.realizedPnl \in Int
      /\ \A u \in OpenTrades : OpenDelta[u] = EntryDelta[u]
      /\ EntryCash = Total(OpenDelta, OpenTrades)
  BY CashNow DEF CashFacts
<1>3. /\ EntryDelta' \in [Trades -> Int] /\ OpenDelta' \in [OpenTrades' -> Int]
      /\ \A u \in OpenTrades' : OpenDelta'[u] = EntryDelta'[u]
      /\ EntryCash' = Total(OpenDelta', OpenTrades')
  BY CashNext DEF CashFacts
<1>4. \A u \in OpenTrades : OpenDelta[u] = EntryDelta'[u]
  BY <1>1, <1>2 DEF EntryDelta
<1>5. PICK h : /\ Additive(h, EntryDelta', Trades)
               /\ \A U \in SUBSET Trades : \A v :
                    (v \in [U -> Int] /\ \A x \in U : v[x] = EntryDelta'[x]) => Total(v, U) = h[U]
  BY <1>3, TradesAssumption, AdditiveTable
<1>6. EntryCash = h[OpenTrades]
  BY <1>2, <1>4, <1>5
<1>7. EntryCash' = h[OpenTrades']
  BY <1>1, <1>2, <1>3, <1>5
<1>8. h[OpenTrades'] = h[OpenTrades] + EntryDelta'[t] /\ h[OpenTrades] \in Int
      /\ EntryDelta'[t] \in Int
  BY <1>1, <1>2, <1>3, <1>5 DEF Additive
<1>9. Cardinality(OpenTrades') = Cardinality(OpenTrades) + 1
  BY <1>1, <1>2, FS_AddElement
<1>10. account.cash = account.realizedPnl + EntryCash
       /\ account.openTradeCount = Cardinality(OpenTrades)
  BY DEF CashMatchesPnl, EntryCash
<1>11. account'.cash = account'.realizedPnl + EntryCash'
  BY <1>2, <1>6, <1>7, <1>8, <1>10
<1>12. account'.openTradeCount = Cardinality(OpenTrades')
  BY <1>9, <1>10
<1> QED
  BY <1>11, <1>12 DEF CashMatchesPnl, EntryCash

\* A trade leaves: what cash and realized P&L move apart by is its entry cash.
LEMMA CashLeft ==
  ASSUME LedgerInv, LedgerInv', CashMatchesPnl, NEW t \in Trades,
         trade[t].status = "OPEN", trade'[t].status # "OPEN",
         \A u \in Trades : u # t => trade'[u] = trade[u],
         account'.cash - account'.realizedPnl
           = account.cash - account.realizedPnl - EntryDelta[t],
         account.openTradeCount >= 1 =>
           account'.openTradeCount = account.openTradeCount - 1
  PROVE  CashMatchesPnl'
<1>1. OpenTrades' = OpenTrades \ {t} /\ t \in OpenTrades
  BY DEF OpenTrades
<1>2. /\ EntryDelta \in [Trades -> Int] /\ IsFiniteSet(OpenTrades)
      /\ OpenTrades \subseteq Trades /\ OpenDelta \in [OpenTrades -> Int]
      /\ account.cash \in Int /\ account.realizedPnl \in Int
      /\ \A u \in OpenTrades : OpenDelta[u] = EntryDelta[u]
      /\ EntryCash = Total(OpenDelta, OpenTrades)
  BY CashNow DEF CashFacts
<1>3. /\ OpenDelta' \in [OpenTrades' -> Int] /\ IsFiniteSet(OpenTrades')
      /\ account'.cash \in Int /\ account'.realizedPnl \in Int
      /\ \A u \in OpenTrades' : OpenDelta'[u] = EntryDelta'[u]
      /\ EntryCash' = Total(OpenDelta', OpenTrades')
  BY CashNext DEF CashFacts
<1>4. \A u \in OpenTrades' : OpenDelta'[u] = EntryDelta[u]
  BY <1>1, <1>2, <1>3 DEF EntryDelta
<1>5. PICK h : /\ Additive(h, EntryDelta, Trades)
               /\ \A U \in SUBSET Trades : \A v :
                    (v \in [U -> Int] /\ \A x \in U : v[x] = EntryDelta[x]) => Total(v, U) = h[U]
  BY <1>2, TradesAssumption, AdditiveTable
<1>6. EntryCash = h[OpenTrades]
  BY <1>2, <1>5
<1>7. EntryCash' = h[OpenTrades']
  BY <1>1, <1>2, <1>3, <1>4, <1>5
<1>8. h[OpenTrades] = h[OpenTrades'] + EntryDelta[t] /\ h[OpenTrades'] \in Int
      /\ EntryDelta[t] \in Int
  <2>1. OpenTrades' \cup {t} = OpenTrades /\ OpenTrades' \in SUBSET Trades
        /\ t \in Trades \ OpenTrades'
    BY <1>1, <1>2
  <2> QED
    BY <1>2, <1>5, <2>1 DEF Additive
<1>9. Cardinality(OpenTrades') = Cardinality(OpenTrades) - 1 /\ Cardinality(OpenTrades) >= 1
  <2>1. Cardinality(OpenTrades') = Cardinality(OpenTrades) - 1
    BY <1>1, <1>2, FS_RemoveElement
  <2>2. Cardinality(OpenTrades) \in Nat /\ Cardinality(OpenTrades') \in Nat
    BY <1>2, <1>3, FS_CardinalityType
  <2> QED
    BY <2>1, <2>2
<1>10. account.cash = account.realizedPnl + EntryCash
       /\ account.openTradeCount = Cardinality(OpenTrades)
  BY DEF CashMatchesPnl, EntryCash
<1>11. account'.cash = account'.realizedPnl + EntryCash'
  BY <1>2, <1>3, <1>6, <1>7, <1>8, <1>10
<1>12. account'.openTradeCount = Cardinality(OpenTrades')
  BY <1>9, <1>10
<1> QED
  BY <1>11, <1>12 DEF CashMatchesPnl, EntryCash

LEMMA InitCash == Init => CashMatchesPnl
<1> SUFFICES ASSUME Init PROVE CashMatchesPnl
  OBVIOUS
<1>1. OpenTrades = {}
  BY DEF Init, OpenTrades, AbsentTrade
<1>2. EntryCash = 0
  <2>1. CashFacts
    BY InitLedger, CashNow
  <2>2. PICK h : /\ Additive(h, EntryDelta, Trades)
                 /\ \A U \in SUBSET Trades : \A v :
                      (v \in [U -> Int] /\ \A x \in U : v[x] = EntryDelta[x]) => Total(v, U) = h[U]
    BY <2>1, TradesAssumption, AdditiveTable DEF CashFacts
  <2> QED
    BY <1>1, <2>1, <2>2 DEF CashFacts, Additive
<1> QED
  BY <1>1, <1>2, FS_EmptySet DEF Init, CashMatchesPnl, EntryCash

LEMMA StepCash ==
  ASSUME LedgerInv, [Next]_vars, CashMatchesPnl PROVE CashMatchesPnl'
<1> USE DEF docs
<1>1. LedgerInv'
  BY StepLedger
<1>2. account \in Account /\ trade \in [Trades -> TradeDoc]
  BY DEF LedgerInv, TypeOK
<1>3. CASE account' = account /\ trade' = trade
  BY <1>1, <1>3, CashKept
<1>4. ASSUME NEW t \in Trades, NEW p \in Prices, ApplyEntryFill(t, p) \/ ApplyPendingFill(t, p)
      PROVE  CashMatchesPnl'
  <2>1. /\ trade[t].status # "OPEN" /\ trade'[t].status = "OPEN" /\ trade'[t].entry = p
        /\ \A u \in Trades : u # t => trade'[u] = trade[u]
        /\ account'.cash = account.cash + SignedCashDelta(t, p)
        /\ account'.realizedPnl = account.realizedPnl
        /\ account'.openTradeCount = account.openTradeCount + 1
    BY <1>4, EntryFilled
  <2>2. EntryDelta'[t] = SignedCashDelta(t, p)
    BY <2>1 DEF EntryDelta
  <2> QED
    BY <1>1, <2>1, <2>2, CashEntered
<1>5. ASSUME NEW t \in Trades, NEW p \in ExitPrices, ApplyExitFill(t, p) PROVE CashMatchesPnl'
  <2>1. /\ trade[t].status = "OPEN" /\ trade'[t].status # "OPEN"
        /\ \A u \in Trades : u # t => trade'[u] = trade[u]
        /\ account'.cash = account.cash - SignedCashDelta(t, p)
        /\ account'.realizedPnl = account.realizedPnl + ComputeExitPnl(t, trade[t].entry, p)
        /\ account'.openTradeCount = account.openTradeCount - 1
    BY <1>5, ExitFilled
  <2>2. trade[t].entry \in Int /\ p \in Int
    BY <1>2, PriceType DEF TradeDoc
  <2>3. /\ SignedCashDelta(t, p) \in Int /\ EntryDelta[t] \in Int
        /\ ComputeExitPnl(t, trade[t].entry, p) = EntryDelta[t] - SignedCashDelta(t, p)
    BY <2>2, ArithmeticType DEF EntryDelta
  <2>4. account.cash \in Int /\ account.realizedPnl \in Int
    BY <1>2 DEF Account
  <2>5. account'.cash - account'.realizedPnl
          = account.cash - account.realizedPnl - EntryDelta[t]
    BY <2>1, <2>3, <2>4
  <2> QED
    BY <1>1, <2>1, <2>5, CashLeft
<1>6. ASSUME NEW t \in Trades, MarkPositionSettled(t) PROVE CashMatchesPnl'
  <2>1. /\ trade[t].status = "OPEN" /\ trade'[t].status # "OPEN"
        /\ \A u \in Trades : u # t => trade'[u] = trade[u]
        /\ account'.cash = account.cash
        /\ account'.realizedPnl = account.realizedPnl + EntryDelta[t]
        /\ account.openTradeCount >= 1 =>
             account'.openTradeCount = account.openTradeCount - 1
    BY <1>6, PositionSettled DEF EntryDelta
  <2>2. account.cash \in Int /\ account.realizedPnl \in Int /\ EntryDelta[t] \in Int
    BY <1>2, CashNow DEF Account, CashFacts
  <2>3. account'.cash - account'.realizedPnl
          = account.cash - account.realizedPnl - EntryDelta[t]
    BY <2>1, <2>2
  <2> QED
    BY <1>1, <2>1, <2>3, CashLeft
<1>7. ASSUME NEW t \in Trades, NEW k \in RunKeys, NEW r, UpdateVariantRun(t, k, r),
             account' = account
      PROVE  CashMatchesPnl'
  <2>1. \A u \in Trades : trade'[u].status = trade[u].status /\ trade'[u].entry = trade[u].entry
    BY <1>2, <1>7 DEF UpdateVariantRun, TradeDoc
  <2> QED
    BY <1>1, <1>7, <2>1, CashKept
<1>8. CASE Trading
  <2>1. ASSUME NEW t \in Trades,
               \/ CreatePendingTrade(t) \/ CancelPendingTrade(t)
               \/ \E p \in Prices : MarkSignalTrade(t, p)
        PROVE  CashMatchesPnl'
    <3>1. account' = account
      BY <2>1 DEF CreatePendingTrade, CancelPendingTrade, MarkSignalTrade
    <3> DEFINE Kept == \A u \in Trades :
                 /\ trade'[u].status = "OPEN" <=> trade[u].status = "OPEN"
                 /\ trade[u].status = "OPEN" => trade'[u].entry = trade[u].entry
    <3>2. Kept
      <4>1. CASE CreatePendingTrade(t)
        BY <1>2, <4>1 DEF CreatePendingTrade, TradeDoc
      <4>2. CASE CancelPendingTrade(t)
        BY <1>2, <4>2 DEF CancelPendingTrade, TradeDoc
      <4>3. ASSUME NEW p \in Prices, MarkSignalTrade(t, p) PROVE Kept
        BY <1>2, <4>3 DEF MarkSignalTrade, TradeDoc
      <4> QED
        BY <2>1, <4>1, <4>2, <4>3
    <3> QED
      BY <1>1, <3>1, <3>2, CashKept
  <2> QED
    BY <1>4, <1>8, <2>1 DEF Trading
<1>9. ASSUME NEW c \in Closers, Close(c) PROVE CashMatchesPnl'
  <2>1. closer[c].id \in Trades
    BY DEF LedgerInv, TypeOK, CloserState
  <2>2. CASE \E p \in ExitPrices : CloserExits(c, p)
    BY <1>5, <2>1, <2>2 DEF CloserExits
  <2>3. CASE CloserRecords(c)
    BY <1>7, <2>1, <2>3, RunKeysValue DEF CloserRecords
  <2> QED
    BY <1>3, <1>9, PriceType, <2>2, <2>3 DEF Close, CloserRead, CloserGivesUp, CloserRecordFails
<1>10. CASE SettleExpired
  <2>1. closer["settlement"].id \in Trades
    BY DEF LedgerInv, TypeOK, CloserState, Closers
  <2> QED
    BY <1>6, <1>10, <2>1 DEF SettleExpired
<1>11. CASE Evaluate
  <2>1. eval.id \in Trades
    BY DEF LedgerInv, TypeOK, EvalState
  <2>2. CASE EvalExits
    <3>1. eval.snap.mark \in Prices
      BY <2>2, EvalFacts DEF EvalExits, LedgerInv, EvalKnows, Snapshot
    <3> QED
      BY <1>5, <2>1, <2>2, <3>1, PriceType DEF EvalExits
  <2>3. CASE \/ \E k \in RunKeys : EvalHolds(k)
             \/ ShadowFires \/ EvalRecords \/ EvalBackfills
    BY <1>7, <2>1, <2>3, RunKeysValue DEF EvalHolds, ShadowFires, EvalRecords, EvalBackfills
  <2> QED
    BY <1>3, <1>11, <2>2, <2>3 DEF Evaluate, EvalSkips, GoverningFires, EvalExitThrows, EvalDone
<1>12. CASE (\E t \in Trades : EvalList(t)) \/ EvalRecordFails \/ EvalCrash
  BY <1>3, <1>12 DEF EvalList, EvalRecordFails, EvalCrash
<1> QED
  BY <1>3, <1>8, <1>9, <1>10, <1>11, <1>12 DEF Next, vars

\* The four transactions that write the account keep cash and realized P&L
\* apart by the entry cash of the open trades, whoever races whom to a close.
THEOREM CashAlwaysMatches == Spec => []CashMatchesPnl
<1>1. Init => LedgerInv /\ CashMatchesPnl
  BY InitLedger, InitCash
<1>2. LedgerInv /\ CashMatchesPnl /\ [Next]_vars => LedgerInv' /\ CashMatchesPnl'
  BY StepLedger, StepCash
<1> QED
  BY <1>1, <1>2, PTL DEF Spec
================================================================================
