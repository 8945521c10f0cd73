------------------------------ MODULE TicketFill ------------------------------
(***************************************************************************)
(* Staged expression tickets and the pass that fills them.  An accepted    *)
(* signal leaves a staged ticket per option expression; the noon pass      *)
(* selects a contract for each, mints the trade in the ledger under the    *)
(* contract's next sequence number, joins it to the accept's position      *)
(* group and marks the ticket filled, one document at a time.  A pass may  *)
(* die or overlap another, each write may fail, and the owner may cancel   *)
(* between any two of its steps; the next pass heals what was left.        *)
(*                                                                         *)
(* Trades opened before tickets existed sit under the ticket's seed id:    *)
(* this accept's own, filled in place, or another accept's, which the same *)
(* pass drains.                                                            *)
(***************************************************************************)
EXTENDS Integers, FiniteSets

CONSTANTS
  Tickets,   \* ids of expression tickets of one accept
  Passes,    \* fill passes
  Contracts, \* contract bases (symbol, day, expression, expiration, strike)
  Scenes,    \* the situations to start from, see Scene
  None,      \* no contract, no trade
  MaxFaults  \* bound on the failures of a behaviour

MintAttempts == 2

SeedKinds == {"none", "own", "foreign"}

\* The tickets the accept staged, the passes that may run at the same time, the
\* tickets whose owner asks for a cancellation, and whose trade, if any, sits
\* under the seed id of each ticket.
Scene == [staged : SUBSET Tickets, passes : SUBSET Passes,
          cancelled : SUBSET Tickets, seed : [Tickets -> SeedKinds]]

ASSUME ConstantsAssumption ==
  /\ IsFiniteSet(Tickets) /\ IsFiniteSet(Contracts)
  /\ Scenes \subseteq Scene
  /\ MaxFaults \in Nat

VARIABLES
  ticket,   \* the state of each st-order-tickets document
  seed,     \* the trade under the ticket's seed id: whose it is, its status
  trades,   \* the minted trades: contract, sequence number, stamped ticket
  group,    \* the position group: memberTradeIds and rollups.openCount
  scene,    \* the situation started from
  work,     \* each pass's work on each ticket of its staged list
  drain,    \* the pending trades each pass still has to fill in place
  cancel,   \* the owner's cancel request for each ticket's id
  reported, \* tickets whose duplicate trades were logged
  faults,   \* failures so far
  abandoned, \* tickets whose close-out failed after their position was opened
  overlapped \* have two passes ever run at the same time?

docs == <<ticket, seed, trades, group>>
vars == <<ticket, seed, trades, group, scene, work, drain, cancel, reported,
          faults, abandoned, overlapped>>

TicketState == {"absent", "staged", "filled", "cancelled"}
SeedStatus == {"absent", "PENDING", "OPEN", "CANCELLED"}
MintedTrade == [contract : Contracts, seq : Nat \ {0}, ticketId : Tickets]
\* What a group can list: a minted trade or the trade of a seed.
TradeId == MintedTrade \cup Tickets
WorkPC == {"off", "check", "recheck", "fillSeed", "dedupe", "scan", "mint", "post",
           "join", "mark"}
CancelPC == {"idle", "list", "mark", "cancelSeed", "settle", "over"}

TypeOK ==
  /\ ticket \in [Tickets -> TicketState]
  /\ seed \in [Tickets -> [kind : SeedKinds, status : SeedStatus]]
  /\ trades \subseteq MintedTrade
  /\ group \in [members : SUBSET TradeId, openCount : Nat]
  /\ scene \in Scenes
  /\ work \in [Passes -> [Tickets ->
       [pc : WorkPC, contract : Contracts \cup {None}, seq : Nat,
        attempt : 1..MintAttempts, trade : TradeId \cup {None}]]]
  /\ drain \in [Passes -> SUBSET Tickets]
  /\ cancel \in [Tickets -> CancelPC]
  /\ reported \subseteq Tickets
  /\ faults \in 0..MaxFaults
  /\ abandoned \subseteq Tickets
  /\ overlapped \in BOOLEAN

At(pc) == [pc |-> pc, contract |-> None, seq |-> 0, attempt |-> 1, trade |-> None]
Off == At("off")

Init ==
  /\ scene \in Scenes
  /\ seed = [t \in Tickets |->
              [kind |-> scene.seed[t],
               status |-> IF scene.seed[t] = "none" THEN "absent" ELSE "PENDING"]]
  /\ ticket = [t \in Tickets |-> IF t \in scene.staged THEN "staged" ELSE "absent"]
  /\ trades = {}
  /\ group = [members |-> {}, openCount |-> 0]
  /\ work = [p \in Passes |-> [t \in Tickets |-> Off]]
  /\ drain = [p \in Passes |-> {}]
  /\ cancel = [t \in Tickets |-> "idle"]
  /\ reported = {}
  /\ faults = 0
  /\ abandoned = {}
  /\ overlapped = FALSE

-----------------------------------------------------------------------------
(***************************************************************************)
(* The documents: the ticket writer's guarded transitions, the ledger's    *)
(* entry transactions and the group's union.                               *)
(***************************************************************************)
\* Mutant: a fill no longer wins over a cancellation.
CancelWins(to) == {"staged"}
\* Mutant: a cancellation may overwrite a fill.
AnythingMoves(to) == TicketState

AllowedFrom(to) == IF to = "filled" THEN TicketState \ {"absent"} ELSE {"staged"}

Transition(t, to) ==
  ticket' = [ticket EXCEPT ![t] = IF @ \in AllowedFrom(to) THEN to ELSE @]

\* listTradesByTicketId
Minted(t) == {tr \in trades : tr.ticketId = t}

\* Mutant: a client retry carried a fresh refId, and only that is compared.
NeverOwn(t) == FALSE

\* sameAcceptMember: the seed's trade belongs to the accept of the ticket, by
\* refId or by signalId.
Own(t) == seed[t].kind = "own"
Sequences(c) == {tr.seq : tr \in {x \in trades : x.contract = c}}
\* Mutant: the sequence scan ignores what is already listed.
FirstSequence(c) == 1
NextSequence(c) == CHOOSE n \in 1..(Cardinality(Sequences(c)) + 1) :
                     \A s \in Sequences(c) : s < n

Taken(c, n) == \E tr \in trades : tr.contract = c /\ tr.seq = n

\* addMembers: re-adding a member does not count it again.
\* Mutant: every join counts.
CountedTwice(tr) ==
  [members |-> group.members \cup {tr}, openCount |-> group.openCount + 1]
Joined(tr) ==
  [members |-> group.members \cup {tr},
   openCount |-> group.openCount + IF tr \in group.members THEN 0 ELSE 1]

-----------------------------------------------------------------------------
(***************************************************************************)
(* The pass.                                                               *)
(***************************************************************************)
Set(p, t, w) == work' = [work EXCEPT ![p][t] = w]
Goto(p, t, pc) == Set(p, t, [work[p][t] EXCEPT !.pc = pc])
Heal(p, t, tr) == Set(p, t, [At("join") EXCEPT !.trade = tr])
NoFailure == UNCHANGED <<faults, abandoned>>
\* A failure that leaves the tickets of Ts open although their position exists.
FailureFor(Ts) ==
  /\ faults < MaxFaults /\ faults' = faults + 1
  /\ abandoned' = abandoned \cup Ts
Failure == FailureFor({})
Closing == {"post", "join", "mark"}

PassUnchanged == UNCHANGED <<scene, drain, cancel, reported, overlapped>>

\* The ticket path owns a pending trade only through a staged ticket of its accept.
DrainsSeed(t) ==
  /\ seed[t].status = "PENDING"
  /\ ~(ticket[t] = "staged" /\ Own(t))

\* A pass is over once it worked off both of its lists.
Running(p) == drain[p] # {} \/ \E t \in Tickets : work[p][t].pc # "off"

\* A pass that would find nothing changes nothing and is left out.
StartPass(p) ==
  /\ p \in scene.passes /\ ~Running(p)
  /\ \E t \in Tickets : ticket[t] = "staged" \/ DrainsSeed(t)
  /\ overlapped' = (overlapped \/ \E q \in Passes : Running(q))
  /\ work' = [work EXCEPT ![p] = [t \in Tickets |->
               IF ticket[t] = "staged" THEN At("check") ELSE Off]]
  /\ drain' = [drain EXCEPT ![p] = {t \in Tickets : DrainsSeed(t)}]
  /\ UNCHANGED <<docs, scene, cancel, reported, faults, abandoned>>

\* The function instance is killed (timeout, out of memory).
DiePass(p) ==
  /\ Running(p)
  /\ FailureFor({t \in Tickets : work[p][t].pc \in Closing})
  /\ work' = [work EXCEPT ![p] = [t \in Tickets |-> Off]]
  /\ drain' = [drain EXCEPT ![p] = {}]
  /\ UNCHANGED <<docs, scene, cancel, reported, overlapped>>

\* Consumable exactly once: a stamped trade, or a settled seed trade of the
\* same accept, closes the ticket instead of filling it.
Check(p, t) ==
  /\ work[p][t].pc = "check"
  /\ IF Minted(t) # {}
       THEN /\ \E tr \in Minted(t) : Heal(p, t, tr)
            /\ UNCHANGED ticket
       ELSE IF Own(t) /\ seed[t].status = "OPEN"
       THEN Heal(p, t, t) /\ UNCHANGED ticket
       ELSE IF Own(t) /\ seed[t].status = "CANCELLED"
       THEN Set(p, t, Off) /\ Transition(t, "cancelled")
       ELSE Goto(p, t, "recheck") /\ UNCHANGED ticket
  /\ UNCHANGED <<seed, trades, group>> /\ NoFailure /\ PassUnchanged

\* A cancel that committed after the list was read wins; then the contract is
\* selected, which takes seconds.
Recheck(p, t) ==
  /\ work[p][t].pc = "recheck"
  /\ IF ticket[t] # "staged"
       THEN Set(p, t, Off)
       ELSE \E c \in Contracts :
              Set(p, t, [work[p][t] EXCEPT !.pc = IF Own(t) THEN "fillSeed" ELSE "dedupe",
                                           !.contract = c])
  /\ UNCHANGED docs /\ NoFailure /\ PassUnchanged

\* No contract in the band, or the tool fails: the ticket stays staged.
NoContract(p, t) ==
  /\ work[p][t].pc = "recheck" /\ ticket[t] = "staged"
  /\ Failure
  /\ Set(p, t, Off)
  /\ UNCHANGED docs /\ PassUnchanged

\* applyPendingFill: the transaction rejects a trade that is not pending.
FillPending(t) ==
  seed' = [seed EXCEPT ![t].status = IF @ = "PENDING" THEN "OPEN" ELSE @]

FillSeed(p, t) ==
  /\ work[p][t].pc = "fillSeed"
  /\ FillPending(t)
  /\ Set(p, t, IF seed[t].status = "PENDING" THEN At("mark") ELSE Off)
  /\ UNCHANGED <<ticket, trades, group>> /\ NoFailure /\ PassUnchanged

Dedupe(p, t) ==
  /\ work[p][t].pc = "dedupe"
  /\ IF Minted(t) = {} THEN Goto(p, t, "scan")
     ELSE \E tr \in Minted(t) : Heal(p, t, tr)
  /\ UNCHANGED docs /\ NoFailure /\ PassUnchanged

Scan(p, t) ==
  /\ work[p][t].pc = "scan"
  /\ Set(p, t, [work[p][t] EXCEPT !.pc = "mint", !.seq = NextSequence(work[p][t].contract)])
  /\ UNCHANGED docs /\ NoFailure /\ PassUnchanged

\* applyEntryFill commits: the trade exists, stamped with its ticket.
Mint(p, t) ==
  /\ work[p][t].pc = "mint"
  /\ LET w == work[p][t]
         tr == [contract |-> w.contract, seq |-> w.seq, ticketId |-> t]
     IN /\ ~Taken(w.contract, w.seq)
        /\ trades' = trades \cup {tr}
        /\ Set(p, t, [At("post") EXCEPT !.trade = tr])
  /\ UNCHANGED <<ticket, seed, group>> /\ NoFailure /\ PassUnchanged

\* The id is taken: by this ticket's trade, which is healed, or by another
\* ticket's, and the sequence is scanned once more.
MintRaced(p, t) ==
  /\ work[p][t].pc = "mint"
  /\ Taken(work[p][t].contract, work[p][t].seq)
  /\ IF Minted(t) # {}
       THEN \E tr \in Minted(t) : Heal(p, t, tr)
       ELSE IF work[p][t].attempt < MintAttempts
       THEN Set(p, t, [work[p][t] EXCEPT !.pc = "dedupe", !.attempt = @ + 1])
       ELSE Set(p, t, Off)
  /\ UNCHANGED docs /\ NoFailure /\ PassUnchanged

\* The ledger transaction throws.
MintFails(p, t) ==
  /\ work[p][t].pc = "mint"
  /\ Failure
  /\ Set(p, t, Off)
  /\ UNCHANGED docs /\ PassUnchanged

\* Mutant: the sibling goes unnoticed.
NoPost(p, t) ==
  /\ work[p][t].pc = "post"
  /\ Goto(p, t, "join")
  /\ UNCHANGED docs /\ NoFailure /\ PassUnchanged

\* A sibling that committed meanwhile is logged for manual cleanup.
Post(p, t) ==
  /\ work[p][t].pc = "post"
  /\ reported' = IF Minted(t) = {work[p][t].trade} THEN reported ELSE reported \cup {t}
  /\ Goto(p, t, "join")
  /\ UNCHANGED <<docs, faults, abandoned, scene, drain, cancel, overlapped>>

Join(p, t) ==
  /\ work[p][t].pc = "join"
  /\ group' = Joined(work[p][t].trade)
  /\ Set(p, t, At("mark"))
  /\ UNCHANGED <<ticket, seed, trades>> /\ NoFailure /\ PassUnchanged

\* The group is missing or its transaction fails: the next pass replays it.
JoinFails(p, t) ==
  /\ work[p][t].pc = "join"
  /\ FailureFor({t})
  /\ Set(p, t, Off)
  /\ UNCHANGED docs /\ PassUnchanged

MarkFilled(p, t) ==
  /\ work[p][t].pc = "mark"
  /\ Transition(t, "filled")
  /\ Set(p, t, Off)
  /\ UNCHANGED <<seed, trades, group>> /\ NoFailure /\ PassUnchanged

\* The writer is fail-soft and the pass ignores its result.
MarkFails(p, t) ==
  /\ work[p][t].pc = "mark"
  /\ FailureFor({t})
  /\ Set(p, t, Off)
  /\ UNCHANGED docs /\ PassUnchanged

\* fillPendingTrade: selection, then the guarded in-place fill.
Drain(p, t) ==
  /\ t \in drain[p]
  /\ FillPending(t)
  /\ drain' = [drain EXCEPT ![p] = @ \ {t}]
  /\ UNCHANGED <<ticket, trades, group, scene, work, cancel, reported, faults, abandoned, overlapped>>

DrainFails(p, t) ==
  /\ t \in drain[p]
  /\ Failure
  /\ drain' = [drain EXCEPT ![p] = @ \ {t}]
  /\ UNCHANGED <<docs, scene, work, cancel, reported, overlapped>>

-----------------------------------------------------------------------------
(***************************************************************************)
(* handleCancelPaperTrade: the caller names the seed id.  A request may    *)
(* stop between any two of its steps, so none of them is fair.             *)
(***************************************************************************)
CancelStep(t, from, to) == cancel[t] = from /\ cancel' = [cancel EXCEPT ![t] = to]
CancelUnchanged ==
  UNCHANGED <<trades, group, scene, work, drain, reported, faults, abandoned, overlapped>>

CancelRead(t) ==
  /\ t \in scene.cancelled
  /\ CancelStep(t, "idle",
       CASE seed[t].status = "PENDING" -> "cancelSeed"
         [] seed[t].status = "absent" /\ ticket[t] = "staged" -> "list"
         [] OTHER -> "over")
  /\ UNCHANGED <<ticket, seed>> /\ CancelUnchanged

\* A staged ticket can already own a minted trade: then the cancel is refused.
CancelList(t) ==
  /\ CancelStep(t, "list", IF Minted(t) = {} THEN "mark" ELSE "over")
  /\ UNCHANGED <<ticket, seed>> /\ CancelUnchanged

CancelMark(t) ==
  /\ CancelStep(t, "mark", "over")
  /\ Transition(t, "cancelled")
  /\ UNCHANGED seed /\ CancelUnchanged

\* cancelPendingTrade, a ledger transaction.
CancelSeed(t) ==
  /\ CancelStep(t, "cancelSeed", IF seed[t].status = "PENDING" THEN "settle" ELSE "over")
  /\ seed' = [seed EXCEPT ![t].status = IF @ = "PENDING" THEN "CANCELLED" ELSE @]
  /\ UNCHANGED ticket /\ CancelUnchanged

\* The ledger cancel settles the ticket of the same accept only.
CancelSettle(t) ==
  /\ CancelStep(t, "settle", "over")
  /\ IF Own(t) THEN Transition(t, "cancelled") ELSE UNCHANGED ticket
  /\ UNCHANGED seed /\ CancelUnchanged

CancelSteps(t) ==
  \/ CancelRead(t) \/ CancelList(t) \/ CancelMark(t) \/ CancelSeed(t) \/ CancelSettle(t)

-----------------------------------------------------------------------------
Works(p, t) ==
  \/ Check(p, t) \/ Recheck(p, t) \/ FillSeed(p, t) \/ Dedupe(p, t) \/ Scan(p, t)
  \/ Mint(p, t) \/ MintRaced(p, t) \/ Post(p, t) \/ Join(p, t) \/ MarkFilled(p, t)
  \/ Drain(p, t)

Fails(p, t) ==
  \/ NoContract(p, t) \/ MintFails(p, t) \/ JoinFails(p, t) \/ MarkFails(p, t)
  \/ DrainFails(p, t)

Next ==
  \/ \E p \in Passes : StartPass(p) \/ DiePass(p)
  \/ \E p \in Passes, t \in Tickets : Works(p, t) \/ Fails(p, t)
  \/ \E t \in Tickets : CancelSteps(t)

Spec == Init /\ [][Next]_vars

\* The schedule starts passes for ever; a pass that is not killed does its steps.
FairSpec ==
  /\ Spec
  /\ \A p \in Passes : WF_vars(StartPass(p))
  /\ \A p \in Passes, t \in Tickets :
       WF_vars(Works(p, t))

-----------------------------------------------------------------------------
(***************************************************************************)
(* Properties.                                                             *)
(***************************************************************************)
Position(t) == Minted(t) # {} \/ (seed[t].kind = "own" /\ seed[t].status = "OPEN")

\* "The ticket is consumable exactly once": while passes do not overlap, a
\* ticket never has two positions, whatever dies, fails, is cancelled or is
\* retried between the mint and the mark, and however tickets contend for ids.
OnePosition ==
  overlapped \/
  \A t \in Tickets :
    /\ Cardinality(Minted(t)) <= 1
    /\ seed[t].kind = "own" => Minted(t) = {}

\* When passes do overlap the second trade may exist, but the pass that wrote it
\* logs it, unless it dies first.
DuplicateReported ==
  \A t \in Tickets :
    Cardinality(Minted(t)) >= 2 =>
      \/ t \in reported \cup abandoned
      \/ \E p \in Passes : work[p][t].pc = "post"

\* A trade opened under a ticket that was cancelled meanwhile is never left
\* behind by a pass: some pass is still closing the ticket out as filled, unless
\* a failure stopped it.
CancelledHasNoPosition ==
  \A t \in Tickets :
    ticket[t] = "cancelled" /\ Position(t) =>
      \/ t \in abandoned
      \/ \E p \in Passes : work[p][t].pc \in Closing

\* A ticket filled by a mint has its trade in the group, and the group counts
\* each of its trades once, however often the join is replayed.
GroupHoldsFilled ==
  /\ group.openCount = Cardinality(group.members)
  /\ \A t \in Tickets :
       ticket[t] = "filled" /\ Minted(t) # {} => Minted(t) \cap group.members # {}

Life == INSTANCE TicketLife WITH
          state <- ticket,
          opened <- [t \in Tickets |-> Position(t)]

\* The pass, its retries and the cancels implement the ticket's life.
ImplementsTicketLife == Life!Spec

\* A staged ticket is eventually filled or cancelled, and once a trade was
\* opened for it the ticket says filled, unless a failure hit it after a
\* cancellation: then nothing looks at it again.
TicketResolved ==
  \A t \in Tickets :
    /\ ticket[t] = "staged" ~> ticket[t] # "staged"
    /\ Position(t) ~> (ticket[t] = "filled" \/ (ticket[t] = "cancelled" /\ t \in abandoned))
==============================================================================
