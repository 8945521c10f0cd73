--------------------------- MODULE TicketFillProofs ---------------------------
(***************************************************************************)
(* Proofs about staged tickets for every set of tickets, passes, contracts *)
(* and starting situations, with any number of failures.                   *)
(***************************************************************************)
EXTENDS TicketFill, FiniteSetTheorems, TLAPS

WorkState == [pc : WorkPC, contract : Contracts \cup {None}, seq : Nat,
              attempt : 1..MintAttempts, trade : TradeId \cup {None}]

(***************************************************************************)
(* The numbers of a contract's trades have no gap; a pass that is about to *)
(* mint scanned a number that is taken or the next one.                    *)
(***************************************************************************)
Contiguous == \A c \in Contracts : \E k \in Nat : Sequences(c) = 1..k

\* Joins are replayed, and yet the trade of a ticket that is marked is listed.
Listed(t) == Own(t) \/ Minted(t) \cap group.members # {}

\* What pass p knows of ticket t while it works on it.
WorkOk(t, w) ==
  /\ w \in WorkState
  /\ w.pc \in {"fillSeed", "dedupe", "scan", "mint"} => w.contract \in Contracts
  /\ w.pc \in {"dedupe", "scan", "mint"} => ~Own(t)
  /\ w.pc = "fillSeed" => Own(t)
  /\ w.pc = "mint" => w.seq # 0 /\ \A n \in Nat \ {0} : n < w.seq => Taken(w.contract, n)
  /\ w.pc = "post" => w.trade \in Minted(t)
  /\ w.pc = "join" => w.trade \in Minted(t) \/ (Own(t) /\ w.trade = t)
  /\ w.pc \in Closing => Position(t)
  /\ w.pc = "mark" => Listed(t)

WorksOk == \A p \in Passes, t \in Tickets : WorkOk(t, work[p][t])

\* A seed of the same accept and the ticket agree: no ticket with such a seed is
\* minted for, cancelled while the seed is pending, or drained while staged.
SeedsAgree ==
  \A t \in Tickets :
    /\ seed[t].kind = "none" <=> seed[t].status = "absent"
    /\ Own(t) => Minted(t) = {}
    /\ Own(t) /\ ticket[t] = "cancelled" => seed[t].status # "PENDING"
    /\ cancel[t] \in {"list", "mark"} => seed[t].kind = "none"
    /\ cancel[t] = "settle" => seed[t].status = "CANCELLED"
    /\ \A p \in Passes : t \in drain[p] /\ Own(t) => ticket[t] # "staged"

TicketInv ==
  /\ TypeOK
  /\ IsFiniteSet(group.members)
  /\ Contiguous
  /\ WorksOk
  /\ SeedsAgree

\* A position of a ticket that does not say so yet is being closed out, or a
\* failure stopped that.
OpenIsClosing ==
  \A t \in Tickets :
    ticket[t] \in {"staged", "cancelled"} /\ Position(t) =>
      \/ t \in abandoned
      \/ \E p \in Passes : work[p][t].pc \in Closing

\* While passes do not overlap, the one that runs has seen that there is no trade.
Alone ==
  overlapped \/
  /\ \A p, q \in Passes : Running(p) /\ Running(q) => p = q
  /\ \A p \in Passes, t \in Tickets : work[p][t].pc \in {"scan", "mint"} => Minted(t) = {}
  /\ \A t \in Tickets : Cardinality(Minted(t)) <= 1

FilledIsListed == \A t \in Tickets : ticket[t] = "filled" => Listed(t)

-----------------------------------------------------------------------------
(***************************************************************************)
(* The values and the documents.                                           *)
(***************************************************************************)
LEMMA AtType ==
  ASSUME NEW pc \in WorkPC
  PROVE  At(pc) \in WorkState /\ At(pc).pc = pc
BY DEF At, WorkState, MintAttempts

LEMMA IdleWork == ASSUME NEW t PROVE WorkOk(t, Off) /\ WorkOk(t, At("check"))
BY AtType DEF WorkOk, WorkPC, Off, At, Closing

LEMMA TypedWork ==
  ASSUME TypeOK PROVE work \in [Passes -> [Tickets -> WorkState]]
BY DEF TypeOK, WorkState

\* One pass moves on with one ticket; everything else it does stays as it is.
LEMMA SetWork ==
  ASSUME TypeOK, NEW p \in Passes, NEW t \in Tickets, NEW w, Set(p, t, w)
  PROVE  /\ work'[p][t] = w
         /\ \A q \in Passes, u \in Tickets :
              q # p \/ u # t => work'[q][u] = work[q][u]
         /\ w \in WorkState => work' \in [Passes -> [Tickets -> WorkState]]
<1>1. work \in [Passes -> [Tickets -> WorkState]]
  BY TypedWork
<1>2. work' = [work EXCEPT ![p] = [work[p] EXCEPT ![t] = w]]
  BY DEF Set
<1> QED
  BY <1>1, <1>2

LEMMA MintedFacts ==
  ASSUME NEW t
  PROVE  /\ \A tr \in Minted(t) : tr \in trades /\ tr.ticketId = t
         /\ \A tr \in trades : tr.ticketId = t => tr \in Minted(t)
BY DEF Minted

\* The number after the last one, when the numbers have no gap.
LEMMA NextNumber ==
  ASSUME NEW c \in Contracts, NEW k \in Nat, Sequences(c) = 1..k
  PROVE  NextSequence(c) = k + 1
<1>1. Cardinality(Sequences(c)) = k
  BY FS_Interval
<1> DEFINE Free(n) == \A s \in Sequences(c) : s < n
<1>2. k + 1 \in 1..(Cardinality(Sequences(c)) + 1) /\ Free(k + 1)
  BY <1>1
<1>3. ASSUME NEW n \in 1..(Cardinality(Sequences(c)) + 1), Free(n) PROVE n = k + 1
  <2>1. n \in 1..(k + 1)
    BY <1>1
  <2>2. CASE k = 0
    BY <2>1, <2>2
  <2>3. CASE k # 0
    <3>0. k \in Sequences(c)
      BY <2>3
    <3>1. k < n
      BY <1>3, <3>0
    <3> QED
      BY <2>1, <3>1
  <2> QED
    BY <2>2, <2>3
<1> QED
  BY <1>2, <1>3 DEF NextSequence

LEMMA TakenNumber ==
  ASSUME TypeOK, NEW c, NEW n
  PROVE  Taken(c, n) <=> n \in Sequences(c)
BY DEF Taken, Sequences

\* What every step keeps: trades, members and open positions are never undone.
Grows ==
  /\ trades \subseteq trades'
  /\ group.members \subseteq group'.members
  /\ \A t \in Tickets : /\ seed'[t].kind = seed[t].kind
                        /\ seed[t].status = "OPEN" => seed'[t].status = "OPEN"

LEMMA SameGrows == ASSUME UNCHANGED <<seed, trades, group>> PROVE Grows
BY DEF Grows

\* A pending trade under a seed id is opened or cancelled.
LEMMA SeedWritten ==
  ASSUME TypeOK, NEW t \in Tickets, NEW s \in SeedStatus,
         seed' = [seed EXCEPT ![t].status = IF @ = "PENDING" THEN s ELSE @]
  PROVE  /\ seed' \in [Tickets -> [kind : SeedKinds, status : SeedStatus]]
         /\ \A u \in Tickets : u # t => seed'[u] = seed[u]
         /\ seed'[t].kind = seed[t].kind
         /\ seed'[t].status = IF seed[t].status = "PENDING" THEN s ELSE seed[t].status
BY DEF TypeOK

LEMMA SeedGrows ==
  ASSUME TypeOK, NEW t \in Tickets, NEW s \in SeedStatus, UNCHANGED <<trades, group>>,
         seed' = [seed EXCEPT ![t].status = IF @ = "PENDING" THEN s ELSE @]
  PROVE  Grows
BY SeedWritten DEF Grows

LEMMA GrowsFacts ==
  ASSUME Grows, NEW t \in Tickets
  PROVE  /\ Own(t)' <=> Own(t)
         /\ Minted(t) \subseteq Minted(t)'
         /\ Position(t) => Position(t)'
         /\ Listed(t) => Listed(t)'
BY DEF Grows, Own, Minted, Position, Listed

LEMMA WorkStays ==
  ASSUME Grows
  PROVE  \A t \in Tickets : \A w : WorkOk(t, w) => WorkOk(t, w)'
<1> SUFFICES ASSUME NEW t \in Tickets, NEW w, WorkOk(t, w) PROVE WorkOk(t, w)'
  OBVIOUS
<1>1. \A c, n : Taken(c, n) => Taken(c, n)'
  BY DEF Grows, Taken
<1> QED
  BY <1>1, GrowsFacts DEF WorkOk

LEMMA TransitionFacts ==
  ASSUME TypeOK, NEW t \in Tickets, NEW to \in {"filled", "cancelled"}, Transition(t, to)
  PROVE  /\ ticket' \in [Tickets -> TicketState]
         /\ \A u \in Tickets : u # t => ticket'[u] = ticket[u]
         /\ to = "filled" => ticket'[t] = IF ticket[t] = "absent" THEN "absent" ELSE "filled"
         /\ to = "cancelled" => ticket'[t] = IF ticket[t] = "staged" THEN "cancelled" ELSE ticket[t]
BY DEF TypeOK, Transition, AllowedFrom, TicketState

LEMMA FailureType ==
  ASSUME TypeOK, NEW Ts \in SUBSET Tickets, FailureFor(Ts)
  PROVE  faults' \in 0..MaxFaults /\ abandoned' \subseteq Tickets
BY ConstantsAssumption DEF TypeOK, FailureFor

LEMMA TicketInit == Init => TicketInv /\ OpenIsClosing /\ Alone /\ FilledIsListed
<1> SUFFICES ASSUME Init PROVE TicketInv /\ OpenIsClosing /\ Alone /\ FilledIsListed
  OBVIOUS
<1>1. \A p \in Passes, t \in Tickets : work[p][t] = Off
  BY DEF Init
<1>2. TypeOK
  <2>1. scene.seed \in [Tickets -> SeedKinds]
    BY ConstantsAssumption DEF Init, Scene
  <2>2. Off \in WorkState
    BY AtType DEF Off, WorkPC
  <2>3. ticket \in [Tickets -> TicketState] /\ cancel \in [Tickets -> CancelPC]
    BY DEF Init, TicketState, CancelPC
  <2>4. seed \in [Tickets -> [kind : SeedKinds, status : SeedStatus]]
    BY <2>1 DEF Init, SeedStatus
  <2>5. work \in [Passes -> [Tickets -> WorkState]]
    BY <2>2 DEF Init
  <2>6. faults \in 0..MaxFaults
    BY ConstantsAssumption DEF Init
  <2>7. group \in [members : SUBSET TradeId, openCount : Nat]
    BY DEF Init
  <2>8. /\ trades \subseteq MintedTrade /\ scene \in Scenes /\ drain \in [Passes -> SUBSET Tickets]
        /\ reported \subseteq Tickets /\ abandoned \subseteq Tickets /\ overlapped \in BOOLEAN
    BY DEF Init
  <2> QED
    BY <2>3, <2>4, <2>5, <2>6, <2>7, <2>8 DEF TypeOK, WorkState
<1>3. \A t \in Tickets : Minted(t) = {} /\ ~Position(t)
  BY DEF Init, Minted, Position
<1>4. Contiguous
  <2>1. \A c \in Contracts : Sequences(c) = 1..0
    BY DEF Init, Sequences
  <2> QED
    BY <2>1 DEF Contiguous
<1>5. WorksOk
  BY <1>1, IdleWork DEF WorksOk
<1>6. SeedsAgree
  BY <1>2, <1>3 DEF SeedsAgree, Init, TypeOK, Own, SeedKinds
<1>7. IsFiniteSet(group.members)
  BY FS_EmptySet DEF Init
<1>8. OpenIsClosing
  BY <1>3 DEF OpenIsClosing
<1>9. Alone
  <2>1. Off.pc = "off" /\ \A p \in Passes : drain[p] = {}
    BY DEF Init, Off, At
  <2>2. \A p \in Passes : ~Running(p)
    BY <1>1, <2>1 DEF Running
  <2> QED
    BY <1>1, <1>3, <2>1, <2>2, FS_EmptySet DEF Alone
<1>10. FilledIsListed
  BY DEF Init, FilledIsListed
<1> QED
  BY <1>2, <1>4, <1>5, <1>6, <1>7, <1>8, <1>9, <1>10 DEF TicketInv

-----------------------------------------------------------------------------
(***************************************************************************)
(* The steps of a pass with one ticket.                                    *)
(***************************************************************************)
Moves(p, t) == \E w : Set(p, t, w) /\ WorkOk(t, w)'

\* Healing ends at the join, with the trade of the ticket in hand.
LEMMA HealOk ==
  ASSUME TypeOK, NEW t \in Tickets, NEW tr,
         tr \in Minted(t) \/ (Own(t) /\ tr = t /\ Position(t))
  PROVE  WorkOk(t, [At("join") EXCEPT !.trade = tr])
<1> DEFINE w == [At("join") EXCEPT !.trade = tr]
<1>1. At("join") \in WorkState /\ At("join").pc = "join"
  BY AtType DEF WorkPC
<1>2. tr \in TradeId
  BY MintedFacts DEF TypeOK, TradeId
<1>3. w \in WorkState /\ w.pc = "join" /\ w.trade = tr
  BY <1>1, <1>2 DEF WorkState
<1>4. Position(t)
  BY DEF Position
<1>5. tr \in Minted(t) \/ (Own(t) /\ tr = t)
  OBVIOUS
<1> HIDE DEF w
<1>6. WorkOk(t, w)
  BY <1>3, <1>4, <1>5 DEF WorkOk
<1> QED
  BY <1>6 DEF w

LEMMA OkWork == ASSUME TicketInv, NEW p \in Passes, NEW t \in Tickets
                PROVE  TypeOK /\ work[p][t] \in WorkState /\ WorkOk(t, work[p][t])
BY DEF TicketInv, WorksOk, WorkOk

\* The steps that read the documents and write none.
LEMMA ReadingMoves ==
  ASSUME TicketInv, NEW p \in Passes, NEW t \in Tickets,
         \/ Recheck(p, t) \/ NoContract(p, t) \/ Dedupe(p, t) \/ Scan(p, t) \/ MintRaced(p, t)
         \/ MintFails(p, t) \/ Post(p, t) \/ JoinFails(p, t) \/ MarkFails(p, t)
  PROVE  Moves(p, t) /\ UNCHANGED docs
<1> DEFINE old == work[p][t]
<1>1. TypeOK /\ old \in WorkState /\ WorkOk(t, old)
  BY OkWork
<1>2. UNCHANGED docs
  BY DEF Recheck, NoContract, Dedupe, Scan, MintRaced, MintFails, Post, JoinFails, MarkFails, docs
<1>3. ASSUME NEW w, Set(p, t, w), WorkOk(t, w) PROVE Moves(p, t)
  BY <1>2, <1>3, SameGrows, WorkStays DEF Moves, docs
<1>4. ASSUME NEW tr \in Minted(t), Heal(p, t, tr) PROVE Moves(p, t)
  BY <1>1, <1>3, <1>4, HealOk DEF Heal
<1>5. ASSUME Set(p, t, Off) PROVE Moves(p, t)
  BY <1>3, <1>5, IdleWork
<1>6. CASE Recheck(p, t)
  <2>1. ASSUME NEW c \in Contracts,
               Set(p, t, [old EXCEPT !.pc = IF Own(t) THEN "fillSeed" ELSE "dedupe", !.contract = c])
        PROVE  Moves(p, t)
    <3> DEFINE w == [old EXCEPT !.pc = IF Own(t) THEN "fillSeed" ELSE "dedupe", !.contract = c]
    <3>1. /\ w \in WorkState /\ w.contract = c
          /\ w.pc = IF Own(t) THEN "fillSeed" ELSE "dedupe"
      BY <1>1 DEF WorkState, WorkPC
    <3>2. WorkOk(t, w)
      BY <3>1 DEF WorkOk, Closing
    <3> QED
      BY <1>3, <2>1, <3>2
  <2> QED
    BY <1>5, <1>6, <2>1 DEF Recheck
<1>7. CASE Dedupe(p, t)
  <2>1. ASSUME Goto(p, t, "scan") PROVE Moves(p, t)
    <3>1. [old EXCEPT !.pc = "scan"] \in WorkState
      BY <1>1 DEF WorkState, WorkPC
    <3>2. WorkOk(t, [old EXCEPT !.pc = "scan"])
      BY <1>1, <1>7, <3>1 DEF WorkOk, Closing, Dedupe, WorkState
    <3> QED
      BY <1>3, <2>1, <3>2 DEF Goto
  <2> QED
    BY <1>4, <1>7, <2>1 DEF Dedupe
<1>8. CASE Scan(p, t)
  <2> DEFINE w == [old EXCEPT !.pc = "mint", !.seq = NextSequence(old.contract)]
  <2>1. old.pc = "scan" /\ old.contract \in Contracts /\ ~Own(t)
    BY <1>1, <1>8 DEF Scan, WorkOk
  <2>2. PICK k \in Nat : Sequences(old.contract) = 1..k
    BY <2>1 DEF TicketInv, Contiguous
  <2>3. NextSequence(old.contract) = k + 1 /\ NextSequence(old.contract) \in Nat
    BY <2>1, <2>2, NextNumber
  <2>4. /\ w \in WorkState /\ w.pc = "mint" /\ w.contract = old.contract
        /\ w.seq = NextSequence(old.contract)
    BY <1>1, <2>3 DEF WorkState, WorkPC
  <2>5. \A n \in Nat \ {0} : n < k + 1 => Taken(old.contract, n)
    BY <1>1, <2>2, TakenNumber
  <2> HIDE DEF w
  <2>6. WorkOk(t, w)
    BY <2>1, <2>2, <2>3, <2>4, <2>5 DEF WorkOk, Closing
  <2> QED
    BY <1>3, <1>8, <2>6 DEF Scan, w
<1>9. CASE MintRaced(p, t)
  <2>1. ASSUME old.pc = "mint", old.attempt < MintAttempts,
               Set(p, t, [old EXCEPT !.pc = "dedupe", !.attempt = @ + 1])
        PROVE  Moves(p, t)
    <3>0. old.attempt + 1 \in 1..MintAttempts
      BY <1>1, <2>1 DEF WorkState, MintAttempts
    <3>1. [old EXCEPT !.pc = "dedupe", !.attempt = @ + 1] \in WorkState
      BY <1>1, <3>0 DEF WorkState, WorkPC
    <3>2. WorkOk(t, [old EXCEPT !.pc = "dedupe", !.attempt = @ + 1])
      BY <1>1, <2>1, <3>1 DEF WorkOk, Closing, WorkState
    <3> QED
      BY <1>3, <2>1, <3>2
  <2> QED
    BY <1>4, <1>5, <1>9, <2>1 DEF MintRaced
<1>10. CASE Post(p, t)
  <2>1. [old EXCEPT !.pc = "join"] \in WorkState
    BY <1>1 DEF WorkState, WorkPC
  <2>2. WorkOk(t, [old EXCEPT !.pc = "join"])
    BY <1>1, <1>10, <2>1 DEF WorkOk, Closing, Post, WorkState
  <2> QED
    BY <1>3, <1>10, <2>2 DEF Post, Goto
<1>11. CASE NoContract(p, t) \/ MintFails(p, t) \/ JoinFails(p, t) \/ MarkFails(p, t)
  BY <1>5, <1>11 DEF NoContract, MintFails, JoinFails, MarkFails
<1>12. Moves(p, t)
  BY <1>6, <1>7, <1>8, <1>9, <1>10, <1>11
<1> QED
  BY <1>2, <1>12

\* The steps that write a document: the ticket's, the seed's, a trade, the group.
LEMMA WritingMoves ==
  ASSUME TicketInv, NEW p \in Passes, NEW t \in Tickets,
         Check(p, t) \/ FillSeed(p, t) \/ Mint(p, t) \/ Join(p, t) \/ MarkFilled(p, t)
  PROVE  Moves(p, t) /\ Grows
<1> DEFINE old == work[p][t]
<1>1. TypeOK /\ old \in WorkState /\ WorkOk(t, old)
  BY OkWork
<1>2. ASSUME NEW w, Set(p, t, w), WorkOk(t, w), UNCHANGED <<seed, trades, group>>
      PROVE  Moves(p, t) /\ Grows
  BY <1>2, SameGrows, WorkStays DEF Moves
<1>3. ASSUME NEW w, Set(p, t, w), WorkOk(t, w), Grows PROVE Moves(p, t) /\ Grows
  BY <1>3, WorkStays DEF Moves
<1>4. WorkOk(t, Off)
  BY IdleWork
<1>5. CASE Check(p, t)
  <2>1. UNCHANGED <<seed, trades, group>>
    BY <1>5 DEF Check
  <2>2. CASE Minted(t) # {}
    <3>1. PICK tr \in Minted(t) : Heal(p, t, tr)
      BY <1>5, <2>2 DEF Check
    <3> QED
      BY <1>1, <1>2, <2>1, <3>1, HealOk DEF Heal
  <2>3. CASE Minted(t) = {} /\ Own(t) /\ seed[t].status = "OPEN"
    <3>1. Heal(p, t, t)
      BY <1>5, <2>3 DEF Check
    <3>2. Position(t)
      BY <2>3 DEF Position, Own
    <3> QED
      BY <1>1, <1>2, <2>1, <2>3, <3>1, <3>2, HealOk DEF Heal
  <2>4. CASE Minted(t) = {} /\ Own(t) /\ seed[t].status = "CANCELLED"
    BY <1>2, <1>4, <1>5, <2>1, <2>4 DEF Check
  <2>5. CASE Goto(p, t, "recheck")
    <3>1. [old EXCEPT !.pc = "recheck"] \in WorkState
      BY <1>1 DEF WorkState, WorkPC
    <3>2. WorkOk(t, [old EXCEPT !.pc = "recheck"])
      BY <1>1, <3>1 DEF WorkOk, Closing, WorkState
    <3> QED
      BY <1>2, <2>1, <2>5, <3>2 DEF Goto
  <2> QED
    BY <1>5, <2>2, <2>3, <2>4, <2>5 DEF Check
<1>6. CASE FillSeed(p, t)
  <2>1. Grows
    BY <1>1, <1>6, SeedGrows DEF FillSeed, FillPending, SeedStatus
  <2>2. CASE seed[t].status = "PENDING"
    <3>1. Set(p, t, At("mark")) /\ Own(t)
      BY <1>1, <1>6, <2>2 DEF FillSeed, WorkOk
    <3>2. Position(t)' /\ Own(t)'
      BY <1>1, <1>6, <2>2, <3>1 DEF FillSeed, FillPending, Position, Own, TypeOK
    <3>3. At("mark") \in WorkState /\ At("mark").pc = "mark"
      BY AtType DEF WorkPC
    <3>4. WorkOk(t, At("mark"))'
      BY <3>2, <3>3 DEF WorkOk, Listed
    <3> QED
      BY <2>1, <3>1, <3>4 DEF Moves
  <2>3. CASE seed[t].status # "PENDING"
    BY <1>3, <1>4, <1>6, <2>1, <2>3 DEF FillSeed
  <2> QED
    BY <2>2, <2>3
<1>7. CASE Mint(p, t)
  <2>1. PICK tr : tr = [contract |-> old.contract, seq |-> old.seq, ticketId |-> t]
    OBVIOUS
  <2>2. PICK w : w = [At("post") EXCEPT !.trade = tr]
    OBVIOUS
  <2>3. trades' = trades \cup {tr} /\ UNCHANGED <<seed, group>> /\ Set(p, t, w)
    BY <1>7, <2>1, <2>2 DEF Mint
  <2>4. old.contract \in Contracts /\ old.seq \in Nat \ {0}
    BY <1>1, <1>7 DEF Mint, WorkOk, WorkState
  <2>5. tr \in MintedTrade
    BY <2>1, <2>4 DEF MintedTrade
  <2>6. Grows
    BY <2>3 DEF Grows
  <2>7. tr \in Minted(t)' /\ Position(t)'
    BY <2>1, <2>3 DEF Minted, Position
  <2>8. At("post") \in WorkState /\ At("post").pc = "post"
    BY AtType DEF WorkPC
  <2>9. w \in WorkState /\ w.pc = "post" /\ w.trade = tr
    BY <2>2, <2>5, <2>8 DEF WorkState, TradeId
  <2>10. WorkOk(t, w)'
    BY <2>7, <2>9 DEF WorkOk
  <2> QED
    BY <2>3, <2>6, <2>10 DEF Moves
<1>8. CASE Join(p, t)
  <2>1. /\ group' = Joined(old.trade) /\ UNCHANGED <<seed, trades>>
        /\ Set(p, t, At("mark")) /\ old.pc = "join"
    BY <1>8 DEF Join
  <2>2. Grows
    BY <2>1 DEF Grows, Joined
  <2>3. Position(t)'
    BY <1>1, <2>1, <2>2, GrowsFacts DEF WorkOk, Closing
  <2>4. Listed(t)'
    <3>1. CASE Own(t)
      BY <2>2, <3>1, GrowsFacts DEF Listed
    <3>2. CASE old.trade \in Minted(t)
      BY <2>1, <2>2, <3>2, GrowsFacts DEF Listed, Joined
    <3> QED
      BY <1>1, <2>1, <3>1, <3>2 DEF WorkOk
  <2>5. At("mark") \in WorkState /\ At("mark").pc = "mark"
    BY AtType DEF WorkPC
  <2>6. WorkOk(t, At("mark"))'
    BY <2>3, <2>4, <2>5 DEF WorkOk
  <2> QED
    BY <2>1, <2>2, <2>6 DEF Moves
<1>9. CASE MarkFilled(p, t)
  BY <1>2, <1>4, <1>9 DEF MarkFilled
<1> QED
  BY <1>5, <1>6, <1>7, <1>8, <1>9

LEMMA MovedWork ==
  ASSUME TicketInv, NEW p \in Passes, NEW t \in Tickets, Moves(p, t), Grows
  PROVE  WorksOk' /\ work' \in [Passes -> [Tickets -> WorkState]]
<1>1. PICK w : Set(p, t, w) /\ WorkOk(t, w)'
  BY DEF Moves
<1>2. /\ work'[p][t] = w
      /\ \A q \in Passes, u \in Tickets : q # p \/ u # t => work'[q][u] = work[q][u]
  BY <1>1, SetWork DEF TicketInv
<1>3. w \in WorkState
  BY <1>1 DEF WorkOk, WorkState
<1>4. work' \in [Passes -> [Tickets -> WorkState]]
  BY <1>1, <1>3, SetWork DEF TicketInv
<1>5. \A q \in Passes, u \in Tickets : \A v : v = work'[q][u] => WorkOk(u, v)'
  BY <1>1, <1>2, WorkStays DEF TicketInv, WorksOk
<1>6. WorksOk'
  BY <1>5 DEF WorksOk
<1> QED
  BY <1>4, <1>6

LEMMA KeptWork ==
  ASSUME TicketInv, UNCHANGED work, Grows
  PROVE  WorksOk' /\ work' \in [Passes -> [Tickets -> WorkState]]
<1>1. work' \in [Passes -> [Tickets -> WorkState]]
  BY TypedWork DEF TicketInv
<1>2. \A q \in Passes, u \in Tickets : \A v : v = work'[q][u] => WorkOk(u, v)'
  BY WorkStays DEF TicketInv, WorksOk
<1>3. WorksOk'
  BY <1>2 DEF WorksOk
<1> QED
  BY <1>1, <1>3

LEMMA CancelGrows ==
  ASSUME TypeOK, NEW t \in Tickets, CancelSteps(t)
  PROVE  Grows /\ UNCHANGED <<trades, group, scene, work, drain, reported, faults, abandoned, overlapped>>
<1>1. CASE CancelSeed(t)
  BY <1>1, SeedGrows DEF CancelSeed, CancelUnchanged, SeedStatus
<1>2. CASE CancelRead(t) \/ CancelList(t) \/ CancelMark(t) \/ CancelSettle(t)
  BY <1>2, SameGrows DEF CancelRead, CancelList, CancelMark, CancelSettle, CancelUnchanged
<1> QED
  BY <1>1, <1>2 DEF CancelSteps

LEMMA DrainGrows ==
  ASSUME TypeOK, NEW p \in Passes, NEW t \in Tickets, Drain(p, t) \/ DrainFails(p, t)
  PROVE  Grows /\ UNCHANGED <<ticket, trades, group, scene, work, cancel, reported, overlapped>>
<1>1. CASE Drain(p, t)
  BY <1>1, SeedGrows DEF Drain, FillPending, SeedStatus
<1>2. CASE DrainFails(p, t)
  BY <1>2, SameGrows DEF DrainFails, docs
<1> QED
  BY <1>1, <1>2

\* Trades, members and open positions are never undone, and a pass keeps what
\* it knows.
LEMMA WorkNext ==
  ASSUME TicketInv, [Next]_vars
  PROVE  Grows /\ WorksOk' /\ work' \in [Passes -> [Tickets -> WorkState]]
<1>0. TypeOK
  BY DEF TicketInv
<1>1. ASSUME NEW p \in Passes, StartPass(p) \/ DiePass(p)
      PROVE  Grows /\ WorksOk' /\ work' \in [Passes -> [Tickets -> WorkState]]
  <2>1. Grows
    BY <1>1, SameGrows DEF StartPass, DiePass, docs
  <2>2. At("check") \in WorkState /\ Off \in WorkState
    BY AtType DEF Off, WorkPC
  <2>3. /\ work' \in [Passes -> [Tickets -> WorkState]]
        /\ \A q \in Passes, u \in Tickets : work'[q][u] \in {work[q][u], Off, At("check")}
    BY <1>0, <1>1, <2>2, TypedWork DEF StartPass, DiePass
  <2>4. \A q \in Passes, u \in Tickets : WorkOk(u, work[q][u])
    BY DEF TicketInv, WorksOk
  <2>5. \A u \in Tickets : \A v : v \in {Off, At("check")} => WorkOk(u, v)
    BY IdleWork
  <2>6. \A q \in Passes, u \in Tickets : \A v : v = work'[q][u] => WorkOk(u, v)'
    BY <2>1, <2>3, <2>4, <2>5, WorkStays
  <2>7. WorksOk'
    BY <2>6 DEF WorksOk
  <2> QED
    BY <2>1, <2>3, <2>7
<1>2. ASSUME NEW p \in Passes, NEW t \in Tickets, Works(p, t) \/ Fails(p, t)
      PROVE  Grows /\ WorksOk' /\ work' \in [Passes -> [Tickets -> WorkState]]
  <2>1. CASE Drain(p, t) \/ DrainFails(p, t)
    BY <1>0, <2>1, DrainGrows, KeptWork
  <2>2. CASE Check(p, t) \/ FillSeed(p, t) \/ Mint(p, t) \/ Join(p, t) \/ MarkFilled(p, t)
    BY <2>2, WritingMoves, MovedWork
  <2>3. CASE \/ Recheck(p, t) \/ NoContract(p, t) \/ Dedupe(p, t) \/ Scan(p, t) \/ MintRaced(p, t)
             \/ MintFails(p, t) \/ Post(p, t) \/ JoinFails(p, t) \/ MarkFails(p, t)
    BY <2>3, ReadingMoves, SameGrows, MovedWork DEF docs
  <2> QED
    BY <1>2, <2>1, <2>2, <2>3 DEF Works, Fails
<1>3. ASSUME NEW t \in Tickets, CancelSteps(t)
      PROVE  Grows /\ WorksOk' /\ work' \in [Passes -> [Tickets -> WorkState]]
  BY <1>0, <1>3, CancelGrows, KeptWork
<1>4. CASE UNCHANGED vars
  BY <1>4, SameGrows, KeptWork DEF vars, docs
<1> QED
  BY <1>1, <1>2, <1>3, <1>4 DEF Next

LEMMA JoinedType ==
  ASSUME TypeOK, IsFiniteSet(group.members), NEW tr \in TradeId
  PROVE  /\ Joined(tr) \in [members : SUBSET TradeId, openCount : Nat]
         /\ IsFiniteSet(Joined(tr).members)
         /\ group.openCount = Cardinality(group.members)
              => Joined(tr).openCount = Cardinality(Joined(tr).members)
<1>1. group.members \in SUBSET TradeId /\ group.openCount \in Nat
  BY DEF TypeOK
<1>2. /\ IsFiniteSet(group.members \cup {tr})
      /\ Cardinality(group.members \cup {tr}) =
           IF tr \in group.members THEN Cardinality(group.members) ELSE Cardinality(group.members) + 1
  BY FS_AddElement
<1> QED
  BY <1>1, <1>2 DEF Joined

LEMMA GroupNext ==
  ASSUME TicketInv, [Next]_vars
  PROVE  /\ group' \in [members : SUBSET TradeId, openCount : Nat]
         /\ IsFiniteSet(group'.members)
         /\ group.openCount = Cardinality(group.members)
              => group'.openCount = Cardinality(group'.members)
<1>1. TypeOK /\ IsFiniteSet(group.members)
  BY DEF TicketInv
<1>2. CASE UNCHANGED group
  BY <1>1, <1>2 DEF TypeOK
<1>3. ASSUME NEW p \in Passes, NEW t \in Tickets, Join(p, t)
      PROVE  \E tr \in TradeId : group' = Joined(tr)
  <2>1. WorkOk(t, work[p][t]) /\ work[p][t].pc = "join" /\ group' = Joined(work[p][t].trade)
    BY <1>3, OkWork DEF Join
  <2>2. work[p][t].trade \in TradeId
    BY <1>1, <2>1, MintedFacts DEF WorkOk, TypeOK, TradeId
  <2> QED
    BY <2>1, <2>2
<1>4. UNCHANGED group \/ \E tr \in TradeId : group' = Joined(tr)
  <2>1. ASSUME NEW p \in Passes, NEW t \in Tickets, Works(p, t) \/ Fails(p, t), ~Join(p, t)
        PROVE  UNCHANGED group
    <3>1. CASE Drain(p, t) \/ DrainFails(p, t)
      BY <1>1, <3>1, DrainGrows
    <3>2. CASE Check(p, t) \/ FillSeed(p, t) \/ Mint(p, t) \/ MarkFilled(p, t)
      BY <3>2 DEF Check, FillSeed, Mint, MarkFilled
    <3> QED
      BY <2>1, <3>1, <3>2, ReadingMoves DEF Works, Fails, docs
  <2>2. ASSUME NEW p \in Passes, StartPass(p) \/ DiePass(p) PROVE UNCHANGED group
    BY <2>2 DEF StartPass, DiePass, docs
  <2>3. ASSUME NEW t \in Tickets, CancelSteps(t) PROVE UNCHANGED group
    BY <1>1, <2>3, CancelGrows
  <2>4. CASE UNCHANGED vars
    BY <2>4 DEF vars, docs
  <2> QED
    BY <1>3, <2>1, <2>2, <2>3, <2>4 DEF Next
<1> QED
  BY <1>1, <1>2, <1>4, JoinedType

LEMMA TicketTypeNext == TicketInv /\ [Next]_vars => TypeOK'
<1> SUFFICES ASSUME TicketInv, [Next]_vars PROVE TypeOK'
  OBVIOUS
<1>0. /\ TypeOK /\ work' \in [Passes -> [Tickets -> WorkState]]
      /\ group' \in [members : SUBSET TradeId, openCount : Nat]
  BY WorkNext, GroupNext DEF TicketInv
<1> DEFINE Rest == /\ ticket' \in [Tickets -> TicketState]
                   /\ seed' \in [Tickets -> [kind : SeedKinds, status : SeedStatus]]
                   /\ trades' \subseteq MintedTrade /\ scene' \in Scenes
                   /\ drain' \in [Passes -> SUBSET Tickets] /\ cancel' \in [Tickets -> CancelPC]
                   /\ reported' \subseteq Tickets /\ faults' \in 0..MaxFaults
                   /\ abandoned' \subseteq Tickets /\ overlapped' \in BOOLEAN
<1> SUFFICES Rest
  BY <1>0 DEF TypeOK, WorkState
<1>1. CASE UNCHANGED vars
  BY <1>0, <1>1 DEF vars, docs, TypeOK
<1>2. ASSUME NEW p \in Passes, StartPass(p) PROVE Rest
  <2>1. drain' \in [Passes -> SUBSET Tickets] /\ overlapped' \in BOOLEAN
    BY <1>0, <1>2 DEF StartPass, TypeOK
  <2> QED
    BY <1>0, <1>2, <2>1 DEF StartPass, docs, TypeOK
<1>3. ASSUME NEW p \in Passes, DiePass(p) PROVE Rest
  <2>1. faults' \in 0..MaxFaults /\ abandoned' \subseteq Tickets
    BY <1>0, <1>3, FailureType DEF DiePass
  <2>2. drain' \in [Passes -> SUBSET Tickets]
    BY <1>0, <1>3 DEF DiePass, TypeOK
  <2> QED
    BY <1>0, <1>3, <2>1, <2>2 DEF DiePass, docs, TypeOK
<1>4. ASSUME NEW p \in Passes, NEW t \in Tickets, Fails(p, t) PROVE Rest
  <2>1. faults' \in 0..MaxFaults /\ abandoned' \subseteq Tickets
    BY <1>0, <1>4, FailureType DEF Fails, NoContract, MintFails, JoinFails, MarkFails, DrainFails, Failure
  <2>2. drain' \in [Passes -> SUBSET Tickets]
    BY <1>0, <1>4 DEF Fails, NoContract, MintFails, JoinFails, MarkFails, DrainFails,
      PassUnchanged, TypeOK
  <2>3. UNCHANGED <<docs, scene, cancel, reported, overlapped>>
    BY <1>4 DEF Fails, NoContract, MintFails, JoinFails, MarkFails, DrainFails, PassUnchanged
  <2> QED
    BY <1>0, <2>1, <2>2, <2>3 DEF docs, TypeOK
<1>5. ASSUME NEW p \in Passes, NEW t \in Tickets, Works(p, t) PROVE Rest
  <2>1. ticket' \in [Tickets -> TicketState]
    <3>1. UNCHANGED ticket \/ \E to \in {"filled", "cancelled"} : Transition(t, to)
      BY <1>5 DEF Works, Check, Recheck, FillSeed, Dedupe, Scan, Mint, MintRaced, Post, Join,
        MarkFilled, Drain, docs
    <3> QED
      BY <1>0, <3>1, TransitionFacts DEF TypeOK
  <2>2. seed' \in [Tickets -> [kind : SeedKinds, status : SeedStatus]]
    <3>1. UNCHANGED seed \/ FillPending(t)
      BY <1>5 DEF Works, Check, Recheck, FillSeed, Dedupe, Scan, Mint, MintRaced, Post, Join,
        MarkFilled, Drain, docs
    <3> QED
      BY <1>0, <3>1, SeedWritten DEF TypeOK, FillPending, SeedStatus
  <2>3. trades' \subseteq MintedTrade
    <3>1. CASE Mint(p, t)
      <4>1. work[p][t].contract \in Contracts /\ work[p][t].seq \in Nat \ {0}
        BY <3>1, OkWork DEF Mint, WorkOk, WorkState
      <4> QED
        BY <1>0, <3>1, <4>1 DEF Mint, MintedTrade, TypeOK
    <3>2. CASE ~Mint(p, t)
      BY <1>0, <1>5, <3>2 DEF Works, Check, Recheck, FillSeed, Dedupe, Scan, MintRaced, Post,
        Join, MarkFilled, Drain, docs, TypeOK
    <3> QED
      BY <3>1, <3>2
  <2>4. /\ drain' \in [Passes -> SUBSET Tickets] /\ reported' \subseteq Tickets
        /\ UNCHANGED <<scene, cancel, faults, abandoned, overlapped>>
    BY <1>0, <1>5 DEF Works, Check, Recheck, FillSeed, Dedupe, Scan, Mint, MintRaced, Post, Join,
      MarkFilled, Drain, PassUnchanged, NoFailure, TypeOK
  <2> QED
    BY <1>0, <2>1, <2>2, <2>3, <2>4 DEF TypeOK
<1>6. ASSUME NEW t \in Tickets, CancelSteps(t) PROVE Rest
  <2>1. ticket' \in [Tickets -> TicketState]
    BY <1>0, <1>6, TransitionFacts DEF CancelSteps, CancelRead, CancelList, CancelMark, CancelSeed,
      CancelSettle, TypeOK
  <2>2. seed' \in [Tickets -> [kind : SeedKinds, status : SeedStatus]]
    <3>1. CASE CancelSeed(t)
      BY <1>0, <3>1, SeedWritten DEF CancelSeed, SeedStatus
    <3>2. CASE UNCHANGED seed
      BY <1>0, <3>2 DEF TypeOK
    <3> QED
      BY <1>6, <3>1, <3>2 DEF CancelSteps, CancelRead, CancelList, CancelMark, CancelSettle
  <2>3. \E to \in CancelPC : cancel' = [cancel EXCEPT ![t] = to]
    BY <1>6 DEF CancelSteps, CancelRead, CancelList, CancelMark, CancelSeed, CancelSettle,
      CancelStep, CancelPC
  <2> QED
    BY <1>0, <1>6, <2>1, <2>2, <2>3, CancelGrows DEF TypeOK
<1> QED
  BY <1>1, <1>2, <1>3, <1>4, <1>5, <1>6 DEF Next

-----------------------------------------------------------------------------
(***************************************************************************)
(* What a step writes: at most one trade, or one seed, or one ticket.      *)
(***************************************************************************)
SeedWrite(t) ==
  /\ UNCHANGED <<ticket, trades>>
  /\ \E s \in {"OPEN", "CANCELLED"} :
       seed' = [seed EXCEPT ![t].status = IF @ = "PENDING" THEN s ELSE @]

TicketWrite(t) ==
  /\ UNCHANGED <<seed, trades>>
  /\ \/ Transition(t, "filled") /\ Position(t) /\ Listed(t)
     \/ Transition(t, "cancelled") /\ (Own(t) => seed[t].status = "CANCELLED")

LEMMA PassWrites ==
  ASSUME TicketInv, NEW p \in Passes, NEW t \in Tickets, Works(p, t) \/ Fails(p, t)
  PROVE  UNCHANGED <<ticket, seed, trades>> \/ Mint(p, t) \/ SeedWrite(t) \/ TicketWrite(t)
<1>1. TypeOK
  BY DEF TicketInv
<1>2. CASE Check(p, t)
  BY <1>2 DEF Check, TicketWrite
<1>3. CASE FillSeed(p, t) \/ Drain(p, t)
  BY <1>3 DEF FillSeed, Drain, FillPending, SeedWrite
<1>4. CASE MarkFilled(p, t)
  <2>1. Position(t) /\ Listed(t)
    BY <1>4, OkWork DEF MarkFilled, WorkOk, Closing
  <2> QED
    BY <1>4, <2>1 DEF MarkFilled, TicketWrite
<1>5. CASE Join(p, t) \/ DrainFails(p, t)
  BY <1>5 DEF Join, DrainFails, docs
<1> QED
  BY <1>2, <1>3, <1>4, <1>5, ReadingMoves DEF Works, Fails, docs

LEMMA CancelWrites ==
  ASSUME TicketInv, NEW t \in Tickets, CancelSteps(t)
  PROVE  UNCHANGED <<ticket, seed, trades>> \/ SeedWrite(t) \/ TicketWrite(t)
<1>0. SeedsAgree /\ UNCHANGED trades
  BY CancelGrows DEF TicketInv
<1>1. CASE CancelRead(t) \/ CancelList(t)
  BY <1>0, <1>1 DEF CancelRead, CancelList
<1>2. CASE CancelMark(t)
  BY <1>0, <1>2 DEF CancelMark, CancelStep, TicketWrite, SeedsAgree, Own
<1>3. CASE CancelSeed(t)
  BY <1>0, <1>3 DEF CancelSeed, SeedWrite
<1>4. CASE CancelSettle(t)
  BY <1>0, <1>4 DEF CancelSettle, CancelStep, TicketWrite, SeedsAgree
<1> QED
  BY <1>1, <1>2, <1>3, <1>4 DEF CancelSteps

LEMMA StepWrites ==
  ASSUME TicketInv, [Next]_vars
  PROVE  \/ UNCHANGED <<ticket, seed, trades>>
         \/ \E p \in Passes, t \in Tickets : Mint(p, t)
         \/ \E t \in Tickets : SeedWrite(t) \/ TicketWrite(t)
BY PassWrites, CancelWrites DEF Next, StartPass, DiePass, vars, docs

LEMMA MintWrites ==
  ASSUME TicketInv, NEW p \in Passes, NEW t \in Tickets, Mint(p, t)
  PROVE  /\ UNCHANGED <<ticket, seed>> /\ ~Own(t)
         /\ \A u \in Tickets : u # t => Minted(u)' = Minted(u)
         /\ \E tr : /\ tr.contract = work[p][t].contract /\ tr.seq = work[p][t].seq
                    /\ trades' = trades \cup {tr} /\ Minted(t)' = Minted(t) \cup {tr}
<1>1. ~Own(t) /\ UNCHANGED <<ticket, seed>>
  BY OkWork DEF Mint, WorkOk
<1>2. PICK tr : tr = [contract |-> work[p][t].contract, seq |-> work[p][t].seq, ticketId |-> t]
  OBVIOUS
<1>3. trades' = trades \cup {tr}
  BY <1>2 DEF Mint
<1>4. tr.ticketId = t /\ tr.contract = work[p][t].contract /\ tr.seq = work[p][t].seq
  BY <1>2
<1> HIDE DEF Mint
<1>5. \A u \in Tickets : u # t => Minted(u)' = Minted(u)
  BY <1>3, <1>4 DEF Minted
<1>6. Minted(t)' = Minted(t) \cup {tr}
  BY <1>3, <1>4 DEF Minted
<1> QED
  BY <1>1, <1>3, <1>4, <1>5, <1>6

LEMMA ContiguousNext ==
  ASSUME TicketInv, [Next]_vars PROVE Contiguous'
<1>0. TypeOK /\ Contiguous
  BY DEF TicketInv
<1>1. CASE UNCHANGED trades
  BY <1>0, <1>1 DEF Contiguous, Sequences
<1>2. ASSUME NEW p \in Passes, NEW t \in Tickets, Mint(p, t) PROVE Contiguous'
  <2> DEFINE w == work[p][t]
  <2>1. /\ w.contract \in Contracts /\ w.seq \in Nat \ {0}
        /\ \A n \in Nat \ {0} : n < w.seq => Taken(w.contract, n)
        /\ ~Taken(w.contract, w.seq)
    BY <1>2, OkWork DEF Mint, WorkOk, WorkState
  <2>2. PICK k \in Nat : Sequences(w.contract) = 1..k
    BY <1>0, <2>1 DEF Contiguous
  <2>3. w.seq = k + 1
    <3>1. w.seq \notin 1..k
      BY <1>0, <2>1, <2>2, TakenNumber
    <3>2. ~(k + 1 < w.seq)
      <4> SUFFICES ASSUME k + 1 < w.seq PROVE FALSE
        OBVIOUS
      <4>1. k + 1 \in Sequences(w.contract)
        BY <1>0, <2>1, TakenNumber
      <4> QED
        BY <2>2, <4>1
    <3> QED
      BY <2>1, <2>2, <3>1, <3>2
  <2>4. PICK tr : /\ tr.contract = w.contract /\ tr.seq = w.seq
                  /\ trades' = trades \cup {tr}
    BY <1>2, MintWrites
  <2>5. ASSUME NEW c \in Contracts, c # w.contract PROVE Sequences(c)' = Sequences(c)
    BY <2>4, <2>5 DEF Sequences
  <2>6. \A c : c = w.contract => Sequences(c)' = 1..(k + 1)
    <3>1. \A c : c = w.contract => Sequences(c)' = Sequences(c) \cup {k + 1}
      BY <2>3, <2>4 DEF Sequences
    <3>2. (1..k) \cup {k + 1} = 1..(k + 1)
      OBVIOUS
    <3> QED
      BY <2>2, <3>1, <3>2
  <2> QED
    BY <1>0, <2>2, <2>5, <2>6 DEF Contiguous
<1> QED
  BY <1>1, <1>2, StepWrites DEF SeedWrite, TicketWrite

\* The seeds: whose they are is fixed, a pending trade is opened or cancelled.
LEMMA SeedNext ==
  ASSUME TicketInv, [Next]_vars, NEW t \in Tickets
  PROVE  /\ seed'[t].kind = seed[t].kind
         /\ \/ seed'[t].status = seed[t].status
            \/ seed[t].status = "PENDING" /\ seed'[t].status \in {"OPEN", "CANCELLED"}
<1>1. CASE UNCHANGED seed
  BY <1>1
<1>2. ASSUME NEW u \in Tickets, SeedWrite(u)
      PROVE  /\ seed'[t].kind = seed[t].kind
             /\ \/ seed'[t].status = seed[t].status
                \/ seed[t].status = "PENDING" /\ seed'[t].status \in {"OPEN", "CANCELLED"}
  BY <1>2, SeedWritten DEF SeedWrite, TicketInv, SeedStatus
<1> QED
  BY <1>1, <1>2, StepWrites, MintWrites DEF TicketWrite

\* The tickets: a fill finds an open position, a cancellation no pending one.
LEMMA TicketNext ==
  ASSUME TicketInv, [Next]_vars, NEW t \in Tickets
  PROVE  \/ ticket'[t] = ticket[t]
         \/ /\ ticket[t] # "absent" /\ ticket'[t] = "filled"
            /\ Listed(t) /\ Position(t) /\ UNCHANGED trades
         \/ /\ ticket[t] = "staged" /\ ticket'[t] = "cancelled"
            /\ Own(t) => seed[t].status = "CANCELLED"
<1>1. CASE UNCHANGED ticket
  BY <1>1
<1>2. ASSUME NEW u \in Tickets, TicketWrite(u)
      PROVE  \/ ticket'[t] = ticket[t]
             \/ /\ ticket[t] # "absent" /\ ticket'[t] = "filled"
                /\ Listed(t) /\ Position(t) /\ UNCHANGED trades
             \/ /\ ticket[t] = "staged" /\ ticket'[t] = "cancelled"
                /\ Own(t) => seed[t].status = "CANCELLED"
  <2>1. UNCHANGED trades /\ TypeOK
    BY <1>2 DEF TicketInv, TicketWrite
  <2>2. CASE Transition(u, "filled") /\ Position(u) /\ Listed(u)
    BY <2>1, <2>2, TransitionFacts
  <2>3. CASE Transition(u, "cancelled") /\ (Own(u) => seed[u].status = "CANCELLED")
    BY <2>1, <2>3, TransitionFacts
  <2> QED
    BY <1>2, <2>2, <2>3 DEF TicketWrite
<1> QED
  BY <1>1, <1>2, StepWrites, MintWrites DEF SeedWrite

LEMMA SeedsAgreeNext ==
  ASSUME TicketInv, [Next]_vars PROVE SeedsAgree'
<1>0. TypeOK /\ SeedsAgree
  BY DEF TicketInv
<1> SUFFICES ASSUME NEW t \in Tickets
    PROVE /\ seed'[t].kind = "none" <=> seed'[t].status = "absent"
          /\ Own(t)' => Minted(t)' = {}
          /\ Own(t)' /\ ticket'[t] = "cancelled" => seed'[t].status # "PENDING"
          /\ cancel'[t] \in {"list", "mark"} => seed'[t].kind = "none"
          /\ cancel'[t] = "settle" => seed'[t].status = "CANCELLED"
          /\ \A p \in Passes : t \in drain'[p] /\ Own(t)' => ticket'[t] # "staged"
  BY DEF SeedsAgree
<1>1. Own(t)' <=> Own(t)
  BY SeedNext DEF Own
<1>2. Own(t) => Minted(t)' = {}
  <2>1. \/ Minted(t)' = Minted(t)
        \/ \E p \in Passes : Mint(p, t)
    BY StepWrites, MintWrites DEF Minted, SeedWrite, TicketWrite
  <2> QED
    BY <1>0, <2>1, MintWrites DEF SeedsAgree
<1>3. Own(t) /\ ticket'[t] = "cancelled" => seed'[t].status # "PENDING"
  BY <1>0, SeedNext, TicketNext DEF SeedsAgree
<1>4. /\ cancel'[t] \in {"list", "mark"} => seed'[t].kind = "none"
      /\ cancel'[t] = "settle" => seed'[t].status = "CANCELLED"
  <2>1. CASE cancel'[t] = cancel[t]
    BY <1>0, <2>1, SeedNext DEF SeedsAgree
  <2>2. ASSUME CancelSteps(t)
        PROVE  /\ cancel'[t] \in {"list", "mark"} => seed'[t].kind = "none"
               /\ cancel'[t] = "settle" => seed'[t].status = "CANCELLED"
    <3>1. CASE CancelRead(t)
      <4>1. /\ cancel'[t] \in {"list", "cancelSeed", "over"} /\ UNCHANGED seed
            /\ cancel'[t] = "list" => seed[t].status = "absent"
        BY <1>0, <3>1 DEF CancelRead, CancelStep, TypeOK
      <4> QED
        BY <1>0, <4>1 DEF SeedsAgree
    <3>2. CASE CancelList(t) \/ CancelMark(t) \/ CancelSettle(t)
      BY <1>0, <3>2 DEF CancelList, CancelMark, CancelSettle, CancelStep, TypeOK, SeedsAgree
    <3>3. CASE CancelSeed(t)
      <4>1. /\ cancel'[t] \in {"settle", "over"}
            /\ cancel'[t] = "settle" => seed[t].status = "PENDING"
        BY <1>0, <3>3 DEF CancelSeed, CancelStep, TypeOK
      <4>2. seed[t].status = "PENDING" => seed'[t].status = "CANCELLED"
        BY <1>0, <3>3, SeedWritten DEF CancelSeed, SeedStatus
      <4> QED
        BY <4>1, <4>2
    <3> QED
      BY <2>2, <3>1, <3>2, <3>3 DEF CancelSteps
  <2>3. cancel'[t] = cancel[t] \/ CancelSteps(t)
    <3>1. ASSUME NEW u \in Tickets, u # t, CancelSteps(u) PROVE cancel'[t] = cancel[t]
      BY <1>0, <3>1 DEF CancelSteps, CancelRead, CancelList, CancelMark, CancelSeed, CancelSettle,
        CancelStep, TypeOK
    <3>2. ASSUME NEW p \in Passes, NEW u \in Tickets, Works(p, u) \/ Fails(p, u)
          PROVE  UNCHANGED cancel
      BY <3>2 DEF Works, Fails, Check, Recheck, FillSeed, Dedupe, Scan, Mint, MintRaced, Post, Join,
        MarkFilled, Drain, NoContract, MintFails, JoinFails, MarkFails, DrainFails, PassUnchanged
    <3> QED
      BY <3>1, <3>2 DEF Next, StartPass, DiePass, vars
  <2> QED
    BY <2>1, <2>2, <2>3
<1>5. ASSUME NEW p \in Passes, t \in drain'[p], Own(t) PROVE ticket'[t] # "staged"
  <2>1. CASE t \in drain[p]
    BY <1>0, <1>5, <2>1, TicketNext DEF SeedsAgree
  <2>2. CASE StartPass(p)
    BY <1>0, <1>5, <2>2 DEF StartPass, DrainsSeed, docs, TypeOK
  <2>3. drain'[p] \subseteq drain[p] \/ StartPass(p)
    <3>1. ASSUME NEW q \in Passes, NEW u \in Tickets, Works(q, u) \/ Fails(q, u)
          PROVE  drain'[p] \subseteq drain[p]
      <4>1. UNCHANGED drain \/ drain' = [drain EXCEPT ![q] = @ \ {u}]
        BY <3>1 DEF Works, Fails, Check, Recheck, FillSeed, Dedupe, Scan, Mint, MintRaced, Post,
          Join, MarkFilled, Drain, NoContract, MintFails, JoinFails, MarkFails, DrainFails, PassUnchanged
      <4> QED
        BY <1>0, <4>1 DEF TypeOK
    <3>2. ASSUME NEW q \in Passes, StartPass(q) \/ DiePass(q), ~StartPass(p)
          PROVE  drain'[p] \subseteq drain[p]
      BY <1>0, <3>2 DEF StartPass, DiePass, TypeOK
    <3>3. ASSUME NEW u \in Tickets, CancelSteps(u) PROVE UNCHANGED drain
      BY <1>0, <3>3, CancelGrows
    <3> QED
      BY <3>1, <3>2, <3>3 DEF Next, vars
  <2> QED
    BY <1>5, <2>1, <2>2, <2>3
<1>6. seed'[t].kind = "none" <=> seed'[t].status = "absent"
  BY <1>0, SeedNext DEF SeedsAgree
<1> QED
  BY <1>1, <1>2, <1>3, <1>4, <1>5, <1>6

LEMMA TicketInvNext == TicketInv /\ [Next]_vars => TicketInv'
BY TicketTypeNext, GroupNext, ContiguousNext, WorkNext, SeedsAgreeNext DEF TicketInv

LEMMA TicketInvariant == Spec => []TicketInv
BY TicketInit, TicketInvNext, PTL DEF Spec

\* Tickets, seeds, trades, the group and every party keep their shapes; a
\* minted trade always has a contract and a number.
THEOREM TypeCorrect == Spec => []TypeOK
<1>1. TicketInv => TypeOK
  BY DEF TicketInv
<1> QED
  BY <1>1, TicketInvariant, PTL

-----------------------------------------------------------------------------
(***************************************************************************)
(* A trade that exists is either in the ticket, or somebody is closing it  *)
(* out, or a failure stopped that.                                         *)
(***************************************************************************)
LEMMA WhoMoves ==
  ASSUME TicketInv, [Next]_vars, NEW p \in Passes, NEW t \in Tickets,
         work'[p][t] # work[p][t]
  PROVE  \/ StartPass(p) \/ DiePass(p)
         \/ (Works(p, t) \/ Fails(p, t)) /\ Moves(p, t)
<1>0. TypeOK
  BY DEF TicketInv
<1>1. ASSUME NEW q \in Passes, NEW u \in Tickets, Works(q, u) \/ Fails(q, u)
      PROVE  UNCHANGED work \/ Moves(q, u)
  <2>1. CASE Drain(q, u) \/ DrainFails(q, u)
    BY <1>0, <2>1, DrainGrows
  <2> QED
    BY <1>1, <2>1, ReadingMoves, WritingMoves DEF Works, Fails
<1>2. ASSUME NEW q \in Passes, NEW u \in Tickets, Moves(q, u), q # p \/ u # t
      PROVE  work'[p][t] = work[p][t]
  BY <1>0, <1>2, SetWork DEF Moves
<1>3. ASSUME NEW q \in Passes, StartPass(q) \/ DiePass(q), q # p PROVE work'[p][t] = work[p][t]
  BY <1>0, <1>3 DEF StartPass, DiePass, TypeOK
<1>4. ASSUME NEW u \in Tickets, CancelSteps(u) PROVE UNCHANGED work
  BY <1>0, <1>4, CancelGrows
<1> QED
  BY <1>1, <1>2, <1>3, <1>4 DEF Next, vars

\* What is logged and what a failure left behind is remembered.
LEMMA Remembered ==
  ASSUME TicketInv, [Next]_vars PROVE reported \subseteq reported' /\ abandoned \subseteq abandoned'
<1>0. TypeOK
  BY DEF TicketInv
<1>1. ASSUME NEW p \in Passes, NEW t \in Tickets, Works(p, t)
      PROVE  reported \subseteq reported' /\ UNCHANGED abandoned
  BY <1>1 DEF Works, Check, Recheck, FillSeed, Dedupe, Scan, Mint, MintRaced, Post, Join, MarkFilled,
    Drain, PassUnchanged, NoFailure
<1>2. ASSUME NEW p \in Passes, NEW t \in Tickets, Fails(p, t)
      PROVE  UNCHANGED reported /\ abandoned \subseteq abandoned'
  BY <1>2 DEF Fails, NoContract, MintFails, JoinFails, MarkFails, DrainFails, PassUnchanged,
    Failure, FailureFor
<1>3. ASSUME NEW p \in Passes, StartPass(p) \/ DiePass(p)
      PROVE  UNCHANGED reported /\ abandoned \subseteq abandoned'
  BY <1>3 DEF StartPass, DiePass, FailureFor
<1> QED
  BY <1>0, <1>1, <1>2, <1>3, CancelGrows DEF Next, vars

LEMMA ClosingNext ==
  ASSUME TicketInv, [Next]_vars, NEW p \in Passes, NEW t \in Tickets, work[p][t].pc \in Closing
  PROVE  \/ work'[p][t].pc \in Closing \/ t \in abandoned'
         \/ ticket'[t] \notin {"staged", "cancelled"}
<1> DEFINE Good == \/ work'[p][t].pc \in Closing \/ t \in abandoned'
                   \/ ticket'[t] \notin {"staged", "cancelled"}
<1>0. TypeOK
  BY DEF TicketInv
<1>1. CASE work'[p][t] = work[p][t]
  BY <1>1
<1>2. CASE StartPass(p)
  BY <1>2 DEF StartPass, Running, Closing
<1>3. CASE DiePass(p)
  BY <1>3 DEF DiePass, FailureFor
<1>4. CASE JoinFails(p, t) \/ MarkFails(p, t)
  BY <1>4 DEF JoinFails, MarkFails, FailureFor
<1>5. CASE MarkFilled(p, t)
  BY <1>0, <1>5, TransitionFacts DEF MarkFilled
<1>6. CASE Join(p, t)
  <2>1. work'[p][t] = At("mark")
    BY <1>0, <1>6, SetWork DEF Join
  <2> QED
    BY <2>1 DEF At, Closing
<1>7. CASE Post(p, t)
  <2>1. work'[p][t] = [work[p][t] EXCEPT !.pc = "join"]
    BY <1>0, <1>7, SetWork DEF Post, Goto
  <2>2. work[p][t] \in WorkState
    BY OkWork
  <2> QED
    BY <2>1, <2>2 DEF WorkState, Closing
<1>8. ASSUME Check(p, t) \/ Recheck(p, t) \/ FillSeed(p, t) \/ Dedupe(p, t) \/ Scan(p, t)
             \/ Mint(p, t) \/ MintRaced(p, t) \/ NoContract(p, t) \/ MintFails(p, t)
      PROVE  FALSE
  BY <1>8 DEF Check, Recheck, FillSeed, Dedupe, Scan, Mint, MintRaced, NoContract, MintFails, Closing
<1>9. CASE Drain(p, t) \/ DrainFails(p, t)
  BY <1>0, <1>9, DrainGrows
<1> QED
  BY <1>1, <1>2, <1>3, <1>4, <1>5, <1>6, <1>7, <1>8, <1>9, WhoMoves DEF Works, Fails

LEMMA MintPosts ==
  ASSUME TicketInv, NEW p \in Passes, NEW t \in Tickets, Mint(p, t)
  PROVE  work'[p][t].pc = "post"
<1>1. PICK tr : Set(p, t, [At("post") EXCEPT !.trade = tr])
  BY DEF Mint
<1>2. work'[p][t] = [At("post") EXCEPT !.trade = tr]
  BY <1>1, SetWork DEF TicketInv
<1> QED
  BY <1>2 DEF At

\* Whoever opens a position closes the ticket out, or the ticket is not asked.
LEMMA Opening ==
  ASSUME TicketInv, [Next]_vars, NEW t \in Tickets, ~Position(t), Position(t)'
  PROVE  \/ \E p \in Passes : work'[p][t].pc \in Closing
         \/ ticket'[t] \notin {"staged", "cancelled"}
<1>0. TypeOK /\ SeedsAgree
  BY DEF TicketInv
<1>1. CASE \E p \in Passes : Mint(p, t)
  BY <1>1, MintPosts DEF Closing
<1>2. ASSUME SeedWrite(t), Own(t), seed[t].status = "PENDING", seed'[t].status = "OPEN"
      PROVE  \/ \E p \in Passes : work'[p][t].pc \in Closing
             \/ ticket'[t] \notin {"staged", "cancelled"}
  <2>0. UNCHANGED ticket /\ ticket[t] # "cancelled"
    BY <1>0, <1>2 DEF SeedWrite, SeedsAgree
  <2>1. ASSUME NEW p \in Passes, FillSeed(p, t) PROVE work'[p][t].pc \in Closing
    <3>1. Set(p, t, At("mark"))
      BY <1>2, <2>1 DEF FillSeed
    <3>2. work'[p][t] = At("mark")
      BY <1>0, <3>1, SetWork
    <3> QED
      BY <3>2 DEF At, Closing
  <2>2. ASSUME NEW p \in Passes, Drain(p, t) PROVE ticket'[t] # "staged"
    BY <1>0, <1>2, <2>0, <2>2 DEF Drain, SeedsAgree
  <2>3. ~CancelSeed(t)
    <3> SUFFICES ASSUME CancelSeed(t) PROVE FALSE
      OBVIOUS
    <3>1. seed'[t].status = "CANCELLED"
      BY <1>0, <1>2, SeedWritten DEF CancelSeed, SeedStatus
    <3> QED
      BY <1>2, <3>1
  <2>4. \/ \E p \in Passes : FillSeed(p, t) \/ Drain(p, t)
        \/ CancelSeed(t)
    <3>1. ASSUME NEW p \in Passes, NEW u \in Tickets, Works(p, u) \/ Fails(p, u)
          PROVE  UNCHANGED seed \/ FillSeed(p, u) \/ Drain(p, u)
      BY <3>1, ReadingMoves DEF Works, Fails, docs, Check, Mint, Join, MarkFilled, DrainFails
    <3>2. ASSUME NEW u \in Tickets, CancelSteps(u) PROVE UNCHANGED seed \/ CancelSeed(u)
      BY <3>2 DEF CancelSteps, CancelRead, CancelList, CancelMark, CancelSettle
    <3>3. ASSUME NEW u \in Tickets, u # t,
                 CancelSeed(u) \/ \E p \in Passes : FillSeed(p, u) \/ Drain(p, u)
          PROVE  seed'[t] = seed[t]
      BY <1>0, <3>3 DEF CancelSeed, FillSeed, Drain, FillPending, TypeOK
    <3>4. seed'[t] # seed[t]
      BY <1>2
    <3> QED
      BY <3>1, <3>2, <3>3, <3>4 DEF Next, StartPass, DiePass, vars, docs
  <2> QED
    BY <2>0, <2>1, <2>2, <2>3, <2>4
<1>3. CASE ~\E p \in Passes : Mint(p, t)
  <2>1. Minted(t)' = Minted(t)
    BY <1>3, StepWrites, MintWrites DEF Minted, SeedWrite, TicketWrite
  <2>2. seed'[t].kind = "own" /\ seed'[t].status = "OPEN" /\ seed[t].status # "OPEN"
    BY <2>1, SeedNext DEF Position
  <2>3. seed[t].status = "PENDING" /\ Own(t) /\ seed'[t] # seed[t]
    BY <2>2, SeedNext DEF Own
  <2>4. SeedWrite(t)
    <3>1. ASSUME NEW u \in Tickets, u # t, SeedWrite(u) PROVE seed'[t] = seed[t]
      BY <1>0, <3>1 DEF SeedWrite, TypeOK
    <3> QED
      BY <2>3, <3>1, StepWrites, MintWrites DEF TicketWrite
  <2> QED
    BY <1>2, <2>2, <2>3, <2>4
<1> QED
  BY <1>1, <1>3

LEMMA OpenIsClosingNext == TicketInv /\ OpenIsClosing /\ [Next]_vars => OpenIsClosing'
<1> SUFFICES ASSUME TicketInv, OpenIsClosing, [Next]_vars, NEW t \in Tickets,
                    ticket'[t] \in {"staged", "cancelled"}, Position(t)'
             PROVE  t \in abandoned' \/ \E p \in Passes : work'[p][t].pc \in Closing
  BY DEF OpenIsClosing
<1>1. CASE ~Position(t)
  BY <1>1, Opening
<1>2. CASE Position(t)
  <2>1. ticket[t] \in {"staged", "cancelled"}
    BY TicketNext
  <2>2. t \in abandoned \/ \E p \in Passes : work[p][t].pc \in Closing
    BY <1>2, <2>1 DEF OpenIsClosing
  <2> QED
    BY <2>2, ClosingNext, Remembered
<1> QED
  BY <1>1, <1>2

LEMMA OpenIsClosingAlways == Spec => []OpenIsClosing
BY TicketInit, OpenIsClosingNext, TicketInvariant, PTL DEF Spec

\* A trade opened under a ticket that was cancelled meanwhile is never left
\* behind by a pass, unless a failure stopped it: whoever opens it goes on to
\* mark the ticket filled, and a fill wins over the cancellation.
THEOREM CancelledTicketsHaveNoPosition == Spec => []CancelledHasNoPosition
<1>1. OpenIsClosing => CancelledHasNoPosition
  BY DEF OpenIsClosing, CancelledHasNoPosition
<1> QED
  BY <1>1, OpenIsClosingAlways, PTL

-----------------------------------------------------------------------------
(***************************************************************************)
(* The group.                                                              *)
(***************************************************************************)
GroupInv == group.openCount = Cardinality(group.members) /\ FilledIsListed

LEMMA GroupInvNext == TicketInv /\ GroupInv /\ [Next]_vars => GroupInv'
<1> SUFFICES ASSUME TicketInv, GroupInv, [Next]_vars PROVE GroupInv'
  OBVIOUS
<1>1. group'.openCount = Cardinality(group'.members)
  BY GroupNext DEF GroupInv
<1>2. ASSUME NEW t \in Tickets, ticket'[t] = "filled" PROVE Listed(t)'
  BY <1>2, TicketNext, WorkNext, GrowsFacts DEF GroupInv, FilledIsListed
<1> QED
  BY <1>1, <1>2 DEF GroupInv, FilledIsListed

LEMMA GroupInvInit == Init => GroupInv
BY TicketInit, FS_EmptySet DEF GroupInv, Init

\* A ticket filled by a mint has its trade in the group, and the group counts
\* each of its trades once, however often a join is replayed by a later pass.
THEOREM FilledTradesAreInTheGroup == Spec => []GroupHoldsFilled
<1>1. TicketInv /\ GroupInv => GroupHoldsFilled
  BY DEF TicketInv, GroupInv, FilledIsListed, Listed, SeedsAgree, GroupHoldsFilled
<1> QED
  BY <1>1, TicketInvariant, GroupInvInit, GroupInvNext, PTL DEF Spec

-----------------------------------------------------------------------------
(***************************************************************************)
(* Passes that overlap, and passes that do not.                            *)
(***************************************************************************)
LEMMA DuplicateReportedNext == TicketInv /\ DuplicateReported /\ [Next]_vars => DuplicateReported'
<1> SUFFICES ASSUME TicketInv, DuplicateReported, [Next]_vars, NEW t \in Tickets,
                    Cardinality(Minted(t)') >= 2
             PROVE  \/ t \in reported' \cup abandoned'
                    \/ \E p \in Passes : work'[p][t].pc = "post"
  BY DEF DuplicateReported
<1>0. TypeOK
  BY DEF TicketInv
<1>1. CASE \E p \in Passes : Mint(p, t)
  BY <1>1, MintPosts
<1>2. CASE ~\E p \in Passes : Mint(p, t)
  <2>1. Minted(t)' = Minted(t)
    BY <1>2, StepWrites, MintWrites DEF Minted, SeedWrite, TicketWrite
  <2>2. t \in reported \cup abandoned \/ \E p \in Passes : work[p][t].pc = "post"
    BY <2>1 DEF DuplicateReported
  <2>3. ASSUME NEW p \in Passes, work[p][t].pc = "post", work'[p][t].pc # "post"
        PROVE  t \in reported' \cup abandoned'
    <3>1. CASE DiePass(p)
      BY <2>3, <3>1 DEF DiePass, FailureFor, Closing
    <3>2. CASE Post(p, t)
      <4>0. Cardinality({work[p][t].trade}) = 1
        BY FS_Singleton
      <4>1. Minted(t) # {work[p][t].trade}
        BY <2>1, <4>0
      <4> QED
        BY <3>2, <4>1 DEF Post
    <3>3. ~StartPass(p)
      BY <2>3 DEF StartPass, Running
    <3>4. Works(p, t) \/ Fails(p, t) => Post(p, t) \/ UNCHANGED work
      BY <1>0, <2>3, DrainGrows DEF Works, Fails, Check, Recheck, FillSeed, Dedupe, Scan, Mint, MintRaced,
        Join, MarkFilled, NoContract, MintFails, JoinFails, MarkFails
    <3> QED
      BY <2>3, <3>1, <3>2, <3>3, <3>4, WhoMoves
  <2> QED
    BY <2>2, <2>3, Remembered
<1> QED
  BY <1>1, <1>2

LEMMA DuplicateReportedInit == Init => DuplicateReported
<1> SUFFICES ASSUME Init PROVE DuplicateReported
  OBVIOUS
<1>1. \A t \in Tickets : Minted(t) = {}
  BY DEF Init, Minted
<1> QED
  BY <1>1, FS_EmptySet DEF DuplicateReported

\* When passes overlap a ticket can get two trades, but then it is logged, is
\* about to be, or a failure stopped the pass that would have.
THEOREM DuplicatesAreReported == Spec => []DuplicateReported
BY TicketInvariant, DuplicateReportedInit, DuplicateReportedNext, PTL DEF Spec

LEMMA AloneNext == TicketInv /\ Alone /\ [Next]_vars => Alone'
<1> SUFFICES ASSUME TicketInv, Alone, [Next]_vars, ~overlapped' PROVE Alone'
  BY DEF Alone
<1>0. TypeOK
  BY DEF TicketInv
<1>1. ASSUME NEW p \in Passes, NEW t \in Tickets, Works(p, t) \/ Fails(p, t)
      PROVE  UNCHANGED overlapped
  BY <1>1 DEF Works, Fails, Check, Recheck, FillSeed, Dedupe, Scan, Mint, MintRaced, Post, Join, MarkFilled,
    Drain, NoContract, MintFails, JoinFails, MarkFails, DrainFails, PassUnchanged
<1>2. ~overlapped
  BY <1>0, <1>1, CancelGrows DEF Next, StartPass, DiePass, vars
<1>3. /\ \A p, q \in Passes : Running(p) /\ Running(q) => p = q
      /\ \A p \in Passes, t \in Tickets : work[p][t].pc \in {"scan", "mint"} => Minted(t) = {}
      /\ \A t \in Tickets : Cardinality(Minted(t)) <= 1
  BY <1>2 DEF Alone
\* Nobody but StartPass makes a pass run.
<1>4. ASSUME NEW p \in Passes, Running(p)', ~Running(p) PROVE StartPass(p)
  <2>1. drain'[p] # {} \/ \E t \in Tickets : work'[p][t].pc # "off"
    BY <1>4 DEF Running
  <2>2. drain[p] = {} /\ \A t \in Tickets : work[p][t].pc = "off"
    BY <1>4 DEF Running
  <2>3. ASSUME NEW t \in Tickets, work'[p][t].pc # "off" PROVE StartPass(p)
    <3>1. ~(Works(p, t) \/ Fails(p, t)) \/ UNCHANGED work
      BY <1>0, <2>2, DrainGrows DEF Works, Fails, Check, Recheck, FillSeed, Dedupe, Scan, Mint, MintRaced,
        Post, Join, MarkFilled, NoContract, MintFails, JoinFails, MarkFails
    <3>2. ~DiePass(p)
      BY <1>4 DEF DiePass
    <3> QED
      BY <2>2, <2>3, <3>1, <3>2, WhoMoves
  <2>4. ASSUME drain'[p] # {} PROVE StartPass(p)
    <3>1. ASSUME NEW q \in Passes, NEW t \in Tickets, Works(q, t) \/ Fails(q, t)
          PROVE  drain'[p] = {}
      <4>1. UNCHANGED drain \/ drain' = [drain EXCEPT ![q] = @ \ {t}]
        BY <3>1 DEF Works, Fails, Check, Recheck, FillSeed, Dedupe, Scan, Mint, MintRaced, Post,
          Join, MarkFilled, Drain, NoContract, MintFails, JoinFails, MarkFails, DrainFails, PassUnchanged
      <4> QED
        BY <1>0, <2>2, <4>1 DEF TypeOK
    <3>2. ASSUME NEW q \in Passes, StartPass(q) \/ DiePass(q), ~StartPass(p) PROVE drain'[p] = {}
      BY <1>0, <2>2, <3>2 DEF StartPass, DiePass, TypeOK
    <3>3. ASSUME NEW u \in Tickets, CancelSteps(u) PROVE drain'[p] = {}
      BY <1>0, <2>2, <3>3, CancelGrows
    <3> QED
      BY <2>2, <2>4, <3>1, <3>2, <3>3 DEF Next, vars
  <2> QED
    BY <2>1, <2>3, <2>4
<1>5. ASSUME NEW p \in Passes, NEW q \in Passes, Running(p)', Running(q)' PROVE p = q
  <2>1. ASSUME NEW r \in Passes, StartPass(r) PROVE \A s \in Passes : ~Running(s)
    BY <1>0, <2>1 DEF StartPass, TypeOK
  <2>2. ASSUME StartPass(p), StartPass(q), p # q PROVE FALSE
    <3>1. work'[p] = [t \in Tickets |-> IF ticket[t] = "staged" THEN At("check") ELSE Off]
      BY <1>0, <2>2 DEF StartPass, TypeOK
    <3>2. work'[p] = work[p] /\ drain'[p] = drain[p]
      BY <1>0, <2>2 DEF StartPass, TypeOK
    <3> QED
      BY <1>5, <2>1, <2>2, <3>2 DEF Running
  <2> QED
    BY <1>3, <1>4, <1>5, <2>1, <2>2
<1>6. ASSUME NEW p \in Passes, NEW t \in Tickets, work'[p][t].pc \in {"scan", "mint"}
      PROVE  Minted(t)' = {}
  <2>1. CASE work'[p][t] = work[p][t]
    <3>1. Minted(t) = {} /\ Running(p)
      BY <1>3, <1>6, <2>1 DEF Running
    <3>2. ASSUME NEW q \in Passes, Mint(q, t) PROVE FALSE
      <4>1. Running(q)
        BY <3>2 DEF Mint, Running
      <4>2. q = p
        BY <1>3, <3>1, <4>1
      <4> QED
        BY <1>6, <3>2, <4>2, MintPosts
    <3> QED
      BY <3>1, <3>2, StepWrites, MintWrites DEF Minted, SeedWrite, TicketWrite
  <2>2. CASE work'[p][t] # work[p][t]
    <3>1. ~StartPass(p) /\ ~DiePass(p)
      BY <1>0, <1>6 DEF StartPass, DiePass, At, Off, TypeOK
    <3>2. (Dedupe(p, t) /\ Minted(t) = {}) \/ Scan(p, t)
      <4>1. ASSUME NEW w, Set(p, t, w), w.pc \notin {"scan", "mint"} PROVE FALSE
        BY <1>0, <1>6, <4>1, SetWork
      <4>2. ASSUME NEW tr, Heal(p, t, tr) PROVE FALSE
        <5>1. [At("join") EXCEPT !.trade = tr].pc = "join"
          BY DEF At
        <5> QED
          BY <4>1, <4>2, <5>1 DEF Heal
      <4>3. Off.pc = "off" /\ At("mark").pc = "mark"
        BY DEF Off, At
      <4>4. work[p][t] \in WorkState
        BY OkWork
      <4>5. ASSUME NEW pc \in WorkPC \ {"scan", "mint"}, Goto(p, t, pc) PROVE FALSE
        <5>1. [work[p][t] EXCEPT !.pc = pc].pc = pc
          BY <4>4 DEF WorkState
        <5> QED
          BY <4>1, <4>5, <5>1 DEF Goto
      <4>6. ~Check(p, t)
        BY <4>1, <4>2, <4>3, <4>5 DEF Check, WorkPC
      <4>7. ~Recheck(p, t)
        <5> SUFFICES ASSUME Recheck(p, t) PROVE FALSE
          OBVIOUS
        <5>1. ~Set(p, t, Off)
          BY <4>1, <4>3
        <5>2. PICK c \in Contracts :
                Set(p, t, [work[p][t] EXCEPT !.pc = IF Own(t) THEN "fillSeed" ELSE "dedupe",
                                             !.contract = c])
          BY <5>1 DEF Recheck
        <5>3. [work[p][t] EXCEPT !.pc = IF Own(t) THEN "fillSeed" ELSE "dedupe",
                                 !.contract = c].pc \notin {"scan", "mint"}
          BY <4>4 DEF WorkState
        <5> QED
          BY <4>1, <5>2, <5>3
      <4>8. ~FillSeed(p, t) /\ ~Join(p, t) /\ ~MarkFilled(p, t)
        BY <4>1, <4>3 DEF FillSeed, Join, MarkFilled
      <4>9. ~Post(p, t)
        BY <4>5 DEF Post, WorkPC
      <4>10. ~Mint(p, t)
        BY <1>6, MintPosts
      <4>11. ~MintRaced(p, t)
        <5>1. ASSUME Set(p, t, [work[p][t] EXCEPT !.pc = "dedupe", !.attempt = @ + 1]) PROVE FALSE
          <6>1. [work[p][t] EXCEPT !.pc = "dedupe", !.attempt = @ + 1].pc = "dedupe"
            BY <4>4 DEF WorkState
          <6> QED
            BY <4>1, <5>1, <6>1
        <5> QED
          BY <4>1, <4>2, <4>3, <5>1 DEF MintRaced
      <4>12. ~(NoContract(p, t) \/ MintFails(p, t) \/ JoinFails(p, t) \/ MarkFails(p, t))
        BY <4>1, <4>3 DEF NoContract, MintFails, JoinFails, MarkFails
      <4>13. ~(Drain(p, t) \/ DrainFails(p, t))
        BY <1>0, <2>2, DrainGrows
      <4>14. Dedupe(p, t) => Minted(t) = {}
        BY <4>2 DEF Dedupe
      <4> QED
        BY <2>2, <3>1, <4>6, <4>7, <4>8, <4>9, <4>10, <4>11, <4>12, <4>13, <4>14, WhoMoves
          DEF Works, Fails
    <3>3. Minted(t) = {}
      BY <1>3, <3>2 DEF Scan
    <3> QED
      BY <3>2, <3>3 DEF Dedupe, Scan, docs, Minted
  <2> QED
    BY <2>1, <2>2
<1>7. ASSUME NEW t \in Tickets PROVE Cardinality(Minted(t)') <= 1
  <2>1. ASSUME NEW p \in Passes, Mint(p, t) PROVE Cardinality(Minted(t)') <= 1
    <3>1. Minted(t) = {}
      BY <1>3, <2>1 DEF Mint
    <3>2. PICK tr : Minted(t)' = Minted(t) \cup {tr}
      BY <2>1, MintWrites
    <3>3. Cardinality({tr}) = 1
      BY FS_Singleton
    <3> QED
      BY <3>1, <3>2, <3>3
  <2>2. CASE ~\E p \in Passes : Mint(p, t)
    <3>1. Minted(t)' = Minted(t)
      BY <2>2, StepWrites, MintWrites DEF Minted, SeedWrite, TicketWrite
    <3> QED
      BY <1>3, <3>1
  <2> QED
    BY <2>1, <2>2
<1> QED
  BY <1>5, <1>6, <1>7 DEF Alone

\* "The ticket is consumable exactly once": while passes do not overlap, a
\* ticket never has two positions, whatever dies, fails, is cancelled or is
\* retried between the mint and the mark, and however tickets contend for ids.
THEOREM TicketsHaveOnePosition == Spec => []OnePosition
<1>1. TicketInv /\ Alone => OnePosition
  BY DEF TicketInv, SeedsAgree, Own, Alone, OnePosition
<1>2. TicketInv /\ Alone /\ [Next]_vars => (TicketInv /\ Alone)'
  BY TicketInvNext, AloneNext
<1> QED
  BY <1>1, <1>2, TicketInit, PTL DEF Spec

-----------------------------------------------------------------------------
(***************************************************************************)
(* The refinement.                                                         *)
(***************************************************************************)
opened == [t \in Tickets |-> Position(t)]

LEMMA LifeInit == Init => Life!Init
<1> SUFFICES ASSUME Init PROVE Life!Init
  OBVIOUS
<1>1. \A t \in Tickets : ~Position(t)
  BY TicketInit DEF Init, Position, Minted
<1>2. ticket \in [Tickets -> {"absent", "staged"}]
  BY DEF Init
<1>3. [t \in Tickets |-> Position(t)] = [t \in Tickets |-> FALSE]
  <2>1. \A t \in Tickets : Position(t) = FALSE
    BY <1>1 DEF Position
  <2> QED
    BY <2>1
<1> QED
  BY <1>2, <1>3 DEF Life!Init

\* A position opens for one ticket: its state is not touched.
LEMMA LifeOpens ==
  ASSUME NEW t \in Tickets, UNCHANGED ticket,
         \A u \in Tickets : u # t => (Position(u)' <=> Position(u)),
         Position(t) => Position(t)'
  PROVE  Life!Next \/ UNCHANGED <<ticket, opened>>
<1>1. CASE Position(t)' <=> Position(t)
  <2>1. \A u \in Tickets : Position(u)' = Position(u)
    BY <1>1 DEF Position
  <2> QED
    BY <2>1 DEF opened
<1>2. CASE ~Position(t) /\ Position(t)'
  <2>1. ~opened[t]
    BY <1>2 DEF opened
  <2>2. opened' = [opened EXCEPT ![t] = TRUE]
    <3>1. Position(t)' = TRUE /\ \A u \in Tickets : u # t => Position(u)' = Position(u)
      BY <1>2 DEF Position
    <3> QED
      BY <3>1 DEF opened
  <2>3. Life!Open(t)
    BY <2>1, <2>2 DEF Life!Open, opened
  <2> QED
    BY <2>3 DEF Life!Next
<1> QED
  BY <1>1, <1>2

LEMMA LifeNext == TicketInv /\ [Next]_vars => Life!Next \/ UNCHANGED <<ticket, opened>>
<1> SUFFICES ASSUME TicketInv, [Next]_vars PROVE Life!Next \/ UNCHANGED <<ticket, opened>>
  OBVIOUS
<1>0. TypeOK
  BY DEF TicketInv
<1>1. CASE UNCHANGED <<ticket, seed, trades>>
  BY <1>1 DEF opened, Position, Minted
<1>2. ASSUME NEW p \in Passes, NEW t \in Tickets, Mint(p, t)
      PROVE  Life!Next \/ UNCHANGED <<ticket, opened>>
  <2>1. Position(t)' /\ UNCHANGED ticket /\ \A u \in Tickets : u # t => (Position(u)' <=> Position(u))
    BY <1>2, MintWrites DEF Position
  <2> QED
    BY <2>1, LifeOpens
<1>3. ASSUME NEW t \in Tickets, SeedWrite(t)
      PROVE  Life!Next \/ UNCHANGED <<ticket, opened>>
  <2>1. \A u \in Tickets : u # t => seed'[u] = seed[u]
    BY <1>0, <1>3, SeedWritten DEF SeedWrite, SeedStatus
  <2>2. UNCHANGED ticket /\ \A u \in Tickets : u # t => (Position(u)' <=> Position(u))
    BY <1>3, <2>1 DEF SeedWrite, Position, Minted
  <2>3. Position(t) => Position(t)'
    BY WorkNext, GrowsFacts
  <2> QED
    BY <2>2, <2>3, LifeOpens
<1>4. ASSUME NEW t \in Tickets, TicketWrite(t)
      PROVE  Life!Next \/ UNCHANGED <<ticket, opened>>
  <2>1. UNCHANGED opened
    BY <1>4 DEF TicketWrite, opened, Position, Minted
  <2>2. CASE UNCHANGED ticket
    BY <2>1, <2>2
  <2>3. CASE /\ Transition(t, "filled") /\ Position(t)
             /\ ticket[t] \in {"staged", "cancelled"}
    <3>1. ticket' = [ticket EXCEPT ![t] = "filled"]
      BY <1>0, <2>3 DEF Transition, AllowedFrom, TicketState
    <3>2. opened[t]
      BY <2>3 DEF opened
    <3>3. Life!Fill(t)
      BY <2>1, <2>3, <3>1, <3>2 DEF Life!Fill, opened
    <3> QED
      BY <3>3 DEF Life!Next
  <2>4. CASE Transition(t, "cancelled") /\ ticket[t] = "staged"
    <3>1. ticket' = [ticket EXCEPT ![t] = "cancelled"]
      BY <1>0, <2>4 DEF Transition, AllowedFrom
    <3>2. Life!Cancel(t)
      BY <2>1, <2>4, <3>1 DEF Life!Cancel, opened
    <3> QED
      BY <3>2 DEF Life!Next
  <2>5. \/ UNCHANGED ticket
        \/ Transition(t, "filled") /\ Position(t) /\ ticket[t] \in {"staged", "cancelled"}
        \/ Transition(t, "cancelled") /\ ticket[t] = "staged"
    BY <1>0, <1>4 DEF TicketWrite, Transition, AllowedFrom, TypeOK, TicketState
  <2> QED
    BY <2>2, <2>3, <2>4, <2>5
<1> QED
  BY <1>1, <1>2, <1>3, <1>4, StepWrites

\* Passes, their retries and deaths, overlapping passes and the owner's cancels
\* implement the ticket's life: a position opens at most once and never
\* disappears, a fill is final and finds one, a cancellation yields only to it.
THEOREM TicketLifeImplemented == Spec => ImplementsTicketLife
<1>1. TicketInv /\ [Next]_vars => [Life!Next]_<<ticket, [t \in Tickets |-> Position(t)]>>
  BY LifeNext DEF opened
<1> QED
  BY <1>1, LifeInit, TicketInvariant, PTL DEF Spec, ImplementsTicketLife, Life!Spec
==============================================================================
