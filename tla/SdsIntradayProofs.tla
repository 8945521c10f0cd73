-------------------------- MODULE SdsIntradayProofs --------------------------
(***************************************************************************)
(* Proofs about the intraday run for every set of symbols, any number of   *)
(* deliveries, with and without the watchdog, and every kind of failure.   *)
(***************************************************************************)
EXTENDS SdsIntraday, FiniteSetTheorems, TLAPS

-----------------------------------------------------------------------------
(***************************************************************************)
(* Fresh prices.  Deliveries overwrite parts of each other's run document, *)
(* so that its symbols, its counts and the documents written may belong to *)
(* three of them.  What holds whoever wrote last: the processed symbols    *)
(* are those one delivery asked for, and those of them that did not fail   *)
(* were written.                                                           *)
(***************************************************************************)
FreshEnough == \E d \in Deliveries :
  2 * Cardinality(actor[d].asked \cap written) > Cardinality(actor[d].asked)

ReportHonest ==
  run.processed # {} =>
    /\ \E d \in Deliveries : run.processed = actor[d].asked
    /\ run.failed \subseteq run.processed
    /\ run.processed \ run.failed \subseteq written

\* What a delivery holds while it works.
Asking == {"fetch", "fetchFailed", "commit", "report"}
ActorOk(s) ==
  /\ s.pc \in {"idle", "create"} => s.asked = {}
  /\ s.pc \in Asking => s.failed \subseteq s.asked
  /\ s.pc = "report" => s.asked \ s.failed \subseteq written
  /\ s.pc \in {"complete", "enqueue"} => FreshEnough
  /\ s.pc = "sent" => dispatched > 0
ActorHonest == \A a \in Actors : ActorOk(actor[a])

FreshInv ==
  /\ TypeOK
  /\ ReportHonest
  /\ ActorHonest
  /\ dispatched > 0 => FreshEnough
  /\ run.enqueued => dispatched > 0

(***************************************************************************)
(* One message, delivered once.  Then one actor at a time works on the     *)
(* run, and the status tells where it is.                                  *)
(***************************************************************************)
Busy(a) == ~Idle(a)

SingleInv ==
  Single =>
    /\ \A a, b \in Actors : Busy(a) /\ Busy(b) => a = b
    /\ actor[1].pc \in {"idle", "create"} => run.status = "absent"
    /\ run.status = "absent" => \A a \in Actors : a # 1 => Idle(a)
    /\ run.status = "completed_but_not_dispatched" => Idle(1)
    /\ run.enqueued => run.status = "completed" /\ \A a \in Actors : Idle(a)
    /\ \A a \in Actors :
         /\ actor[a].pc \in {"enqueue", "sent"} => run.status = "completed"
         /\ actor[a].pc = "empty" => run.symbols = {}

-----------------------------------------------------------------------------
LEMMA ActorsFacts ==
  /\ 1 \in Deliveries /\ Deliveries \subseteq Actors /\ Watchdog \notin Deliveries
  /\ WatchdogEnabled => Watchdog \in Actors
  /\ \A a \in Actors : a \in Deliveries \/ (WatchdogEnabled /\ a = Watchdog)
BY BoundsAssumption DEF Deliveries, Actors, Watchdog

LEMMA GotoType ==
  ASSUME TypeOK, NEW a \in Actors, NEW from, NEW to \in ActorPC, Goto(a, from, to)
  PROVE  /\ actor' \in [Actors -> ActorState]
         /\ actor[a].pc = from /\ actor'[a].pc = to
         /\ actor'[a].asked = actor[a].asked /\ actor'[a].failed = actor[a].failed
         /\ \A b \in Actors : b # a => actor'[b] = actor[b]
BY DEF TypeOK, Goto, ActorState

LEMMA BranchType == BranchOf(run) \in {"done", "empty", "gated", "complete"} \/ run \notin RunDoc
BY DEF BranchOf, RunDoc

LEMMA FiniteSubset ==
  ASSUME NEW S \in SUBSET Symbols PROVE IsFiniteSet(S) /\ Cardinality(S) \in Nat
BY SymbolsAssumption, FS_Subset, FS_CardinalityType

\* What a delivery asked for does not change.
AskedStays == \A d \in Deliveries : actor[d].asked # {} => actor'[d].asked = actor[d].asked

LEMMA GotoAsked ==
  ASSUME TypeOK, NEW a \in Actors, NEW from, NEW to, Goto(a, from, to)
  PROVE  AskedStays
BY ActorsFacts DEF TypeOK, Goto, ActorState, AskedStays

\* Prices that were fresh stay so.
LEMMA FreshStays ==
  ASSUME TypeOK, FreshEnough, AskedStays, written \subseteq written', written' \subseteq Symbols
  PROVE  FreshEnough'
<1>1. PICK d \in Deliveries :
        2 * Cardinality(actor[d].asked \cap written) > Cardinality(actor[d].asked)
  BY DEF FreshEnough
<1> DEFINE S == actor[d].asked
<1>2. S \in SUBSET Symbols /\ S # {}
  <2>1. S \in SUBSET Symbols
    BY ActorsFacts DEF TypeOK, ActorState
  <2>2. CASE S = {}
    BY <1>1, <2>2, FS_EmptySet
  <2> QED
    BY <2>1, <2>2
<1>s. actor'[d].asked = S
  BY <1>2 DEF AskedStays
<1> HIDE DEF S
<1>3. /\ Cardinality(S \cap written) \in Nat /\ Cardinality(S \cap written') \in Nat
      /\ IsFiniteSet(S \cap written') /\ Cardinality(S) \in Nat
  BY <1>2, FiniteSubset
<1>4. Cardinality(S \cap written) <= Cardinality(S \cap written')
  BY <1>3, FS_Subset
<1>5. 2 * Cardinality(S \cap written') > Cardinality(S)
  BY <1>1, <1>3, <1>4 DEF S
<1> QED
  BY <1>5, <1>s DEF FreshEnough

\* The gate: when fewer than half of the expected symbols failed and as many
\* were processed as expected, then of those processed more than half were
\* written, whichever deliveries the three parts of the document come from.
LEMMA GatePasses ==
  ASSUME TypeOK, ReportHonest, BranchOf(run) = "complete"
  PROVE  FreshEnough
<1> DEFINE P == run.processed
           F == run.failed
           S == run.symbols
<1>1. P \in SUBSET Symbols /\ F \in SUBSET Symbols /\ S \in SUBSET Symbols
  BY DEF TypeOK, RunDoc
<1>2. S # {} /\ ~(Cardinality(P) < Cardinality(S)) /\ ~QualityGate(run)
  BY DEF BranchOf, TypeOK, RunDoc, TerminalRun
<1>3. /\ Cardinality(P) \in Nat /\ Cardinality(F) \in Nat /\ Cardinality(S) \in Nat
      /\ IsFiniteSet(P) /\ IsFiniteSet(F) /\ IsFiniteSet(S)
  BY <1>1, FiniteSubset
<1>4. Cardinality(S) # 0 /\ 2 * Cardinality(F) < Cardinality(S)
  BY <1>2, <1>3, FS_EmptySet DEF QualityGate
<1>5. P # {}
  BY <1>2, <1>3, <1>4, FS_EmptySet
<1>6. /\ \E d \in Deliveries : P = actor[d].asked
      /\ F \subseteq P /\ P \ F \subseteq written
  BY <1>5 DEF ReportHonest
<1>7. Cardinality(P) = Cardinality(P \ F) + Cardinality(F)
  <2>1. Cardinality(P \ F) = Cardinality(P) - Cardinality(P \cap F)
    BY <1>3, FS_Difference
  <2>2. P \cap F = F
    BY <1>6
  <2>3. Cardinality(P \ F) \in Nat
    BY <1>1, FiniteSubset
  <2> QED
    BY <1>3, <2>1, <2>2, <2>3
<1>8. /\ Cardinality(P \ F) <= Cardinality(P \cap written)
      /\ Cardinality(P \ F) \in Nat /\ Cardinality(P \cap written) \in Nat
  <2>1. P \ F \in SUBSET (P \cap written)
    BY <1>6
  <2>2. IsFiniteSet(P \cap written)
    BY <1>1, FiniteSubset
  <2> QED
    BY <1>1, <2>1, <2>2, FS_Subset, FS_CardinalityType
<1> HIDE DEF P, F, S
<1>9. 2 * Cardinality(P \cap written) > Cardinality(P)
  BY <1>2, <1>3, <1>4, <1>7, <1>8
<1> QED
  BY <1>6, <1>9 DEF FreshEnough, P

LEMMA FreshInit == Init => FreshInv
<1> SUFFICES ASSUME Init PROVE FreshInv
  OBVIOUS
<1>1. TypeOK
  BY BoundsAssumption DEF Init, TypeOK, RunDoc, ActorState, ActorPC
<1> QED
  BY <1>1 DEF Init, FreshInv, ReportHonest, ActorHonest, ActorOk, Asking

\* A step of one actor that leaves it honest, and what the others rely on alone.
LEMMA OneActor ==
  ASSUME FreshInv, TypeOK', AskedStays, NEW a \in Actors, ActorOk(actor[a])',
         \A b \in Actors : b # a => actor'[b] = actor[b],
         written \subseteq written', dispatched' >= dispatched
  PROVE  ActorHonest'
<1>1. FreshEnough => FreshEnough'
  BY FreshStays DEF FreshInv, TypeOK
<1>2. dispatched > 0 => dispatched' > 0
  BY DEF FreshInv, TypeOK
<1>3. \A s : ActorOk(s) => ActorOk(s)'
  BY <1>1, <1>2 DEF ActorOk
<1>4. \A b \in Actors : b # a => ActorOk(actor[b])'
  <2>1. \A b \in Actors : \A s : b # a /\ s = actor'[b] => ActorOk(s)'
    BY <1>3 DEF FreshInv, ActorHonest
  <2> QED
    BY <2>1
<1> QED
  BY <1>4 DEF ActorHonest

\* The moves that neither read nor write what the gate is about.
Plain == {"check", "force", "done", "crashed", "retry", "empty", "gated", "unsent", "fetchFailed"}

LEMMA PlainMove ==
  ASSUME FreshInv, TypeOK', AskedStays, NEW a \in Actors, UNCHANGED <<written, dispatched>>,
         \A b \in Actors : b # a => actor'[b] = actor[b],
         \/ actor'[a].pc \in Plain \ {"fetchFailed"}
         \/ /\ actor'[a].pc = "fetchFailed" /\ actor[a].pc = "fetch"
            /\ actor'[a].asked = actor[a].asked /\ actor'[a].failed = actor[a].failed
         \/ actor'[a].pc = "create" /\ actor[a].pc = "idle" /\ actor'[a].asked = actor[a].asked
         \/ actor'[a].pc = "sent" /\ dispatched > 0
  PROVE  ActorHonest'
<1>1. ActorOk(actor[a])'
  BY DEF FreshInv, ActorHonest, ActorOk, Plain, Asking
<1> QED
  BY <1>1, OneActor DEF FreshInv, TypeOK

LEMMA SameReport ==
  ASSUME FreshInv, AskedStays, run'.processed = run.processed, run'.failed = run.failed,
         written \subseteq written'
  PROVE  ReportHonest'
BY DEF FreshInv, ReportHonest, AskedStays

\* What is left of a step that keeps the types, the report and the actors honest.
LEMMA FreshStep ==
  ASSUME FreshInv, TypeOK', ReportHonest', ActorHonest', AskedStays, written \subseteq written',
         dispatched' > 0 => dispatched > 0 \/ FreshEnough,
         run'.enqueued => (run.enqueued /\ dispatched' = dispatched) \/ dispatched' > 0
  PROVE  FreshInv'
<1>1. FreshEnough => FreshEnough'
  BY FreshStays DEF FreshInv, TypeOK
<1> QED
  BY <1>1 DEF FreshInv

LEMMA DeliverFresh ==
  ASSUME FreshInv, NEW d \in Deliveries, ReceivePdr(d) \/ Deliver(d) PROVE FreshInv'
<1> USE DEF docs
<1>0. TypeOK /\ d \in Actors /\ dispatched \in Nat
  BY ActorsFacts, BoundsAssumption DEF FreshInv, TypeOK
<1>1. ActorOk(actor[d]) /\ actor[d] \in ActorState
  BY <1>0 DEF FreshInv, ActorHonest, TypeOK
<1>2. CASE ReceivePdr(d)
  <2>1. PICK to \in {"done", "create"} : Goto(d, "idle", to) /\ UNCHANGED docs
    BY <1>2 DEF ReceivePdr
  <2>2. TypeOK'
    BY <1>0, <2>1, GotoType DEF TypeOK, ActorPC
  <2>a. AskedStays
    BY <1>0, <2>1, GotoAsked
  <2>3. ActorHonest'
    BY <1>0, <2>1, <2>2, <2>a, GotoType, PlainMove DEF Plain, ActorPC
  <2>4. ReportHonest'
    BY <2>1, <2>a, SameReport
  <2> QED
    BY <2>1, <2>2, <2>3, <2>4, <2>a, FreshStep
<1>3. CASE CreateRun(d)
  <2>1. PICK S \in TrackedSets :
          /\ run' = [status |-> "processing", symbols |-> S, processed |-> {},
                     failed |-> {}, enqueued |-> FALSE]
          /\ actor' = [actor EXCEPT ![d] = [pc |-> "fetch", asked |-> S, failed |-> {}]]
    BY <1>3 DEF CreateRun
  <2>2. UNCHANGED <<written, dispatched>> /\ S \in SUBSET Symbols
    BY <1>3, TrackedAssumption DEF CreateRun
  <2>3. TypeOK'
    BY <1>0, <2>1, <2>2 DEF TypeOK, RunDoc, ActorState, ActorPC
  <2>4. actor'[d] = [pc |-> "fetch", asked |-> S, failed |-> {}]
    BY <1>0, <2>1 DEF TypeOK
  <2>5. \A b \in Actors : b # d => actor'[b] = actor[b]
    BY <1>0, <2>1 DEF TypeOK
  <2>6. ActorOk(actor[d])'
    BY <2>4 DEF ActorOk
  <2>a. AskedStays
    <3>1. actor[d].asked = {}
      BY <1>1, <1>3 DEF CreateRun, ActorOk
    <3> QED
      BY <2>5, <3>1, ActorsFacts DEF AskedStays
  <2>7. ActorHonest'
    BY <1>0, <2>2, <2>3, <2>5, <2>6, <2>a, OneActor
  <2>8. ReportHonest' /\ ~run'.enqueued
    BY <2>1 DEF ReportHonest
  <2> QED
    BY <2>2, <2>3, <2>7, <2>8, <2>a, FreshStep
<1>4. CASE FetchSnapshot(d)
  <2>1. PICK missing \in SUBSET actor[d].asked :
          actor' = [actor EXCEPT ![d].pc = "commit", ![d].failed = missing]
    BY <1>4 DEF FetchSnapshot
  <2>2. UNCHANGED docs /\ actor[d].pc = "fetch"
    BY <1>4 DEF FetchSnapshot
  <2>3. /\ actor'[d] = [pc |-> "commit", asked |-> actor[d].asked, failed |-> missing]
        /\ \A b \in Actors : b # d => actor'[b] = actor[b]
    BY <1>0, <2>1 DEF TypeOK, ActorState
  <2>4. missing \in SUBSET Symbols
    BY <1>1 DEF ActorState
  <2>5. TypeOK'
    BY <1>0, <2>1, <2>2, <2>4 DEF TypeOK, ActorState, ActorPC
  <2>6. ActorOk(actor[d])'
    BY <1>1, <2>2, <2>3 DEF ActorOk, Asking
  <2>a. AskedStays
    BY <2>3, ActorsFacts DEF AskedStays
  <2>7. ActorHonest'
    BY <1>0, <2>2, <2>3, <2>5, <2>6, <2>a, OneActor
  <2>8. ReportHonest'
    BY <2>2, <2>a, SameReport
  <2> QED
    BY <2>2, <2>5, <2>7, <2>8, <2>a, FreshStep
<1>5. CASE ReportFetchFailed(d)
  <2>1. /\ run' = [run EXCEPT !.processed = actor[d].asked, !.failed = actor[d].asked,
                              !.status = "failed"]
        /\ Goto(d, "fetchFailed", "done") /\ UNCHANGED <<written, dispatched>>
    BY <1>5 DEF ReportFetchFailed
  <2>2. TypeOK'
    BY <1>0, <1>1, <2>1, GotoType DEF TypeOK, RunDoc, ActorState, ActorPC, TerminalRun
  <2>a. AskedStays
    BY <1>0, <2>1, GotoAsked
  <2>3. ActorHonest'
    BY <1>0, <2>1, <2>2, <2>a, GotoType, PlainMove DEF Plain, ActorPC
  <2>4. /\ run'.processed = actor[d].asked /\ run'.failed = actor[d].asked
        /\ run'.enqueued = run.enqueued
    BY <1>0, <2>1 DEF TypeOK, RunDoc
  <2>5. ReportHonest'
    BY <1>0, <2>1, <2>4, GotoType DEF ReportHonest, ActorPC
  <2> QED
    BY <2>1, <2>2, <2>3, <2>4, <2>5, <2>a, FreshStep
<1>6. CASE CommitBatch(d)
  <2>1. /\ Goto(d, "commit", "report") /\ UNCHANGED <<run, dispatched>>
        /\ written' = written \cup (actor[d].asked \ actor[d].failed)
    BY <1>6 DEF CommitBatch
  <2>2. TypeOK'
    BY <1>0, <1>1, <2>1, GotoType DEF TypeOK, ActorState, ActorPC
  <2>3. ActorOk(actor[d])'
    BY <1>0, <1>1, <2>1, GotoType DEF ActorOk, Asking, ActorPC
  <2>a. AskedStays
    BY <1>0, <2>1, GotoAsked
  <2>4. ActorHonest'
    BY <1>0, <2>1, <2>2, <2>3, <2>a, GotoType, OneActor DEF ActorPC
  <2>5. ReportHonest'
    BY <2>1, <2>a, SameReport
  <2> QED
    BY <2>1, <2>2, <2>4, <2>5, <2>a, FreshStep
<1>7. CASE ReportProcessed(d)
  <2>1. /\ run' = [run EXCEPT !.processed = actor[d].asked, !.failed = actor[d].failed]
        /\ Goto(d, "report", "check") /\ UNCHANGED <<written, dispatched>>
    BY <1>7 DEF ReportProcessed
  <2>2. TypeOK'
    BY <1>0, <1>1, <2>1, GotoType DEF TypeOK, RunDoc, ActorState, ActorPC
  <2>a. AskedStays
    BY <1>0, <2>1, GotoAsked
  <2>3. ActorHonest'
    BY <1>0, <2>1, <2>2, <2>a, GotoType, PlainMove DEF Plain, ActorPC
  <2>4. /\ run'.processed = actor[d].asked /\ run'.failed = actor[d].failed
        /\ run'.enqueued = run.enqueued
    BY <1>0, <2>1 DEF TypeOK, RunDoc
  <2>5. /\ actor[d].failed \subseteq actor[d].asked
        /\ actor[d].asked \ actor[d].failed \subseteq written
    BY <1>1, <2>1 DEF ActorOk, Asking, Goto
  <2>6. ReportHonest'
    BY <1>0, <2>1, <2>4, <2>5, GotoType DEF ReportHonest, ActorPC
  <2> QED
    BY <2>1, <2>2, <2>3, <2>4, <2>6, <2>a, FreshStep
<1> QED
  BY <1>2, <1>3, <1>4, <1>5, <1>6, <1>7 DEF Deliver

\* A step that writes at most the status and the enqueued flag of the run.
StatusOnly ==
  /\ run' \in RunDoc /\ run'.processed = run.processed /\ run'.failed = run.failed
  /\ run'.enqueued => run.enqueued \/ dispatched > 0
  /\ UNCHANGED <<written, dispatched>>

LEMMA StatusMove ==
  ASSUME FreshInv, StatusOnly, NEW a \in Actors, NEW from, NEW to \in Plain \ {"fetchFailed"},
         Goto(a, from, to)
  PROVE  FreshInv'
<1>0. TypeOK
  BY DEF FreshInv
<1>1. TypeOK'
  BY <1>0, GotoType DEF TypeOK, StatusOnly, Plain, ActorPC
<1>a. AskedStays
  BY <1>0, GotoAsked
<1>2. ActorHonest'
  BY <1>0, <1>1, <1>a, GotoType, PlainMove DEF StatusOnly, Plain, ActorPC
<1>3. ReportHonest'
  BY <1>a, SameReport DEF StatusOnly
<1> QED
  BY <1>1, <1>2, <1>3, <1>a, FreshStep DEF StatusOnly

LEMMA SameStatus == ASSUME TypeOK, UNCHANGED docs PROVE StatusOnly
BY DEF TypeOK, docs, StatusOnly

LEMMA WrittenStatus ==
  ASSUME TypeOK, NEW st \in TerminalRun \cup {"processing"}, NEW e \in BOOLEAN,
         e => dispatched > 0 \/ run.enqueued,
         UNCHANGED <<written, dispatched>>,
         run' = [run EXCEPT !.status = st, !.enqueued = e]
  PROVE  StatusOnly
BY DEF TypeOK, RunDoc, StatusOnly

LEMMA CompleteFresh ==
  ASSUME FreshInv, NEW a \in Actors, Complete(a) PROVE FreshInv'
<1>0. TypeOK /\ actor[a] \in ActorState /\ ActorOk(actor[a])
  BY DEF FreshInv, TypeOK, ActorHonest
<1>1. CASE CheckIntradayRunCompletion(a)
  <2>1. Goto(a, "check", BranchOf(run)) /\ UNCHANGED docs
    BY <1>1 DEF CheckIntradayRunCompletion
  <2>2. CASE BranchOf(run) = "complete"
    <3>1. TypeOK'
      BY <1>0, <2>1, <2>2, GotoType DEF TypeOK, docs, ActorPC
    <3>a. AskedStays
      BY <1>0, <2>1, GotoAsked
    <3>2. FreshEnough'
      <4>1. FreshEnough
        BY <1>0, <2>2, GatePasses DEF FreshInv
      <4> QED
        BY <1>0, <2>1, <3>1, <3>a, <4>1, FreshStays DEF docs, TypeOK
    <3>3. ActorOk(actor[a])'
      BY <1>0, <2>1, <2>2, <3>2, GotoType DEF ActorOk, Asking, ActorPC
    <3>4. ActorHonest'
      BY <1>0, <2>1, <2>2, <3>1, <3>3, <3>a, GotoType, OneActor DEF docs, TypeOK, ActorPC
    <3>5. ReportHonest'
      BY <2>1, <3>a, SameReport DEF docs
    <3> QED
      BY <2>1, <3>1, <3>4, <3>5, <3>a, FreshStep DEF docs
  <2>3. CASE BranchOf(run) # "complete"
    <3>1. BranchOf(run) \in Plain \ {"fetchFailed"}
      BY <1>0, <2>3, BranchType DEF Plain, TypeOK
    <3> QED
      BY <1>0, <2>1, <3>1, SameStatus, StatusMove
  <2> QED
    BY <2>2, <2>3
<1>2. CASE CompleteEmpty(a)
  <2>1. StatusOnly
    BY <1>0, <1>2 DEF CompleteEmpty, StatusOnly, TypeOK, RunDoc, TerminalRun
  <2> QED
    BY <1>2, <2>1, StatusMove DEF CompleteEmpty, Plain
<1>3. CASE BlockDispatch(a) \/ RecordUnsent(a)
  <2>1. StatusOnly
    BY <1>0, <1>3 DEF BlockDispatch, RecordUnsent, StatusOnly, TypeOK, RunDoc, TerminalRun
  <2> QED
    BY <1>3, <2>1, StatusMove DEF BlockDispatch, RecordUnsent, Plain
<1>4. CASE CompleteRun(a)
  <2>1. /\ Goto(a, "complete", "enqueue") /\ UNCHANGED <<written, dispatched>>
        /\ run' = [run EXCEPT !.status = "completed"]
    BY <1>4 DEF CompleteRun
  <2>2. run' \in RunDoc /\ run'.processed = run.processed /\ run'.failed = run.failed
        /\ run'.enqueued = run.enqueued
    BY <1>0, <2>1 DEF TypeOK, RunDoc, TerminalRun
  <2>3. TypeOK'
    BY <1>0, <2>1, <2>2, GotoType DEF TypeOK, ActorPC
  <2>a. AskedStays
    BY <1>0, <2>1, GotoAsked
  <2>f. FreshEnough'
    BY <1>0, <2>1, <2>3, <2>a, FreshStays DEF ActorOk, Goto, TypeOK
  <2>4. ActorOk(actor[a])'
    BY <1>0, <2>1, <2>f, GotoType DEF ActorOk, Asking, ActorPC
  <2>5. ActorHonest'
    BY <1>0, <2>1, <2>3, <2>4, <2>a, GotoType, OneActor DEF TypeOK, ActorPC
  <2>6. ReportHonest'
    BY <2>1, <2>2, <2>a, SameReport
  <2> QED
    BY <2>1, <2>2, <2>3, <2>5, <2>6, <2>a, FreshStep
<1>5. CASE EnqueueConsumer(a)
  <2>1. /\ Goto(a, "enqueue", "sent") /\ UNCHANGED <<run, written>>
        /\ dispatched' = IF dispatched < DispatchCap THEN dispatched + 1 ELSE dispatched
    BY <1>5 DEF EnqueueConsumer
  <2>2. dispatched' \in 0..DispatchCap /\ dispatched' >= dispatched /\ dispatched' > 0
    BY <1>0, <2>1, BoundsAssumption DEF TypeOK
  <2>3. TypeOK'
    BY <1>0, <2>1, <2>2, GotoType DEF TypeOK, ActorPC
  <2>a. AskedStays
    BY <1>0, <2>1, GotoAsked
  <2>4. FreshEnough
    BY <1>0, <2>1 DEF ActorOk, Goto
  <2>5. ActorOk(actor[a])'
    BY <1>0, <2>1, <2>2, GotoType DEF ActorOk, Asking, ActorPC
  <2>6. ActorHonest'
    BY <1>0, <2>1, <2>2, <2>3, <2>5, <2>a, GotoType, OneActor DEF ActorPC
  <2>7. ReportHonest'
    BY <2>1, <2>a, SameReport
  <2> QED
    BY <2>1, <2>2, <2>3, <2>4, <2>6, <2>7, <2>a, FreshStep
<1>6. CASE RecordSent(a)
  <2>1. dispatched > 0
    BY <1>0, <1>6 DEF RecordSent, Goto, ActorOk
  <2>2. StatusOnly
    BY <1>0, <1>6, <2>1 DEF RecordSent, StatusOnly, TypeOK, RunDoc
  <2> QED
    BY <1>6, <2>2, StatusMove DEF RecordSent, Plain
<1> QED
  BY <1>1, <1>2, <1>3, <1>4, <1>5, <1>6 DEF Complete

LEMMA RetryFresh == ASSUME FreshInv, Retry PROVE FreshInv'
<1>0. TypeOK
  BY DEF FreshInv
<1>1. CASE ForceStaleRun
  <2>1. StatusOnly /\ Goto(Watchdog, "force", "done") /\ Watchdog \in Actors
    BY <1>0, <1>1, ActorsFacts DEF ForceStaleRun, StatusOnly, TypeOK, RunDoc, TerminalRun
  <2> QED
    BY <2>1, StatusMove DEF Plain
<1>4. CASE FindStaleRun
  <2>1. /\ actor' = [actor EXCEPT ![Watchdog].pc = "force"] /\ UNCHANGED docs
        /\ Watchdog \in Actors
    BY <1>4, ActorsFacts DEF FindStaleRun
  <2>2. Goto(Watchdog, actor[Watchdog].pc, "force")
    BY <2>1 DEF Goto
  <2> QED
    BY <1>0, <2>1, <2>2, SameStatus, StatusMove DEF Plain
<1>2. CASE QueryFailedDispatch
  <2>1. /\ actor' = [actor EXCEPT ![Watchdog].pc = "retry"] /\ UNCHANGED docs
        /\ Watchdog \in Actors
    BY <1>2, ActorsFacts DEF QueryFailedDispatch
  <2>2. Goto(Watchdog, actor[Watchdog].pc, "retry")
    BY <2>1 DEF Goto
  <2> QED
    BY <1>0, <2>1, <2>2, SameStatus, StatusMove DEF Plain
<1>3. CASE RetryDispatch
  <2>1. StatusOnly /\ Goto(Watchdog, "retry", "check") /\ Watchdog \in Actors
    BY <1>0, <1>3, ActorsFacts DEF RetryDispatch, StatusOnly, TypeOK, RunDoc
  <2> QED
    BY <2>1, StatusMove DEF Plain
<1> QED
  BY <1>1, <1>2, <1>3, <1>4 DEF Retry

LEMMA FailFresh == ASSUME FreshInv, Fail PROVE FreshInv'
<1>0. TypeOK
  BY DEF FreshInv
<1>1. ASSUME NEW d \in Deliveries, FetchFails(d) PROVE FreshInv'
  <2>1. Goto(d, "fetch", "fetchFailed") /\ UNCHANGED docs /\ d \in Actors
    BY <1>1, ActorsFacts DEF FetchFails
  <2>2. TypeOK'
    BY <1>0, <2>1, GotoType DEF TypeOK, docs, ActorPC
  <2>a. AskedStays
    BY <1>0, <2>1, GotoAsked
  <2>3. ActorHonest'
    BY <1>0, <2>1, <2>2, <2>a, GotoType, PlainMove DEF docs, ActorPC
  <2>4. ReportHonest'
    BY <2>1, <2>a, SameReport DEF docs
  <2> QED
    BY <2>1, <2>2, <2>3, <2>4, <2>a, FreshStep DEF docs
<1>2. ASSUME NEW d \in Deliveries, BatchFails(d) PROVE FreshInv'
  <2>1. /\ actor' = [actor EXCEPT ![d].pc = "report", ![d].failed = actor[d].asked]
        /\ UNCHANGED docs /\ d \in Actors /\ actor[d].pc = "commit"
    BY <1>2, ActorsFacts DEF BatchFails
  <2>2. actor[d].asked \in SUBSET Symbols /\ ActorOk(actor[d])
    BY <1>0, <2>1 DEF TypeOK, ActorState, FreshInv, ActorHonest
  <2>3. /\ actor'[d] = [pc |-> "report", asked |-> actor[d].asked, failed |-> actor[d].asked]
        /\ \A b \in Actors : b # d => actor'[b] = actor[b]
    BY <1>0, <2>1 DEF TypeOK, ActorState
  <2>4. TypeOK'
    BY <1>0, <2>1, <2>2 DEF TypeOK, docs, ActorState, ActorPC
  <2>5. ActorOk(actor[d])'
    <3>1. actor'[d].pc = "report" /\ actor'[d].failed = actor'[d].asked
      BY <2>3
    <3> QED
      BY <3>1 DEF ActorOk
  <2>a. AskedStays
    BY <2>3, ActorsFacts DEF AskedStays
  <2>6. ActorHonest'
    BY <1>0, <2>1, <2>3, <2>4, <2>5, <2>a, OneActor DEF docs, TypeOK
  <2>7. ReportHonest'
    BY <2>1, <2>a, SameReport DEF docs
  <2> QED
    BY <2>1, <2>4, <2>6, <2>7, <2>a, FreshStep DEF docs
<1>3. ASSUME NEW a \in Actors, NEW from, NEW to \in {"crashed", "unsent"}, Goto(a, from, to),
             UNCHANGED docs
      PROVE  FreshInv'
  BY <1>0, <1>3, SameStatus, StatusMove DEF Plain
<1>4. ASSUME NEW d \in Deliveries, SubscriberCrash(d) PROVE FreshInv'
  BY <1>3, <1>4, ActorsFacts DEF SubscriberCrash, Goto
<1>5. CASE WatchdogCrash
  BY <1>3, <1>5, ActorsFacts DEF WatchdogCrash, Goto
<1>6. ASSUME NEW a \in Actors, EnqueueConsumerFails(a) \/ RecordSentFails(a) PROVE FreshInv'
  BY <1>3, <1>6 DEF EnqueueConsumerFails, RecordSentFails
<1> QED
  BY <1>1, <1>2, <1>4, <1>5, <1>6 DEF Fail

LEMMA FreshNext == FreshInv /\ [Next]_vars => FreshInv'
<1>1. ASSUME FreshInv, UNCHANGED vars PROVE FreshInv'
  BY <1>1 DEF FreshInv, TypeOK, ReportHonest, ActorHonest, ActorOk, FreshEnough, vars, docs
<1> QED
  BY <1>1, DeliverFresh, CompleteFresh, RetryFresh, FailFresh DEF Next

LEMMA FreshInvariant == Spec => []FreshInv
BY FreshInit, FreshNext, PTL DEF Spec

\* The run, what was written and every actor keep their shapes.
THEOREM TypeCorrect == Spec => []TypeOK
<1>1. FreshInv => TypeOK
  BY DEF FreshInv
<1> QED
  BY <1>1, FreshInvariant, PTL

\* ST is started only on fresh prices of what some delivery asked for, even when deliveries overwrite each
\* other's run document between the writes and the gate's one read.
THEOREM DispatchedPricesAreFresh == Spec => []DispatchedOnFreshPrices
<1>1. FreshInv => DispatchedOnFreshPrices
  BY DEF FreshInv, FreshEnough, DispatchedOnFreshPrices
<1> QED
  BY <1>1, FreshInvariant, PTL

-----------------------------------------------------------------------------
(***************************************************************************)
(* One delivery.  Each step is that of the one busy actor, or begins one   *)
(* when nobody is busy.                                                    *)
(***************************************************************************)
\* Actor a moves to pc, the others stay.
Moves(a, to) ==
  /\ actor'[a].pc = to
  /\ \A b \in Actors : b # a => actor'[b] = actor[b]

LEMMA GotoMoves ==
  ASSUME TypeOK, NEW a \in Actors, NEW from, NEW to, Goto(a, from, to)
  PROVE  Moves(a, to) /\ actor[a].pc = from
BY DEF TypeOK, ActorState, Goto, Moves

LEMMA SingleStays ==
  ASSUME NEW a \in Actors, NEW to, to # "idle", Moves(a, to), Single'
  PROVE  Single
BY ActorsFacts DEF Single, Moves

\* What a step of the busy actor may do to the run.
Allowed(to) ==
  /\ run'.status = "absent" => run.status = "absent"
  /\ run'.status = "completed_but_not_dispatched" =>
       run.status = "completed_but_not_dispatched" \/ to \in {"done", "crashed"}
  /\ run'.enqueued => run.enqueued \/ (to = "done" /\ run'.status = "completed")
  /\ to \in {"enqueue", "sent"} => run'.status = "completed"
  /\ to = "empty" => run'.symbols = {}

LEMMA BusyMove ==
  ASSUME SingleInv, NEW a \in Actors, NEW to, Busy(a), Moves(a, to), Allowed(to),
         to \notin {"idle", "create"}
  PROVE  SingleInv'
<1> SUFFICES ASSUME Single' PROVE SingleInv'
  BY DEF SingleInv
<1>1. Single
  BY SingleStays DEF Busy, Idle
<1>2. \A b \in Actors : b # a => Idle(b) /\ actor'[b] = actor[b]
  BY <1>1 DEF SingleInv, Moves, Busy
<1>3. 1 \in Actors
  BY ActorsFacts
<1>4. \A b \in Actors : b # a => Idle(b)' /\ ~Busy(b)'
  BY <1>2 DEF Idle, Busy
<1>5. \A b, c \in Actors : Busy(b)' /\ Busy(c)' => b = c
  BY <1>4
<1>6. actor'[1].pc \in {"idle", "create"} => run'.status = "absent"
  <2>1. CASE a = 1
    BY <2>1 DEF Moves
  <2>2. CASE a # 1
    BY <1>1, <1>2, <1>3, <2>2 DEF SingleInv, Busy
  <2> QED
    BY <2>1, <2>2
<1>7. run'.status = "absent" => \A b \in Actors : b # 1 => Idle(b)'
  BY <1>1, <1>4 DEF Allowed, SingleInv, Busy
<1>8. run'.status = "completed_but_not_dispatched" => Idle(1)'
  <2>1. CASE a # 1
    BY <1>3, <1>4, <2>1
  <2>2. CASE a = 1
    BY <1>1, <2>2 DEF Allowed, SingleInv, Busy, Idle, Moves
  <2> QED
    BY <2>1, <2>2
<1>9. run'.enqueued => run'.status = "completed" /\ \A b \in Actors : Idle(b)'
  BY <1>1, <1>4 DEF Allowed, SingleInv, Busy, Idle, Moves
<1>10. \A b \in Actors :
         /\ actor'[b].pc \in {"enqueue", "sent"} => run'.status = "completed"
         /\ actor'[b].pc = "empty" => run'.symbols = {}
  BY <1>2 DEF Allowed, Moves, Idle
<1> QED
  BY <1>5, <1>6, <1>7, <1>8, <1>9, <1>10 DEF SingleInv

LEMMA SameAllowed ==
  ASSUME UNCHANGED run, NEW to, to \notin {"enqueue", "sent", "empty"} PROVE Allowed(to)
BY DEF Allowed

LEMMA DeliverSingle ==
  ASSUME TypeOK, SingleInv, NEW d \in Deliveries, Deliver(d) PROVE SingleInv'
<1> USE DEF docs
<1>0. d \in Actors
  BY ActorsFacts
<1>1. CASE CreateRun(d)
  <2>1. Moves(d, "fetch") /\ Allowed("fetch") /\ Busy(d)
    BY <1>0, <1>1 DEF CreateRun, Moves, Allowed, Busy, Idle, TypeOK
  <2> QED
    BY <1>0, <2>1, BusyMove
<1>2. CASE FetchSnapshot(d)
  <2>1. Moves(d, "commit") /\ UNCHANGED run /\ Busy(d)
    BY <1>0, <1>2 DEF FetchSnapshot, Moves, Busy, Idle, TypeOK, ActorState
  <2> QED
    BY <1>0, <2>1, SameAllowed, BusyMove
<1>3. CASE ReportFetchFailed(d)
  <2>1. Moves(d, "done") /\ Allowed("done") /\ Busy(d)
    BY <1>0, <1>3, GotoMoves DEF ReportFetchFailed, Allowed, Busy, Idle, TypeOK, RunDoc
  <2> QED
    BY <1>0, <2>1, BusyMove
<1>4. CASE CommitBatch(d)
  <2>1. Moves(d, "report") /\ UNCHANGED run /\ Busy(d)
    BY <1>0, <1>4, GotoMoves DEF CommitBatch, Busy, Idle
  <2> QED
    BY <1>0, <2>1, SameAllowed, BusyMove
<1>5. CASE ReportProcessed(d)
  <2>1. Moves(d, "check") /\ Allowed("check") /\ Busy(d)
    BY <1>0, <1>5, GotoMoves DEF ReportProcessed, Allowed, Busy, Idle, TypeOK, RunDoc
  <2> QED
    BY <1>0, <2>1, BusyMove
<1> QED
  BY <1>1, <1>2, <1>3, <1>4, <1>5 DEF Deliver

LEMMA CompleteSingle ==
  ASSUME TypeOK, SingleInv, NEW a \in Actors, Complete(a) PROVE SingleInv'
<1> USE DEF docs
<1>0. Single' => Single
  <2>1. BranchOf(run) # "idle"
    BY BranchType DEF TypeOK
  <2>2. ASSUME NEW from, NEW to, to # "idle", Goto(a, from, to) PROVE Single' => Single
    BY <2>2, GotoMoves, SingleStays
  <2> QED
    BY <2>1, <2>2 DEF Complete, CheckIntradayRunCompletion, CompleteEmpty, BlockDispatch,
      CompleteRun, EnqueueConsumer, RecordSent, RecordUnsent
<1> SUFFICES ASSUME Single PROVE SingleInv'
  BY <1>0 DEF SingleInv
<1>1. CASE CheckIntradayRunCompletion(a)
  <2>1. /\ Moves(a, BranchOf(run)) /\ UNCHANGED run /\ Busy(a)
        /\ BranchOf(run) \in {"done", "empty", "gated", "complete"}
    BY <1>1, GotoMoves, BranchType DEF CheckIntradayRunCompletion, Busy, Idle, TypeOK
  <2>2. BranchOf(run) = "empty" => run.symbols = {}
    BY DEF BranchOf, TypeOK, RunDoc, TerminalRun
  <2>3. PICK to : to = BranchOf(run)
    OBVIOUS
  <2>4. Allowed(to)
    BY <2>1, <2>2, <2>3 DEF Allowed
  <2> QED
    BY <2>1, <2>3, <2>4, BusyMove
<1>2. CASE CompleteEmpty(a) \/ BlockDispatch(a) \/ RecordUnsent(a)
  <2>1. Moves(a, "done") /\ Busy(a)
    BY <1>2, GotoMoves DEF CompleteEmpty, BlockDispatch, RecordUnsent, Busy, Idle
  <2>2. Allowed("done")
    BY <1>2 DEF CompleteEmpty, BlockDispatch, RecordUnsent, Allowed, TypeOK, RunDoc
  <2> QED
    BY <2>1, <2>2, BusyMove
<1>3. CASE CompleteRun(a)
  <2>1. Moves(a, "enqueue") /\ Busy(a) /\ Allowed("enqueue")
    BY <1>3, GotoMoves DEF CompleteRun, Busy, Idle, Allowed, TypeOK, RunDoc
  <2> QED
    BY <2>1, BusyMove
<1>4. CASE EnqueueConsumer(a)
  <2>1. Moves(a, "sent") /\ Busy(a) /\ UNCHANGED run /\ actor[a].pc = "enqueue"
    BY <1>4, GotoMoves DEF EnqueueConsumer, Busy, Idle
  <2>2. Allowed("sent")
    BY <2>1 DEF SingleInv, Allowed
  <2> QED
    BY <2>1, <2>2, BusyMove
<1>5. CASE RecordSent(a)
  <2>1. Moves(a, "done") /\ Busy(a) /\ actor[a].pc = "sent"
    BY <1>5, GotoMoves DEF RecordSent, Busy, Idle
  <2>2. run.status = "completed" /\ run'.status = run.status
    BY <1>5, <2>1 DEF SingleInv, RecordSent, TypeOK, RunDoc
  <2>3. Allowed("done")
    BY <2>2 DEF Allowed
  <2> QED
    BY <2>1, <2>3, BusyMove
<1> QED
  BY <1>1, <1>2, <1>3, <1>4, <1>5 DEF Complete

LEMMA FailSingle == ASSUME TypeOK, SingleInv, Fail PROVE SingleInv'
<1> USE DEF docs
<1>1. ASSUME NEW a \in Actors, NEW to \in {"fetchFailed", "report", "crashed", "unsent"},
             Moves(a, to), Busy(a), UNCHANGED run
      PROVE  SingleInv'
  BY <1>1, SameAllowed, BusyMove
<1>2. ASSUME NEW d \in Deliveries, FetchFails(d) PROVE SingleInv'
  BY <1>1, <1>2, ActorsFacts, GotoMoves DEF FetchFails, Busy, Idle
<1>3. ASSUME NEW d \in Deliveries, BatchFails(d) PROVE SingleInv'
  <2>1. Moves(d, "report") /\ Busy(d) /\ UNCHANGED run /\ d \in Actors
    BY <1>3, ActorsFacts DEF BatchFails, Moves, Busy, Idle, TypeOK, ActorState
  <2> QED
    BY <1>1, <2>1
<1>4. ASSUME NEW d \in Deliveries, SubscriberCrash(d) PROVE SingleInv'
  <2>1. Moves(d, "crashed") /\ Busy(d) /\ UNCHANGED run /\ d \in Actors
    BY <1>4, ActorsFacts DEF SubscriberCrash, Moves, Busy, Idle, TypeOK, ActorState
  <2> QED
    BY <1>1, <2>1
<1>5. CASE WatchdogCrash
  <2>1. Moves(Watchdog, "crashed") /\ Busy(Watchdog) /\ UNCHANGED run /\ Watchdog \in Actors
    BY <1>5, ActorsFacts DEF WatchdogCrash, Moves, Busy, TypeOK, ActorState
  <2> QED
    BY <1>1, <2>1
<1>6. ASSUME NEW a \in Actors, EnqueueConsumerFails(a) \/ RecordSentFails(a) PROVE SingleInv'
  <2>1. Moves(a, "unsent") /\ Busy(a) /\ UNCHANGED run
    BY <1>6, GotoMoves DEF EnqueueConsumerFails, RecordSentFails, Busy, Idle
  <2> QED
    BY <1>1, <2>1
<1> QED
  BY <1>2, <1>3, <1>4, <1>5, <1>6 DEF Fail

\* The steps that begin when nobody is busy.
LEMMA ReceiveSingle ==
  ASSUME TypeOK, SingleInv, NEW d \in Deliveries, ReceivePdr(d) PROVE SingleInv'
<1> SUFFICES ASSUME Single' PROVE SingleInv'
  BY DEF SingleInv
<1>0. d \in Actors /\ UNCHANGED run /\ 1 \in Actors
  BY ActorsFacts DEF ReceivePdr, docs
<1>1. PICK to \in {"done", "create"} : Moves(d, to) /\ actor[d].pc = "idle"
  BY <1>0, GotoMoves DEF ReceivePdr
<1>2. d = 1 /\ Single
  <2>1. Single
    BY <1>0, <1>1, SingleStays
  <2>2. ~(d > 1)
    BY <1>1 DEF Single, Moves
  <2>3. d \in 1..MaxDeliveries
    BY DEF Deliveries
  <2> QED
    BY <2>1, <2>2, <2>3, BoundsAssumption
<1>3. run.status = "absent"
  BY <1>1, <1>2 DEF SingleInv
<1>4. \A b \in Actors : b # 1 => Idle(b) /\ actor'[b] = actor[b]
  BY <1>1, <1>2, <1>3 DEF SingleInv, Moves
<1>5. \A b \in Actors : b # 1 => Idle(b)' /\ ~Busy(b)'
  BY <1>4 DEF Idle, Busy
<1>6. \A b \in Actors : actor'[b].pc \notin {"enqueue", "sent", "empty"}
  BY <1>1, <1>2, <1>4 DEF Idle, Moves
<1>7. ~run.enqueued
  BY <1>2, <1>3 DEF SingleInv
<1> QED
  BY <1>0, <1>3, <1>5, <1>6, <1>7 DEF SingleInv

LEMMA RetrySingle ==
  ASSUME TypeOK, SingleInv, Retry PROVE SingleInv'
<1>0. 1 \in Actors
  BY ActorsFacts
<1>1. CASE ForceStaleRun
  <2>1. /\ Watchdog \in Actors /\ Moves(Watchdog, "done") /\ Busy(Watchdog)
        /\ run'.status = "forced_complete" /\ run'.enqueued = run.enqueued
    BY <1>1, ActorsFacts, GotoMoves DEF ForceStaleRun, Busy, Idle, TypeOK, RunDoc
  <2> SUFFICES ASSUME Single' PROVE SingleInv'
    BY DEF SingleInv
  <2>2. Single
    BY <2>1, SingleStays
  <2>3. Allowed("done")
    BY <2>1, <2>2 DEF Allowed, SingleInv, Busy
  <2> QED
    BY <2>1, <2>3, BusyMove
<1>4. CASE FindStaleRun
  <2> SUFFICES ASSUME Single' PROVE SingleInv'
    BY DEF SingleInv
  <2>1. /\ Watchdog \in Actors /\ Moves(Watchdog, "force") /\ UNCHANGED run
        /\ run.status = "processing" /\ Abandoned
    BY <1>4, ActorsFacts DEF FindStaleRun, Abandoned, docs, Moves, TypeOK, ActorState
  <2>2. Single
    BY <2>1, SingleStays
  <2>3. Idle(1) /\ actor[1].pc \notin {"idle", "create"} /\ ~run.enqueued
    BY <2>1, <2>2, ActorsFacts DEF SingleInv, Abandoned
  <2>4. \A b \in Actors : b # Watchdog => Idle(b) /\ actor'[b] = actor[b]
    <3>1. \A b \in Deliveries : b # 1 => actor[b].pc = "idle"
      BY <2>2, BoundsAssumption DEF Single, Deliveries
    <3> QED
      BY <2>1, <2>3, <3>1, ActorsFacts DEF Moves, Idle
  <2>5. \A b \in Actors : b # Watchdog => Idle(b)' /\ ~Busy(b)'
    BY <2>4 DEF Idle, Busy
  <2>6. \A a \in Actors : actor'[a].pc \notin {"enqueue", "sent", "empty"}
    BY <2>1, <2>4 DEF Idle, Moves
  <2>7. 1 # Watchdog
    BY ActorsFacts
  <2> QED
    BY <1>0, <2>1, <2>3, <2>4, <2>5, <2>6, <2>7 DEF SingleInv
<1>2. CASE QueryFailedDispatch
  <2> SUFFICES ASSUME Single' PROVE SingleInv'
    BY DEF SingleInv
  <2>1. /\ Watchdog \in Actors /\ Moves(Watchdog, "retry") /\ UNCHANGED run
        /\ run.status = "completed_but_not_dispatched"
    BY <1>2, ActorsFacts DEF QueryFailedDispatch, docs, Moves, TypeOK, ActorState
  <2>2. Single
    BY <2>1, SingleStays
  <2>3. Idle(1) /\ actor[1].pc \notin {"idle", "create"} /\ ~run.enqueued
    BY <2>1, <2>2 DEF SingleInv
  <2>4. \A b \in Actors : b # Watchdog => Idle(b) /\ actor'[b] = actor[b]
    <3>1. \A b \in Deliveries : b # 1 => actor[b].pc = "idle"
      BY <2>2, BoundsAssumption DEF Single, Deliveries
    <3> QED
      BY <2>1, <2>3, <3>1, ActorsFacts DEF Moves, Idle
  <2>5. \A b \in Actors : b # Watchdog => Idle(b)' /\ ~Busy(b)'
    BY <2>4 DEF Idle, Busy
  <2>6. \A a \in Actors : actor'[a].pc \notin {"enqueue", "sent", "empty"}
    BY <2>1, <2>4 DEF Idle, Moves
  <2>7. 1 # Watchdog
    BY ActorsFacts
  <2> QED
    BY <1>0, <2>1, <2>3, <2>4, <2>5, <2>6, <2>7 DEF SingleInv
<1>3. CASE RetryDispatch
  <2>1. /\ Watchdog \in Actors /\ Moves(Watchdog, "check") /\ Busy(Watchdog)
        /\ run'.status = "processing" /\ ~run'.enqueued
    BY <1>3, ActorsFacts, GotoMoves DEF RetryDispatch, Busy, Idle, TypeOK, RunDoc
  <2>2. Allowed("check")
    BY <2>1 DEF Allowed
  <2> QED
    BY <2>1, <2>2, BusyMove
<1> QED
  BY <1>1, <1>2, <1>3, <1>4 DEF Retry

LEMMA SingleNext == TypeOK /\ SingleInv /\ [Next]_vars => SingleInv'
<1>1. ASSUME SingleInv, UNCHANGED vars PROVE SingleInv'
  BY <1>1 DEF SingleInv, Single, Busy, Idle, vars, docs
<1> QED
  BY <1>1, ReceiveSingle, DeliverSingle, CompleteSingle, RetrySingle, FailSingle DEF Next

LEMMA SingleInit == Init => SingleInv
BY DEF Init, SingleInv, Busy, Idle

LEMMA SingleInvariant == Spec => []SingleInv
<1>1. FreshInv => TypeOK
  BY DEF FreshInv
<1> QED
  BY <1>1, FreshInvariant, SingleInit, SingleNext, PTL DEF Spec

\* While the message was delivered once, ST is not started again after the
\* document says that it was: nobody holds a stale reading of the run by then.
THEOREM SentOnlyOnce == Spec => SentOnce
<1>1. SingleInv /\ [Next]_vars => [Single /\ run.enqueued => dispatched' = dispatched]_vars
  <2> SUFFICES ASSUME SingleInv, Next, Single, run.enqueued PROVE dispatched' = dispatched
    BY DEF vars, docs
  <2>1. \A a \in Actors : ~EnqueueConsumer(a)
    BY DEF SingleInv, Idle, EnqueueConsumer, Goto
  <2> QED
    BY <2>1 DEF Next, ReceivePdr, Deliver, CreateRun, FetchSnapshot, ReportFetchFailed, CommitBatch,
      ReportProcessed, Complete, CheckIntradayRunCompletion, CompleteEmpty, BlockDispatch, CompleteRun,
      RecordSent, RecordUnsent, Retry, FindStaleRun, ForceStaleRun,
      QueryFailedDispatch, RetryDispatch, Fail,
      FetchFails, BatchFails, SubscriberCrash, EnqueueConsumerFails, RecordSentFails, WatchdogCrash, docs
<1> QED
  BY <1>1, SingleInvariant, PTL DEF Spec, SentOnce

-----------------------------------------------------------------------------
(***************************************************************************)
(* The last word.  A run that says 'completed' was dispatched, or the      *)
(* execution that completed it stands between the write and the enqueue,   *)
(* or died there.                                                          *)
(***************************************************************************)
Owed == {"enqueue", "unsent", "crashed"}
OutcomeTold ==
  Single /\ run.status = "completed" /\ run.symbols # {} =>
    dispatched > 0 \/ \E a \in Actors : actor[a].pc \in Owed

OutcomeInv == OutcomeTold /\ FreshInv /\ SingleInv

\* The four ways in which a step keeps it.
LEMMA OutcomeMove ==
  ASSUME OutcomeInv, NEW a \in Actors, NEW to, to # "idle", Moves(a, to),
         \/ run'.status # "completed"
         \/ run'.symbols = {}
         \/ to \in Owed \/ dispatched' > 0
         \/ /\ run'.status = run.status /\ run'.symbols = run.symbols
            /\ dispatched' = dispatched /\ actor[a].pc \notin Owed
  PROVE  OutcomeTold'
<1> SUFFICES ASSUME Single', run'.status = "completed", run'.symbols # {}
             PROVE  dispatched' > 0 \/ \E b \in Actors : actor'[b].pc \in Owed
  BY DEF OutcomeTold
<1>1. Single
  BY SingleStays
<1>2. CASE to \in Owed \/ dispatched' > 0
  BY <1>2 DEF Moves
<1>3. CASE /\ run'.status = run.status /\ run'.symbols = run.symbols
           /\ dispatched' = dispatched /\ actor[a].pc \notin Owed
  BY <1>1, <1>3 DEF OutcomeInv, OutcomeTold, Moves
<1> QED
  BY <1>2, <1>3

LEMMA DeliverOutcome ==
  ASSUME OutcomeInv, NEW d \in Deliveries, ReceivePdr(d) \/ Deliver(d) PROVE OutcomeTold'
<1> USE DEF docs, Owed
<1>0. d \in Actors /\ TypeOK
  BY ActorsFacts DEF OutcomeInv, FreshInv
<1>1. CASE ReceivePdr(d)
  <2>1. PICK to \in {"done", "create"} : Moves(d, to) /\ actor[d].pc = "idle" /\ UNCHANGED docs
    BY <1>0, <1>1, GotoMoves DEF ReceivePdr
  <2> QED
    BY <1>0, <2>1, OutcomeMove
<1>2. CASE CreateRun(d)
  <2>1. Moves(d, "fetch") /\ run'.status = "processing"
    BY <1>0, <1>2 DEF CreateRun, Moves, TypeOK
  <2> QED
    BY <1>0, <2>1, OutcomeMove
<1>3. CASE FetchSnapshot(d)
  <2>1. Moves(d, "commit") /\ actor[d].pc = "fetch" /\ UNCHANGED docs
    BY <1>0, <1>3 DEF FetchSnapshot, Moves, TypeOK, ActorState
  <2> QED
    BY <1>0, <2>1, OutcomeMove
<1>4. CASE ReportFetchFailed(d)
  <2>1. Moves(d, "done") /\ run'.status = "failed"
    BY <1>0, <1>4, GotoMoves DEF ReportFetchFailed, TypeOK, RunDoc
  <2> QED
    BY <1>0, <2>1, OutcomeMove
<1>5. CASE CommitBatch(d)
  <2>1. Moves(d, "report") /\ actor[d].pc = "commit" /\ UNCHANGED <<run, dispatched>>
    BY <1>0, <1>5, GotoMoves DEF CommitBatch
  <2> QED
    BY <1>0, <2>1, OutcomeMove
<1>6. CASE ReportProcessed(d)
  <2>1. Moves(d, "check") /\ actor[d].pc = "report" /\ dispatched' = dispatched
    BY <1>0, <1>6, GotoMoves DEF ReportProcessed
  <2>2. run'.status = run.status /\ run'.symbols = run.symbols
    BY <1>0, <1>6 DEF ReportProcessed, TypeOK, RunDoc
  <2> QED
    BY <1>0, <2>1, <2>2, OutcomeMove
<1> QED
  BY <1>1, <1>2, <1>3, <1>4, <1>5, <1>6 DEF Deliver

LEMMA CompleteOutcome ==
  ASSUME OutcomeInv, NEW a \in Actors, Complete(a) PROVE OutcomeTold'
<1> USE DEF docs, Owed
<1>0. TypeOK /\ SingleInv /\ (actor[a].pc = "sent" => dispatched > 0)
  BY DEF OutcomeInv, FreshInv, ActorHonest, ActorOk
<1>1. CASE CheckIntradayRunCompletion(a)
  <2>1. PICK to : to = BranchOf(run)
    OBVIOUS
  <2>2. Moves(a, to) /\ actor[a].pc = "check" /\ UNCHANGED docs /\ to # "idle"
    BY <1>0, <1>1, <2>1, GotoMoves, BranchType DEF CheckIntradayRunCompletion, TypeOK
  <2> QED
    BY <2>2, OutcomeMove
<1>2. CASE CompleteEmpty(a)
  <2>1. Moves(a, "done") /\ actor[a].pc = "empty"
    BY <1>0, <1>2, GotoMoves DEF CompleteEmpty
  <2>2. run'.symbols = run.symbols /\ dispatched' = dispatched
    BY <1>0, <1>2 DEF CompleteEmpty, TypeOK, RunDoc
  <2>3. Single => run.symbols = {}
    BY <1>0, <2>1 DEF SingleInv
  <2>4. CASE Single
    BY <2>1, <2>2, <2>3, <2>4, OutcomeMove
  <2>5. CASE ~Single
    BY <2>1, <2>5, SingleStays DEF OutcomeTold
  <2> QED
    BY <2>4, <2>5
<1>3. CASE BlockDispatch(a) \/ RecordUnsent(a)
  <2>1. Moves(a, "done")
    BY <1>0, <1>3, GotoMoves DEF BlockDispatch, RecordUnsent
  <2>2. run'.status = "completed_but_not_dispatched"
    BY <1>0, <1>3 DEF BlockDispatch, RecordUnsent, TypeOK, RunDoc
  <2> QED
    BY <2>1, <2>2, OutcomeMove
<1>4. CASE CompleteRun(a)
  <2>1. Moves(a, "enqueue")
    BY <1>0, <1>4, GotoMoves DEF CompleteRun
  <2> QED
    BY <2>1, OutcomeMove
<1>5. CASE EnqueueConsumer(a)
  <2>1. Moves(a, "sent")
    BY <1>0, <1>5, GotoMoves DEF EnqueueConsumer
  <2>2. dispatched' > 0
    BY <1>0, <1>5, BoundsAssumption DEF EnqueueConsumer, TypeOK
  <2> QED
    BY <2>1, <2>2, OutcomeMove
<1>6. CASE RecordSent(a)
  <2>1. Moves(a, "done") /\ actor[a].pc = "sent" /\ dispatched' = dispatched
    BY <1>0, <1>6, GotoMoves DEF RecordSent
  <2> QED
    BY <1>0, <2>1, OutcomeMove
<1> QED
  BY <1>1, <1>2, <1>3, <1>4, <1>5, <1>6 DEF Complete

LEMMA RetryOutcome ==
  ASSUME OutcomeInv, Retry PROVE OutcomeTold'
<1> USE DEF docs, Owed
<1>0. TypeOK
  BY DEF OutcomeInv, FreshInv
<1>1. CASE ForceStaleRun
  BY <1>0, <1>1 DEF ForceStaleRun, OutcomeTold, TypeOK, RunDoc
<1>4. CASE FindStaleRun
  BY <1>4 DEF FindStaleRun, Abandoned, OutcomeTold
<1>2. CASE QueryFailedDispatch
  <2>1. /\ Watchdog \in Actors /\ Moves(Watchdog, "retry") /\ UNCHANGED run
        /\ run.status = "completed_but_not_dispatched"
    BY <1>0, <1>2, ActorsFacts DEF QueryFailedDispatch, Moves, TypeOK, ActorState
  <2> QED
    BY <2>1, OutcomeMove
<1>3. CASE RetryDispatch
  <2>1. /\ Watchdog \in Actors /\ Moves(Watchdog, "check") /\ run'.status = "processing"
    BY <1>0, <1>3, ActorsFacts, GotoMoves DEF RetryDispatch, TypeOK, RunDoc
  <2> QED
    BY <2>1, OutcomeMove
<1> QED
  BY <1>1, <1>2, <1>3, <1>4 DEF Retry

LEMMA FailOutcome == ASSUME OutcomeInv, Fail PROVE OutcomeTold'
<1> USE DEF docs, Owed
<1>0. TypeOK
  BY DEF OutcomeInv, FreshInv
<1>1. ASSUME NEW d \in Deliveries, FetchFails(d) PROVE OutcomeTold'
  <2>1. /\ d \in Actors /\ Moves(d, "fetchFailed") /\ actor[d].pc = "fetch" /\ UNCHANGED docs
    BY <1>0, <1>1, ActorsFacts, GotoMoves DEF FetchFails
  <2> QED
    BY <2>1, OutcomeMove
<1>2. ASSUME NEW d \in Deliveries, BatchFails(d) PROVE OutcomeTold'
  <2>1. /\ d \in Actors /\ Moves(d, "report") /\ actor[d].pc = "commit" /\ UNCHANGED docs
    BY <1>0, <1>2, ActorsFacts DEF BatchFails, Moves, TypeOK, ActorState
  <2> QED
    BY <2>1, OutcomeMove
<1>3. ASSUME NEW d \in Deliveries, SubscriberCrash(d) PROVE OutcomeTold'
  <2>1. d \in Actors /\ Moves(d, "crashed")
    BY <1>0, <1>3, ActorsFacts DEF SubscriberCrash, Moves, TypeOK, ActorState
  <2> QED
    BY <2>1, OutcomeMove
<1>4. CASE WatchdogCrash
  <2>1. Watchdog \in Actors /\ Moves(Watchdog, "crashed")
    BY <1>0, <1>4, ActorsFacts DEF WatchdogCrash, Moves, TypeOK, ActorState
  <2> QED
    BY <2>1, OutcomeMove
<1>5. ASSUME NEW a \in Actors, EnqueueConsumerFails(a) \/ RecordSentFails(a) PROVE OutcomeTold'
  <2>1. Moves(a, "unsent")
    BY <1>0, <1>5, GotoMoves DEF EnqueueConsumerFails, RecordSentFails
  <2> QED
    BY <2>1, OutcomeMove
<1> QED
  BY <1>1, <1>2, <1>3, <1>4, <1>5 DEF Fail

\* completionEnqueued tells the truth, and a run whose last word is
\* 'completed' has been dispatched unless the execution that completed it is
\* not done with it or died.
THEOREM OutcomeIsHonest == Spec => []OutcomeHonest
<1>1. Init => OutcomeTold
  BY DEF Init, OutcomeTold
<1>2. OutcomeTold /\ FreshInv /\ SingleInv /\ [Next]_vars => OutcomeTold'
  <2>1. ASSUME OutcomeTold, UNCHANGED vars PROVE OutcomeTold'
    BY <2>1 DEF OutcomeTold, Single, vars, docs
  <2> QED
    BY <2>1, DeliverOutcome, CompleteOutcome, RetryOutcome, FailOutcome DEF Next, OutcomeInv
<1>3. OutcomeTold /\ FreshInv => OutcomeHonest
  BY DEF OutcomeTold, FreshInv, OutcomeHonest, Owed
<1> QED
  BY <1>1, <1>2, <1>3, FreshInvariant, SingleInvariant, PTL DEF Spec
==============================================================================
