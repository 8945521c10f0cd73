--------------------------- MODULE RhSessionProofs ---------------------------
(***************************************************************************)
(* Proofs about RhSession for every number of requests, connects in        *)
(* flight and faults.                                                      *)
(***************************************************************************)
EXTENDS RhSession, TLAPS

USE DEF None, Token

\* A rebuild keeps the types, leaves no live session out of the cache and, if it
\* starts a connect, starts one that was not in progress.
LEMMA Rebuilt ==
  ASSUME TypeOK, NEW E \in Entry, NEW C \in [Connects -> Connection], Rebuild(E, C)
  PROVE  /\ entry' \in Entry /\ pending' \in Connects \cup {None}
         /\ attempt' \in [Connects -> Attempt] /\ conn' \in [Connects -> Connection]
         /\ \A a \in Connects : attempt'[a] # attempt[a] =>
              attempt[a].pc \in {"free", "done"} /\ attempt'[a].pc \in {"load", "closePrevious"}
         /\ (\A a \in Connects : C[a] \in Live => E.connection = a)
            => \A a \in Connects : conn'[a] \in Live => entry'.connection = a
<1>1. CASE pending # None
  BY <1>1 DEF Rebuild, TypeOK
<1>2. CASE pending = None
  <2> DEFINE x == [FreeAttempt EXCEPT !.previous = E.connection,
                     !.pc = IF E.connection = None THEN "load" ELSE "closePrevious"]
  <2>1. NextAttempt \in Free /\ NextAttempt \in Connects
    BY <1>2 DEF Rebuild, Free, NextAttempt
  <2>2. x \in Attempt /\ x.pc \in {"load", "closePrevious"}
    BY DEF Entry, Attempt, AttemptPC, FreeAttempt
  <2>3. attempt' = [attempt EXCEPT ![NextAttempt] = x]
    BY <1>2 DEF Rebuild
  <2> HIDE DEF x
  <2>4. attempt' \in [Connects -> Attempt]
    BY <2>2, <2>3 DEF TypeOK
  <2>5. entry' \in Entry
    BY <1>2 DEF Rebuild, NoEntry, Entry
  <2>6. conn' \in [Connects -> Connection]
    BY <1>2 DEF Rebuild, Connection
  <2>7. ASSUME NEW a \in Connects, attempt'[a] # attempt[a]
        PROVE  attempt[a].pc \in {"free", "done"} /\ attempt'[a].pc \in {"load", "closePrevious"}
    BY <2>1, <2>2, <2>3, <2>7 DEF Free, TypeOK
  <2>8. ASSUME \A a \in Connects : C[a] \in Live => E.connection = a,
               NEW a \in Connects
        PROVE  conn'[a] \notin Live
    BY <1>2, <2>8 DEF Rebuild, Live
  <2> QED
    BY <1>2, <2>1, <2>4, <2>5, <2>6, <2>7, <2>8 DEF Rebuild
<1> QED
  BY <1>1, <1>2

LEMMA HandedType ==
  ASSUME NEW q \in Request, NEW c \in Connects \cup {None} PROVE Handed(q, c) \in Request
<1>1. CASE q.result = "none"
  <2> DEFINE pc == IF Usable(c) THEN "call" ELSE "refused"
  <2>1. pc \in RequestPC
    BY DEF RequestPC
  <2>2. Handed(q, c) = [q EXCEPT !.token = None, !.connection = c, !.pc = pc]
    BY <1>1 DEF Handed
  <2> HIDE DEF pc
  <2>3. [q EXCEPT !.token = None, !.connection = c] \in Request
    BY DEF Request
  <2> QED
    BY <2>1, <2>2, <2>3 DEF Request
<1>2. CASE q.result # "none"
  BY <1>2 DEF Request, Handed, Over, RequestPC
<1> QED
  BY <1>1, <1>2

\* What a request does keeps the types.
LEMMA RequestType ==
  ASSUME TypeOK, NEW r \in Requests,
         Start(r) \/ RequestSteps(r) \/ SlowCall(r) \/ RequestBound(r) \/ LoadFails(r)
  PROVE  TypeOK'
<1> DEFINE q == req[r]
           c == q.connection
<1> USE DEF cache, credential, NoFailure
<1>q. q \in Request /\ c \in Connects \cup {None}
  BY DEF TypeOK, Request
<1>b. ASSUME NEW x \in Request, Becomes(r, x) PROVE req' \in [Requests -> Request]
  BY <1>b DEF Becomes, TypeOK
<1>f. Failed(q) \in Request /\ Over(q, "answer") \in Request
  BY <1>q DEF Request, Failed, Over, RequestPC
<1>e. /\ NoEntry \in Entry /\ entry \in Entry /\ Answering(c) \in Entry
      /\ [entry EXCEPT !.timeouts = @ + 1] \in Entry
  BY DEF TypeOK, Answering, NoEntry, Entry
<1>c. [conn EXCEPT ![c] = "closing"] \in [Connects -> Connection]
  BY DEF TypeOK, Connection
<1>1. CASE Start(r)
  <2>1. Quiet(r) \in BOOLEAN
    BY DEF Quiet
  <2> DEFINE x == [q EXCEPT !.pc = "load", !.quiet = Quiet(r)]
  <2>2. x \in Request
    BY <1>q, <2>1 DEF Request, RequestPC
  <2> QED
    BY <1>1, <1>b, <2>2 DEF Start, TypeOK
<1>2. CASE AcquireLoad(r)
  <2> DEFINE x == [q EXCEPT !.token = stored.token, !.pc = "check"]
  <2>1. x \in Request
    BY <1>q DEF TypeOK, Request, RequestPC
  <2> QED
    BY <1>2, <1>b, <2>1 DEF AcquireLoad, TypeOK
<1>3. CASE AcquireCheck(r)
  <2>1. CASE entry.token = q.token
    <3>1. Handed(q, entry.connection) \in Request
      BY <1>q, <1>e, HandedType DEF Entry
    <3> QED
      BY <1>3, <1>b, <2>1, <3>1 DEF AcquireCheck, TypeOK
  <2>2. CASE entry.token # q.token
    <3> DEFINE x == [q EXCEPT !.pc = "wait", !.token = None]
    <3>1. x \in Request
      BY <1>q DEF Request, RequestPC
    <3>2. Becomes(r, x) /\ Rebuild(entry, conn)
      BY <1>3, <2>2 DEF AcquireCheck
    <3> QED
      BY <1>3, <1>b, <1>e, <3>1, <3>2, Rebuilt DEF AcquireCheck, TypeOK
  <2> QED
    BY <2>1, <2>2
<1>4. CASE RecoverRebuilds(r)
  <2> DEFINE x == [q EXCEPT !.pc = "wait", !.connection = None]
  <2>1. x \in Request
    BY <1>q DEF Request, RequestPC
  <2> QED
    BY <1>4, <1>b, <1>e, <2>1, Rebuilt DEF RecoverRebuilds, TypeOK
<1>5. CASE Refused(r) \/ CallFails(r)
  <2>1. SessionFails(r)
    BY <1>5 DEF Refused, CallFails
  <2>2. CASE q.retried
    BY <1>5, <1>b, <1>e, <1>f, <2>1, <2>2 DEF SessionFails, Refused, CallFails, TypeOK
  <2>3. CASE ~q.retried
    <3> DEFINE x == [q EXCEPT !.retried = TRUE,
                       !.pc = IF IsCurrent(c) THEN "recover" ELSE "load",
                       !.connection = IF IsCurrent(c) THEN c ELSE None]
    <3>1. x \in Request
      <4>1. CASE IsCurrent(c)
        BY <1>q, <4>1 DEF Request, RequestPC
      <4>2. CASE ~IsCurrent(c)
        BY <1>q, <4>2 DEF Request, RequestPC
      <4> QED
        BY <4>1, <4>2
    <3>2. Becomes(r, x) /\ entry' \in Entry /\ conn' \in [Connects -> Connection]
      BY <1>e, <1>c, <2>1, <2>3 DEF SessionFails, TypeOK
    <3> QED
      BY <1>5, <1>b, <2>1, <2>3, <3>1, <3>2 DEF SessionFails, Refused, CallFails, TypeOK
  <2> QED
    BY <2>2, <2>3
<1>6. CASE CallAnswered(r)
  BY <1>6, <1>b, <1>e, <1>f DEF CallAnswered, TypeOK
<1>7. CASE CallSevered(r)
  BY <1>7, <1>b, <1>f DEF CallSevered, TypeOK
<1>8. CASE CallTimesOut(r) \/ SlowCall(r)
  <2>1. TimedOut(r) /\ faults' \in 0..MaxFaults
    BY <1>8, ConstantsAssumption DEF CallTimesOut, SlowCall, Failure, TypeOK
  <2>2. CASE entry.connection = c /\ entry.timeouts + 1 >= StreakLimit
    <3>1. Rebuild(NoEntry, [conn EXCEPT ![c] = "closing"])
      BY <2>1, <2>2 DEF TimedOut
    <3> QED
      BY <1>b, <1>c, <1>e, <1>f, <2>1, <3>1, Rebuilt DEF TimedOut, TypeOK
  <2>3. CASE ~(entry.connection = c /\ entry.timeouts + 1 >= StreakLimit)
    BY <1>b, <1>e, <1>f, <2>1, <2>3 DEF TimedOut, TypeOK
  <2> QED
    BY <2>2, <2>3
<1>9. CASE RequestBound(r)
  <2> DEFINE x == [q EXCEPT !.result = "error"]
  <2>1. x \in Request
    BY <1>q DEF Request
  <2> QED
    BY <1>9, <1>b, <2>1, ConstantsAssumption DEF RequestBound, Failure, TypeOK
<1>10. CASE LoadFails(r)
  BY <1>10, <1>b, <1>f, ConstantsAssumption DEF LoadFails, Failure, TypeOK
<1> QED
  BY <1>1, <1>2, <1>3, <1>4, <1>5, <1>6, <1>7, <1>8, <1>9, <1>10 DEF RequestSteps
\* Every reachable state is well typed, whatever the connects, the requests and the
\* credential store do.
THEOREM TypeCorrect == Spec => []TypeOK
<1>1. Init => TypeOK
  BY ConstantsAssumption DEF Init, TypeOK, NoEntry, Entry, FreeAttempt, Attempt, AttemptPC,
     Connection, IdleRequest, Request, RequestPC, Token
<1>2. ASSUME TypeOK, [Next]_vars PROVE TypeOK'
  <2> USE DEF cache, credential, NoFailure
  <2>f. Failure => faults' \in 0..MaxFaults
    BY <1>2, ConstantsAssumption DEF Failure, TypeOK
  <2>1. ASSUME NEW a \in Connects,
               \/ ConnectSteps(a) \/ ConnectFails(a) \/ RotationLost(a)
               \/ ConnectHangs(a) \/ ConnectBound(a)
        PROVE  TypeOK'
    <3> DEFINE q == attempt[a]
    <3>q. q \in Attempt
      BY <1>2 DEF TypeOK
    <3>b. ASSUME NEW x \in Attempt, attempt' = [attempt EXCEPT ![a] = x]
          PROVE  attempt' \in [Connects -> Attempt]
      BY <1>2, <3>b DEF TypeOK
    <3>e. Ended(a) => attempt' \in [Connects -> Attempt]
      <4>1. EndOf(q) \in Attempt
        BY <3>q DEF EndOf, Attempt, AttemptPC
      <4> QED
        BY <1>2, <4>1 DEF Ended, TypeOK
    <3>s. ASSUME NEW c \in Connects \cup {None}, Rejected(a) \/ HandsOut(a, c)
          PROVE  pending' \in Connects \cup {None} /\ req' \in [Requests -> Request]
      <4>1. \A r \in Requests : Failed(req[r]) \in Request
        BY <1>2 DEF TypeOK, Request, Failed, Over, RequestPC
      <4>2. \A r \in Requests : Handed(req[r], c) \in Request
        BY <1>2, HandedType DEF TypeOK
      <4> QED
        BY <1>2, <3>s, <4>1, <4>2 DEF Rejected, HandsOut, Settle, TypeOK
    <3>1. CASE ClosedPrevious(a)
      <4> DEFINE x == [q EXCEPT !.previous = None, !.pc = "load"]
      <4>1. x \in Attempt
        BY <3>q DEF Attempt, AttemptPC
      <4>2. attempt' = [attempt EXCEPT ![a] = x]
        BY <1>2, <3>1 DEF ClosedPrevious, TypeOK
      <4> QED
        BY <1>2, <3>1, <3>b, <4>1, <4>2 DEF ClosedPrevious, TypeOK
    <3>2. CASE LoadBundle(a)
      <4> DEFINE pc == IF stored.token \in expired THEN "refresh" ELSE "handshake"
                 x == [q EXCEPT !.revision = stored.revision, !.token = stored.token, !.pc = pc]
      <4>1. stored.revision \in Nat /\ stored.token \in Token /\ pc \in AttemptPC
        BY <1>2 DEF TypeOK, AttemptPC
      <4>2. attempt' = [attempt EXCEPT ![a] = x]
        BY <1>2, <3>2 DEF LoadBundle, TypeOK
      <4> HIDE DEF pc
      <4>3. x \in Attempt
        BY <3>q, <4>1 DEF Attempt
      <4> QED
        BY <1>2, <3>2, <3>b, <4>2, <4>3 DEF LoadBundle, TypeOK
    <3>3. CASE Refresh(a)
      <4> DEFINE x == [q EXCEPT !.new = minted + 1, !.pc = "store"]
      <4>1. q.token \in Token /\ minted + 1 \in Token
        BY <1>2, <3>q DEF TypeOK, Token, Attempt
      <4>2. x \in Attempt
        BY <3>q, <4>1 DEF Attempt, AttemptPC
      <4>3. attempt' = [attempt EXCEPT ![a] = x]
        BY <1>2, <3>3 DEF Refresh, TypeOK
      <4> QED
        BY <1>2, <3>3, <3>b, <4>1, <4>2, <4>3 DEF Refresh, TypeOK
    <3>4. CASE StoreTokens(a)
      <4> DEFINE x == [q EXCEPT !.token = q.new, !.pc = "handshake"]
      <4>0. q.new \in Token /\ q.revision + 1 \in Nat
        BY <3>q DEF Attempt
      <4>1. x \in Attempt
        BY <3>q, <4>0 DEF Attempt, AttemptPC
      <4>2. attempt' = [attempt EXCEPT ![a] = x]
        BY <1>2, <3>4 DEF StoreTokens, TypeOK
      <4> QED
        BY <1>2, <3>4, <3>b, <4>0, <4>1, <4>2 DEF StoreTokens, Stored, TypeOK
    <3>5. CASE RevisionConflict(a)
      <4>1. [q EXCEPT !.pc = "reload"] \in Attempt
        BY <3>q DEF Attempt, AttemptPC
      <4> QED
        BY <1>2, <3>5, <3>b, <4>1 DEF RevisionConflict, To, TypeOK
    <3>6. CASE ReloadBundle(a)
      <4>1. CASE stored.token \in expired
        BY <1>2, <3>6, <3>e, <3>s, <4>1 DEF ReloadBundle, TypeOK
      <4>2. CASE stored.token \notin expired
        <5> DEFINE x == [q EXCEPT !.token = stored.token, !.pc = "handshake"]
        <5>1. x \in Attempt
          BY <1>2, <3>q DEF Attempt, AttemptPC, TypeOK
        <5>2. attempt' = [attempt EXCEPT ![a] = x]
          BY <1>2, <3>6, <4>2 DEF ReloadBundle, TypeOK
        <5> QED
          BY <1>2, <3>6, <3>b, <4>2, <5>1, <5>2 DEF ReloadBundle, TypeOK
      <4> QED
        BY <4>1, <4>2
    <3>7. CASE Handshake(a)
      <4>1. CASE MayCache
        <5>1. entry' \in Entry
          BY <3>7, <4>1, <3>q DEF Handshake, Entry, Attempt
        <5>2. conn' \in [Connects -> Connection]
          BY <1>2, <3>7, <4>1 DEF Handshake, TypeOK, Connection
        <5> QED
          BY <1>2, <3>7, <3>e, <3>s, <4>1, <5>1, <5>2 DEF Handshake, TypeOK
      <4>2. CASE ~MayCache
        <5> DEFINE x == [q EXCEPT !.adopted = entry.connection, !.pc = "closeOwn", !.slow = FALSE]
        <5>1. entry.connection \in Connects \cup {None}
          BY <1>2 DEF TypeOK, Entry
        <5>2. x \in Attempt
          BY <3>q, <5>1 DEF Attempt, AttemptPC
        <5>3. attempt' = [attempt EXCEPT ![a] = x]
          BY <1>2, <3>7, <4>2 DEF Handshake, TypeOK
        <5>4. conn' \in [Connects -> Connection]
          BY <1>2, <3>7, <4>2 DEF Handshake, TypeOK, Connection
        <5> QED
          BY <1>2, <3>7, <3>b, <4>2, <5>2, <5>3, <5>4 DEF Handshake, TypeOK
      <4> QED
        BY <4>1, <4>2
    <3>8. CASE RefreshRejected(a) \/ HandshakeRejected(a) \/ ConnectFails(a) \/ ConnectBound(a)
      BY <1>2, <2>f, <3>8, <3>e, <3>s
      DEF RefreshRejected, HandshakeRejected, ConnectFails, ConnectBound, TypeOK
    <3>9. CASE RotationLost(a)
      <4>1. q.token \in Token
        BY <3>q DEF Attempt
      <4> QED
        BY <1>2, <2>f, <3>9, <3>e, <3>s, <4>1 DEF RotationLost, TypeOK
    <3>10. CASE ClosedOwn(a)
      <4>1. q.adopted \in Connects \cup {None}
        BY <3>q DEF Attempt
      <4> QED
        BY <1>2, <3>10, <3>e, <3>s, <4>1 DEF ClosedOwn, TypeOK
    <3>11. CASE ConnectHangs(a)
      <4>1. [q EXCEPT !.slow = TRUE] \in Attempt
        BY <3>q DEF Attempt
      <4> QED
        BY <1>2, <2>f, <3>11, <3>b, <4>1 DEF ConnectHangs, TypeOK
    <3> QED
      BY <2>1, <3>1, <3>2, <3>3, <3>4, <3>5, <3>6, <3>7, <3>8, <3>9, <3>10, <3>11
      DEF ConnectSteps
  <2>2. ASSUME NEW a \in Connects, CloseEnds(a) \/ SessionDies(a) PROVE TypeOK'
    BY <1>2, <2>f, <2>2 DEF CloseEnds, SessionDies, TypeOK, Connection
  <2>3. CASE PeerRotates \/ TokenExpires \/ TokenRevoked
    <3>1. stored.token \in Token /\ stored.revision + 1 \in Nat /\ minted + 1 \in Token
      BY <1>2 DEF TypeOK, Token
    <3>2. CASE PeerRotates
      BY <1>2, <2>f, <3>1, <3>2 DEF PeerRotates, TypeOK
    <3>3. CASE TokenExpires
      BY <1>2, <2>f, <3>1, <3>3 DEF TokenExpires, TypeOK
    <3>4. CASE TokenRevoked
      BY <1>2, <2>f, <3>1, <3>4 DEF TokenRevoked, TypeOK
    <3> QED
      BY <2>3, <3>2, <3>3, <3>4
  <2>4. CASE UNCHANGED vars
    BY <1>2, <2>4 DEF vars, TypeOK
  <2> QED
    BY <1>2, <2>1, <2>2, <2>3, <2>4, RequestType DEF Next
<1> QED
  BY <1>1, <1>2, PTL DEF Spec
\* However connects and requests interleave, a live session is the cached one.
THEOREM NothingLeaks == Spec => []NoSessionLeaks
<1>1. Init => NoSessionLeaks
  BY DEF Init, NoSessionLeaks, Live
<1>2. ASSUME TypeOK, NoSessionLeaks, [Next]_vars PROVE NoSessionLeaks'
  <2> USE DEF cache
  <2>r. ASSUME NEW E \in Entry, NEW C \in [Connects -> Connection], Rebuild(E, C),
               \A c \in Connects : C[c] \in Live => E.connection = c
        PROVE  NoSessionLeaks'
    BY <1>2, <2>r, Rebuilt DEF NoSessionLeaks
  <2>1. ASSUME NEW a \in Connects,
               \/ ConnectSteps(a) \/ ConnectFails(a) \/ RotationLost(a)
               \/ ConnectHangs(a) \/ ConnectBound(a)
        PROVE  NoSessionLeaks'
    <3>1. CASE Handshake(a)
      <4>1. CASE MayCache
        <5>1. \A c \in Connects : conn[c] \notin Live
          BY <1>2, <4>1 DEF MayCache, NoEntry, NoSessionLeaks, Connects
        <5> QED
          BY <1>2, <3>1, <4>1, <5>1 DEF Handshake, NoSessionLeaks, TypeOK
      <4>2. CASE ~MayCache
        BY <1>2, <3>1, <4>2 DEF Handshake, NoSessionLeaks, Live, TypeOK
      <4> QED
        BY <4>1, <4>2
    <3>2. CASE ~Handshake(a)
      <4>1. UNCHANGED <<entry, conn>>
        BY <2>1, <3>2 DEF ConnectSteps, ClosedPrevious, LoadBundle, Refresh, RefreshRejected,
           StoreTokens, RevisionConflict, ReloadBundle, HandshakeRejected, ClosedOwn,
           ConnectFails, RotationLost, ConnectHangs, ConnectBound
      <4> QED
        BY <1>2, <4>1 DEF NoSessionLeaks
    <3> QED
      BY <3>1, <3>2
  <2>2. ASSUME NEW r \in Requests,
               Start(r) \/ RequestSteps(r) \/ SlowCall(r) \/ RequestBound(r) \/ LoadFails(r)
        PROVE  NoSessionLeaks'
    <3> DEFINE c == req[r].connection
    <3>e. entry \in Entry /\ NoEntry \in Entry /\ conn \in [Connects -> Connection]
      BY <1>2 DEF TypeOK, NoEntry, Entry
    <3>1. CASE AcquireCheck(r) \/ RecoverRebuilds(r)
      BY <1>2, <2>r, <3>e, <3>1 DEF AcquireCheck, RecoverRebuilds, NoSessionLeaks
    <3>a. Answering(c).connection = entry.connection
      BY <3>e DEF Answering, Entry
    <3>2. CASE Refused(r) \/ CallFails(r)
      <4>1. SessionFails(r)
        BY <3>2 DEF Refused, CallFails
      <4>2. CASE req[r].retried \/ ~IsCurrent(c)
        BY <1>2, <3>a, <4>1, <4>2 DEF SessionFails, NoSessionLeaks
      <4>3. CASE ~req[r].retried /\ IsCurrent(c)
        BY <1>2, <3>e, <4>1, <4>3 DEF SessionFails, IsCurrent, NoSessionLeaks, Live
      <4> QED
        BY <4>2, <4>3
    <3>3. CASE CallTimesOut(r) \/ SlowCall(r)
      <4>1. TimedOut(r)
        BY <3>3 DEF CallTimesOut, SlowCall
      <4>2. CASE entry.connection = c /\ entry.timeouts + 1 >= StreakLimit
        <5> DEFINE C == [conn EXCEPT ![c] = "closing"]
        <5>1. C \in [Connects -> Connection]
          BY <3>e DEF Connection
        <5>2. \A k \in Connects : C[k] \notin Live
          BY <1>2, <3>e, <4>2 DEF NoSessionLeaks, Live
        <5>3. Rebuild(NoEntry, C)
          BY <4>1, <4>2 DEF TimedOut
        <5> HIDE DEF C
        <5> QED
          BY <2>r, <3>e, <5>1, <5>2, <5>3
      <4>3. CASE ~(entry.connection = c /\ entry.timeouts + 1 >= StreakLimit)
        <5>1. entry'.connection = entry.connection /\ UNCHANGED conn
          BY <3>e, <4>1, <4>3 DEF TimedOut, Entry
        <5> QED
          BY <1>2, <5>1 DEF NoSessionLeaks
      <4> QED
        BY <4>2, <4>3
    <3>4. CASE CallAnswered(r)
      BY <1>2, <3>a, <3>4 DEF CallAnswered, NoSessionLeaks
    <3>5. CASE Start(r) \/ AcquireLoad(r) \/ CallSevered(r) \/ RequestBound(r) \/ LoadFails(r)
      BY <1>2, <3>5 DEF Start, AcquireLoad, CallSevered, RequestBound, LoadFails, NoSessionLeaks
    <3> QED
      BY <2>2, <3>1, <3>2, <3>3, <3>4, <3>5 DEF RequestSteps
  <2>3. ASSUME NEW a \in Connects, CloseEnds(a) \/ SessionDies(a) PROVE NoSessionLeaks'
    BY <1>2, <2>3 DEF CloseEnds, SessionDies, NoSessionLeaks, Live, TypeOK
  <2>4. CASE PeerRotates \/ TokenExpires \/ TokenRevoked \/ UNCHANGED vars
    BY <1>2, <2>4 DEF PeerRotates, TokenExpires, TokenRevoked, vars, NoSessionLeaks
  <2> QED
    BY <1>2, <2>1, <2>2, <2>3, <2>4 DEF Next
<1> QED
  BY <1>1, <1>2, TypeCorrect, PTL DEF Spec
-----------------------------------------------------------------------------
\* What makes the credential recoverable: a connect about to refresh or to store
\* holds the stored token exactly when it holds the stored revision, and what it
\* is about to store was issued to it alone.
Exchanging(a) == attempt[a].pc \in {"refresh", "store"}
Rotation ==
  /\ stored.token <= minted /\ \A t \in used : t <= minted
  /\ \A a \in Connects : Exchanging(a) =>
       /\ attempt[a].token <= minted /\ attempt[a].revision <= stored.revision
       /\ (attempt[a].revision = stored.revision <=> attempt[a].token = stored.token)
  /\ \A a \in Connects : At(a, "store") =>
       /\ attempt[a].new <= minted /\ attempt[a].new \notin used
       /\ attempt[a].new # stored.token
       /\ \A b \in Connects : Exchanging(b) => attempt[a].new # attempt[b].token
       /\ \A b \in Connects \ {a} : At(b, "store") => attempt[a].new # attempt[b].new

RInv == Rotation /\ CredentialNotStranded

LEMMA RotationInvariant == Spec => []RInv
<1> USE DEF RInv
<1>1. Init => RInv
  BY DEF Init, FreeAttempt, Rotation, Exchanging, At, CredentialNotStranded
<1>2. ASSUME TypeOK, RInv, [Next]_vars PROVE RInv'
  <2> USE DEF cache, credential
  <2>t. /\ stored.revision \in Nat /\ stored.token \in Nat /\ minted \in Nat
        /\ \A a \in Connects : /\ attempt[a] \in Attempt
                              /\ attempt[a].revision \in Nat /\ attempt[a].token \in Nat
                              /\ attempt[a].new \in Nat
    BY <1>2 DEF TypeOK, Attempt
  <2>s. ASSUME UNCHANGED <<stored, used, minted>>, broken \subseteq broken',
               \A a \in Connects :
                 \/ /\ attempt'[a].pc = attempt[a].pc /\ attempt'[a].new = attempt[a].new
                    /\ attempt'[a].token = attempt[a].token
                    /\ attempt'[a].revision = attempt[a].revision
                 \/ /\ attempt'[a].pc \notin {"refresh", "store"}
                    /\ At(a, "store") => attempt[a].revision # stored.revision
        PROVE  RInv'
    <3>1. Rotation'
      BY <1>2, <2>s DEF Rotation, Exchanging, At
    <3>2. CredentialNotStranded'
      BY <1>2, <2>s DEF CredentialNotStranded, At
    <3> QED
      BY <3>1, <3>2
  <2>a. ASSUME NEW a \in Connects, attempt' = [attempt EXCEPT ![a] = attempt'[a]],
               UNCHANGED <<stored, used, minted>>, broken \subseteq broken',
               attempt'[a].pc \notin {"refresh", "store"},
               At(a, "store") => attempt[a].revision # stored.revision
        PROVE  RInv'
    BY <1>2, <2>a, <2>s DEF TypeOK
  <2>1. ASSUME NEW a \in Connects, LoadBundle(a) PROVE RInv'
    <3>1. /\ attempt'[a].token = stored.token /\ attempt'[a].revision = stored.revision
          /\ attempt'[a].pc \in {"refresh", "handshake"} /\ ~At(a, "store")
          /\ \A b \in Connects \ {a} : attempt'[b] = attempt[b]
          /\ UNCHANGED <<stored, used, minted, broken>>
      BY <1>2, <2>1, <2>t DEF LoadBundle, TypeOK, Attempt, At
    <3>2. Rotation'
      BY <1>2, <2>t, <3>1 DEF Rotation, Exchanging, At
    <3>3. CredentialNotStranded'
      BY <1>2, <3>1 DEF CredentialNotStranded, At
    <3> QED
      BY <3>2, <3>3
  <2>2. ASSUME NEW a \in Connects, Refresh(a) PROVE RInv'
    <3>1. /\ attempt'[a].token = attempt[a].token /\ attempt'[a].revision = attempt[a].revision
          /\ attempt'[a].pc = "store" /\ attempt'[a].new = minted + 1 /\ At(a, "refresh")
          /\ \A b \in Connects \ {a} : attempt'[b] = attempt[b]
          /\ used' = used \cup {attempt[a].token} /\ minted' = minted + 1
          /\ UNCHANGED <<stored, broken>>
      BY <1>2, <2>2, <2>t DEF Refresh, TypeOK, Attempt, At
    <3>2. ASSUME NEW b \in Connects, At(b, "store")
          PROVE  /\ attempt[b].new # attempt[a].token /\ attempt[b].new \notin used'
                 /\ attempt[b].new <= minted' /\ attempt[b].new # minted'
      BY <1>2, <2>t, <3>1, <3>2 DEF Rotation, Exchanging, At
    <3>3. \A t \in used' : t \in Nat /\ t <= minted
      BY <1>2, <2>t, <3>1 DEF Rotation, Exchanging, At, TypeOK
    <3>4. /\ minted' \notin used' /\ minted' # stored.token
          /\ \A b \in Connects : Exchanging(b) => minted' # attempt[b].token
      BY <1>2, <2>t, <3>1, <3>3 DEF Rotation
    <3>5. Rotation'
      BY <1>2, <2>t, <3>1, <3>2, <3>3, <3>4 DEF Rotation, Exchanging, At
    <3>6. CredentialNotStranded'
      BY <1>2, <2>t, <3>1 DEF CredentialNotStranded, Rotation, Exchanging, At
    <3> QED
      BY <3>6, <3>5
  <2>3. ASSUME NEW a \in Connects, StoreTokens(a) PROVE RInv'
    <3>1. /\ attempt'[a].pc = "handshake" /\ At(a, "store")
          /\ attempt[a].revision = stored.revision
          /\ \A b \in Connects \ {a} : attempt'[b] = attempt[b]
          /\ stored'.revision = stored.revision + 1 /\ stored'.token = attempt[a].new
          /\ UNCHANGED <<used, minted, broken>>
      BY <1>2, <2>3, <2>t DEF StoreTokens, Stored, TypeOK, Attempt, At
    <3>2. Rotation'
      BY <1>2, <2>t, <3>1 DEF Rotation, Exchanging, At
    <3>3. CredentialNotStranded'
      BY <1>2, <3>1 DEF CredentialNotStranded, Rotation, At
    <3> QED
      BY <3>2, <3>3
  <2>4. ASSUME NEW a \in Connects, RotationLost(a) PROVE RInv'
    <3>1. /\ attempt'[a].pc = "done" /\ Exchanging(a)
          /\ \A b \in Connects \ {a} : attempt'[b] = attempt[b]
          /\ used' = used \cup {attempt[a].token} /\ "credential" \in broken'
          /\ UNCHANGED <<stored, minted>>
      BY <1>2, <2>4, <2>t DEF RotationLost, Ended, EndOf, TypeOK, Exchanging
    <3>2. Rotation'
      BY <1>2, <2>t, <3>1 DEF Rotation, Exchanging, At
    <3> QED
      BY <3>1, <3>2 DEF CredentialNotStranded
  <2>5. CASE PeerRotates
    <3>1. /\ stored'.revision = stored.revision + 1 /\ stored'.token = minted + 1
          /\ minted' = minted + 1 /\ used' = used \cup {stored.token}
          /\ UNCHANGED <<attempt, broken>>
      BY <2>5 DEF PeerRotates
    <3>2. /\ stored'.token \notin used' /\ stored'.token <= minted'
          /\ \A t \in used' : t <= minted'
      <4>1. ASSUME NEW t \in used' PROVE t <= minted /\ t \in Nat
        BY <1>2, <2>t, <3>1, <4>1 DEF Rotation, TypeOK
      <4> QED
        BY <2>t, <3>1, <4>1
    <3>3. ASSUME NEW a \in Connects, Exchanging(a)
          PROVE  /\ attempt[a].token <= minted' /\ attempt[a].revision <= stored'.revision
                 /\ attempt[a].revision # stored'.revision /\ attempt[a].token # stored'.token
      BY <1>2, <2>t, <3>1, <3>3 DEF Rotation
    <3>4. ASSUME NEW a \in Connects, At(a, "store")
          PROVE  /\ attempt[a].new <= minted' /\ attempt[a].new # stored'.token
                 /\ attempt[a].new \notin used'
      BY <1>2, <2>t, <3>1, <3>4 DEF Rotation
    <3>5. Rotation'
      BY <1>2, <3>1, <3>2, <3>3, <3>4 DEF Rotation, Exchanging, At
    <3> QED
      BY <3>2, <3>5 DEF CredentialNotStranded
  <2>6. ASSUME NEW a \in Connects,
               \/ ClosedPrevious(a) \/ RefreshRejected(a) \/ RevisionConflict(a)
               \/ ReloadBundle(a) \/ Handshake(a) \/ HandshakeRejected(a) \/ ClosedOwn(a)
               \/ ConnectFails(a)
        PROVE  RInv'
    <3>1. Ended(a) => /\ attempt' = [attempt EXCEPT ![a] = attempt'[a]]
                      /\ attempt'[a].pc = "done"
      BY <1>2 DEF Ended, EndOf, TypeOK
    <3>2. CASE ClosedPrevious(a)
      BY <1>2, <2>a, <2>t, <3>2 DEF ClosedPrevious, At, TypeOK, Attempt
    <3>3. CASE RefreshRejected(a) \/ HandshakeRejected(a) \/ ClosedOwn(a) \/ ConnectFails(a)
      BY <2>a, <3>1, <3>3
      DEF RefreshRejected, HandshakeRejected, ClosedOwn, ConnectFails, AtAwait, At
    <3>4. CASE RevisionConflict(a)
      BY <1>2, <2>a, <2>t, <3>4 DEF RevisionConflict, To, At, TypeOK, Attempt
    <3>5. CASE ReloadBundle(a)
      BY <1>2, <2>a, <2>t, <3>1, <3>5 DEF ReloadBundle, At, TypeOK, Attempt
    <3>6. CASE Handshake(a)
      <4>1. At(a, "handshake") /\ UNCHANGED <<stored, used, minted, broken>>
        BY <3>6 DEF Handshake
      <4>2. CASE MayCache
        BY <2>a, <3>1, <3>6, <4>1, <4>2 DEF Handshake, At
      <4>3. CASE ~MayCache
        <5>1. /\ attempt' = [attempt EXCEPT ![a] = attempt'[a]]
              /\ attempt'[a].pc = "closeOwn"
          BY <1>2, <2>t, <3>6, <4>3 DEF Handshake, TypeOK, Attempt
        <5> QED
          BY <2>a, <4>1, <5>1 DEF At
      <4> QED
        BY <4>2, <4>3
    <3> QED
      BY <2>6, <3>2, <3>3, <3>4, <3>5, <3>6
  <2>7. ASSUME NEW a \in Connects,
               ConnectHangs(a) \/ ConnectBound(a) \/ CloseEnds(a) \/ SessionDies(a)
        PROVE  RInv'
    <3>1. CASE ConnectHangs(a)
      BY <1>2, <2>s, <2>t, <3>1 DEF ConnectHangs, TypeOK, Attempt
    <3>2. CASE ~ConnectHangs(a)
      BY <2>s, <2>7, <3>2 DEF ConnectBound, CloseEnds, SessionDies
    <3> QED
      BY <3>1, <3>2
  <2>8. ASSUME NEW r \in Requests,
               Start(r) \/ RequestSteps(r) \/ SlowCall(r) \/ RequestBound(r) \/ LoadFails(r)
        PROVE  RInv'
    <3> DEFINE c == req[r].connection
    <3>e. /\ entry \in Entry /\ NoEntry \in Entry
          /\ conn \in [Connects -> Connection]
          /\ [conn EXCEPT ![c] = "closing"] \in [Connects -> Connection]
      BY <1>2 DEF TypeOK, NoEntry, Entry, Connection
    <3>1. UNCHANGED <<stored, used, minted, broken>>
      BY <2>8 DEF Start, RequestSteps, SlowCall, RequestBound, LoadFails, AcquireLoad, AcquireCheck,
         RecoverRebuilds, Refused, CallAnswered, CallFails, CallSevered, CallTimesOut, TimedOut
    <3>2. \A a \in Connects : attempt'[a] # attempt[a] =>
            attempt[a].pc \in {"free", "done"} /\ attempt'[a].pc \in {"load", "closePrevious"}
      <4>1. \/ UNCHANGED attempt \/ Rebuild(entry, conn)
            \/ Rebuild(NoEntry, [conn EXCEPT ![c] = "closing"])
        BY <2>8 DEF Start, RequestSteps, SlowCall, RequestBound, LoadFails, AcquireLoad, AcquireCheck,
           RecoverRebuilds, Refused, CallAnswered, CallFails, CallSevered, CallTimesOut,
           TimedOut, SessionFails
      <4> QED
        BY <1>2, <3>e, <4>1, Rebuilt
    <3> QED
      BY <2>s, <3>1, <3>2 DEF At
  <2>9. CASE TokenExpires \/ TokenRevoked \/ UNCHANGED vars
    BY <2>s, <2>9 DEF TokenExpires, TokenRevoked, vars
  <2> QED
    BY <1>2, <2>1, <2>2, <2>3, <2>4, <2>5, <2>6, <2>7, <2>8, <2>9 DEF Next, ConnectSteps
<1> QED
  BY <1>1, <1>2, TypeCorrect, PTL DEF Spec

\* The stored refresh token can be exchanged, or its successor is about to be stored.
THEOREM NotStranded == Spec => []CredentialNotStranded
<1>1. RInv => CredentialNotStranded
  BY DEF RInv
<1> QED
  BY <1>1, RotationInvariant, PTL
-----------------------------------------------------------------------------
\* What a request that is to be answered rests on, disturbed or not: tokens that are
\* issued are neither expired nor revoked, the cached session is a live one, a connect has no connection
\* before its handshake, and a request in a call has one.
Starting(a) ==
  attempt[a].pc \in {"closePrevious", "load", "refresh", "store", "reload", "handshake"}
Fresh ==
  /\ stored.token # None /\ \A t \in expired \cup revoked : t <= minted
  /\ \A a \in Connects :
       At(a, "store") => attempt[a].new # None /\ attempt[a].new \notin expired \cup revoked
Cached == entry = NoEntry \/ (entry.connection \in Connects /\ conn[entry.connection] \in Live)
Connecting == \A a \in Connects :
  /\ Starting(a) => conn[a] = "none"
  /\ At(a, "closeOwn") => attempt[a].adopted \in Connects
Holding == \A r \in Requests :
  /\ ReqAt(r, "idle") => req[r] = IdleRequest
  /\ ReqAt(r, "check") => req[r].token # None
  /\ req[r].pc \in {"call", "refused", "recover"} => req[r].connection \in Connects
Ready == Fresh /\ Cached /\ Connecting /\ Holding

\* A rebuild leaves no dead session in the cache, and its connect no connection.
LEMMA RebuiltReady ==
  ASSUME TypeOK, Connecting, NEW E \in Entry, NEW C \in [Connects -> Connection], Rebuild(E, C),
         E = NoEntry \/ (/\ E.connection \in Connects
                         /\ conn[E.connection] \in Live /\ C[E.connection] \in Live),
         \A a \in Connects : conn[a] = "none" => C[a] = "none"
  PROVE  Cached' /\ Connecting'
<1>1. CASE pending # None
  BY <1>1 DEF Rebuild, Cached, Connecting, Starting, At
<1>2. CASE pending = None
  <2> DEFINE x == [FreeAttempt EXCEPT !.previous = E.connection,
                     !.pc = IF E.connection = None THEN "load" ELSE "closePrevious"]
  <2>1. NextAttempt \in Connects
    BY <1>2 DEF Rebuild, Free, NextAttempt
  <2>2. x.pc \in {"load", "closePrevious"}
    BY DEF FreeAttempt
  <2>3. attempt' = [attempt EXCEPT ![NextAttempt] = x] /\ entry' = NoEntry
    BY <1>2 DEF Rebuild
  <2> HIDE DEF x
  <2>4. \A a \in Connects : conn[a] = "none" \/ a = NextAttempt => conn'[a] = "none"
    <3>1. NextAttempt \in Free /\ conn[NextAttempt] \notin Live
      BY <1>2, <2>1 DEF Rebuild, NextAttempt, Free, Live
    <3>2. ASSUME NEW a \in Connects, conn[a] = "none" \/ a = NextAttempt PROVE a # E.connection
      BY <3>1, <3>2 DEF NoEntry, Live, Connects
    <3> QED
      BY <1>2, <3>2 DEF Rebuild
  <2>5. \A a \in Connects \ {NextAttempt} : attempt'[a] = attempt[a]
    BY <2>1, <2>3 DEF TypeOK
  <2>6. attempt'[NextAttempt] = x
    BY <2>1, <2>3 DEF TypeOK
  <2> QED
    BY <2>2, <2>3, <2>4, <2>5, <2>6 DEF Cached, Connecting, Starting, At
<1> QED
  BY <1>1, <1>2

\* A connect step disturbs one connect, which is in progress.
LEMMA ConnectOnly ==
  ASSUME TypeOK, NEW a \in Connects,
         \/ ConnectSteps(a) \/ ConnectFails(a) \/ RotationLost(a)
         \/ ConnectHangs(a) \/ ConnectBound(a)
  PROVE  /\ \A b \in Connects \ {a} : attempt'[b] = attempt[b]
         /\ Starting(a)' => Starting(a)
         /\ Handshake(a) \/ (At(a, "closeOwn")' => attempt'[a] = attempt[a])
<1>t. attempt \in [Connects -> Attempt] /\ attempt[a] \in Attempt
  BY DEF TypeOK
<1>e. Ended(a) => attempt'[a].pc = "done" /\ \A b \in Connects \ {a} : attempt'[b] = attempt[b]
  BY <1>t DEF Ended, EndOf
<1>1. CASE Ended(a)
  BY <1>1, <1>e DEF Starting, At
<1>2. CASE Handshake(a) /\ ~Ended(a)
  BY <1>2, <1>t DEF Handshake, Starting, At, Attempt
<1>3. CASE ConnectBound(a)
  BY <1>3 DEF ConnectBound, Starting, At
<1>4. CASE ConnectHangs(a)
  BY <1>4, <1>t DEF ConnectHangs, Starting, At, AtAwait, Attempt
<1>5. CASE ClosedPrevious(a) \/ LoadBundle(a) \/ Refresh(a)
  BY <1>5, <1>t DEF ClosedPrevious, LoadBundle, Refresh, Starting, At, Attempt
<1>6. CASE StoreTokens(a) \/ RevisionConflict(a) \/ (ReloadBundle(a) /\ ~Ended(a))
  BY <1>6, <1>t DEF StoreTokens, RevisionConflict, ReloadBundle, To, Starting, At, Attempt
<1> QED
  BY <1>1, <1>2, <1>3, <1>4, <1>5, <1>6
  DEF ConnectSteps, RefreshRejected, HandshakeRejected, ClosedOwn, ConnectFails, RotationLost

LEMMA ReadyOutcome ==
  ASSUME TypeOK, Holding, NEW a, NEW c \in Connects,
         Rejected(a) \/ HandsOut(a, c) \/ UNCHANGED req
  PROVE  Holding'
<1>1. CASE UNCHANGED req
  BY <1>1 DEF Holding, ReqAt
<1>2. ASSUME NEW r \in Requests, req'[r] # req[r]
      PROVE  /\ req'[r].pc \in {"done", "call", "refused"}
             /\ req'[r].pc \in {"call", "refused"} => req'[r].connection = c
  <2>0. req[r] \in Request
    BY DEF TypeOK
  <2>1. CASE req'[r] = Failed(req[r])
    BY <2>1 DEF Failed, Over
  <2>2. CASE req'[r] = Handed(req[r], c)
    BY <2>0, <2>2 DEF Handed, Over, Request
  <2> QED
    BY <1>2, <2>1, <2>2 DEF Rejected, HandsOut, Settle
<1> QED
  BY <1>1, <1>2 DEF Holding, ReqAt

LEMMA ReadyRequest ==
  ASSUME TypeOK, Ready, NEW r \in Requests,
         Start(r) \/ RequestSteps(r) \/ SlowCall(r) \/ RequestBound(r) \/ LoadFails(r)
  PROVE  Cached' /\ Connecting' /\ Holding'
<1> DEFINE q == req[r]
           c == q.connection
<1> USE DEF cache
<1>t. /\ q \in Request /\ entry \in Entry /\ NoEntry \in Entry /\ conn \in [Connects -> Connection]
      /\ [conn EXCEPT ![c] = "closing"] \in [Connects -> Connection]
  BY DEF TypeOK, NoEntry, Entry, Connection
<1>r. Cached /\ Connecting /\ Holding
  BY DEF Ready
<1>h. ASSUME NEW x \in Request, Becomes(r, x), x.pc # "idle", x.pc = "check" => x.token # None,
             x.pc \in {"call", "refused", "recover"} => x.connection \in Connects
      PROVE  Holding'
  BY <1>h, <1>r DEF Holding, ReqAt, Becomes, TypeOK
<1>e. /\ NoEntry.connection \notin Connects /\ NoEntry.token = None
      /\ entry # NoEntry => entry.connection \in Connects /\ conn[entry.connection] \in Live
  BY <1>r DEF Cached, NoEntry, Connects
<1>f. /\ Failed(q) \in Request /\ Failed(q).pc = "done"
      /\ Over(q, "answer") \in Request /\ Over(q, "answer").pc = "done"
  BY <1>t DEF Request, Failed, Over, RequestPC
<1>u. ASSUME UNCHANGED <<entry, attempt, conn>> PROVE Cached' /\ Connecting'
  BY <1>r, <1>u DEF Cached, Connecting, Starting, At
<1>v. ASSUME UNCHANGED <<attempt, conn>>, entry'.connection = entry.connection,
             entry.connection \in Connects \/ UNCHANGED entry
      PROVE  Cached' /\ Connecting'
  BY <1>r, <1>e, <1>v DEF Cached, Connecting, Starting, At
<1>a. Answering(c).connection = entry.connection /\
      (entry.connection \in Connects \/ c \notin Connects \/ Answering(c) = entry)
  BY <1>t DEF Answering, Entry
<1>c. ASSUME c \in Connects, entry.connection = c
      PROVE  \A a \in Connects : conn[a] = "none" => [conn EXCEPT ![c] = "closing"][a] = "none"
  BY <1>c, <1>e, <1>t DEF Live
<1>1. CASE Start(r) \/ AcquireLoad(r) \/ CallSevered(r) \/ RequestBound(r) \/ LoadFails(r)
  <2>1. UNCHANGED <<entry, attempt, conn>>
    BY <1>1 DEF Start, AcquireLoad, CallSevered, RequestBound, LoadFails
  <2>2. CASE Start(r)
    <3> DEFINE x == [q EXCEPT !.pc = "load", !.quiet = Quiet(r)]
    <3>1. Quiet(r) \in BOOLEAN
      BY DEF Quiet
    <3>2. x \in Request /\ x.pc = "load"
      BY <1>t, <3>1 DEF Request, RequestPC
    <3> QED
      BY <1>h, <1>u, <2>1, <2>2, <3>2 DEF Start
  <2>3. CASE AcquireLoad(r)
    <3> DEFINE x == [q EXCEPT !.token = stored.token, !.pc = "check"]
    <3>1. stored.token \in Nat /\ stored.token # None
      BY DEF TypeOK, Ready, Fresh
    <3>2. x \in Request /\ x.pc = "check" /\ x.token # None
      BY <1>t, <3>1 DEF Request, RequestPC
    <3> QED
      BY <1>h, <1>u, <2>1, <2>3, <3>2 DEF AcquireLoad
  <2>4. CASE CallSevered(r)
    BY <1>h, <1>u, <1>f, <2>1, <2>4 DEF CallSevered
  <2>6. CASE LoadFails(r)
    BY <1>h, <1>u, <1>f, <2>1, <2>6 DEF LoadFails
  <2>5. CASE RequestBound(r)
    <3> DEFINE x == [q EXCEPT !.result = "error"]
    <3>1. x \in Request /\ x.pc = q.pc /\ x.token = q.token /\ x.connection = c /\ Becomes(r, x)
      BY <1>t, <2>5 DEF RequestBound, LoadFails, Request
    <3>2. /\ x.pc # "idle"
          /\ x.pc = "check" => x.token # None
          /\ x.pc \in {"call", "refused", "recover"} => x.connection \in Connects
      BY <1>r, <2>5, <3>1 DEF RequestBound, LoadFails, Holding, ReqAt
    <3> HIDE DEF x
    <3> QED
      BY <1>h, <1>u, <2>1, <3>1, <3>2
  <2> QED
    BY <1>1, <2>2, <2>3, <2>4, <2>5, <2>6
<1>2. CASE AcquireCheck(r)
  <2>1. CASE entry.token = q.token
    <3>0. q.token # None
      BY <1>2, <1>r DEF AcquireCheck, Holding, ReqAt
    <3>1. entry.connection \in Connects /\ Handed(q, entry.connection) \in Request
      BY <1>e, <1>t, <2>1, <3>0, HandedType
    <3>2. /\ Handed(q, entry.connection).pc \in {"done", "call", "refused"}
          /\ Handed(q, entry.connection).pc \in {"call", "refused"}
             => Handed(q, entry.connection).connection = entry.connection
      BY <1>t DEF Handed, Over, Request
    <3>3. Becomes(r, Handed(q, entry.connection)) /\ UNCHANGED <<entry, attempt, conn>>
      BY <1>2, <2>1 DEF AcquireCheck
    <3> QED
      BY <1>h, <1>u, <3>1, <3>2, <3>3
  <2>2. CASE entry.token # q.token
    <3> DEFINE x == [q EXCEPT !.pc = "wait", !.token = None]
    <3>1. x \in Request /\ x.pc = "wait"
      BY <1>t DEF Request, RequestPC
    <3>2. Becomes(r, x) /\ Rebuild(entry, conn)
      BY <1>2, <2>2 DEF AcquireCheck
    <3>3. Cached' /\ Connecting'
      BY <1>e, <1>r, <1>t, <3>2, RebuiltReady
    <3> QED
      BY <1>h, <3>1, <3>2, <3>3
  <2> QED
    BY <2>1, <2>2
<1>3. CASE RecoverRebuilds(r)
  <2> DEFINE x == [q EXCEPT !.pc = "wait", !.connection = None]
  <2>1. x \in Request /\ x.pc = "wait"
    BY <1>t DEF Request, RequestPC
  <2>2. Becomes(r, x) /\ Rebuild(entry, conn)
    BY <1>3 DEF RecoverRebuilds
  <2>3. Cached' /\ Connecting'
    BY <1>e, <1>r, <1>t, <2>2, RebuiltReady
  <2> QED
    BY <1>h, <2>1, <2>2, <2>3
<1>4. CASE Refused(r) \/ CallFails(r)
  <2>1. SessionFails(r) /\ c \in Connects
    BY <1>4, <1>r DEF Refused, CallFails, Holding, ReqAt
  <2>2. CASE q.retried
    BY <1>a, <1>e, <1>f, <1>h, <1>v, <2>1, <2>2 DEF SessionFails, Answering
  <2>3. CASE ~q.retried /\ IsCurrent(c)
    <3> DEFINE x == [q EXCEPT !.retried = TRUE, !.pc = "recover", !.connection = c]
    <3>1. x \in Request /\ x.pc = "recover" /\ x.connection = c
      BY <1>t DEF Request, RequestPC
    <3>2. /\ Becomes(r, x) /\ entry' = NoEntry /\ conn' = [conn EXCEPT ![c] = "closing"]
          /\ UNCHANGED attempt
      BY <2>1, <2>3 DEF SessionFails
    <3>3. \A a \in Connects : conn[a] = "none" => conn'[a] = "none"
      BY <1>c, <2>1, <2>3, <3>2 DEF IsCurrent
    <3>4. Cached' /\ Connecting'
      BY <1>r, <3>2, <3>3 DEF Cached, Connecting, Starting, At
    <3> QED
      BY <1>h, <2>1, <3>1, <3>2, <3>4
  <2>4. CASE ~q.retried /\ ~IsCurrent(c)
    <3> DEFINE x == [q EXCEPT !.retried = TRUE, !.pc = "load", !.connection = None]
    <3>1. x \in Request /\ x.pc = "load"
      BY <1>t DEF Request, RequestPC
    <3> QED
      BY <1>h, <1>u, <2>1, <2>4, <3>1 DEF SessionFails
  <2> QED
    BY <2>2, <2>3, <2>4
<1>5. CASE CallAnswered(r)
  <2>1. c \in Connects
    BY <1>5, <1>r DEF CallAnswered, Holding, ReqAt
  <2> QED
    BY <1>5, <1>a, <1>e, <1>f, <1>h, <1>v, <2>1 DEF CallAnswered, Answering
<1>6. CASE CallTimesOut(r) \/ SlowCall(r)
  <2>1. TimedOut(r) /\ c \in Connects
    BY <1>6, <1>r DEF CallTimesOut, SlowCall, Holding, ReqAt
  <2>2. Holding'
    BY <1>f, <1>h, <2>1 DEF TimedOut
  <2>3. CASE entry.connection = c /\ entry.timeouts + 1 >= StreakLimit
    BY <1>c, <1>r, <1>t, <2>1, <2>2, <2>3, RebuiltReady DEF TimedOut
  <2>4. CASE ~(entry.connection = c /\ entry.timeouts + 1 >= StreakLimit)
    <3>1. /\ UNCHANGED <<attempt, conn>>
          /\ entry' = IF entry.connection = c THEN [entry EXCEPT !.timeouts = @ + 1] ELSE entry
      BY <2>1, <2>4 DEF TimedOut
    <3>2. entry'.connection = entry.connection
      BY <1>t, <3>1 DEF Entry
    <3> QED
      BY <1>v, <2>1, <2>2, <3>1, <3>2
  <2> QED
    BY <2>3, <2>4
<1> QED
  BY <1>1, <1>2, <1>3, <1>4, <1>5, <1>6 DEF RequestSteps

\* Every reachable state has them.
LEMMA ReadyInvariant == Spec => []Ready
<1>1. Init => Ready
  BY DEF Init, Ready, Fresh, Cached, Connecting, Holding, Starting, At, ReqAt, FreeAttempt, IdleRequest
<1>2. ASSUME TypeOK, RInv, Ready, [Next]_vars PROVE Ready'
  <2> USE DEF cache, credential
  <2>t. /\ stored.token \in Nat /\ minted \in Nat
        /\ \A a \in Connects : /\ attempt[a] \in Attempt
                              /\ attempt[a].token \in Nat /\ attempt[a].new \in Nat
    BY <1>2 DEF TypeOK, Attempt
  <2>r. Fresh /\ Cached /\ Connecting /\ Holding /\ Rotation
    BY <1>2 DEF Ready, RInv
  <2>s. ASSUME UNCHANGED <<stored, expired, revoked, minted>>,
               \A a \in Connects : At(a, "store")' => At(a, "store") /\ attempt'[a].new = attempt[a].new
        PROVE  Fresh'
    BY <2>r, <2>s DEF Fresh, At
  <2>u. ASSUME UNCHANGED <<entry, attempt, conn>> PROVE Cached' /\ Connecting'
    BY <2>r, <2>u DEF Cached, Connecting, Starting, At
  <2>h. UNCHANGED req => Holding'
    BY <2>r DEF Holding, ReqAt
  <2>1. ASSUME NEW a \in Connects,
               \/ ConnectSteps(a) \/ ConnectFails(a) \/ RotationLost(a)
               \/ ConnectHangs(a) \/ ConnectBound(a)
        PROVE  Ready'
    <3>o. /\ \A b \in Connects \ {a} : attempt'[b] = attempt[b]
          /\ Starting(a)' => Starting(a)
          /\ Handshake(a) \/ (At(a, "closeOwn")' => attempt'[a] = attempt[a])
      BY <1>2, <2>1, ConnectOnly
    <3>1. Fresh'
      <4>1. CASE Refresh(a)
        <5>1. /\ attempt'[a].new = minted + 1 /\ minted' = minted + 1
              /\ UNCHANGED <<stored, expired, revoked>>
          BY <1>2, <2>t, <4>1 DEF Refresh, TypeOK, Attempt
        <5>2. \A t \in expired \cup revoked : t \in Nat
          BY <1>2 DEF TypeOK
        <5>3. minted + 1 \notin expired \cup revoked /\ \A t \in expired \cup revoked : t <= minted + 1
          BY <2>r, <2>t, <5>2 DEF Fresh
        <5> QED
          BY <2>r, <2>t, <3>o, <5>1, <5>3 DEF Fresh, At
      <4>2. CASE StoreTokens(a)
        <5>1. /\ stored'.token = attempt[a].new /\ At(a, "store") /\ ~At(a, "store")'
              /\ UNCHANGED <<minted, expired, revoked>>
          BY <1>2, <2>t, <4>2 DEF StoreTokens, Stored, TypeOK, Attempt, At
        <5> QED
          BY <2>r, <3>o, <5>1 DEF Fresh, At
      <4>3. CASE ~Refresh(a) /\ ~StoreTokens(a)
        <5>1. UNCHANGED <<stored, expired, revoked, minted>>
          BY <2>1, <4>3 DEF ConnectSteps, ClosedPrevious, LoadBundle, RefreshRejected,
             RevisionConflict, ReloadBundle, Handshake, HandshakeRejected, ClosedOwn,
             ConnectFails, RotationLost, ConnectHangs, ConnectBound
        <5>2. At(a, "store")' => At(a, "store") /\ attempt'[a].new = attempt[a].new
          <6>e. Ended(a) => ~At(a, "store")'
            BY <1>2 DEF Ended, EndOf, At, TypeOK
          <6>1. CASE Ended(a)
            BY <6>1, <6>e
          <6>2. CASE ConnectBound(a)
            BY <6>2 DEF ConnectBound, At
          <6>3. CASE ConnectHangs(a)
            BY <1>2, <2>t, <6>3 DEF ConnectHangs, At, Attempt, TypeOK
          <6>4. CASE ~Ended(a) /\ ~ConnectBound(a) /\ ~ConnectHangs(a)
            BY <1>2, <2>1, <2>t, <4>3, <6>4 DEF ConnectSteps, ClosedPrevious, LoadBundle,
               RefreshRejected, RevisionConflict, To, ReloadBundle, Handshake, HandshakeRejected,
               ClosedOwn, ConnectFails, RotationLost, At, Attempt, TypeOK
          <6> QED
            BY <6>1, <6>2, <6>3, <6>4
        <5> QED
          BY <2>s, <3>o, <5>1, <5>2 DEF At
      <4> QED
        BY <4>1, <4>2, <4>3
    <3>2. Cached' /\ Connecting'
      <4>1. CASE ~Handshake(a)
        <5>1. UNCHANGED <<entry, conn>>
          BY <2>1, <4>1 DEF ConnectSteps, ClosedPrevious, LoadBundle, Refresh, RefreshRejected,
             StoreTokens, RevisionConflict, ReloadBundle, HandshakeRejected, ClosedOwn,
             ConnectFails, RotationLost, ConnectHangs, ConnectBound
        <5> QED
          BY <2>r, <3>o, <4>1, <5>1 DEF Cached, Connecting, Starting, At
      <4>2. CASE Handshake(a) /\ MayCache
        <5>1. /\ entry'.connection = a /\ conn'[a] = "open" /\ attempt'[a].pc = "done"
              /\ \A b \in Connects \ {a} : conn'[b] = conn[b]
          BY <1>2, <4>2 DEF Handshake, Ended, EndOf, TypeOK
        <5> QED
          BY <2>r, <3>o, <5>1 DEF Cached, Connecting, Starting, At, Live
      <4>3. CASE Handshake(a) /\ ~MayCache
        <5>1. /\ attempt'[a].pc = "closeOwn" /\ attempt'[a].adopted = entry.connection
              /\ conn' = [conn EXCEPT ![a] = "closing"] /\ UNCHANGED entry /\ entry # NoEntry
          BY <1>2, <2>t, <4>3 DEF Handshake, MayCache, Attempt, TypeOK
        <5>2. conn[a] = "none" /\ entry.connection \in Connects \ {a} /\ conn[entry.connection] \in Live
          BY <2>r, <4>3, <5>1 DEF Connecting, Starting, Handshake, At, Cached, Live
        <5>3. \A b \in Connects \ {a} : conn'[b] = conn[b]
          BY <1>2, <5>1 DEF TypeOK
        <5> QED
          BY <2>r, <3>o, <5>1, <5>2, <5>3 DEF Cached, Connecting, Starting, At
      <4> QED
        BY <4>1, <4>2, <4>3
    <3>3. Holding'
      <4>1. CASE ClosedOwn(a)
        <5>1. attempt[a].adopted \in Connects
          BY <2>r, <4>1 DEF Connecting, ClosedOwn
        <5> QED
          BY <1>2, <2>r, <4>1, <5>1, ReadyOutcome DEF ClosedOwn
      <4>2. CASE ~ClosedOwn(a)
        <5>1. Rejected(a) \/ HandsOut(a, a) \/ UNCHANGED req
          BY <2>1, <4>2 DEF ConnectSteps, ClosedPrevious, LoadBundle, Refresh, RefreshRejected,
             StoreTokens, RevisionConflict, ReloadBundle, Handshake, HandshakeRejected,
             ConnectFails, RotationLost, ConnectHangs, ConnectBound
        <5> QED
          BY <1>2, <2>r, <5>1, ReadyOutcome
      <4> QED
        BY <4>1, <4>2
    <3> QED
      BY <3>1, <3>2, <3>3 DEF Ready
  <2>2. ASSUME NEW r \in Requests,
               Start(r) \/ RequestSteps(r) \/ SlowCall(r) \/ RequestBound(r) \/ LoadFails(r)
        PROVE  Ready'
    <3> DEFINE c == req[r].connection
    <3>1. UNCHANGED <<stored, expired, revoked, minted>>
      BY <2>2 DEF Start, RequestSteps, SlowCall, RequestBound, LoadFails, AcquireLoad, AcquireCheck,
         RecoverRebuilds, Refused, CallAnswered, CallFails, CallSevered, CallTimesOut, TimedOut
    <3>2. \/ UNCHANGED attempt \/ Rebuild(entry, conn)
          \/ Rebuild(NoEntry, [conn EXCEPT ![c] = "closing"])
      BY <2>2 DEF Start, RequestSteps, SlowCall, RequestBound, LoadFails, AcquireLoad, AcquireCheck,
         RecoverRebuilds, Refused, CallAnswered, CallFails, CallSevered, CallTimesOut,
         TimedOut, SessionFails
    <3>3. /\ entry \in Entry /\ NoEntry \in Entry /\ conn \in [Connects -> Connection]
          /\ [conn EXCEPT ![c] = "closing"] \in [Connects -> Connection]
      BY <1>2 DEF TypeOK, NoEntry, Entry, Connection
    <3>4. \A a \in Connects : attempt'[a] # attempt[a] => attempt'[a].pc \in {"load", "closePrevious"}
      BY <1>2, <3>2, <3>3, Rebuilt
    <3>5. Fresh'
      BY <2>s, <3>1, <3>4 DEF At
    <3> QED
      BY <1>2, <2>2, <3>5, ReadyRequest DEF Ready
  <2>3. ASSUME NEW a \in Connects, CloseEnds(a) \/ SessionDies(a) PROVE Ready'
    <3>1. UNCHANGED <<stored, expired, revoked, minted, entry, attempt, req>>
      BY <2>3 DEF CloseEnds, SessionDies
    <3>c. \A b \in Connects : (conn[b] \in Live => conn'[b] \in Live)
                              /\ (conn[b] = "none" => conn'[b] = "none")
      BY <1>2, <2>3 DEF CloseEnds, SessionDies, Live, TypeOK
    <3>2. Cached'
      BY <2>r, <3>1, <3>c DEF Cached
    <3>3. Connecting'
      BY <2>r, <3>1, <3>c DEF Connecting, Starting, At
    <3> QED
      BY <2>s, <2>h, <3>1, <3>2, <3>3 DEF At, Ready
  <2>4. CASE PeerRotates \/ TokenExpires \/ TokenRevoked
    <3>1. /\ expired' \subseteq expired \cup {stored.token}
          /\ revoked' \subseteq revoked \cup {stored.token} /\ minted' >= minted
          /\ stored'.token \in {stored.token, minted + 1}
          /\ UNCHANGED <<entry, attempt, conn, req>>
      BY <2>4, <2>t DEF PeerRotates, TokenExpires, TokenRevoked
    <3>2. \A t \in (expired \cup revoked)' : t <= minted'
      <4>1. \A t \in expired \cup revoked \cup {stored.token} : t \in Nat /\ t <= minted
        BY <1>2, <2>r, <2>t DEF Fresh, Rotation, TypeOK
      <4>2. minted' \in Nat
        BY <2>4, <2>t DEF PeerRotates, TokenExpires, TokenRevoked
      <4> QED
        BY <2>t, <3>1, <4>1, <4>2
    <3>3. Fresh'
      BY <2>r, <2>t, <3>1, <3>2 DEF Fresh, Rotation, At
    <3> QED
      BY <2>u, <2>h, <3>1, <3>3 DEF Ready
  <2>5. CASE UNCHANGED vars
    BY <2>s, <2>u, <2>h, <2>5 DEF vars, At, Ready
  <2> QED
    BY <1>2, <2>1, <2>2, <2>3, <2>4, <2>5 DEF Next
<1> QED
  BY <1>1, <1>2, TypeCorrect, RotationInvariant, PTL DEF Spec
-----------------------------------------------------------------------------
\* What serves a request that started quietly, as long as no refresh loses a race.
\* It is alone and nothing fails any more; the pending connect reaches its handshake
\* with an accepted token and hands out a session that answers; and once the request
\* has recovered from a session, the only one it can be handed is one that answers.
Alone(r) == faults = MaxFaults /\ \A other \in Requests \ {r} : ReqAt(other, "done")
Served(r) ==
  /\ req[r].pc \in {"load", "check", "wait", "call", "recover", "done"}
  /\ req[r].result = (IF ReqAt(r, "done") THEN "answer" ELSE "none")
  /\ req[r].retried => req[r].pc \in {"wait", "call", "recover", "done"}
  /\ ReqAt(r, "recover") => req[r].retried /\ pending = None
  /\ ReqAt(r, "call") => /\ entry.connection = req[r].connection
                         /\ req[r].retried => Answers(entry.connection)
Reaches(p) ==
  /\ ~attempt[p].slow
  /\ Starting(p) \/ At(p, "closeOwn")
  /\ attempt[p].pc \in {"refresh", "store"} =>
       attempt[p].revision = stored.revision \/ stored.token \notin expired
  /\ At(p, "reload") => stored.token \notin expired
  /\ At(p, "handshake") => attempt[p].token \notin revoked
  /\ At(p, "closeOwn") => attempt[p].adopted = entry.connection
CachedAnswers == entry.connection # None => Answers(entry.connection)
Sound ==
  /\ stored.token \in revoked => stored.token \in expired
  /\ entry.connection # None => conn[entry.connection] # "wedged"
  /\ pending # None => Reaches(pending) /\ CachedAnswers
QuietServed == \A r \in Requests : req[r].quiet /\ broken = {} => Alone(r) /\ Served(r) /\ Sound

\* A new connect starts at the beginning, with no session cached.
LEMMA RebuiltSound ==
  ASSUME TypeOK, Sound, Rebuild(entry, conn), UNCHANGED <<stored, expired, revoked>>
  PROVE  Sound'
<1>1. CASE pending # None
  BY <1>1 DEF Rebuild, Sound, Reaches, CachedAnswers, Answers, TokenOf, Starting, At
<1>2. CASE pending = None
  <2> DEFINE x == [FreeAttempt EXCEPT !.previous = entry.connection,
                     !.pc = IF entry.connection = None THEN "load" ELSE "closePrevious"]
  <2>1. NextAttempt \in Connects
    BY <1>2 DEF Rebuild, Free, NextAttempt
  <2>2. x.pc \in {"load", "closePrevious"} /\ ~x.slow
    BY DEF FreeAttempt
  <2>3. attempt' = [attempt EXCEPT ![NextAttempt] = x] /\ entry' = NoEntry /\ pending' = NextAttempt
    BY <1>2 DEF Rebuild
  <2> HIDE DEF x
  <2>4. attempt'[NextAttempt] = x
    BY <2>1, <2>3 DEF TypeOK
  <2> QED
    BY <2>2, <2>3, <2>4 DEF Sound, Reaches, CachedAnswers, Starting, At, NoEntry
<1> QED
  BY <1>1, <1>2

LEMMA QuietRequest ==
  ASSUME TypeOK, Ready, NEW r \in Requests, Alone(r), Served(r), Sound, RequestSteps(r)
  PROVE  Alone(r)' /\ Served(r)' /\ Sound'
<1> DEFINE q == req[r]
           c == q.connection
<1> USE DEF cache, credential, NoFailure
<1>t. /\ q \in Request /\ entry \in Entry /\ req \in [Requests -> Request]
      /\ NoEntry.connection = None
  BY DEF TypeOK, NoEntry
<1>r. Cached /\ Connecting /\ Holding
  BY DEF Ready
<1>a. faults' = faults => Alone(r)'
  <2>1. \A other \in Requests \ {r} : req'[other] = req[other]
    BY <1>t DEF RequestSteps, AcquireLoad, AcquireCheck, RecoverRebuilds, Refused, CallAnswered,
       CallFails, CallSevered, CallTimesOut, TimedOut, SessionFails, Becomes
  <2> QED
    BY <2>1 DEF Alone, ReqAt
<1>b. ASSUME NEW x, Becomes(r, x) PROVE req'[r] = x
  BY <1>b, <1>t DEF Becomes
<1>c. ReqAt(r, "call") => /\ c \in Connects /\ entry.connection = c /\ conn[c] \in Live
                          /\ conn[c] # "wedged" /\ c # None
  <2> SUFFICES ASSUME ReqAt(r, "call")
               PROVE  /\ c \in Connects /\ entry.connection = c /\ conn[c] \in Live
                      /\ conn[c] # "wedged" /\ c # None
    OBVIOUS
  <2>1. c \in Connects /\ c # None
    BY <1>r DEF Holding, ReqAt, Connects
  <2>2. entry.connection = c
    BY DEF Served
  <2> QED
    BY <1>r, <1>t, <2>1, <2>2 DEF Sound, Cached
<1>u. ASSUME UNCHANGED <<stored, expired, revoked, pending, attempt, conn>>,
             entry'.connection = entry.connection
      PROVE  Sound'
  BY <1>u DEF Sound, Reaches, CachedAnswers, Answers, TokenOf, Starting, At
<1>1. CASE AcquireLoad(r)
  <2> DEFINE x == [q EXCEPT !.token = stored.token, !.pc = "check"]
  <2>1. x.pc = "check" /\ x.result = q.result /\ x.retried = q.retried
    BY <1>t DEF Request
  <2>2. req'[r] = x
    BY <1>1, <1>b DEF AcquireLoad
  <2> HIDE DEF x
  <2>3. Served(r)'
    BY <1>1, <2>1, <2>2 DEF AcquireLoad, Served, ReqAt
  <2> QED
    BY <1>1, <1>a, <1>u, <2>3 DEF AcquireLoad
<1>2. CASE AcquireCheck(r) /\ entry.token = q.token
  <2>1. entry # NoEntry /\ conn[entry.connection] \in Live
    BY <1>2, <1>r DEF AcquireCheck, Holding, ReqAt, Cached, NoEntry
  <2>2. q.result = "none" /\ ~q.retried
    BY <1>2 DEF AcquireCheck, Served, ReqAt
  <2> DEFINE x == [q EXCEPT !.token = None, !.connection = entry.connection, !.pc = "call"]
  <2>3. req'[r] = x
    BY <1>2, <1>b, <2>1, <2>2 DEF AcquireCheck, Handed, Usable, Live
  <2>4. x.pc = "call" /\ x.result = "none" /\ ~x.retried /\ x.connection = entry.connection
    BY <1>t, <2>2 DEF Request
  <2> HIDE DEF x
  <2>5. Served(r)'
    BY <1>2, <2>3, <2>4 DEF AcquireCheck, Served, ReqAt
  <2> QED
    BY <1>2, <1>a, <1>u, <2>5 DEF AcquireCheck
<1>3. CASE AcquireCheck(r) /\ entry.token # q.token
  <2> DEFINE x == [q EXCEPT !.pc = "wait", !.token = None]
  <2>1. x.pc = "wait" /\ x.result = q.result /\ x.retried = q.retried
    BY <1>t DEF Request
  <2>2. req'[r] = x
    BY <1>3, <1>b DEF AcquireCheck
  <2> HIDE DEF x
  <2>3. Served(r)'
    BY <1>3, <2>1, <2>2 DEF AcquireCheck, Served, ReqAt
  <2> QED
    BY <1>3, <1>a, <2>3, RebuiltSound DEF AcquireCheck
<1>4. CASE RecoverRebuilds(r)
  <2> DEFINE x == [q EXCEPT !.pc = "wait", !.connection = None]
  <2>1. x.pc = "wait" /\ x.result = q.result /\ x.retried = q.retried
    BY <1>t DEF Request
  <2>2. req'[r] = x
    BY <1>4, <1>b DEF RecoverRebuilds
  <2> HIDE DEF x
  <2>3. Served(r)'
    BY <1>4, <2>1, <2>2 DEF RecoverRebuilds, Served, ReqAt
  <2> QED
    BY <1>4, <1>a, <2>3, RebuiltSound DEF RecoverRebuilds
<1>5. CASE CallAnswered(r)
  <2>1. req'[r].pc = "done" /\ req'[r].result = "answer" /\ ~req'[r].retried
    BY <1>5, <1>b DEF CallAnswered, Over
  <2>2. entry'.connection = entry.connection
    BY <1>5, <1>t DEF CallAnswered, Answering, Entry
  <2> QED
    BY <1>5, <1>a, <1>u, <2>1, <2>2 DEF CallAnswered, Served, ReqAt
<1>6. CASE CallFails(r)
  <2>1. ~Answers(c) /\ ReqAt(r, "call")
    BY <1>6, <1>c DEF CallFails, Answers
  <2>2. ~q.retried /\ pending = None
    BY <1>c, <2>1 DEF Served, Sound, CachedAnswers
  <2> DEFINE x == [q EXCEPT !.retried = TRUE, !.pc = "recover", !.connection = c]
  <2>3. /\ req'[r] = x /\ entry' = NoEntry /\ pending' = None /\ faults' = faults
        /\ UNCHANGED <<stored, expired, revoked>>
    BY <1>6, <1>b, <1>c, <2>1, <2>2 DEF CallFails, SessionFails, IsCurrent
  <2>4. x.pc = "recover" /\ x.retried /\ x.result = q.result
    BY <1>t DEF Request
  <2> HIDE DEF x
  <2>5. Served(r)'
    BY <2>1, <2>3, <2>4 DEF Served, ReqAt
  <2> QED
    BY <1>a, <1>t, <2>3, <2>5 DEF Sound
<1>7. CASE Refused(r) \/ CallSevered(r) \/ CallTimesOut(r)
  BY <1>7, <1>c DEF Refused, CallSevered, CallTimesOut, Usable, Live, Served, ReqAt
<1> QED
  BY <1>1, <1>2, <1>3, <1>4, <1>5, <1>6, <1>7 DEF RequestSteps

LEMMA QuietConnect ==
  ASSUME TypeOK, RInv, Ready, NEW r \in Requests, Alone(r), Served(r), Sound, broken' = {},
         NEW a \in Connects, ConnectSteps(a) \/ ConnectBound(a)
  PROVE  Alone(r)' /\ Served(r)' /\ Sound'
<1> DEFINE q == req[r]
<1> USE DEF credential, NoFailure
<1>t. /\ q \in Request /\ entry \in Entry /\ NoEntry.connection = None
      /\ req \in [Requests -> Request]
      /\ attempt \in [Connects -> Attempt] /\ attempt[a] \in Attempt
      /\ conn \in [Connects -> Connection]
  BY DEF TypeOK, NoEntry
<1>r. Fresh /\ Cached /\ Connecting /\ Holding /\ Rotation
  BY DEF Ready, RInv
<1>o. \A b \in Connects \ {a} : attempt'[b] = attempt[b]
  BY ConnectOnly
<1>f. UNCHANGED <<faults, expired, revoked>>
  BY DEF ConnectSteps, ClosedPrevious, LoadBundle, Refresh, RefreshRejected, StoreTokens,
     RevisionConflict, ReloadBundle, Handshake, HandshakeRejected, ClosedOwn, ConnectBound
\* The outcome of a connect.
<1>s. \/ UNCHANGED <<pending, req>>
      \/ /\ Rejected(a)
         /\ RefreshRejected(a) \/ ReloadBundle(a) \/ HandshakeRejected(a) \/ ConnectBound(a)
      \/ Handshake(a) /\ MayCache /\ HandsOut(a, a)
      \/ ClosedOwn(a) /\ HandsOut(a, attempt[a].adopted)
  BY DEF ConnectSteps, ClosedPrevious, LoadBundle, Refresh, RefreshRejected, StoreTokens,
     RevisionConflict, ReloadBundle, Handshake, HandshakeRejected, ClosedOwn, ConnectBound
<1>a. Alone(r)'
  <2>1. ASSUME NEW other \in Requests \ {r} PROVE req'[other] = req[other]
    <3>1. ~Waiting(other)
      BY <2>1 DEF Alone, ReqAt, Waiting
    <3> QED
      BY <1>s, <1>t, <3>1 DEF Rejected, HandsOut, Settle
  <2> QED
    BY <1>f, <2>1 DEF Alone, ReqAt
\* The cached session stays as it is, and a new one answers.
<1>c. entry.connection # None =>
        /\ entry.connection \in Connects /\ conn[entry.connection] \in Live
        /\ UNCHANGED entry
        /\ conn'[entry.connection] = conn[entry.connection]
        /\ TokenOf(entry.connection)' = TokenOf(entry.connection)
  <2> SUFFICES ASSUME entry.connection # None
               PROVE  /\ entry.connection \in Connects /\ conn[entry.connection] \in Live
                      /\ UNCHANGED entry
                      /\ conn'[entry.connection] = conn[entry.connection]
                      /\ TokenOf(entry.connection)' = TokenOf(entry.connection)
    OBVIOUS
  <2>1. entry.connection \in Connects /\ conn[entry.connection] \in Live /\ entry # NoEntry
    BY <1>r, <1>t DEF Cached
  <2>2. UNCHANGED entry /\ (UNCHANGED conn \/ (At(a, "handshake") /\ conn' = [conn EXCEPT ![a] = "closing"]))
    BY <2>1 DEF MayCache, ConnectSteps, ClosedPrevious, LoadBundle, Refresh, RefreshRejected,
       StoreTokens, RevisionConflict, ReloadBundle, Handshake, HandshakeRejected, ClosedOwn,
       ConnectBound
  <2>3. At(a, "handshake") => a # entry.connection
    BY <1>r, <2>1 DEF Connecting, Starting, At, Live
  <2>4. TokenOf(entry.connection)' = TokenOf(entry.connection)
    <3>1. CASE a # entry.connection
      BY <1>o, <2>1, <2>2, <3>1 DEF TokenOf
    <3>2. CASE a = entry.connection
      <4>1. ~Starting(a)
        BY <1>r, <2>1, <3>2 DEF Connecting, Live
      <4>2. CASE ClosedOwn(a)
        BY <1>t, <2>2, <3>2, <4>2 DEF ClosedOwn, Ended, EndOf, TokenOf
      <4>3. CASE ConnectBound(a)
        BY <2>2, <4>3 DEF ConnectBound, TokenOf
      <4> QED
        BY <4>1, <4>2, <4>3 DEF ConnectSteps, ClosedPrevious, LoadBundle, Refresh,
           RefreshRejected, StoreTokens, RevisionConflict, ReloadBundle, Handshake,
           HandshakeRejected, Starting, At
    <3> QED
      BY <3>1, <3>2
  <2> QED
    BY <1>t, <2>1, <2>2, <2>3, <2>4
<1>n. entry.connection = None /\ entry'.connection # None =>
        /\ Handshake(a) /\ MayCache /\ entry'.connection = a
        /\ Answers(entry.connection)'
  <2> SUFFICES ASSUME entry.connection = None, entry'.connection # None
               PROVE  /\ Handshake(a) /\ MayCache /\ entry'.connection = a
                      /\ Answers(entry.connection)'
    OBVIOUS
  <2>1. Handshake(a) /\ MayCache
    BY DEF ConnectSteps, ClosedPrevious, LoadBundle, Refresh, RefreshRejected, StoreTokens,
       RevisionConflict, ReloadBundle, Handshake, HandshakeRejected, ClosedOwn, ConnectBound
  <2>2. entry'.connection = a /\ conn'[a] = "open" /\ attempt'[a].token = attempt[a].token
    BY <1>t, <2>1 DEF Handshake, Ended, EndOf
  <2> QED
    BY <1>f, <2>1, <2>2 DEF Handshake, Answers, TokenOf
\* A stored token is replaced only by one that is accepted.
<1>k. \/ UNCHANGED stored
      \/ stored'.token \notin expired \cup revoked
  BY <1>r DEF ConnectSteps, ClosedPrevious, LoadBundle, Refresh, RefreshRejected, StoreTokens,
     Stored, RevisionConflict, ReloadBundle, Handshake, HandshakeRejected, ClosedOwn,
     ConnectBound, Fresh
<1>w. /\ (entry.connection # None => conn[entry.connection] # "wedged")'
      /\ (stored.token \in revoked => stored.token \in expired)'
  BY <1>c, <1>f, <1>k, <1>n DEF Sound, Answers
<1>d. CachedAnswers => CachedAnswers'
  BY <1>c, <1>f, <1>n DEF CachedAnswers, Answers
<1>v. UNCHANGED <<pending, req>> => Served(r)'
  <2>1. ReqAt(r, "call") => entry.connection # None
    BY <1>r DEF Served, Holding, ReqAt, Connects
  <2> QED
    BY <1>c, <1>f, <2>1 DEF Served, ReqAt, Answers
<1>1. CASE pending # a
  <2>1. UNCHANGED <<pending, req>>
    BY <1>1, <1>s DEF Rejected, HandsOut, Settle
  <2>2. pending # None => Reaches(pending)'
    <3> SUFFICES ASSUME pending # None PROVE Reaches(pending)'
      OBVIOUS
    <3>1. Reaches(pending) /\ attempt'[pending] = attempt[pending] /\ pending \in Connects
      BY <1>1, <1>o DEF Sound, TypeOK
    <3>2. At(pending, "closeOwn") => entry'.connection = entry.connection
      BY <1>c, <1>r, <3>1 DEF Reaches, Connecting, Connects
    <3> QED
      BY <1>f, <1>k, <2>1, <3>1, <3>2 DEF Reaches, Starting, At
  <2> QED
    BY <1>a, <1>d, <1>v, <1>w, <2>1, <2>2 DEF Sound
<1>2. CASE pending = a
  <2>0. Reaches(a) /\ CachedAnswers /\ a # None
    BY <1>2 DEF Sound, Connects
  <2>q. ~ReqAt(r, "recover") /\ (ReqAt(r, "call") => entry.connection \in Connects)
    BY <1>2, <1>r, <2>0 DEF Served, Holding, ReqAt
  <2>1. CASE UNCHANGED <<pending, req>>
    <3>1. Reaches(a)'
      <4>1. CASE ClosedPrevious(a)
        BY <1>t, <2>0, <4>1 DEF ClosedPrevious, Reaches, Starting, At, Attempt
      <4>2. CASE LoadBundle(a)
        <5>1. /\ attempt'[a].pc \in {"refresh", "handshake"}
              /\ attempt'[a].pc = "handshake" => stored.token \notin revoked
              /\ attempt'[a].revision = stored.revision /\ attempt'[a].token = stored.token
              /\ attempt'[a].slow = attempt[a].slow /\ UNCHANGED <<stored, expired, revoked>>
          BY <1>t, <4>2 DEF LoadBundle, Attempt, Sound
        <5> QED
          BY <2>0, <5>1 DEF Reaches, Starting, At
      <4>3. CASE Refresh(a)
        BY <1>t, <1>f, <2>0, <4>3 DEF Refresh, Reaches, Starting, At, Attempt
      <4>4. CASE StoreTokens(a)
        <5>1. /\ attempt'[a].pc = "handshake" /\ attempt'[a].token = attempt[a].new
              /\ attempt'[a].slow = attempt[a].slow /\ At(a, "store")
          BY <1>t, <4>4 DEF StoreTokens, Attempt
        <5> QED
          BY <1>f, <1>r, <2>0, <5>1 DEF Reaches, Starting, At, Fresh
      <4>5. CASE RevisionConflict(a)
        BY <1>t, <1>f, <2>0, <4>5 DEF RevisionConflict, To, Reaches, Starting, At, Attempt
      <4>6. CASE ReloadBundle(a)
        BY <1>t, <1>f, <2>0, <4>6 DEF ReloadBundle, Reaches, Sound, Starting, At, Attempt
      <4>7. CASE Handshake(a)
        <5>1. ~MayCache
          BY <1>2, <2>0, <2>1, <4>7 DEF Handshake, HandsOut, Settle
        <5>2. /\ attempt'[a].pc = "closeOwn" /\ attempt'[a].adopted = entry.connection
              /\ ~attempt'[a].slow /\ UNCHANGED entry
          BY <1>t, <4>7, <5>1 DEF Handshake, Attempt
        <5> QED
          BY <5>2 DEF Reaches, Starting, At
      <4>8. CASE RefreshRejected(a) \/ HandshakeRejected(a) \/ ClosedOwn(a) \/ ConnectBound(a)
        BY <1>2, <2>0, <2>1, <4>8
        DEF RefreshRejected, HandshakeRejected, ClosedOwn, ConnectBound, Rejected, HandsOut, Settle
      <4> QED
        BY <4>1, <4>2, <4>3, <4>4, <4>5, <4>6, <4>7, <4>8 DEF ConnectSteps
    <3> QED
      BY <1>2, <1>a, <1>d, <1>v, <1>w, <2>0, <2>1, <3>1 DEF Sound
  <2>2. CASE /\ ~UNCHANGED <<pending, req>>
             /\ RefreshRejected(a) \/ ReloadBundle(a) \/ HandshakeRejected(a) \/ ConnectBound(a)
    BY <2>0, <2>2
    DEF RefreshRejected, ReloadBundle, HandshakeRejected, ConnectBound, BoundFires, Reaches, At
  <2>3. ASSUME NEW c \in Connects, HandsOut(a, c), entry'.connection = c, Answers(entry.connection)',
               conn[c] \in {"none", "open"}
        PROVE  Served(r)' /\ Sound'
    <3>1. pending' = None /\ req'[r] = IF Waiting(r) THEN Handed(q, c) ELSE q
      BY <1>2, <2>3 DEF HandsOut, Settle
    <3>2. CASE Waiting(r)
      <4> DEFINE x == [q EXCEPT !.token = None, !.connection = c, !.pc = "call"]
      <4>1. q.result = "none"
        BY <3>2 DEF Served, ReqAt, Waiting
      <4>2. req'[r] = x
        BY <2>3, <3>1, <3>2, <4>1 DEF Handed, Usable
      <4>3. x.pc = "call" /\ x.result = "none" /\ x.connection = c
        BY <1>t, <4>1 DEF Request
      <4> HIDE DEF x
      <4>4. Served(r)'
        BY <2>3, <4>2, <4>3 DEF Served, ReqAt
      <4> QED
        BY <1>w, <3>1, <4>4 DEF Sound
    <3>3. CASE ~Waiting(r)
      <4>1. ReqAt(r, "call") => entry'.connection = q.connection
        BY <1>c, <2>q DEF Served, Connects
      <4>2. Served(r)'
        BY <2>3, <2>q, <3>1, <3>3, <4>1 DEF Served, ReqAt
      <4> QED
        BY <1>w, <3>1, <4>2 DEF Sound
    <3> QED
      BY <3>2, <3>3
  <2>4. CASE Handshake(a) /\ MayCache /\ HandsOut(a, a)
    <3>1. entry.connection = None /\ entry'.connection = a /\ conn[a] = "none"
      BY <1>r, <1>t, <2>4 DEF MayCache, Handshake, Connecting, Starting, At
    <3> QED
      BY <1>a, <1>n, <2>0, <2>3, <2>4, <3>1
  <2>5. CASE ClosedOwn(a) /\ HandsOut(a, attempt[a].adopted)
    <3>1. attempt[a].adopted = entry.connection /\ attempt[a].adopted \in Connects
      BY <1>r, <2>0, <2>5 DEF ClosedOwn, Reaches, Connecting
    <3>2. Answers(entry.connection) /\ entry.connection # None
      BY <2>0, <3>1 DEF CachedAnswers, Connects
    <3>3. Answers(entry.connection)' /\ entry'.connection = entry.connection
      BY <1>c, <1>f, <3>2 DEF Answers
    <3> QED
      BY <1>a, <2>3, <2>5, <3>1, <3>2, <3>3 DEF Answers
  <2> QED
    BY <1>a, <1>s, <2>1, <2>2, <2>4, <2>5
<1> QED
  BY <1>1, <1>2

\* A request that starts alone, after every fault, is answered, whatever they left,
\* as long as its connect's refresh loses no race and the stored token is one the
\* server accepts or the clock calls expired.
THEOREM QuietRequestsAreServed == Spec => []QuietRequestServed
<1>1. Init => QuietServed
  BY DEF Init, QuietServed, IdleRequest
<1>2. ASSUME TypeOK, RInv, Ready, QuietServed, [Next]_vars PROVE QuietServed'
  <2> USE DEF cache, credential
  <2> SUFFICES ASSUME NEW r \in Requests, req'[r].quiet, broken' = {}
               PROVE  Alone(r)' /\ Served(r)' /\ Sound'
    BY DEF QuietServed
  <2>b. broken = {}
    BY <1>2 DEF Next, vars, Start, RequestSteps, AcquireLoad, AcquireCheck, RecoverRebuilds,
       Refused, CallAnswered, CallFails, CallSevered, CallTimesOut, TimedOut, SlowCall,
       RequestBound, LoadFails, ConnectSteps, ClosedPrevious, LoadBundle, Refresh, RefreshRejected,
       StoreTokens, RevisionConflict, ReloadBundle, Handshake, HandshakeRejected, ClosedOwn,
       ConnectFails, RotationLost, ConnectHangs, ConnectBound, CloseEnds, SessionDies,
       PeerRotates, TokenExpires, TokenRevoked
  <2>t. /\ req \in [Requests -> Request] /\ Holding /\ Cached /\ NoEntry.connection = None
        /\ attempt \in [Connects -> Attempt]
    BY <1>2 DEF TypeOK, Ready, NoEntry
  <2>1. CASE Start(r)
    <3> DEFINE x == [req[r] EXCEPT !.pc = "load", !.quiet = Quiet(r)]
    <3>1. req[r] = IdleRequest /\ req' = [req EXCEPT ![r] = x]
      BY <2>t, <2>1 DEF Start, Becomes, Holding
    <3>2. Quiet(r) /\ req'[r].pc = "load" /\ req'[r].result = "none" /\ ~req'[r].retried
      BY <2>t, <3>1 DEF IdleRequest
    <3>3. \A other \in Requests \ {r} : req'[other] = req[other]
      BY <2>t, <3>1
    <3>4. UNCHANGED <<stored, expired, revoked, entry, pending, attempt, conn, faults>>
      BY <2>1 DEF Start, NoFailure
    <3>5. Alone(r)'
      BY <3>2, <3>3, <3>4 DEF Quiet, Alone, ReqAt
    <3>6. Served(r)'
      BY <3>2 DEF Served, ReqAt
    <3>7. Sound
      BY <2>t, <3>2 DEF Quiet, Sound, Reaches, CachedAnswers, Starting, At
    <3>8. Sound'
      BY <3>4, <3>7 DEF Sound, Reaches, CachedAnswers, Answers, TokenOf, Starting, At
    <3> QED
      BY <3>5, <3>6, <3>8
  <2>2. CASE ~Start(r)
    <3>1. req[r].quiet
      <4> DEFINE q == req[r]
      <4>q. q \in Request
        BY <2>t
      <4>1. \A result : Over(q, result).quiet = q.quiet
        BY DEF Over
      <4>2. Failed(q).quiet = q.quiet /\ \A c : Handed(q, c).quiet = q.quiet
        BY <4>q, <4>1 DEF Failed, Handed, Request
      <4>3. ASSUME NEW s \in Requests,
                   Start(s) \/ RequestSteps(s) \/ SlowCall(s) \/ RequestBound(s) \/ LoadFails(s)
            PROVE  req'[r].quiet = q.quiet
        <5>0. \E x : Becomes(s, x)
          BY <4>3 DEF Start, RequestSteps, AcquireLoad, AcquireCheck, RecoverRebuilds,
             Refused, CallAnswered, CallFails, CallSevered, CallTimesOut, TimedOut, SlowCall,
             RequestBound, LoadFails, SessionFails
        <5>1. CASE s # r
          BY <2>t, <5>0, <5>1 DEF Becomes
        <5>a. CASE s = r /\ AcquireCheck(r)
          <6>1. \/ \E c : Becomes(r, Handed(q, c))
                \/ Becomes(r, [q EXCEPT !.pc = "wait", !.token = None])
            BY <5>a DEF AcquireCheck
          <6>2. [q EXCEPT !.pc = "wait", !.token = None].quiet = q.quiet
            BY <4>q DEF Request
          <6> QED
            BY <2>t, <4>2, <6>1, <6>2 DEF Becomes
        <5>b. ASSUME NEW x, Becomes(r, x), x.quiet = q.quiet PROVE req'[r].quiet = q.quiet
          BY <2>t, <5>b DEF Becomes
        <5>2. CASE s = r /\ (AcquireLoad(r) \/ RecoverRebuilds(r) \/ RequestBound(r))
          <6> DEFINE x == [q EXCEPT !.token = stored.token, !.pc = "check"]
                     y == [q EXCEPT !.pc = "wait", !.connection = None]
                     z == [q EXCEPT !.result = "error"]
          <6>1. x.quiet = q.quiet /\ y.quiet = q.quiet /\ z.quiet = q.quiet
            BY <4>q DEF Request
          <6>2. Becomes(r, x) \/ Becomes(r, y) \/ Becomes(r, z)
            BY <5>2 DEF AcquireLoad, RecoverRebuilds, RequestBound
          <6> HIDE DEF x, y, z
          <6> QED
            BY <5>b, <6>1, <6>2
        <5>3. CASE s = r /\ SessionFails(r)
          <6> DEFINE x == [q EXCEPT !.retried = TRUE,
                            !.pc = IF IsCurrent(q.connection) THEN "recover" ELSE "load",
                            !.connection = IF IsCurrent(q.connection) THEN q.connection ELSE None]
          <6>1. x.quiet = q.quiet
            BY <4>q DEF Request
          <6>2. Becomes(r, x) \/ Becomes(r, Failed(q))
            BY <5>3 DEF SessionFails
          <6> HIDE DEF x
          <6> QED
            BY <4>2, <5>b, <6>1, <6>2
        <5>4. CASE s = r /\ (CallAnswered(r) \/ CallSevered(r) \/ TimedOut(r) \/ LoadFails(r))
          <6>1. Becomes(r, Over(q, "answer")) \/ Becomes(r, Failed(q))
            BY <5>4 DEF CallAnswered, CallSevered, TimedOut, LoadFails
          <6> QED
            BY <4>1, <4>2, <5>b, <6>1
        <5> QED
          BY <2>2, <4>3, <5>1, <5>2, <5>3, <5>4, <5>a
          DEF RequestSteps, Refused, CallFails, CallTimesOut, SlowCall
      <4>4. ASSUME NEW a \in Connects, ConnectSteps(a) \/ ConnectFails(a) \/ RotationLost(a)
                                       \/ ConnectBound(a)
            PROVE  req'[r].quiet = q.quiet
        <5>1. \/ UNCHANGED req \/ Rejected(a)
              \/ \E c \in Connects \cup {None, attempt[a].adopted} : HandsOut(a, c)
          BY <4>4 DEF ConnectSteps, ClosedPrevious, LoadBundle, Refresh, RefreshRejected,
             StoreTokens, RevisionConflict, ReloadBundle, Handshake, HandshakeRejected, ClosedOwn,
             ConnectFails, RotationLost, ConnectBound
        <5>2. CASE UNCHANGED req \/ Rejected(a)
          BY <2>t, <4>2, <5>2 DEF Rejected, Settle
        <5>3. ASSUME NEW c, HandsOut(a, c) PROVE req'[r].quiet = q.quiet
          BY <2>t, <4>2, <5>3 DEF HandsOut, Settle
        <5> QED
          BY <5>1, <5>2, <5>3
      <4>5. ASSUME NEW a \in Connects, ConnectHangs(a) \/ CloseEnds(a) \/ SessionDies(a)
            PROVE  req'[r].quiet = q.quiet
        BY <4>5 DEF ConnectHangs, CloseEnds, SessionDies
      <4>6. CASE PeerRotates \/ TokenExpires \/ TokenRevoked \/ UNCHANGED vars
        BY <4>6 DEF PeerRotates, TokenExpires, TokenRevoked, vars
      <4> QED
        BY <1>2, <4>3, <4>4, <4>5, <4>6 DEF Next
    <3>2. Alone(r) /\ Served(r) /\ Sound
      BY <1>2, <2>b, <3>1 DEF QuietServed
    <3>3. ~Failure
      BY <3>2, ConstantsAssumption DEF Failure, Alone
    <3>4. \A s \in Requests \ {r} : ~Start(s) /\ ~RequestSteps(s)
      BY <3>2 DEF Alone, ReqAt, Start, RequestSteps, AcquireLoad, AcquireCheck, RecoverRebuilds,
         Refused, CallAnswered, CallFails, CallSevered, CallTimesOut
    <3>5. CASE RequestSteps(r)
      BY <1>2, <3>2, <3>5, QuietRequest
    <3>6. ASSUME NEW a \in Connects, ConnectSteps(a) \/ ConnectBound(a)
          PROVE  Alone(r)' /\ Served(r)' /\ Sound'
      BY <1>2, <3>2, <3>6, QuietConnect
    <3>7. ASSUME NEW a \in Connects, CloseEnds(a) PROVE Alone(r)' /\ Served(r)' /\ Sound'
      <4>1. /\ UNCHANGED <<stored, expired, revoked, entry, pending, attempt, req, faults>>
            /\ entry.connection # None => conn'[entry.connection] = conn[entry.connection]
        <5>1. entry.connection # None => conn[entry.connection] \in Live
          BY <2>t DEF Cached
        <5> QED
          BY <1>2, <3>7, <5>1 DEF CloseEnds, NoFailure, Live, TypeOK
      <4>2. ReqAt(r, "call") => entry.connection # None
        BY <2>t, <3>2 DEF Served, Holding, ReqAt, Connects
      <4> QED
        BY <3>2, <4>1, <4>2 DEF Alone, Served, Sound, Reaches, CachedAnswers, Answers, TokenOf,
           Starting, At, ReqAt
    <3>8. CASE UNCHANGED vars
      BY <3>2, <3>8 DEF vars, Alone, Served, Sound, Reaches, CachedAnswers, Answers, TokenOf,
         Starting, At, ReqAt
    <3> QED
      BY <1>2, <2>2, <3>3, <3>4, <3>5, <3>6, <3>7, <3>8
      DEF Next, SlowCall, RequestBound, LoadFails, ConnectFails, RotationLost, ConnectHangs, SessionDies,
          PeerRotates, TokenExpires, TokenRevoked
  <2> QED
    BY <2>1, <2>2
<1>3. QuietServed => QuietRequestServed
  BY DEF QuietServed, Served, QuietRequestServed
<1> QED
  BY <1>1, <1>2, <1>3, TypeCorrect, RotationInvariant, ReadyInvariant, PTL DEF Spec
=============================================================================
