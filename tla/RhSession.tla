------------------------------ MODULE RhSession ------------------------------
(***************************************************************************)
(* The warm Robinhood session of one rhApi instance: concurrent requests   *)
(* share a cached connection, keyed on the access token in the credential  *)
(* store, and single-flight rebuilds of it.  A rebuild closes what it      *)
(* replaces, loads the credential, refreshes it when its recorded lifetime *)
(* is over, stores the rotation under a revision check and connects.  Only *)
(* the clock makes it refresh, never an answer of the server.  A rebuild   *)
(* that outlives its bound goes on in the background; another instance may *)
(* rotate the credential at any time.                                      *)
(*                                                                         *)
(* A connection is named after the connect attempt that opened it; a       *)
(* number stands for an access token with the refresh token issued with it.*)
(***************************************************************************)
EXTENDS Integers

CONSTANTS
  MaxRequests,    \* requests, numbered in the order they start
  MaxConnects,    \* connect attempts, as many as the requests can start
  StreakLimit,    \* TIMEOUT_STREAK_LIMIT
  MaxFaults       \* bound on what may go wrong outside the instance

ASSUME ConstantsAssumption ==
  /\ MaxRequests \in Nat /\ MaxConnects \in Nat \ {0} /\ StreakLimit \in Nat \ {0} /\ MaxFaults \in Nat

Requests == 1..MaxRequests
Connects == 1..MaxConnects
None == 0

VARIABLES
  stored,   \* the credential document
  expired,  \* tokens whose recorded lifetime is over by the clock
  revoked,  \* tokens the server no longer accepts
  used,     \* tokens whose refresh token was exchanged for another
  minted,   \* number of tokens issued
  entry,    \* the cached session
  pending,  \* the connect whose outcome new acquires share
  attempt,  \* the connect attempts
  conn,     \* the connections
  req,      \* the requests
  broken,   \* which losses have happened
  faults

cache == <<entry, pending, attempt, conn>>
credential == <<stored, expired, revoked, used, minted>>
vars == <<stored, expired, revoked, used, minted, entry, pending, attempt, conn, req, broken, faults>>

Token == Nat
AttemptPC == {"free", "closePrevious", "load", "refresh", "store", "reload",
              "handshake", "closeOwn", "done"}
RequestPC == {"idle", "load", "check", "wait", "call", "refused", "recover", "done"}

Entry == [connection : Connects \cup {None}, token : Token, timeouts : Nat]
Attempt == [pc : AttemptPC, previous : Connects \cup {None}, revision : Nat,
            token : Token, new : Token,
            adopted : Connects \cup {None}, slow : BOOLEAN]
Connection == {"none", "open", "dropped", "wedged", "closing", "closed"}
Request == [pc : RequestPC, token : Token, connection : Connects \cup {None},
            retried : BOOLEAN, result : {"none", "answer", "error"}, quiet : BOOLEAN]

TypeOK ==
  /\ stored \in [revision : Nat, token : Token]
  /\ minted \in Token
  /\ expired \subseteq Token /\ revoked \subseteq Token /\ used \subseteq Token
  /\ entry \in Entry
  /\ pending \in Connects \cup {None}
  /\ attempt \in [Connects -> Attempt]
  /\ conn \in [Connects -> Connection]
  /\ req \in [Requests -> Request]
  /\ broken \subseteq {"credential", "race"}
  /\ faults \in 0..MaxFaults

NoEntry == [connection |-> None, token |-> None, timeouts |-> 0]
FreeAttempt == [pc |-> "free", previous |-> None, revision |-> 0, token |-> None,
                new |-> None, adopted |-> None, slow |-> FALSE]
IdleRequest == [pc |-> "idle", token |-> None, connection |-> None, retried |-> FALSE,
                result |-> "none", quiet |-> FALSE]

Init ==
  /\ stored = [revision |-> 1, token |-> 1]
  /\ expired = {} /\ revoked = {} /\ used = {} /\ minted = 1
  /\ entry = NoEntry
  /\ pending = None
  /\ attempt = [a \in Connects |-> FreeAttempt]
  /\ conn = [a \in Connects |-> "none"]
  /\ req = [r \in Requests |-> IdleRequest]
  /\ broken = {}
  /\ faults = 0

Failure == faults < MaxFaults /\ faults' = faults + 1
NoFailure == UNCHANGED faults
Usable(c) == conn[c] \notin {"closing", "closed"}

-----------------------------------------------------------------------------
(***************************************************************************)
(* rebuild, shared by acquire, recover and a streak of timeouts.  `E` and  *)
(* `C` are the entry and the connections the caller leaves.                *)
(***************************************************************************)
\* Names are reused once the connection is closed and nothing refers to it.
Free == {a \in Connects :
  /\ attempt[a].pc \in {"free", "done"} /\ conn[a] \in {"none", "closed"}
  /\ \A r \in Requests : req[r].connection # a
  /\ \A b \in Connects : attempt[b].previous # a /\ attempt[b].adopted # a}
NextAttempt == CHOOSE a \in Connects : a \in Free

\* A connect in progress is joined; otherwise one starts, and closes the cached
\* session first.
Rebuild(E, C) ==
  IF pending # None THEN pending' = pending /\ entry' = E /\ conn' = C /\ UNCHANGED attempt
  ELSE /\ Free # {}
       /\ pending' = NextAttempt
       /\ entry' = NoEntry
       /\ conn' = [a \in Connects |-> CASE a = NextAttempt -> "none"
                                        [] a = E.connection -> "closing"
                                        [] OTHER -> C[a]]
       /\ attempt' = [attempt EXCEPT ![NextAttempt] =
                       [FreeAttempt EXCEPT !.previous = E.connection,
                          !.pc = IF E.connection = None THEN "load" ELSE "closePrevious"]]

CloseEnds(c) ==
  /\ conn[c] = "closing"
  /\ conn' = [conn EXCEPT ![c] = "closed"]
  /\ UNCHANGED <<credential, entry, pending, attempt, req, broken>> /\ NoFailure

-----------------------------------------------------------------------------
(***************************************************************************)
(* RobinhoodMcpSessionCache.connect and connectLocalRobinhoodMcpSession.   *)
(***************************************************************************)
At(a, pc) == attempt[a].pc = pc
To(a, pc) == attempt' = [attempt EXCEPT ![a].pc = pc]
\* What remains of a connect is the token its session was built with.
EndOf(x) == [pc |-> "done", previous |-> None, revision |-> 0, token |-> x.token,
             new |-> None, adopted |-> None, slow |-> FALSE]
Ended(a) == attempt' = [attempt EXCEPT ![a] = EndOf(@)]
TokenOf(c) == attempt[c].token
Waiting(r) == req[r].pc = "wait"

Over(q, result) == [pc |-> "done", token |-> None, connection |-> None, retried |-> FALSE,
                    result |-> result, quiet |-> q.quiet]
\* A request that its own bound already ended makes no call.
Handed(q, c) ==
  IF q.result # "none" THEN Over(q, q.result)
  ELSE [q EXCEPT !.token = None, !.connection = c, !.pc = IF Usable(c) THEN "call" ELSE "refused"]
Failed(q) == Over(q, IF q.result = "none" THEN "error" ELSE q.result)

\* The waiting requests share the outcome of the pending connect, and only of it.
Settle(a, outcome) ==
  IF pending = a
    THEN /\ pending' = None
         /\ req' = [r \in Requests |-> IF Waiting(r) THEN outcome[r] ELSE req[r]]
    ELSE UNCHANGED <<pending, req>>
Rejected(a) == Settle(a, [r \in Requests |-> Failed(req[r])])
HandsOut(a, c) == Settle(a, [r \in Requests |-> Handed(req[r], c)])

ClosedPrevious(a) ==
  /\ At(a, "closePrevious") /\ conn[attempt[a].previous] = "closed"
  /\ attempt' = [attempt EXCEPT ![a].previous = None, ![a].pc = "load"]
  /\ UNCHANGED <<credential, entry, pending, conn, req, broken>> /\ NoFailure

\* shouldRefresh, never forced: a token past its recorded lifetime is refreshed before
\* the handshake, one without expires_in never is.
LoadBundle(a) ==
  /\ At(a, "load")
  /\ attempt' = [attempt EXCEPT ![a].revision = stored.revision, ![a].token = stored.token,
       ![a].pc = IF stored.token \in expired THEN "refresh" ELSE "handshake"]
  /\ UNCHANGED <<credential, entry, pending, conn, req, broken>> /\ NoFailure

\* The authorization server may take a refresh token it has already exchanged.
Refresh(a) ==
  /\ At(a, "refresh")
  /\ minted' = minted + 1
  /\ used' = used \cup {attempt[a].token}
  /\ attempt' = [attempt EXCEPT ![a].new = minted + 1, ![a].pc = "store"]
  /\ UNCHANGED <<stored, expired, revoked, entry, pending, conn, req, broken>> /\ NoFailure

\* Only a conflict at the store adopts the winner of a race.
RefreshRejected(a) ==
  /\ At(a, "refresh") /\ attempt[a].token \in used
  /\ Ended(a) /\ Rejected(a)
  /\ broken' = broken \cup {"race"}
  /\ UNCHANGED <<credential, entry, conn>> /\ NoFailure

\* Mutant: the refreshed token is used without being stored.
Unstored(a) == UNCHANGED stored
Stored(a) == stored' = [revision |-> attempt[a].revision + 1, token |-> attempt[a].new]

StoreTokens(a) ==
  /\ At(a, "store") /\ stored.revision = attempt[a].revision
  /\ Stored(a)
  /\ attempt' = [attempt EXCEPT ![a].token = attempt[a].new, ![a].pc = "handshake"]
  /\ UNCHANGED <<expired, revoked, used, minted, entry, pending, conn, req, broken>> /\ NoFailure

RevisionConflict(a) ==
  /\ At(a, "store") /\ stored.revision # attempt[a].revision
  /\ To(a, "reload")
  /\ UNCHANGED <<credential, entry, pending, conn, req, broken>> /\ NoFailure

\* The winner's credential is adopted, unless it needs a refresh itself.
ReloadBundle(a) ==
  /\ At(a, "reload")
  /\ IF stored.token \in expired THEN Ended(a) /\ Rejected(a)
     ELSE /\ attempt' = [attempt EXCEPT ![a].token = stored.token, ![a].pc = "handshake"]
          /\ UNCHANGED <<pending, req>>
  /\ UNCHANGED <<credential, entry, conn, broken>> /\ NoFailure

\* Mutant: the new session replaces whatever another connect cached meanwhile.
Overwrites == TRUE
MayCache == entry = NoEntry

\* The session is cached, unless a connect that outlived its bound cached one.
Handshake(a) ==
  /\ At(a, "handshake") /\ attempt[a].token \notin revoked
  /\ IF MayCache
       THEN /\ entry' = [connection |-> a, token |-> attempt[a].token, timeouts |-> 0]
            /\ conn' = [conn EXCEPT ![a] = "open"]
            /\ Ended(a) /\ HandsOut(a, a)
       ELSE /\ conn' = [conn EXCEPT ![a] = "closing"]
            /\ attempt' = [attempt EXCEPT ![a].adopted = entry.connection, ![a].pc = "closeOwn",
                                            ![a].slow = FALSE]
            /\ UNCHANGED <<entry, pending, req>>
  /\ UNCHANGED <<credential, broken>> /\ NoFailure

HandshakeRejected(a) ==
  /\ At(a, "handshake") /\ attempt[a].token \in revoked
  /\ Ended(a) /\ Rejected(a)
  /\ UNCHANGED <<credential, entry, conn, broken>> /\ NoFailure

\* What was cached before the close is handed out, whatever became of it.
ClosedOwn(a) ==
  /\ At(a, "closeOwn") /\ conn[a] = "closed"
  /\ Ended(a) /\ HandsOut(a, attempt[a].adopted)
  /\ UNCHANGED <<credential, entry, conn, broken>> /\ NoFailure

AtAwait(a) == attempt[a].pc \in {"load", "refresh", "store", "reload", "handshake"}

ConnectFails(a) ==
  /\ AtAwait(a) /\ ~At(a, "store")
  /\ Failure
  /\ Ended(a) /\ Rejected(a)
  /\ UNCHANGED <<credential, entry, conn, broken>>

\* The response of the exchange is lost, or what it issued cannot be stored.
RotationLost(a) ==
  /\ attempt[a].pc \in {"refresh", "store"}
  /\ Failure
  /\ Ended(a) /\ Rejected(a)
  /\ used' = used \cup {attempt[a].token}
  /\ broken' = broken \cup {"credential"}
  /\ UNCHANGED <<stored, expired, revoked, minted, entry, conn>>

\* A connect hangs: it may go on later or never.
ConnectHangs(a) ==
  /\ AtAwait(a) /\ ~attempt[a].slow
  /\ Failure
  /\ attempt' = [attempt EXCEPT ![a].slow = TRUE]
  /\ UNCHANGED <<credential, entry, pending, conn, req, broken>>

\* Mutant: a connect that hangs stays the pending one.
NeverBound(a) == FALSE
BoundFires(a) == attempt[a].slow
\* MCP_CONNECT_TIMEOUT_MS.  The connect itself goes on.
ConnectBound(a) ==
  /\ pending = a /\ BoundFires(a)
  /\ Rejected(a)
  /\ UNCHANGED <<credential, entry, attempt, conn, broken>> /\ NoFailure

-----------------------------------------------------------------------------
(***************************************************************************)
(* executeRobinhoodTool with a session cache: acquire, call, and after a   *)
(* failure of the session one recover and one more call.                   *)
(***************************************************************************)
ReqAt(r, pc) == req[r].pc = pc
Becomes(r, q) == req' = [req EXCEPT ![r] = q]

\* The session of `c` is up and its token is accepted.
Answers(c) == conn[c] = "open" /\ TokenOf(c) \notin revoked

\* Recorded for the property: a request that starts alone, after every fault, when
\* the cached session does not hang and a pending connect neither hangs nor has read
\* the credential yet, nor will find a dead session cached behind its back: that one
\* it would hand out although the request has recovered from it.  A stored token that
\* the server refuses although the clock does not say so is connected again unchanged
\* by every request, until its recorded lifetime is over or a peer replaces it.
Quiet(r) ==
  /\ faults = MaxFaults
  /\ stored.token \in revoked => stored.token \in expired
  /\ \A other \in Requests \ {r} : ReqAt(other, "done")
  /\ entry # NoEntry => conn[entry.connection] # "wedged"
  /\ pending # None =>
       /\ attempt[pending].pc \in {"closePrevious", "load"} /\ ~attempt[pending].slow
       /\ entry # NoEntry => Answers(entry.connection)

Start(r) ==
  /\ ReqAt(r, "idle") /\ (r > 1 => ~ReqAt(r - 1, "idle"))
  /\ Becomes(r, [req[r] EXCEPT !.pc = "load", !.quiet = Quiet(r)])
  /\ UNCHANGED <<credential, cache, broken>> /\ NoFailure

\* The stored bundle is read; decrypting it takes another wait.
AcquireLoad(r) ==
  /\ ReqAt(r, "load")
  /\ Becomes(r, [req[r] EXCEPT !.token = stored.token, !.pc = "check"])
  /\ UNCHANGED <<credential, cache, broken>> /\ NoFailure

\* The store cannot be read or holds no token: the acquire rejects at once.
LoadFails(r) ==
  /\ ReqAt(r, "load")
  /\ Failure
  /\ Becomes(r, Failed(req[r]))
  /\ UNCHANGED <<credential, cache, broken>>

AcquireCheck(r) ==
  /\ ReqAt(r, "check")
  /\ IF entry.token = req[r].token
       THEN Becomes(r, Handed(req[r], entry.connection)) /\ UNCHANGED cache
       ELSE /\ Becomes(r, [req[r] EXCEPT !.pc = "wait", !.token = None])
            /\ Rebuild(entry, conn)
  /\ UNCHANGED <<credential, broken>> /\ NoFailure

\* Mutant: a recovery only acquires again.
TakenForRotated(c) == FALSE
IsCurrent(c) == entry.connection = c

\* The session of `c` has answered, or failed at once: the streak ends.
Answering(c) == IF entry.connection = c THEN [entry EXCEPT !.timeouts = 0] ELSE entry

\* A failure of the session.  The first one is recovered from: the session is
\* closed if it is still the cached one, and a peer's replacement acquired if not.
SessionFails(r) ==
  LET c == req[r].connection
      current == IsCurrent(c)
  IN IF req[r].retried
     THEN /\ Becomes(r, Failed(req[r]))
          /\ entry' = Answering(c)
          /\ UNCHANGED <<pending, attempt, conn>>
     ELSE /\ Becomes(r, [req[r] EXCEPT !.retried = TRUE,
                           !.pc = IF current THEN "recover" ELSE "load",
                           !.connection = IF current THEN c ELSE None])
          /\ entry' = IF current THEN NoEntry ELSE entry
          /\ conn' = IF current THEN [conn EXCEPT ![c] = "closing"] ELSE conn
          /\ UNCHANGED <<pending, attempt>>

\* The rebuild after the close does not look at the cache again.
RecoverRebuilds(r) ==
  /\ ReqAt(r, "recover") /\ conn[req[r].connection] = "closed"
  /\ Becomes(r, [req[r] EXCEPT !.pc = "wait", !.connection = None])
  /\ Rebuild(entry, conn)
  /\ UNCHANGED <<credential, broken>> /\ NoFailure

Refused(r) ==
  /\ ReqAt(r, "refused")
  /\ SessionFails(r)
  /\ UNCHANGED <<credential, broken>> /\ NoFailure

\* A call that is answered, with a result or a tool's error, ends the streak.
CallAnswered(r) ==
  LET c == req[r].connection
  IN /\ ReqAt(r, "call") /\ Answers(c)
     /\ Becomes(r, Over(req[r], "answer"))
     /\ entry' = Answering(c)
     /\ UNCHANGED <<credential, pending, attempt, conn, broken>> /\ NoFailure

\* The transport is gone or the token is no longer accepted.
CallFails(r) ==
  LET c == req[r].connection
  IN /\ ReqAt(r, "call")
     /\ Usable(c) /\ (conn[c] = "dropped" \/ TokenOf(c) \in revoked)
     /\ SessionFails(r)
     /\ UNCHANGED <<credential, broken>> /\ NoFailure

\* The session is closed under a call: the client answers it with an McpError,
\* which is no failure of the session.
CallSevered(r) ==
  /\ ReqAt(r, "call") /\ ~Usable(req[r].connection)
  /\ Becomes(r, Failed(req[r]))
  /\ UNCHANGED <<credential, cache, broken>> /\ NoFailure

\* Never retried.  A streak of timeouts on the cached session replaces it.
TimedOut(r) ==
  LET c == req[r].connection
      current == entry.connection = c
  IN /\ Becomes(r, Failed(req[r]))
     /\ IF current /\ entry.timeouts + 1 >= StreakLimit
          THEN Rebuild(NoEntry, [conn EXCEPT ![c] = "closing"])
          ELSE /\ entry' = IF current THEN [entry EXCEPT !.timeouts = @ + 1] ELSE entry
               /\ UNCHANGED <<pending, attempt, conn>>
     /\ UNCHANGED <<credential, broken>>

CallTimesOut(r) ==
  /\ ReqAt(r, "call") /\ conn[req[r].connection] = "wedged"
  /\ TimedOut(r) /\ NoFailure

SlowCall(r) ==
  /\ ReqAt(r, "call") /\ conn[req[r].connection] = "open"
  /\ TimedOut(r) /\ Failure

\* The bound of the request's own acquire or recover: it answers with an error,
\* what it started goes on.
RequestBound(r) ==
  /\ req[r].pc \in {"load", "check", "wait", "recover"} /\ req[r].result = "none"
  /\ Failure
  /\ Becomes(r, [req[r] EXCEPT !.result = "error"])
  /\ UNCHANGED <<credential, cache, broken>>

-----------------------------------------------------------------------------
(***************************************************************************)
(* Outside the instance.                                                   *)
(***************************************************************************)
\* Another instance or an upload rotates the credential; the old token may
\* still be accepted.
PeerRotates ==
  /\ Failure
  /\ stored' = [revision |-> stored.revision + 1, token |-> minted + 1]
  /\ minted' = minted + 1
  /\ used' = used \cup {stored.token}
  /\ revoked' \in {revoked, revoked \cup {stored.token}}
  /\ UNCHANGED <<expired, cache, req, broken>>

\* The recorded lifetime, less a minute, is over; the server may still take the token.
TokenExpires ==
  /\ Failure
  /\ stored.token \notin expired
  /\ expired' = expired \cup {stored.token}
  /\ revoked' \in {revoked, revoked \cup {stored.token}}
  /\ UNCHANGED <<stored, used, minted, cache, req, broken>>

\* The server refuses a token early, or one that came without expires_in.
TokenRevoked ==
  /\ Failure
  /\ stored.token \notin revoked
  /\ revoked' = revoked \cup {stored.token}
  /\ UNCHANGED <<stored, expired, used, minted, cache, req, broken>>

\* The server drops the session, or keeps it open and never answers.
SessionDies(c) ==
  /\ conn[c] = "open"
  /\ Failure
  /\ \E s \in {"dropped", "wedged"} : conn' = [conn EXCEPT ![c] = s]
  /\ UNCHANGED <<credential, entry, pending, attempt, req, broken>>

-----------------------------------------------------------------------------
ConnectSteps(a) ==
  \/ ClosedPrevious(a) \/ LoadBundle(a) \/ Refresh(a) \/ RefreshRejected(a)
  \/ StoreTokens(a) \/ RevisionConflict(a) \/ ReloadBundle(a)
  \/ Handshake(a) \/ HandshakeRejected(a) \/ ClosedOwn(a)

RequestSteps(r) ==
  \/ AcquireLoad(r) \/ AcquireCheck(r) \/ RecoverRebuilds(r) \/ Refused(r)
  \/ CallAnswered(r) \/ CallFails(r) \/ CallSevered(r) \/ CallTimesOut(r)

Next ==
  \/ \E r \in Requests : Start(r) \/ RequestSteps(r) \/ SlowCall(r) \/ RequestBound(r) \/ LoadFails(r)
  \/ \E a \in Connects : \/ ConnectSteps(a) \/ ConnectFails(a) \/ RotationLost(a)
                         \/ ConnectHangs(a) \/ ConnectBound(a)
                         \/ CloseEnds(a) \/ SessionDies(a)
  \/ PeerRotates \/ TokenExpires \/ TokenRevoked

Spec == Init /\ [][Next]_vars

\* Promises settle and timers fire, except that a connect that hangs may hang
\* for ever.  Requests and connects take boundedly many steps, so that fairness
\* of all of them together is enough.
FairSpec ==
  /\ Spec
  /\ WF_vars(\/ \E r \in Requests : RequestSteps(r)
             \/ \E a \in Connects : \/ ~attempt[a].slow /\ ConnectSteps(a)
                                    \/ CloseEnds(a) \/ ConnectBound(a))

-----------------------------------------------------------------------------
(***************************************************************************)
(* Properties.                                                             *)
(***************************************************************************)
Live == {"open", "dropped", "wedged"}

\* No live session is left behind, whichever connects outlive their bound and
\* whoever replaces the cached one: it is the cached session or it is being closed.
NoSessionLeaks ==
  \A c \in Connects : conn[c] \in Live => entry.connection = c

\* A request that starts alone once the disturbances are over is answered,
\* whatever they left: a dropped session, a token past its lifetime and refused or
\* rotated by a peer, a connect that still hangs, a streak of timeouts.  Only a refresh
\* that loses a race or its refresh token has it fail.  A stored token the server
\* refuses before its recorded lifetime is over, or without one, is not repaired by
\* the code: `quiet` leaves it out.
QuietRequestServed ==
  \A r \in Requests : req[r].quiet /\ broken = {} => req[r].result # "error"

\* The stored refresh token is one the server has not exchanged yet, or its
\* successor is about to be stored, however refreshes and rotations race, unless
\* the exchange's response or the store was lost.
CredentialNotStranded ==
  stored.token \in used /\ "credential" \notin broken =>
    \E a \in Connects : /\ At(a, "store") /\ attempt[a].token = stored.token
                       /\ attempt[a].revision = stored.revision

\* Every request is answered, although a connect may hang for ever.
RequestAnswered == \A r \in Requests : req[r].pc = "load" ~> req[r].result # "none"

\* Stronger claims of the comments, which the code does not keep: a recovery never
\* closes a session a peer uses, and never hands back the session that failed.
PeerKeepsSession ==
  [][\A r, other \in Requests :
       RecoverRebuilds(r) /\ ReqAt(other, "call") /\ Usable(req[other].connection) =>
         conn'[req[other].connection] # "closing"]_vars
RecoverGivesUsable == \A r \in Requests : ~(req[r].retried /\ ReqAt(r, "refused"))
=============================================================================
