---------------------------- MODULE SequenceFanIn ----------------------------
(***************************************************************************)
(* What the sequence fan-in of symbol-data-sync promises to the passes     *)
(* downstream of it: intervals report, the sequence is claimed once, after *)
(* every interval reported, and each consumer is then sent at most once.   *)
(* How many workers race for the claim, which of them crash and what the   *)
(* run documents hold is not visible here.                                 *)
(***************************************************************************)
EXTENDS Integers

CONSTANTS Intervals, Consumers

VARIABLES
  reported, \* completedIntervals of the sequence document
  claimed,  \* has a caller moved the sequence out of "processing"?
  sent      \* how many tasks each consumer was sent

fanIn == <<reported, claimed, sent>>

Init ==
  /\ reported = {}
  /\ claimed = FALSE
  /\ sent = [c \in Consumers |-> 0]

Report(iv) ==
  /\ iv \notin reported
  /\ reported' = reported \cup {iv}
  /\ UNCHANGED <<claimed, sent>>

Claim ==
  /\ ~claimed
  /\ reported = Intervals
  /\ claimed' = TRUE
  /\ UNCHANGED <<reported, sent>>

Send(c) ==
  /\ claimed /\ sent[c] = 0
  /\ sent' = [sent EXCEPT ![c] = 1]
  /\ UNCHANGED <<reported, claimed>>

Next ==
  \/ \E iv \in Intervals : Report(iv)
  \/ Claim
  \/ \E c \in Consumers : Send(c)

Spec == Init /\ [][Next]_fanIn
==============================================================================
