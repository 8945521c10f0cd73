------------------------------ MODULE TicketLife ------------------------------
(***************************************************************************)
(* What a staged expression ticket promises to its owner: a position opens *)
(* for it at most once and never disappears, it is reported filled only    *)
(* when the position exists, a fill is final, and a cancellation yields to *)
(* nothing but a fill.  Passes, contracts, retries and groups are not      *)
(* visible here.                                                           *)
(***************************************************************************)
CONSTANTS Tickets

VARIABLES
  state, \* what the ticket document says
  opened \* has a position been opened for the ticket?

Init ==
  /\ state \in [Tickets -> {"absent", "staged"}]
  /\ opened = [t \in Tickets |-> FALSE]

\* The ledger does not ask the ticket: a cancellation may already be written.
Open(t) ==
  /\ ~opened[t]
  /\ opened' = [opened EXCEPT ![t] = TRUE]
  /\ UNCHANGED state

Fill(t) ==
  /\ opened[t]
  /\ state[t] \in {"staged", "cancelled"}
  /\ state' = [state EXCEPT ![t] = "filled"]
  /\ UNCHANGED opened

Cancel(t) ==
  /\ state[t] = "staged"
  /\ state' = [state EXCEPT ![t] = "cancelled"]
  /\ UNCHANGED opened

Next == \E t \in Tickets : Open(t) \/ Fill(t) \/ Cancel(t)

Spec == Init /\ [][Next]_<<state, opened>>
==============================================================================
