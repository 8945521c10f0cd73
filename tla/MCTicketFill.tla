----------------------------- MODULE MCTicketFill -----------------------------
(***************************************************************************)
(* TicketFill for TLC, started from small situations: three tickets that   *)
(* contend for the ids of a contract in one pass; two tickets of which one *)
(* finds its own or a foreign trade under its seed id and may be           *)
(* cancelled; one ticket, cancelled, under two passes that overlap.        *)
(***************************************************************************)
EXTENDS TicketFill, TLC

CONSTANTS t1, t2, t3, p1, p2, c1, c2

SeedOfT1(kind) == [t \in Tickets |-> IF t = t1 THEN kind ELSE "none"]

Contention == [staged |-> Tickets, passes |-> {p1}, cancelled |-> {}, seed |-> SeedOfT1("none")]
Cancelling(kind) ==
  [staged |-> {t1, t2}, passes |-> {p1}, cancelled |-> {t1}, seed |-> SeedOfT1(kind)]
Overlap(kind) ==
  [staged |-> {t1}, passes |-> {p1, p2}, cancelled |-> {t1}, seed |-> SeedOfT1(kind)]

MCScenes == {Contention} \cup {Cancelling(k) : k \in SeedKinds} \cup {Overlap(k) : k \in SeedKinds}
==============================================================================
