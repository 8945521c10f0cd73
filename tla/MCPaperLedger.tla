---------------------------- MODULE MCPaperLedger ----------------------------
(***************************************************************************)
(* PaperLedger for TLC: a short and a long trade, or one of them.          *)
(***************************************************************************)
EXTENDS PaperLedger

CONSTANTS t1, t2

ShortAndLong == [t \in Trades |-> IF t = t1 THEN "SHORT" ELSE "LONG"]
==============================================================================
