---------------------------- MODULE MCSdsIntraday ----------------------------
(***************************************************************************)
(* SdsIntraday for TLC: no symbol, two or three symbols tracked, so that   *)
(* the quality gate meets an empty run, both of its outcomes, exactly half *)
(* of the symbols and a list that changes between two deliveries.          *)
(***************************************************************************)
EXTENDS SdsIntraday

CONSTANTS s1, s2, s3

SomeTracked == {{}, {s1, s2}, {s1, s2, s3}}
=============================================================================
