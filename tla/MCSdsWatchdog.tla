---------------------------- MODULE MCSdsWatchdog ----------------------------
(***************************************************************************)
(* Instances of SdsWatchdog for TLC.                                       *)
(***************************************************************************)
EXTENDS SdsWatchdog, TLC

CONSTANTS daily, weekly, s1, s2

OneSymbol == {{s1}}
NoSymbols == {{}}

IntervalSymmetry == Permutations({daily, weekly})
==============================================================================
