--------------------------- MODULE MCSdsCompletion ---------------------------
(***************************************************************************)
(* Instances of SdsCompletion for TLC: two of the three intervals (the     *)
(* fan-in treats them alike), one or two symbols.                          *)
(***************************************************************************)
EXTENDS SdsCompletion, TLC

CONSTANTS daily, weekly, s1, s2

OneSymbol == {{s1}}
TwoSymbols == {{s1, s2}}
ListMayChange == {{s1}, {s2}}
ListMayShrink == {{}, {s1}}

\* Safety runs treat the intervals alike, and the symbols where no list names one.
IntervalSymmetry == Permutations({daily, weekly})
FullSymmetry == IntervalSymmetry \cup Permutations({s1, s2})
==============================================================================
