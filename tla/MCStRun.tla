------------------------------- MODULE MCStRun -------------------------------
(***************************************************************************)
(* StRun for TLC: two or three interchangeable symbols.  Symmetry is used  *)
(* for invariants and action properties only.                              *)
(***************************************************************************)
EXTENDS StRun, TLC

SymbolSymmetry == Permutations(Symbols)
=============================================================================
