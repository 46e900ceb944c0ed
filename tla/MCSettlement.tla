----------------------------- MODULE MCSettlement ------------------------------
(***************************************************************************)
(* Small instances of Settlement for TLC.                                  *)
(***************************************************************************)
EXTENDS Settlement, TLC

\* Workers and steps are interchangeable, and compared only for equality.
Symmetry == Permutations(Workers) \cup Permutations(Steps)
=============================================================================
