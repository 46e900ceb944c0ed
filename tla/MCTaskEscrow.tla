---------------------------- MODULE MCTaskEscrow -----------------------------
(***************************************************************************)
(* Small instances of TaskEscrow for TLC.  The fee schedule is scaled down *)
(* (a denominator of 4 instead of 10_000) so that small amounts exercise   *)
(* its rounding: half of an amount of 1 rounds down to nothing.  One tick  *)
(* of the clock is longer than the stale-task threshold.                   *)
(***************************************************************************)
EXTENDS TaskEscrow, TLC

\* None of these is ever compared with anything but equality.
Symmetry ==
    Permutations(Users) \cup Permutations(Orchestrators)
    \cup Permutations(StepIds) \cup Permutations(Nullifiers)
=============================================================================
