------------------------------ MODULE MCExecutor ------------------------------
(* The instances of Executor: a chain of a T2 and a T3 step, and a one-step   *)
(* hire, which is what the API creates.                                       *)
EXTENDS Executor, TLC

chainDeps == [s \in Steps |-> IF s = 1 THEN {} ELSE {s - 1}]
chainTier == [s \in Steps |-> IF s = 1 THEN "T2" ELSE "T3"]
oneTier == [s \in Steps |-> "T1"]

\* Which worker runs a poll makes no difference.
pollerSymmetry == Permutations(Pollers)
=============================================================================
