---------------------------- MODULE MCSessionLane ----------------------------
EXTENDS SessionLane, TLC

CONSTANTS p1, p2

\* A rule with a rolling cap and one that only bounds each payment.
MCClauses == {[payees |-> {}, max |-> 0, cap |-> 1],
              [payees |-> {p1}, max |-> 1, cap |-> 0]}

Symmetry == Permutations(RuleIds)
=============================================================================
