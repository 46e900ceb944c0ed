---------------------------- MODULE MCPrivateLane ----------------------------
EXTENDS PrivateLane, TLC

CONSTANTS d1, d2, r1, r2

\* d1 is a list of two groups, d2 a single one.
MCGroups == [d \in Spends |-> IF d = d1 THEN <<1, 1>> ELSE <<1>>]
MCTries == [d \in Spends |-> IF d = d1 THEN 1 ELSE 2]
MCCap == [r \in Rules |-> 2]

Client(k, r) == [kind |-> k, rule |-> r]
Pair(a, b) == [d \in Spends |-> IF d = d1 THEN a ELSE b]
MCPlans == {
    Pair(Client("web", r1), Client("job", r1)),
    Pair(Client("job", r1), Client("sdk", r2)),
    Pair(Client("web", r2), Client("sdk", r1))}

\* The batch worker's executions are interchangeable.
MCSymmetry == Permutations(Workers)
=============================================================================
