----------------------------- MODULE FundsEscrow -----------------------------
(***************************************************************************)
(* What the vault promises about money, without saying how it keeps its    *)
(* books: every token the contract holds is, at every moment, exactly one  *)
(* of free (its owner may take it or commit it), in escrow for one task,   *)
(* or a protocol fee.  Value only moves along the transitions below.       *)
(*                                                                         *)
(* An escrow is opened from its owner's free funds and is paid out while   *)
(* it is open.  What is left returns to its owner when it is closed.  A    *)
(* frozen escrow pays nothing and can only be divided by an arbiter.  A    *)
(* closed escrow is final.                                                 *)
(***************************************************************************)
EXTENDS Integers

CONSTANTS Users, Assets, TaskIds, Amounts

VARIABLES
    free,    \* free[u][a]: funds of u in asset a that are not committed
    fees,    \* fees[a]: protocol fees not yet claimed
    tokens,  \* tokens[a]: what the vault holds of asset a
    escrow   \* escrow[t]: one escrow per task id

vars == <<free, fees, tokens, escrow>>

\* An escrow that was never opened.
Unopened == [phase |-> "none"]

Init ==
    /\ free = [u \in Users |-> [a \in Assets |-> 0]]
    /\ fees = [a \in Assets |-> 0]
    /\ tokens = [a \in Assets |-> 0]
    /\ escrow = [t \in TaskIds |-> Unopened]

\* Money enters.
Credit(u, a, x) ==
    /\ free' = [free EXCEPT ![u][a] = @ + x]
    /\ tokens' = [tokens EXCEPT ![a] = @ + x]
    /\ UNCHANGED <<fees, escrow>>

\* Free funds leave: withdrawn by their owner, or spent with a fee.
Debit(u, a, x, f) ==
    /\ x <= free[u][a]
    /\ free' = [free EXCEPT ![u][a] = @ - x]
    /\ tokens' = [tokens EXCEPT ![a] = @ - (x - f)]
    /\ fees' = [fees EXCEPT ![a] = @ + f]
    /\ UNCHANGED escrow

\* Free funds are committed to a new task.
Open(t, u, a, x) ==
    /\ escrow[t].phase = "none"
    /\ x <= free[u][a]
    /\ free' = [free EXCEPT ![u][a] = @ - x]
    /\ escrow' = [escrow EXCEPT ![t] =
                    [phase |-> "open", owner |-> u, asset |-> a, left |-> x]]
    /\ UNCHANGED <<fees, tokens>>

\* Part of an open escrow is paid out; the fee stays in the vault.
Pay(t, x, f) ==
    /\ escrow[t].phase = "open"
    /\ x <= escrow[t].left
    /\ escrow' = [escrow EXCEPT ![t] = [@ EXCEPT !.left = escrow[t].left - x]]
    /\ tokens' = [tokens EXCEPT ![escrow[t].asset] = @ - (x - f)]
    /\ fees' = [fees EXCEPT ![escrow[t].asset] = @ + f]
    /\ UNCHANGED free

\* The owner freezes an open escrow.
Freeze(t) ==
    /\ escrow[t].phase = "open"
    /\ escrow' = [escrow EXCEPT ![t] = [@ EXCEPT !.phase = "frozen"]]
    /\ UNCHANGED <<free, fees, tokens>>

\* An open escrow ends: the rest goes back to its owner's free funds.
Return(t) ==
    /\ escrow[t].phase = "open"
    /\ free' = [free EXCEPT ![escrow[t].owner][escrow[t].asset] = @ + escrow[t].left]
    /\ escrow' = [escrow EXCEPT ![t] = [@ EXCEPT !.phase = "closed", !.left = 0]]
    /\ UNCHANGED <<fees, tokens>>

\* A frozen escrow ends: all that was left leaves the vault, to the owner's
\* wallet and to the payee, in the arbiter's proportions.
Arbitrate(t) ==
    /\ escrow[t].phase = "frozen"
    /\ tokens' = [tokens EXCEPT ![escrow[t].asset] = @ - escrow[t].left]
    /\ escrow' = [escrow EXCEPT ![t] = [@ EXCEPT !.phase = "closed", !.left = 0]]
    /\ UNCHANGED <<free, fees>>

\* The fees of one asset are claimed.
Claim(a) ==
    /\ tokens' = [tokens EXCEPT ![a] = @ - fees[a]]
    /\ fees' = [fees EXCEPT ![a] = 0]
    /\ UNCHANGED <<free, escrow>>

Next ==
    \/ \E u \in Users, a \in Assets, x \in Amounts :
          \/ Credit(u, a, x)
          \/ \E f \in 0..x : Debit(u, a, x, f)
          \/ \E t \in TaskIds : Open(t, u, a, x)
    \/ \E t \in TaskIds :
          \/ \E x \in Amounts : \E f \in 0..x : Pay(t, x, f)
          \/ Freeze(t)
          \/ Return(t)
          \/ Arbitrate(t)
    \/ \E a \in Assets : Claim(a)

Spec == Init /\ [][Next]_vars

=============================================================================
