---------------------------- MODULE DelegateSigner ----------------------------
(***************************************************************************)
(* What the platform's processes share when they sign vault calls as one   *)
(* user's delegate: the vault tasks those calls create, the transactions   *)
(* in flight, and the Redis lock that serializes the callers.              *)
(*                                                                         *)
(* submitDelegateCall fetches the account's sequence number, simulates,    *)
(* sends and then polls for 30 seconds, while the transaction stays valid  *)
(* for 120.  So a caller that timed out leaves behind a transaction that   *)
(* may still land.  All transactions in flight carry the same sequence     *)
(* number (each was built on the account as the last landing left it), so  *)
(* one landing kills the others.  A stale number (txBadSeq) makes the      *)
(* call start over, which is the same as having started later.             *)
(***************************************************************************)
EXTENDS Naturals, Sequences

CONSTANTS
    Signers,   \* executions that call the vault: jobs and recovery sweeps
    Steps,     \* the steps of the task under settlement
    None,      \* null
    MaxLocks,  \* how many task budgets the account's balance covers
    LeaseCanExpire  \* may the Redis lease run out under a live holder?

ASSUME SignerAssumption ==
    /\ MaxLocks \in Nat \ {0}
    /\ LeaseCanExpire \in BOOLEAN
    /\ None \notin Signers \cup Steps \cup Nat

VARIABLES
    vault,     \* the user's tasks in the vault contract, by task id
    inFlight,  \* transactions sent and not yet landed
    holder,    \* who holds the Redis lock of this delegate
    orphaned   \* is the lock's holder gone?

signerVars == <<vault, inFlight, holder, orphaned>>

TaskIds == 1..MaxLocks
VaultTask == [state : {"open", "disputed", "closed"}, paid : SUBSET Steps]

\* A transaction: what it calls, on which vault task and step, and who waits
\* for it (None once nobody does).
Tx == [op : {"lock", "release", "complete"}, task : TaskIds \cup {None},
       step : Steps \cup {None}, by : Signers \cup {None}]

LockTx(w) == [op |-> "lock", task |-> None, step |-> None, by |-> w]
ReleaseTx(w, v, s) == [op |-> "release", task |-> v, step |-> s, by |-> w]
CompleteTx(w, v) == [op |-> "complete", task |-> v, step |-> None, by |-> w]

\* The vault's answer, in simulation and on apply.  A task that is closed or
\* disputed refuses even the replay of a release; an open one accepts it and
\* pays nothing.
Accepts(tx) ==
    \/ tx.op = "lock" /\ Len(vault) < MaxLocks
    \/ tx.op \in {"release", "complete"} /\ vault[tx.task].state = "open"

Applied(tx) ==
    CASE tx.op = "lock" -> Append(vault, [state |-> "open", paid |-> {}])
      [] tx.op = "release" -> [vault EXCEPT ![tx.task].paid = @ \cup {tx.step}]
      [] tx.op = "complete" -> [vault EXCEPT ![tx.task].state = "closed"]

Waiting(w) == {tx \in inFlight : tx.by = w}

-----------------------------------------------------------------------------
\* A call of submitDelegateCall, as its caller sees it.

\* Simulated and sent.
Submit(tx) ==
    /\ Accepts(tx)
    /\ inFlight' = inFlight \cup {tx}
    /\ UNCHANGED vault

\* "simulation failed": the vault refuses, nothing is sent.
Refused(tx) ==
    /\ ~Accepts(tx)
    /\ UNCHANGED <<vault, inFlight>>

\* The caller's transaction lands: SUCCESS if the vault still accepts it.
Lands(w) ==
    \E tx \in Waiting(w) :
        /\ Accepts(tx)
        /\ vault' = Applied(tx)
        /\ inFlight' = {}

\* It lands but the vault refuses it by now: FAILED ("failed on-chain").
FailsOnChain(w) ==
    /\ \E tx \in Waiting(w) : ~Accepts(tx)
    /\ inFlight' = {}
    /\ UNCHANGED vault

\* The caller gives up; what it sent stays in flight, owned by nobody.
Abandoned(w) ==
    {tx \in inFlight : tx.by # w} \cup {[tx EXCEPT !.by = None] : tx \in Waiting(w)}

GivesUp(w) ==
    /\ inFlight' = Abandoned(w)
    /\ UNCHANGED vault

\* An abandoned transaction lands after all, or its 120 seconds pass.
AbandonedLands ==
    /\ \E tx \in Waiting(None) : vault' = IF Accepts(tx) THEN Applied(tx) ELSE vault
    /\ inFlight' = {}
    /\ UNCHANGED <<holder, orphaned>>

AbandonedExpires ==
    /\ \E tx \in Waiting(None) : inFlight' = inFlight \ {tx}
    /\ UNCHANGED <<vault, holder, orphaned>>

-----------------------------------------------------------------------------
\* The Redis lock: SET NX, compare-and-delete, and a lease that runs out when
\* the holder is gone or, if LeaseCanExpire, takes longer than the lease.

Acquire(w) ==
    /\ holder = None
    /\ holder' = w
    /\ UNCHANGED orphaned

Leave(w) ==
    /\ holder' = IF holder = w /\ ~orphaned THEN None ELSE holder
    /\ UNCHANGED orphaned

\* A process that dies does not delete its key.
Dies(w) ==
    /\ orphaned' = (orphaned \/ holder = w)
    /\ UNCHANGED holder

LeaseExpires ==
    /\ holder # None
    /\ orphaned \/ LeaseCanExpire
    /\ holder' = None
    /\ orphaned' = FALSE
    /\ UNCHANGED <<vault, inFlight>>

-----------------------------------------------------------------------------
SignerTypeOK ==
    /\ vault \in Seq(VaultTask) /\ Len(vault) <= MaxLocks
    /\ inFlight \in SUBSET Tx
    /\ holder \in Signers \cup {None}
    /\ orphaned \in BOOLEAN
=============================================================================
