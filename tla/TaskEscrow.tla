----------------------------- MODULE TaskEscrow ------------------------------
(***************************************************************************)
(* The task lane of the AgentVault contract: orchestrator registration,    *)
(* tasks that lock part of a user's account, step releases (plain and      *)
(* proof-gated), completion, cancellation, forced completion of stale      *)
(* tasks, and disputes, over the accounts of VaultLedger.                  *)
(*                                                                         *)
(* A release moves tokens out of the vault at once but leaves the owner's  *)
(* account alone: task.spent records the debt, and the account is charged  *)
(* only when the task is finalized.  Between the two, locked covers it.    *)
(*                                                                         *)
(* Callers are not named: a handler is called by the party whose signature *)
(* it demands (the task's orchestrator, its owner, the resolver, the       *)
(* admin), any other caller gets an error and changes nothing.             *)
(***************************************************************************)
EXTENDS VaultLedger, FiniteSets, Functions

CONSTANTS
    Orchestrators,    \* agent addresses
    Commitments,      \* hashes of private spending policies
    NoCommitment,     \* Option::None of a commitment
    StepIds,          \* step ids an orchestrator uses
    Nullifiers,       \* one-time values inside policy proofs
    Verifiers,        \* contracts an admin may set as policy verifier
    Resolvers,        \* addresses an admin may set as dispute resolver
    MaxReleaseSteps,  \* MAX_RELEASE_STEPS_PER_TASK (256 in the code)
    MaxCommitments,   \* MAX_POLICY_COMMITMENTS
    ActiveTaskLimits, \* the caps an admin tries to set
    StaleThresholds,  \* the thresholds an admin tries to set
    MinStaleThreshold,\* 60 seconds in the code
    MaxTasks          \* bound: tasks ever created

ASSUME EscrowAssumption ==
    /\ NoCommitment \notin Commitments
    /\ NoAddress \notin Orchestrators \cup Verifiers \cup Resolvers
    /\ MaxReleaseSteps \in Nat
    /\ MaxCommitments \in Nat
    /\ ActiveTaskLimits \subseteq Nat
    /\ StaleThresholds \subseteq Nat
    /\ MinStaleThreshold \in Nat
    /\ MaxTasks \in Nat

\* Addresses, step ids and nullifiers are values of a fixed width.
ASSUME FiniteAssumption ==
    IsFiniteSet(Users) /\ IsFiniteSet(StepIds) /\ IsFiniteSet(Nullifiers)

VARIABLES
    orchestrator,      \* UserConfig.orchestrator
    activeTasks,       \* UserConfig.active_tasks_count
    orchestratorOwner, \* DataKey::OrchestratorOwner, the reverse lookup
    pinned,            \* DataKey::PolicyCommitments, per user
    policyVerifier,    \* DataKey::PolicyVerifier
    disputeResolver,   \* DataKey::DisputeResolver
    maxActiveTasks,    \* DataKey::MaxActiveTasks
    staleThreshold,    \* DataKey::StaleTaskThreshold
    taskCounter,       \* DataKey::TaskCounter
    tasks              \* DataKey::Task with its step records and nullifiers

configVars == <<pinned, policyVerifier, disputeResolver, maxActiveTasks, staleThreshold>>
registryVars == <<orchestrator, orchestratorOwner>>
taskVars == <<activeTasks, taskCounter, tasks>>
escrowVars == <<registryVars, configVars, taskVars>>
vars == <<ledgerVars, escrowVars>>

TaskIds == 1..MaxTasks
Created == 1..taskCounter

\* TaskInfo.  steps[s] is the amount of the TaskStepRelease record of step s,
\* 0 when there is none; nullifiers is the set of TaskNullifier markers.
TaskInfo == [user : Users, orchestrator : Orchestrators, asset : Assets,
             planCost : Nat, spent : Nat, completed : BOOLEAN,
             disputed : BOOLEAN, commitment : Commitments \cup {NoCommitment},
             createdAt : Nat, steps : [StepIds -> Nat],
             nullifiers : SUBSET Nullifiers]

NoSteps == [s \in StepIds |-> 0]
ReleasedSteps(t) == {s \in StepIds : tasks[t].steps[s] # 0}
Active(t) == ~tasks[t].completed

\* Writing one Task entry back.
SetTask(t, task) == tasks' = [tasks EXCEPT ![t] = task]

EscrowInit ==
    /\ orchestrator = [u \in Users |-> NoAddress]
    /\ activeTasks = [u \in Users |-> 0]
    /\ orchestratorOwner = [o \in Orchestrators |-> NoAddress]
    /\ pinned = [u \in Users |-> {}]
    /\ policyVerifier = NoAddress
    /\ disputeResolver = NoAddress
    /\ maxActiveTasks \in ActiveTaskLimits \ {0}
    /\ staleThreshold \in {s \in StaleThresholds : s >= MinStaleThreshold}
    /\ taskCounter = 0
    /\ tasks = <<>>

Init == LedgerInit /\ EscrowInit

-----------------------------------------------------------------------------
\* Orchestrators.

\* One-time per user.  The reverse lookup is overwritten unconditionally.
RegisterOrchestrator(u, o) ==
    /\ orchestrator[u] = NoAddress
    /\ orchestrator' = [orchestrator EXCEPT ![u] = o]
    /\ orchestratorOwner' = [orchestratorOwner EXCEPT ![o] = u]
    /\ UNCHANGED <<ledgerVars, configVars, taskVars>>

\* Variant: while tasks are active.
UpdateOrchestratorAnyTime(u, o) ==
    /\ orchestrator[u] # NoAddress
    /\ orchestratorOwner[o] \in {NoAddress, u}
    /\ orchestratorOwner' =
         [[orchestratorOwner EXCEPT ![orchestrator[u]] = NoAddress] EXCEPT ![o] = u]
    /\ orchestrator' = [orchestrator EXCEPT ![u] = o]
    /\ UNCHANGED <<ledgerVars, configVars, taskVars>>

\* Variant: the old reverse lookup is left behind.
UpdateOrchestratorKeepingOld(u, o) ==
    /\ activeTasks[u] = 0
    /\ orchestrator[u] # NoAddress
    /\ orchestratorOwner[o] \in {NoAddress, u}
    /\ orchestratorOwner' = [orchestratorOwner EXCEPT ![o] = u]
    /\ orchestrator' = [orchestrator EXCEPT ![u] = o]
    /\ UNCHANGED <<ledgerVars, configVars, taskVars>>

UpdateOrchestrator(u, o) ==
    /\ activeTasks[u] = 0
    /\ orchestrator[u] # NoAddress
    /\ orchestratorOwner[o] \in {NoAddress, u}
    /\ orchestratorOwner' =
         [[orchestratorOwner EXCEPT ![orchestrator[u]] = NoAddress] EXCEPT ![o] = u]
    /\ orchestrator' = [orchestrator EXCEPT ![u] = o]
    /\ UNCHANGED <<ledgerVars, configVars, taskVars>>

-----------------------------------------------------------------------------
\* Creating a task: lock plan_cost of the available balance.

NewTask(u, o, a, planCost, commitment) ==
    [user |-> u, orchestrator |-> o, asset |-> a, planCost |-> planCost,
     spent |-> 0, completed |-> FALSE, disputed |-> FALSE,
     commitment |-> commitment, createdAt |-> now, steps |-> NoSteps,
     nullifiers |-> {}]

Reserved(acc, planCost) == [acc EXCEPT !.locked = @ + planCost]

\* The body both entry points share; the orchestrator's owner pays.
LockNewTask(o, a, planCost, commitment) ==
    LET u == orchestratorOwner[o]
    IN  /\ ~paused
        /\ a \in supported
        /\ u # NoAddress
        /\ activeTasks[u] < maxActiveTasks
        /\ Available(u, a) >= planCost
        /\ taskCounter < MaxTasks
        /\ SetAccount(u, a, Reserved(account[u][a], planCost))
        /\ activeTasks' = [activeTasks EXCEPT ![u] = @ + 1]
        /\ taskCounter' = taskCounter + 1
        /\ tasks' = [t \in 1..(taskCounter + 1) |->
                        IF t = taskCounter + 1
                        THEN NewTask(u, o, a, planCost, commitment)
                        ELSE tasks[t]]
        /\ UNCHANGED <<paused, supported, fee, accruedFees, held, now,
                       registryVars, configVars>>

CreateTask(o, a, planCost) == LockNewTask(o, a, planCost, NoCommitment)

CreateTaskWithPolicy(o, a, planCost, commitment) ==
    LockNewTask(o, a, planCost, commitment)

-----------------------------------------------------------------------------
\* Releasing a step.  A repeated call for a step that already has a record
\* returns Ok(true) or ReleaseConflict and changes nothing.

\* record_step_release and the charge against the plan.
Released(task, s, amount) ==
    [task EXCEPT !.steps = [@ EXCEPT ![s] = amount], !.spent = @ + amount]

\* record_task_nullifier.
Consuming(task, n) == [task EXCEPT !.nullifiers = @ \cup {n}]

\* Variant: a step that already has a record is paid again.
MayReleaseAgain(t, s, amount) ==
    /\ ~paused
    /\ ~tasks[t].completed
    /\ ~tasks[t].disputed
    /\ tasks[t].spent + amount <= tasks[t].planCost

\* Variant: without the budget check.
MayReleaseUnbudgeted(t, s, amount) ==
    /\ ~paused
    /\ ~tasks[t].completed
    /\ ~tasks[t].disputed
    /\ tasks[t].steps[s] = 0

\* Variant: also while the task is disputed.
MayReleaseDisputed(t, s, amount) ==
    /\ ~paused
    /\ ~tasks[t].completed
    /\ tasks[t].steps[s] = 0
    /\ tasks[t].spent + amount <= tasks[t].planCost

\* The lifecycle, idempotency and budget guards of every release.
MayRelease(t, s, amount) ==
    /\ ~paused
    /\ ~tasks[t].completed
    /\ ~tasks[t].disputed
    /\ tasks[t].steps[s] = 0
    /\ tasks[t].spent + amount <= tasks[t].planCost
    /\ Cardinality(ReleasedSteps(t)) < MaxReleaseSteps

\* Variant: whatever the commitment.
ReleasePaymentUngated(t, s, amount) ==
    /\ MayRelease(t, s, amount)
    /\ SetTask(t, Released(tasks[t], s, amount))
    /\ PayOut(tasks[t].asset, amount)
    /\ UNCHANGED <<paused, supported, fee, account, now, registryVars,
                   configVars, activeTasks, taskCounter>>

\* Paid to the orchestrator; only for a task without a policy commitment.
ReleasePayment(t, s, amount) ==
    /\ MayRelease(t, s, amount)
    /\ tasks[t].commitment = NoCommitment
    /\ SetTask(t, Released(tasks[t], s, amount))
    /\ PayOut(tasks[t].asset, amount)
    /\ UNCHANGED <<paused, supported, fee, account, now, registryVars,
                   configVars, activeTasks, taskCounter>>

\* Paid to the proof's payee; only for a committed task, with a fresh
\* nullifier, a commitment its owner has pinned now and a verifier.  The
\* verifier's answer is free: the action is the case where it accepts.
ReleasePaymentProved(t, s, amount, n) ==
    /\ MayRelease(t, s, amount)
    /\ tasks[t].commitment # NoCommitment
    /\ n \notin tasks[t].nullifiers
    /\ tasks[t].commitment \in pinned[tasks[t].user]
    /\ policyVerifier # NoAddress
    /\ Cardinality(tasks[t].nullifiers) < MaxReleaseSteps
    /\ SetTask(t, Consuming(Released(tasks[t], s, amount), n))
    /\ PayOut(tasks[t].asset, amount)
    /\ UNCHANGED <<paused, supported, fee, account, now, registryVars,
                   configVars, activeTasks, taskCounter>>

-----------------------------------------------------------------------------
\* Finalizing a task.

\* Variant: only what was spent is unlocked.
ChargedKeepingLock(acc, planCost, debit, charged) ==
    [acc EXCEPT !.locked = @ - charged,
                !.balance = @ - debit,
                !.totalSpent = @ + charged]

\* Variant: the whole plan is booked as spent.
ChargedInFull(acc, planCost, debit, charged) ==
    [acc EXCEPT !.locked = @ - planCost,
                !.balance = @ - debit,
                !.totalSpent = @ + planCost]

\* The account after finalize_task releases the lock and charges it.
Charged(acc, planCost, debit, charged) ==
    [acc EXCEPT !.locked = @ - planCost,
                !.balance = @ - debit,
                !.totalSpent = @ + charged]

\* Completed, with its step records and nullifiers pruned.
Closed(task) ==
    [task EXCEPT !.completed = TRUE, !.steps = NoSteps, !.nullifiers = {}]

Disputed(task) == [task EXCEPT !.disputed = TRUE]

\* finalize_task: unlock, charge, close the task and prune its records.
Finalize(t, debit, charged) ==
    LET u == tasks[t].user
        a == tasks[t].asset
    IN  /\ ~tasks[t].completed
        /\ SetAccount(u, a, Charged(account[u][a], tasks[t].planCost, debit, charged))
        /\ activeTasks' = [activeTasks EXCEPT ![u] = @ - 1]
        /\ SetTask(t, Closed(tasks[t]))
        /\ UNCHANGED <<paused, supported, fee, accruedFees, now, registryVars,
                       configVars, taskCounter>>

\* Variant: blocked by the pause.
FinalizeUndisputedUnpaused(t) ==
    /\ ~paused
    /\ ~tasks[t].disputed
    /\ Finalize(t, tasks[t].spent, tasks[t].spent)
    /\ UNCHANGED held

\* Without a dispute the unspent rest simply becomes available again.
FinalizeUndisputed(t) ==
    /\ ~tasks[t].disputed
    /\ Finalize(t, tasks[t].spent, tasks[t].spent)
    /\ UNCHANGED held

CompleteTask(t) == FinalizeUndisputed(t)  \* called by the orchestrator

CancelTask(t) == FinalizeUndisputed(t)    \* called by the owner

IsStale(t) == now - tasks[t].createdAt > staleThreshold

\* Callable by anyone.
ForceCompleteStaleTask(t) ==
    /\ IsStale(t)
    /\ FinalizeUndisputed(t)

\* The owner freezes the task.  Not gated by pause.
RaiseDispute(t) ==
    /\ ~tasks[t].completed
    /\ ~tasks[t].disputed
    /\ SetTask(t, Disputed(tasks[t]))
    /\ UNCHANGED <<ledgerVars, registryVars, configVars, activeTasks, taskCounter>>

\* The resolver splits what was not released: both parts leave the vault.
ResolveDispute(t, refund, payout) ==
    /\ ~paused
    /\ tasks[t].disputed
    /\ disputeResolver # NoAddress
    /\ refund + payout = tasks[t].planCost - tasks[t].spent
    /\ Finalize(t, tasks[t].planCost, tasks[t].spent + payout)
    /\ held' = [held EXCEPT ![tasks[t].asset] = @ - (refund + payout)]

-----------------------------------------------------------------------------
\* Policy commitments and administration.

SetPolicyCommitment(u, c) ==
    /\ c \in pinned[u] \/ Cardinality(pinned[u]) < MaxCommitments
    /\ pinned' = [pinned EXCEPT ![u] = @ \cup {c}]
    /\ UNCHANGED <<ledgerVars, registryVars, taskVars, policyVerifier, disputeResolver,
                   maxActiveTasks, staleThreshold>>

UnpinPolicyCommitment(u, c) ==
    /\ c \in pinned[u]
    /\ pinned' = [pinned EXCEPT ![u] = @ \ {c}]
    /\ UNCHANGED <<ledgerVars, registryVars, taskVars, policyVerifier, disputeResolver,
                   maxActiveTasks, staleThreshold>>

SetPolicyVerifier(v) ==
    /\ policyVerifier' = v
    /\ UNCHANGED <<ledgerVars, registryVars, taskVars, pinned, disputeResolver,
                   maxActiveTasks, staleThreshold>>

SetDisputeResolver(r) ==
    /\ disputeResolver' = r
    /\ UNCHANGED <<ledgerVars, registryVars, taskVars, pinned, policyVerifier,
                   maxActiveTasks, staleThreshold>>

SetMaxActiveTasks(n) ==
    /\ n >= 1
    /\ maxActiveTasks' = n
    /\ UNCHANGED <<ledgerVars, registryVars, taskVars, pinned, policyVerifier,
                   disputeResolver, staleThreshold>>

SetStaleThreshold(s) ==
    /\ s >= MinStaleThreshold
    /\ staleThreshold' = s
    /\ UNCHANGED <<ledgerVars, registryVars, taskVars, pinned, policyVerifier,
                   disputeResolver, maxActiveTasks>>

-----------------------------------------------------------------------------
RegistryNext ==
    \E u \in Users, o \in Orchestrators :
        RegisterOrchestrator(u, o) \/ UpdateOrchestrator(u, o)

CreateNext ==
    \E o \in Orchestrators, a \in Assets, planCost \in Amounts :
        \/ CreateTask(o, a, planCost)
        \/ \E c \in Commitments : CreateTaskWithPolicy(o, a, planCost, c)

ReleaseNext ==
    \E t \in Created, s \in StepIds, amount \in Amounts :
        \/ ReleasePayment(t, s, amount)
        \/ \E n \in Nullifiers : ReleasePaymentProved(t, s, amount, n)

EndNext ==
    \E t \in Created :
        \/ CompleteTask(t)
        \/ CancelTask(t)
        \/ ForceCompleteStaleTask(t)
        \/ RaiseDispute(t)
        \/ \E refund, payout \in 0..tasks[t].planCost :
              ResolveDispute(t, refund, payout)

ConfigNext ==
    \/ \E u \in Users, c \in Commitments :
          SetPolicyCommitment(u, c) \/ UnpinPolicyCommitment(u, c)
    \/ \E v \in Verifiers : SetPolicyVerifier(v)
    \/ \E r \in Resolvers : SetDisputeResolver(r)
    \/ \E n \in ActiveTaskLimits : SetMaxActiveTasks(n)
    \/ \E s \in StaleThresholds : SetStaleThreshold(s)

Next ==
    \/ LedgerNext /\ UNCHANGED escrowVars
    \/ RegistryNext
    \/ CreateNext
    \/ ReleaseNext
    \/ EndNext
    \/ ConfigNext

Spec == Init /\ [][Next]_vars
-----------------------------------------------------------------------------
\* Properties.

EscrowTypeOK ==
    /\ orchestrator \in [Users -> Orchestrators \cup {NoAddress}]
    /\ activeTasks \in [Users -> Int]
    /\ orchestratorOwner \in [Orchestrators -> Users \cup {NoAddress}]
    /\ pinned \in [Users -> SUBSET Commitments]
    /\ policyVerifier \in Verifiers \cup {NoAddress}
    /\ disputeResolver \in Resolvers \cup {NoAddress}
    /\ maxActiveTasks \in ActiveTaskLimits
    /\ staleThreshold \in StaleThresholds
    /\ taskCounter \in 0..MaxTasks
    /\ tasks \in [Created -> TaskInfo]

\* Every variable holds a value of its storage type, after any sequence of
\* contract calls.
TypeOK == LedgerTypeOK /\ EscrowTypeOK

\* The active tasks that reserve funds in asset a, and those of user u.
ActiveIn(a) == {t \in Created : Active(t) /\ tasks[t].asset = a}
ActiveTasks(u, a) == {t \in ActiveIn(a) : tasks[t].user = u}

Balances(a) == [u \in Users |-> account[u][a].balance]
Spent == [t \in Created |-> tasks[t].spent]
PlanCosts == [t \in Created |-> tasks[t].planCost]

\* The contract can pay everyone at once: the tokens it holds are the sum of
\* all account balances, less what active tasks already paid out but did not
\* yet charge, plus the unclaimed fees (deposit, withdraw, the two releases,
\* finalize_task, claim_fees).
Solvency ==
    \A a \in Assets :
        held[a] = SumFunctionOnSet(Balances(a), Users)
                  - SumFunctionOnSet(Spent, ActiveIn(a)) + accruedFees[a]

\* locked is exactly the plan cost of the active tasks, and the counter that
\* limits them is their number, so finalize_task never subtracts more than
\* create_task added.
LocksMatchTasks ==
    \A u \in Users :
        /\ \A a \in Assets :
              account[u][a].locked = SumFunctionOnSet(PlanCosts, ActiveTasks(u, a))
        /\ activeTasks[u] = Cardinality(UNION {ActiveTasks(u, a) : a \in Assets})

\* No account is overdrawn: the available balance is never negative and no
\* task releases more than its plan cost, whatever the order of withdrawals,
\* new tasks, releases and settlements.
NoOverdraft ==
    /\ \A u \in Users, a \in Assets : Available(u, a) >= 0
    /\ \A t \in Created : tasks[t].spent <= tasks[t].planCost

\* An account never accounts for more than was paid in: what was charged to
\* its tasks and what it still holds is at most its deposits (the difference
\* left as withdrawals and dispute refunds).
HistoryBounded ==
    \A u \in Users, a \in Assets :
        account[u][a].balance + account[u][a].totalSpent <= account[u][a].totalDeposited

\* While a task is active its step records add up to what it spent, so every
\* release was recorded once and a replay finds its record; a committed task
\* consumed one nullifier per step and a plain task none.
StepsAccountForSpent ==
    \A t \in Created :
        Active(t) =>
            /\ tasks[t].spent = SumFunctionOnSet(tasks[t].steps, StepIds)
            /\ Cardinality(tasks[t].nullifiers) =
                  IF tasks[t].commitment = NoCommitment
                  THEN 0 ELSE Cardinality(ReleasedSteps(t))

\* What a step may do to task t: if the task has a policy commitment it pays
\* only by consuming a nullifier it had not consumed, while its owner has that
\* commitment pinned.
GatedStep(t) ==
    tasks[t].commitment # NoCommitment /\ tasks'[t].spent # tasks[t].spent =>
       /\ \E n \in Nullifiers \ tasks[t].nullifiers :
             tasks'[t].nullifiers = tasks[t].nullifiers \cup {n}
       /\ tasks[t].commitment \in pinned[tasks[t].user]

GatedNext == \A t \in Created : GatedStep(t)

\* The two release paths exclude each other: release_payment never pays for a
\* task with a policy commitment, and release_payment_proved pays only with a
\* fresh nullifier under a commitment that is pinned at that moment.
ProofGated == [][GatedNext]_vars

\* update_orchestrator: "Requires no active tasks so in-flight task
\* authorization cannot be stranded on the old orchestrator".  The
\* orchestrator of an active task is the one its owner has registered.
NotStranded ==
    \A t \in Created :
        Active(t) => orchestrator[tasks[t].user] = tasks[t].orchestrator

\* Neither the pause nor the removal of an asset traps undisputed money: the
\* owner can cancel any undisputed task and withdraw all that is available.
ExitAlwaysOpen ==
    /\ \A t \in Created :
          Active(t) /\ ~tasks[t].disputed => ENABLED CancelTask(t)
    /\ \A u \in Users, a \in Assets :
          Available(u, a) > 0 =>
             ENABLED (Withdraw(u, a, Available(u, a)) /\ UNCHANGED escrowVars)

\* An orchestrator only ever spends for a user who has it registered now: the
\* user the reverse lookup names is one whose own registration agrees.
LookupSound ==
    \A o \in Orchestrators :
        orchestratorOwner[o] # NoAddress => orchestrator[orchestratorOwner[o]] = o

-----------------------------------------------------------------------------
\* Refinement: the contract's books implement the promise of FundsEscrow.

Phase(t) ==
    IF tasks[t].completed THEN "closed"
    ELSE IF tasks[t].disputed THEN "frozen" ELSE "open"

\* What a task still holds in escrow is what it may still release.
EscrowOf(t) ==
    IF t \in Created
    THEN [phase |-> Phase(t), owner |-> tasks[t].user, asset |-> tasks[t].asset,
          left |-> IF tasks[t].completed THEN 0
                   ELSE tasks[t].planCost - tasks[t].spent]
    ELSE [phase |-> "none"]

Free == [u \in Users |-> [a \in Assets |-> Available(u, a)]]
Escrows == [t \in TaskIds |-> EscrowOf(t)]

Books == INSTANCE FundsEscrow WITH
    free <- Free, fees <- accruedFees, tokens <- held, escrow <- Escrows

\* Every contract call moves money along exactly one transition of the
\* promise, or none.
ImplementsBooks == Books!Spec
=============================================================================
