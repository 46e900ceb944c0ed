# CleverCon in TLA+

CleverCon gives an AI agent a spending account on Stellar. A user deposits into
a vault contract and registers a delegate ("orchestrator"); the platform's API
and workers lock budgets for tasks and release step payments as that delegate;
the contract enforces what may leave the account. This directory holds a model
of the parts of that program where money moves or where concurrent parties can
disagree about it, the TLC runs that check it on small instances, and proofs for
every instance.

## The system: inventory

| Part | State it keeps | Operations | What is hard about it |
|---|---|---|---|
| `contracts/agent-vault` (Soroban, one 4400-line contract) | accounts per (user, asset): balance, locked, totals; tasks with step records and nullifiers; orchestrator registrations; fee config and accruals; pinned commitments; sessions and public rules; accumulators; pause; admin settings | four spending lanes over one ledger: **tasks** (lock, release, finalize, dispute), **proof-gated tasks**, **sessions** under public rules, **private batches** (task-less, proof-gated) | calls from mutually distrusting parties in any order; a release pays before it is charged; four ways to end a task; limits and rounding; replays |
| `contracts/policy-verifier`, `circuits/` | verification keys | verify a proof | cryptography |
| `contracts/registry` | agent records | register, update, remove | little |
| `services/workers` settlement | Postgres rows (task, step, payment), BullMQ jobs, a Redis lock per delegate, pending transactions | settle a step, settle a batch, finalize a task, recover orphaned locks | concurrent jobs, crashes, transactions that time out and land later, an expiring lock, check-then-act across chain and database |
| `services/workers` executor | step and task status, delayed jobs | dispatch a step, poll, park, hold, auto-release | re-runs of a whole task, de-duplicated job ids, races with approval, cancellation and disputes |
| `services/api` | tasks, disputes, keys, tokens | create and lock tasks, approve, answer, dispute, resolve, enqueue | requests that race with each other and with the workers; crash between two stores |
| `services/indexer` | events, a cursor, mirrored balances | persist and project one event | exactly-once under several instances; which events move money |
| `packages/agent-sdk`, `apps/web` | the accumulator a client read and rolls forward, the group of a list it is at | read the windows, prove, post, try again | proofs bind state that others move; a reply that is lost |
| `packages/mcp`, the rest of `apps/web` | none that others see | assemble requests | - |

Interaction: the API enqueues jobs; the workers sign vault calls as the user's
delegate, serialized per delegate by a Redis lock, and record what they saw in
Postgres; the user signs deposits, withdrawals, cancellations and disputes
directly; the indexer polls the vault's events into the mirror the API serves.

What makes each part correct:

- **vault**: solvent for every asset; locks equal what active tasks reserve; no
  account overdrawn in any order of calls; each step paid once; a committed task
  paid only with proofs; an undisputed user can always leave.
- **settlement**: a step's payees are paid at most once whatever crashes or times
  out; a payment row means the money moved; no budget stays locked for a task
  that is over; a job ends.
- **sessions**: a key stays within its cap, the rules it pays under within their
  windows, and no choice of the caller gets round the account's global rule.
- **private lanes**: a proof pays once, whatever became of the transaction that
  carried it; a hidden rule's rate holds over all its users; the batch worker's
  record tells what happened.
- **executor and API**: a step is paid for only once it was delivered and its hold
  ended; dependents run after what they depend on and only then; nothing stays
  parked or held for ever.
- **indexer**: every event is stored once, in order, and the mirror differs from
  the chain by nothing but the events it does not project.

## Modules

| Module | Models | Kind |
|---|---|---|
| `VaultLedger` | the part of `agent-vault` the task lane builds on: accounts, held tokens, fees, whitelist, pause, clock | specification part (no Spec of its own) |
| `TaskEscrow` | the task lane over `VaultLedger`: registration, tasks, releases, ends of a task, disputes, commitments, admin settings | specification, properties, refinement |
| `FundsEscrow` | what the vault promises about money: free funds, one escrow per task, fees | abstract specification |
| `DelegateSigner` | what the platform's processes share when they sign as one user's delegate: the vault's tasks as a client sees them, transactions in flight, the Redis lock | specification part |
| `Settlement` | the settlement workers, their queue and the recovery sweep, for one task, over `DelegateSigner` | specification, properties, fairness |
| `Executor` | `executeTask`, `pollStep`, `releaseHeldStep`, their queues, and the buyer's requests that race with them | specification, properties, fairness |
| `SessionLane` | session keys, public rules and the global rule of one account, and payments by key | specification, properties |
| `PrivateLane` | one account's private spending end to end: clients that prove, the API's relay, the batch worker, transactions in flight, the vault's checks | specification, properties |
| `Indexer` | indexer processes over the event log of one vault account | specification, properties, fairness |
| `TaskEscrowProofs`, `SessionLaneProofs`, `ExecutorProofs`, `IndexerProofs`, `SettlementProofs`, `PrivateLaneProofs` | theorems about those modules | TLAPS proofs |
| `SolvencyProofs` | the theorems about `TaskEscrow` whose properties are sums over users, tasks or steps | TLAPS proofs |
| `SumProofs` | facts about the sum of a function over a finite set, on which both lanes' books rest | TLAPS proofs |
| `MC*` | values and symmetry for TLC | model-checking modules |

A definition named as a variant ("Variant: ...") is not part of the
specification: it is the same operation with one plausible mistake, kept beside
the original to show that the properties notice it.

### VaultLedger and TaskEscrow

A contract call is atomic: on `Err` or panic nothing is written. So one call is
one action, an error return is a missing conjunct of its guard, and the token
transfers inside are part of the step. Callers are not named: each handler
demands one particular signature (orchestrator, owner, resolver, admin), and any
other caller changes nothing; "some caller with authority calls" is what an
action says. Calls that change nothing (a replayed release that finds its
record, a getter) are stuttering steps.

| TLA+ | code |
|---|---|
| `account[u][a]` | `UserAssetAccount`; never-written entries read as zeros, as `get_or_create_asset_account` returns them |
| `held[a]` | the contract's balance in the token contract of `a` (external) |
| `fee`, `accruedFees` | `FeeConfig`, `AccruedFees` |
| `orchestrator`, `activeTasks` | the two fields of `UserConfig` |
| `orchestratorOwner` | the `OrchestratorOwner` reverse lookup |
| `tasks[t]` | `TaskInfo`, with the step records and nullifier markers that live under the task's id |
| `now` | `env.ledger().timestamp()`, moved by `Tick` |

Abstractions: the fee denominator is a constant (10_000 in the code, 4 in the
runs) so that small amounts exercise its rounding; a proof is its nullifier, and
the verifier's answer is free (`ReleasePaymentProved` is the accepted case);
`StaleThresholds` stands for the 1800 s default and every value `set_stale_threshold`
accepts; amounts are unbounded integers (the code's `i128` arithmetic panics on
overflow, which aborts the call). Storage TTLs are not modelled here
(`PrivateLane` has the one that matters).

### SessionLane

One account's session keys. Every call is one action, as in `TaskEscrow`.

| TLA+ | code |
|---|---|
| `sessions[k]` | `DataKey::Session`; `cap` 0 and `expiry` 0 mean none |
| `rules[r]`, `globalId` | `DataKey::PublicRule`, `DataKey::PublicGlobalId` |
| `usage[r]` | `DataKey::PublicAccum`: it outlives the rule and is shared by its keys |
| `outflow`, `tally` | history: paid by each registration, let through by each rule as now written |

The requests are the ones the clients make: `buildEnableSession` for a key the
server holds, `registerSession` for one of the agent's. The rule id of a payment
comes with the payment and may be any (`sessionPay` passes the caller's on).
Left out: a rule's minimum, deny list, calendar and velocity window, fees and
the pause.

### PrivateLane

A client reads the accumulator of its rule (and of the global rule), proves, and
posts; the vault accepts a proof only if its own accumulator still is the one
the proof binds. `client[d].at` names the next await of disbursement `d`:

| `at` | action | code |
|---|---|---|
| start | `ReadGlobals` | `DisbursePage.tsx` 148-157 |
| read, readGlobal | `ReadAccumulator`, `ReadFails`, `ReadGlobalAccumulator` | `prove.ts` 165-198, `spender.ts` 319-370 |
| prove | `Prove`: the circuit has a witness or not | `prove.ts` 203-301, `policy_batch.circom` 344-362 |
| post | `Relay` (API, keyless), `Enqueue` (batch job) | `vault.service.ts` 346-376, `vault.controller.ts` 416-438 |
| sent | `ReplyPaid`, `ReplyFailed`, `ReplyTimesOut` | `vault-contract.service.ts` 975-989 |
| failed | `TryAgain`: new proofs, new nullifiers | `DisbursePage.tsx` 197-201 |

The batch worker (`run[w].at`: enter, lock, release, complete, or rollback, and
the -ing places where a transaction is awaited) is `settleBatch`; `job` is the
BullMQ job, `record` the activity row. Vault tasks exist here as far as this
lane uses them. `used` holds the nullifiers with the time their storage entry
lapses; the assumption `MaxValidity < NullifierTtl` is the one the constant's
comment makes (lib.rs 850-857). A rule's total is `Groups[d]`; payees, allowlists
and the per-payment clauses are guards inside the circuit and left out, and the
count window R7 is rolled exactly like R2.

### Executor

The task job, the polls of a step, the window timer, settlement and the buyer
share rows without a lock. Each read-await-write is split at the await, and
`exec.seen` is the executor's own copy of the rows, which is why the properties
are not evident. The copy follows what the run writes, with the code's exception: a
dispatch that fails is written to the row only (490-498, 554-567). `handled` is the
set of steps with a `providerJobHandle`, of which the executor and each poll hold
copies too: a step that runs without one is dispatched again (458).

| TLA+ | code (`executor.ts`) |
|---|---|
| `TakeTask`, `MarkRunning` | 431-442 |
| `PassOver`, `SkipStep`, `Dispatch` | the loop, 447-516; `Dispatchable` is 448-465 |
| `KeepHandle` | the handle a reply leaves in the row, 345-383, 735, 766 |
| `ApplyReply`, `ExecEnqueue` | the row's write and the enqueue after it, 517-567, 303-330 |
| `WriteOutcome`, `EndTask` | 570-591 |
| `TakePoll`, `CallProvider`, `ApplyPoll`, `PollEnqueue` | `pollStep`, 636-830 |
| `TimerFires`, `TimerReleases`, `TimerSettles` | `releaseHeldStep`, 854-912 |
| `job`, `polls`, `timer`, `settle` | the queues; a retained job blocks its id (`Added`) |

A provider is free to answer anything a provider may (`Answers`), and an answer
may be lost. Settlement is seen from outside: it pays a released step, then
finalizes. `Approve` is atomic over its steps. Left out: for an unlocked task the
settlement job that `approve` enqueues and that skips; a second execution of a
stalled task job; the judge, webhooks and artifacts.

### Indexer

`account` and `log` are the chain; `Emit` appends what the contract publishes.
An indexer process reads the cursor, fetches a page, inserts event by event, each
with its projection in one database transaction, and saves the page's cursor.
`mirror` is the `vault_accounts` row. The history variable `unseen` in each event
sums up what moved without a projected event (session and keyless releases,
resolved disputes; a batch release only raises its task's `spent`, and is charged
when the task is finalized, with a projected event). The task's disputed flag is left out, and so is
the RPC's retention limit: an indexer that is down for longer than the RPC keeps
events loses them.

### DelegateSigner and Settlement

A settlement job runs `settleStep` and then `finalizeTaskIfComplete`. Both are
chains of awaits over three stores (Postgres, the chain, Redis) that no
transaction spans, so every await that reads or writes shared state is an action
of its own, and `run[w].at` names the next one of execution `w`:

| `at` | next action | code (`settlement.ts`) |
|---|---|---|
| read | `ReadStep`: step, task and payment row | 269-303 |
| acquire | `EnterSection`: in-process queue and Redis lock | 330 |
| fresh | `FreshRead`: `vaultTaskId` again, inside the section | 336-340 |
| lock, locking, save | `SubmitLock`, `LockLands`, `SaveLock` | 342, 343 |
| release, releasing | `SubmitRelease`, `ReleaseLands` | 351-358 |
| record | `Record` | 398-411 |
| failCheck, fail | `FailCheck`, `FailTask`: the vault refused | 371-380 |
| finRead, finCount | `FinRead`, `FinCount` | 695-711 |
| finAcquire, complete, completing | `EnterFinal`, `SubmitComplete`, `CompleteLands`, `AlreadyComplete`, `CompleteFails` | 722-728 |
| finUpdate, end | `FinUpdate`, `End` | 740-746, `index.ts` 177 |

| TLA+ | code |
|---|---|
| `taskStatus`, `vaultTaskId`, `finalized` | `task.status`, `task.vaultTaskId`, `task.vaultFinalizedAt` |
| `stepStatus`, `recorded` | `taskStep.status`; steps with a payment row `settle-<step>` |
| `job[s]` | the BullMQ job `settle-<s>`: who runs it, attempts used, times it stalled |
| `vault` | the chain's tasks of this user, with the steps each has paid |
| `inFlight` | transactions sent and not applied. All carry the same sequence number, so one landing kills the others |
| `holder`, `orphaned` | the Redis key of the delegate lock; `orphaned` when its holder died |

What can go wrong is an action too. `Throws` is any transient error: it releases
the lock, leaves a transaction that was sent in flight (it is valid for 120
seconds, the caller polls for 30) and lets the queue retry, up to `MaxAttempts`.
`Stall` hands a job to a second worker while the first still runs it, and
`Crash` stops an execution between any two awaits with its lock held until the
lease ends. `AbandonedLands` applies a transaction nobody waits for. `Intervene`
is the owner who cancels or disputes on chain. Each of these, and a refusal by
the vault's other rules, counts against `MaxFaults`.

The vault here is the part of `TaskEscrow`'s promise that workers rely on: a
release of a paid step is accepted and pays nothing, and a closed or disputed
task refuses everything. Amounts play no part: `MaxLocks` is how many budgets
the account can reserve.

Assumed: the lease outlasts the section it protects (`LeaseCanExpire = FALSE`).
The code sets 90 seconds against a section of two calls that may poll 30 times
each and more with retries, so this is a matter of network latency; the model has no
clock to settle it. With `TRUE`, TLC finds `PaidOnce` violated: the code's "paid
once" rests on that lease. That a payment row means a payment does not: the proof
of `RecordsAreTrue` makes no such assumption. `OpenStatuses` are the states in which a step may start;
from each of them its provider may have it wait for the buyer and work on (`Park`).
`finalizeTaskIfComplete` takes a step that waits for the buyer for one that is over
(see below); the history variable `passed` keeps the steps a finalization has seen
in that state when it found nothing open. Not
modelled: hires the API could not lock at creation, and the executor's own writes
of the task status.

## Runs

| Run | Question | Instance |
|---|---|---|
| `tasks` | do the books stay straight, does the vault stay open and every task stay with its owner's orchestrator, when tasks overlap with withdrawals, fees, pauses, forced completion and disputes? | 1 user, 2 tasks, 2 orchestrators, 2 steps, deposits up to 3, fee 2/4 with a recipient (3/4 is over the cap), one tick. About 320,000 states |
| `proofs` | can a committed task be paid without a fresh proof under a pinned commitment, do its step records and nullifiers account for what it spent, and does the reverse lookup of an orchestrator name a user who has it registered? | 2 users and 2 orchestrators who share the instance, 1 task, 1 commitment, 3 steps against a record limit of 2, 2 nullifiers, no clock. About 770,000 states |
| `sessions` | do keys stay within caps, rules and the global rule? | a managed and an agent's key, 2 rules (one with a rolling cap, one with a payee list and a maximum), windows of 2 ticks, 3 ticks, 4 edits. About 790,000 states |
| `private` | one set of books, a proof paid once, a rate kept, a record that is true? | a list of two groups and a single disbursement over the lanes (web and batch under one rule; batch and SDK under two; web under one with the SDK under the other), 2 rules, 2 worker executions, 3 ticks, windows of 2, one fault or change of the owner's mind. About 3.5 million states |
| `private_global` | does a batch count against the global rule? (it does not) | the same |
| `settlement` | is a step paid once, recorded only if paid, and the task finalized only when settled? | 2 workers and a sweep, 2 steps (released, held, running, or waiting for the buyer), 2 budgets, 2 attempts, 1 stall per job, 2 faults. About 1.3 million states |
| `settlement_live` | do all jobs end, and is an undisturbed task settled? | 2 workers, 2 steps, 1 attempt, 1 stall per job, 2 faults |
| `executor` | paid only if earned, dependents wait, recorded answers not asked for again? | a T2 step and a T3 step that depends on it, 2 interchangeable poll workers, 2 attempts, 1 answer, 1 fault. About 8.7 million states |
| `executor_live` | does a parked step end? | one T1 step, 2 poll workers, 1 answer, 1 eviction, no fault. About 600,000 states |
| `executor_holds` | does a held step leave its window, and a released one get paid? | the two steps, 2 poll workers, 1 dispute, 1 eviction, no fault and no answer (the properties leave both out). About 94,000 states |
| `executor_reenqueue` | is a locked budget unlocked once all steps are resolved? (it is not) | one T1 step, one poll worker, no fault, no buyer |
| `indexer` | every event stored once and in order, the mirror exact? | 2 processes, pages of 2, 3 events, 1 crash or error. About 510,000 states |

The bounds are enough for the cases that matter. Vault: two tasks of one account
are what it takes for one task's lock to cover another's debt; two amounts, one
of which rounds its fee to nothing; one more step than there are records; two
users who register the same orchestrator; a tick that passes the stale threshold.
Sessions: two keys that draw on one rule, a rule that is cleared and written
again within its window, a window that is passed and reopened. Private: two
clients whose proofs bind the same accumulator, a list whose second group is
proved before anything is read again, a transaction that lands after its sender
gave up, a nullifier that lapses after its proof did, and one commitment that is
a rule and the global rule at once. Settlement: two workers and two steps are
what it takes for two jobs to race for the first lock, for one job to finalize
while the other records, and, with a stall, for one job to run twice at once;
two faults allow a failure and a failure of its retry, or a crash that meets a
transaction landing late. Executor: two steps make a dependency and the two kinds
of hold; one fault is a crash anywhere, or an enqueue that was lost; two poll
workers overlap on one step; one answer is what a question without a handle needs
to leave a step running without one. A dispute only keeps a timer from firing, so
that safety has nothing to lose by it; it is in `executor_holds`. Indexer: an event more than a page, and two
processes of which the slower moves the cursor back.

`CHECK_DEADLOCK FALSE` throughout because the bounded instances end: deposits
made, edits used up, time at its bound, every step resolved, every event stored.

What they show. `Solvency`, `LocksMatchTasks`, `NoOverdraft`, `HistoryBounded`,
`StepsAccountForSpent` and `ProofGated` hold. `ExitAlwaysOpen` holds: a pause or
the removal of an asset never traps undisputed money. `ImplementsBooks` holds:
the detailed books implement `FundsEscrow`, in which an escrow pays only while
open, never more than is left, a frozen one pays nothing, and a closed one is
final.

`RuleBudget` has a 2 where one would expect a 1: usage survives a rewrite of the
rule, so a window that was open before may be followed by a new one right after
the first payment. `GlobalBinds` holds also when the rule a caller chooses is not
the one the key was registered with. `RateBounded` has its 1: an accumulator is
never rewritten, and `valid_after` may lie in the past but not before the
accumulator's anchor plus the window it resets. `RecordTellsTruth` is qualified:
only without faults does FAILED mean unpaid. `ListGoesThrough` says that the
browser's own rolling of the windows is the vault's.

`PaidOnce` holds although the workers may lock the budget twice (a crash between
`lock` and the row's update): the second lock is made only when no row names the
first, and nothing was released under it. `OrphansUnpaid` is the reason why the
sweep may complete what no row references. `RecordMeansPaid` and
`FinalizedMeansSettled` hold through crashes, stalls, late landings, disputes
and cancellations.

`PaidForDelivery` and `DependentsWait` hold although a step's row may go back:
two polls that overlap (an answer starts a second one) can write a held or
released step back to RUNNING, and a later delivery then holds it again.
`RecordedNotRedone` has two exceptions, and TLC shows each to be needed. A step
whose provider asked its first question without a handle, and went on working
without giving one, is RUNNING without a handle; a task job that runs again takes
it for a step that never started and dispatches it, with no poll overlapping
another. And the property is said of steps that no two drove at once (the history
variable `overlapped`): of two overlapping polls the slower can revive a failed
step after the task job copied it, and the job dispatches it again. A step that is
dispatched although it was running counts as overlapped from then on.

`FinalizedMeansSettled` does not say that a finalized task has no open step and no
unpaid release: TLC finds both violated, since a step that waits for its buyer does
not count as open. It says what remains true: every step that no finalization passed
over in that state has ended, and the releases left unpaid are no more than the
steps passed over. Which ones they are is not said, for the count of payments may
be made up by that of a step passed over.

`StoredIsPrefix` and `MirrorExact` are qualified by `configured`: a fresh
deployment without a start ledger begins at the latest ledger, and one that
crashes before it has saved its first cursor begins later still.

**Fairness.** Vault, sessions and private lanes assume none: these are safety
properties, and a user is never obliged to call a contract. `Settlement`: weak
fairness of each execution's next step (Node runs what is ready; a transaction
lands, or its caller stops polling after 30 tries), of handing a waiting job to a
free worker and of the failed handler (BullMQ), of accepting a held step (its
window has a delayed job) and of the end of a dead holder's lease (Redis).
`Executor`: weak fairness of the task execution, of each poll execution, of
taking a step's waiting poll, of each timer and settlement (BullMQ promotes
delayed jobs), and of the passing of the deadline (time). `Indexer`: weak fairness
of each process's loop, which has no exit. Nothing is assumed of crashes, faults,
abandoned transactions, providers' choices, owners or buyers.

### Disagreements with what the code says of itself

Two have a run:

- `LockNeverStranded` (`executor_reenqueue`): the re-enqueue after a poll is
  dropped while the finished job is retained under the same id, so a polled step
  that fails leaves the budget locked (`queue.ts` 80 against `executor.ts` 620-622).
- `GlobalApplies` (`private_global`): a batch release does not read the global
  commitment (`lib.rs` 2276 against 3384-3386).

The others were met while modelling and are described here only:

- `register_orchestrator` overwrites the reverse lookup of a user who registered
  the same orchestrator before (`lib.rs` 1643 against the comments at 564 and
  4181). What remains true is `LookupSound`.
- `NON_TERMINAL_STEP` omits `INPUT_REQUIRED` (`settlement.ts` 674 against 677): a
  task with a step that waits for the buyer is finalized, and should a poll under
  way still release that step, nothing is left to pay it from. The same omission completes a task without a lock (`executor.ts` 897-909,
  `tasks.service.ts` 479-492). If either happens while the executor still walks,
  its outcome overwrites COMPLETED (573-574), and a step whose polls came in between
  and found the task over (647-648) stays parked in a live task. That takes two
  steps, of which one is released while the run still goes: TLC finds it when
  `ParkedEnds` is asked of two steps.
- A step is said to be never executed twice (`executor.ts` 419-420), and one that is
  RUNNING "with a provider handle" to be left to its polls (455-457). A question may
  be parked without a handle (383) and its answer be taken up without one (735): the
  step is then RUNNING without a handle, and a second run of the task job dispatches
  it again (458). `RecordedNotRedone` names the exception.
- A dispatch that fails is not marked in the run's own copy (`executor.ts` 490-498,
  554-567, against 239-240 for a delivery), so that later steps that depend on it
  stay PENDING (484-487), while the task becomes FAILED and is never run again.
  `finalizeTaskIfComplete` counts a PENDING step as open, and the budget stays
  locked, where the comment at 577-579 has it "unlocked instead of stranded".
- A settlement that exhausts its attempts marks the task FAILED since "the step
  will never pay" (`index.ts` 185, 193), while its last transaction may land.
- The sweep's check that no row references a vault task is made outside the lock
  (`settlement.ts` 815 against 813).
- `finalizeTaskIfComplete` decides on COMPLETED from a status it read before its
  chain call (`settlement.ts` 734 against 731), and `executeTask` writes its
  outcome over whatever the row holds (`executor.ts` 574). Of a hire that was
  completed while a step waited for its buyer, that write can make a running one
  again whose step no poll is left for.
- Overlapping polls of one step are said to be harmless (`queue.ts` 187-192);
  they can take back a resolved status or an answer.
- An open dispute stops neither a poll nor the task job: nothing writes
  `TaskStatus.DISPUTED`, which both test (`executor.ts` 648-654).
- A batch whose release timed out and landed is recorded FAILED with the comment
  that the funds were rolled back (`settlement.ts` 470-472), and a stalled job
  that runs again can lock twice (599-601 says never).
- The mirror's `available` is said to match what withdraw enforces
  (`indexer.ts` 19-22); it does until a session or keyless release or a resolved
  dispute.
- A client that timed out and tries again pays again: every try has fresh
  nullifiers.

## Proofs

`TaskEscrowProofs` proves, for every value of the constants that satisfies
`LedgerAssumption` and `EscrowAssumption`:

- `TypeCorrect`: `Spec => []TypeOK`, one lemma per action.
- `LookupIsSound`: inductive on its own given `TypeOK`; the case that matters is
  `UpdateOrchestrator`, which clears the old entry before it writes the new one.
- `NeverOverdrawn`: `NoOverdraft` is not inductive, since finalizing a task
  lowers `locked` and `balance` by different amounts. What makes it so is that
  `planCost - spent` of a task that is being closed is not negative, so available
  can only grow; that per-task bound is the second conjunct.
- `HistoryAlwaysBounded`: needs the same per-task bound, for `ResolveDispute`.
- `AlwaysProofGated`: an action property, from `TypeOK`, by cases on the action.
- `BooksImplemented`: the initial states map to initial states of `FundsEscrow`
  and each action to the transition it is named after, or to a stutter.

`SumProofs` holds the facts about `SumFunctionOnSet` of the community module
`Functions`: the sum over the empty set is 0; one term more, less or changed adds,
takes away or moves the sum by that term; terms that stay leave it as it was; larger
terms have the larger sum; a sum by parts is the sum over their union. Such
facts go by induction on the set, and the library's induction theorems take the
statement as an operator, which the provers cannot instantiate. The proofs argue
from a smallest counterexample instead: a family of finite subsets that is not empty
has a member none of whose proper subsets is in the family (`SmallestSet`, from the
well-foundedness of the strict-subset order), and a definition by recursion on sets
is shown to have exactly one solution that way (`AddsAgree`, `AddsExists`).

`SolvencyProofs`, from the same assumptions and `FiniteAssumption`: addresses, step
ids and nullifiers are values of a fixed width, so there are finitely many of each
and the sums are defined.

- `AlwaysSolvent` (`Solvency`). Inductive given `TypeOK`, by the accounting of each
  call: a deposit or withdrawal moves one balance and the held tokens; a release
  moves the tokens and one active task's `spent`; an end charges what the task spent
  and takes its term out of the sum; a fee moves from a balance to the accrued fees.
- `LocksAlwaysMatch` (`LocksMatchTasks`). Only creating a task and ending one touch a
  lock, and each adds or removes exactly one term; the counter of active tasks is the
  size of the same set.
- `AlwaysCovered` (`Covered`, which follows from `Solvency`, `LocksMatchTasks` and
  `NoOverdraft`): the tokens held are what all owners can withdraw now, what all
  active tasks may still release, and the fees, together. The actions have no guard
  for the token's own transfer, which fails when the contract holds too little; this
  is why they need none. The one step that is not arithmetic is that the locks of all
  owners add up to the reservations of all tasks, since each task has one owner
  (`SumParts`).
- `NeverStranded` (`NotStranded`) rests on that counter: `update_orchestrator` tests
  the counter, and only because it is the number of active tasks does a zero mean
  that no task names the old orchestrator. A new task starts out right by
  `LookupIsSound`: the user it is charged to is the one who registered its caller.
- `StepsAlwaysAccount` (`StepsAccountForSpent`): a release writes one step's record,
  from 0 to the amount, and adds it to `spent`; a gated one consumes a nullifier the
  task has not consumed, so the two cardinalities rise together.

`SessionLaneProofs`, from `SessionAssumption`:

- `TypeCorrect`.
- `GlobalAlwaysBinds`: the action property that no payment passes the account's
  global rule, by cases on the action.
- `BudgetAlwaysKept`: `RuleBudget` counts windows, and a window's usage says
  nothing about the ones before it. The invariant `Budgeted(r, n)` adds, for the
  number `n` of windows a rule has opened, that its tally is at most what the
  current window has used plus `n` full caps, and that the window's anchor lies at
  least `n - 1` windows after the first payment.

`ExecutorProofs`, from `ExecutorAssumption`:

- `TypeCorrect`.
- `OnlyEarnedIsPaid` (`PaidForDelivery`) and `DependentsAlwaysWait`: the
  permission to pay is followed from the provider's reply through the row to every
  place that holds a copy of it (the executor's own rows, a poll in progress, the
  timer, the settlement queue); `PayInv` says that each of them has it only if
  the step was delivered.
- `RecordedNeverRedone`: a step that the executor has yet to come to, and takes for
  one that never started, is still unstarted, although its copy is old (`RedoInv`):
  only a poll that awaits an answer, the timer or the buyer writes a row behind the
  executor's back, and none of them one that is unstarted. The proof leaves open
  what the property excepts: a copy that says RUNNING without a handle, and steps
  that two drove at once.
- `ParkedAlwaysPolled` and `NothingLeftBehind`, the safety half of `ParkedEnds`,
  `WindowEnds` and `ReleasedIsPaid`: a parked step has a poll that waits, runs or is
  about to be enqueued (`Parking`); an undisputed held delivery has its timer, or
  somebody about to schedule it (`Timed`); a released step of a locked hire has a
  settlement that waits, pays or has paid, or somebody about to request it
  (`Claimed`). `KeptInv` says all three of each step, with what the executor's copy
  and each poll in progress still owe it (`Due`). They are stated while `faults = 0`,
  since whoever crashes or uses up its attempts leaves what it owed undone; disputes,
  approvals, the eviction of a retained job and overlapping polls are all in.
  Two qualifications are the code's own, and TLC shows each to be needed: a parked
  step can be left unpolled once its hire is completed (the write at `executor.ts`
  574), so `Parking` is about hires that are locked and not finalized; and two that
  drive one step at once can have a settlement skipped, so `NothingLeftBehind`
  leaves out their steps.

`IndexerProofs`, from `IndexerAssumption`:

- `TypeCorrect`; the invariant of the log (ids ascend, each event follows from
  the one before) is proved with it.
- `NothingSkipped` (`StoredIsPrefix`): neither a cursor nor a page in hand is past
  the events that are stored, which is why two processes that overtake each other
  leave no gap.
- `MirrorAlwaysExact`: the mirror reflects the last projected event, and a process
  in the middle of a page inserts only the one that follows what is stored.
- `MirrorNeverUnderstates`: a mirror that has caught up shows at least what the
  account holds, has locked and has available, and exactly what was deposited. With
  `MirrorAlwaysExact` it remains to show that what moves without a projected event
  only takes from the account (`DriftInv`), also where one resolved dispute lowers
  the lock and the balance by different amounts.

`SettlementProofs`, from `SignerAssumption` and `SettlementAssumption`:

- `TypeCorrect`; what it needs beyond `TypeOK` is that a job which waits or runs
  has an attempt left, and that a transaction somebody still waits for is the one
  its caller is at.
- `StepsPaidOnce`, `OrphansNeverPay` and `RowKeepsItsTask`, for a delegate lock whose
  lease does not lapse while it is held (`LeaseCanExpire = FALSE`; with `TRUE`, TLC
  finds each of them violated). The lock is held by exactly the execution that is in
  a section, unless the holder is gone; so nobody remembers another vault task than
  the row's, a lock is made only while the row has none, and whatever is paid, or may
  still be by a transaction left behind, is under the row's vault task.
- `RecordsAreTrue` and `NobodyWaitsForNothing`, whatever the lease does (`AnyLeaseInv`).
  An execution that is about to record has seen its release land, and a payment is
  never undone, so it does not matter who else holds the lock. A job that is being
  worked on has the execution that works on it, and a lock that is taken has a holder
  in its section or a lease that will end: the safety half of `JobsEnd`. A stalled job
  may be handed to another worker, so the invariant ties each active job to one
  worker, whose step it is (`JobsHaveWorkers`), and not each worker to a job.
- `FinalizationIsSound` (`FinalizedMeansSettled`), without an assumption on the
  steps. A worker settles a step only once it is released, and the recorded steps are
  among the released ones. A finalization that finds nothing open notes the steps it
  passes over while they wait for their buyer; all others have ended, and stay ended
  (`SettledStays`). If its count of payments reaches that of the released steps it
  saw, the payments are as many as the released steps that were not passed over
  (`CountSettles`), whatever is released later; so the releases left without a
  payment are no more than the steps passed over.

`PrivateLaneProofs`, from `PrivateAssumption`; its `TypeInv` (the shape of every
client, job, execution, request and transaction) is shown with the rest:

- `ProofsPayOnce`. Its invariant is about the requests that may still be paid, held
  by a client or in flight (`Live`): two of them with one id are the same; one that
  has been paid is dead, that is, out of its validity window or stopped by a
  nullifier that outlives that window; and no client returns to a group of a try it
  has left (`Behind`). A nullifier that lapses is harmless only because
  `MaxValidity < NullifierTtl`, which is the assumption the step `Tick` uses.
- `RateAlwaysBounded`: as in the session lane, what was paid under a rule is at most
  the stored accumulator and a full cap for each of `n` windows closed before. A
  payment may roll the accumulator because the proof binds the stored value and has
  been made with it, not because the prover read it recently.
- `RecordsAlwaysTrue`: a transaction somebody waits for is the one that caller has
  sent (`Tied`), so an execution past its release knows that it has paid. While
  nothing has gone wrong (`Calm`) a job has one execution, nobody else pays for it,
  and every open vault task is held by the execution that will close it; a vault
  that refuses to complete a task has closed it already, which is why the best-effort
  completion of the code is enough.

- `BooksAlwaysBalance` (`BooksBalance`). Whatever an action is, it either moves no
  money, lands one call the vault accepts, or closes an open task (`MoneyMoves`), and
  each of these changes one term of one sum. `BooksInv` adds what the subtraction of
  a close needs: a task has spent at most its budget, and the locked amount is at most
  the balance. Clients may try any number of times, so the identifiers that have
  been paid are not finitely many by type; that they are finitely many so far is
  part of the invariant. A transaction in flight names a vault task that exists
  (`RefInv`), since a lock that has landed is never undone.
- `EscrowImplemented`: these lanes keep the books of `FundsEscrow`, the specification
  `TaskEscrow` implements too, from the state right after the account's one deposit.
  A lock is its `Open`, a batch release its `Pay`, a completion or a sweep its
  `Return`, a keyless payment its `Debit`; every other step, of a client, a worker or
  the network, moves no money. The tokens are mapped to the funds less what payees
  received, and not to the balance, so that a balance and a payment that disagree
  would be no step of the books.
- `TypesAlwaysHold` (`TypeOK`) follows from those and from `SmallInv`, what is left:
  the clock, the anchors of the windows, the states of jobs and records.
- `ListsGoThrough` (`ListGoesThrough`, an action property). As long as the list's
  account is used by nobody else, what its browser holds is what the vault stores
  (`Knows`): its rule's accumulator, the global rule, and, in a request it has built,
  the accumulators the proof binds; its nullifiers are new, since a nullifier in
  use is one of a request that was paid (`UsedArePaid`). So the vault rebuilds the
  statement that was proved, and what may still refuse it is time or money.

What stays with TLC: `ExitAlwaysOpen`, which is about ENABLED, and every property
under fairness (`JobsEnd`, `SettledInPeace`, `ParkedEnds`, `WindowEnds`,
`ReleasedIsPaid`, `EventsAreStored`); the provers reach neither. For four of these
the safety half is proved: that at no time is everything that could still make
the awaited thing happen gone. For `EventsAreStored` that half is
`NothingSkipped`, and `SettledInPeace` has none beyond `NobodyWaitsForNothing`.
Every other property of a passing run is a theorem.

## Not modelled

The mapped lines are a small share of the repository, and further modelling would
not make them a large one: most of its 41,000 lines are pages and forms of the web
application, texts of its documentation, the assembly of transactions, database
queries without a second writer, and configuration. Left out:

- **`policy-verifier` and the circuits**: field arithmetic and pairings. What the
  rest of the code relies on, that a proof is accepted only for a statement that
  holds, is an assumption of `TaskEscrow` and `PrivateLane`; the clauses of the
  circuit that depend on the accumulator are guards of `PrivateLane`.
- **`registry`**: one record per agent, written by its owner; no interaction.
- **judge, webhooks, health and proof workers**: each writes one row of its own.
- **authentication, API keys, quotas**: rows with one writer per request; the
  rotation of refresh tokens is the part worth a model (see the plan).
- **reference provider, MCP server, the rest of the SDK and the web application**:
  keep no state that another process reads. A provider is modelled by its answers.
- **storage TTLs**, other than the nullifiers' in `PrivateLane`; the RPC's retention
  of events; a second execution of a stalled task job.

## Plan

What is left, in order:

1. `AgentVault`, the three lanes over one ledger, with `Solvency` over all of them:
   now each lane is checked against the part of the account it moves;
2. the rotation of refresh tokens under concurrent requests, and `createPayment`
   under a repeated idempotency key.
