----------------------------- MODULE PrivateLane ------------------------------
(***************************************************************************)
(* One account's private spending.  A pinned policy commitment stands for  *)
(* a hidden rule with a rolling cap; a client proves that a group of       *)
(* payouts keeps the rule, and the vault pays on the proof.  Two lanes do  *)
(* so: the keyless one (the browser and the SDK post to the API, whose     *)
(* relayer submits release_proved_keyless), and the batch one (a worker    *)
(* locks a vault task as the user's delegate, releases the whole group     *)
(* from it and completes it).  Both draw on one balance, one set of        *)
(* nullifiers and one accumulator per commitment.                          *)
(*                                                                         *)
(* A proof binds the accumulator its prover has read, so it verifies only  *)
(* while the vault still holds that value.  The reset flag and the cap are *)
(* the circuit's; here they are computed from what the proof binds.  The   *)
(* count window R7 is rolled exactly like the spend window R2 and is left  *)
(* out, as are fees.  A tick of the clock is longer than the hour by which *)
(* clients backdate valid_after.                                           *)
(***************************************************************************)
EXTENDS Naturals, Sequences, Functions

CONSTANTS
    Spends,        \* disbursements an agent or the owner makes
    Groups,        \* Groups[d]: the totals of its groups of at most 4 payouts
    Workers,       \* executions of the batch-settlement worker
    Rules,         \* policy commitments
    Plans,         \* the clients that may be: [Spends -> [kind, rule]]
    Cap, Window,   \* a rule's rolling cap, and the window of all of them
    Spans,         \* how far ahead valid_before may lie
    MaxValidity,   \* MAX_VALIDITY_SECS
    NullifierTtl,  \* PERSISTENT_TTL_EXTEND_TO
    Funds,         \* the account's deposit
    Tries,         \* how often the owner tries a list or a spend
    MaxTime, MaxTroubles,  \* bounds: ticks; faults and changes of the owner's mind
    None

ASSUME PrivateAssumption ==
    /\ Window \in Nat \ {0} /\ Tries \in [Spends -> Nat \ {0}]
    /\ {MaxTime, MaxTroubles, Funds, NullifierTtl, MaxValidity} \subseteq Nat
    /\ Spans \subseteq Nat
    /\ Groups \in [Spends -> Seq(Nat \ {0})] /\ \A d \in Spends : Groups[d] # <<>>
    /\ Cap \in [Rules -> Nat]
    /\ Plans \subseteq [Spends -> [kind : {"web", "sdk", "job"}, rule : Rules]]
    /\ MaxValidity < NullifierTtl
    /\ None \notin Rules \cup Spends \cup Workers \cup Nat /\ Spends \cap Workers = {}

VARIABLES
    now,
    balance, locked,   \* the account's UserAsset entry
    tasks,             \* vault tasks the batch lane created, by id
    accum,             \* DataKey::CommitmentAccum: spend window per commitment
    used,              \* DataKey::Nullifier entries and when they lapse
    pinned, global,    \* PolicyCommitments; GlobalCommitment of the lane
    client,            \* each disbursement, as its client sees it
    job, run,          \* the batch queue, and its worker's executions
    holder,            \* who holds the delegate's lock
    flight,            \* transactions sent and not yet landed
    record,            \* status of the activity row batch-<buyer>-<step>
    paid, tally,       \* history: payments per proof, spend per commitment
    faults, changes

chainVars == <<balance, locked, tasks, accum, used, paid, tally>>
ownerVars == <<pinned, global, changes>>
workerVars == <<job, run, holder, record>>
vars == <<now, chainVars, ownerVars, client, workerVars, flight, faults>>

Max2(a, b) == IF a > b THEN a ELSE b

-----------------------------------------------------------------------------
\* The rolling window, as policy_batch.circom computes it.

Resets(acc, va) == va >= acc.anchor + Window
Base(acc, va) == IF Resets(acc, va) THEN 0 ELSE acc.spent
Provable(r, acc, va, total) == Base(acc, va) + total <= Cap[r]

\* The accumulator after a verified batch.
Rolled(acc, q) ==
    [anchor |-> IF Resets(acc, q.va) THEN q.va ELSE acc.anchor,
     spent |-> Base(acc, q.va) + q.total]

\* Ledger time is far from 0, so the first batch of a commitment resets.
Start == Window
NoSpend == [anchor |-> 0, spent |-> 0]

-----------------------------------------------------------------------------
\* Proofs and the vault's answer to them.  A request holds a proof under its
\* rule and, if glob is a rule, a second one under glob.  Nullifiers derive
\* from the commitment and a counter that no two requests share.

Ids == UNION {{<<d, k, t>> : k \in DOMAIN Groups[d], t \in 1..Tries[d]} : d \in Spends}
Nullifiers(q, rs) == {<<r, q.id>> : r \in rs}
Fresh(ns) == \A u \in used : u.nul \notin ns

\* Variant: the validity window may reach as far as the client likes.
InWindowUnbounded(q) == q.va <= now /\ now <= q.vb

InWindow(q) ==
    /\ q.va <= now /\ now <= q.vb
    /\ q.vb - now <= MaxValidity

\* Variant: what is locked may be spent.
AvailableGross == balance

Available == balance - locked

\* Variant: the prover's accumulator is taken at its word.
VerifiedBlindly(r, acc) == r \in Rules /\ acc.spent >= 0

\* verify_batch_proof: the public signals are rebuilt from the vault's own
\* accumulator.
Verified(r, acc) == accum[r] = acc

GlobalAccepts(q) ==
    global # None =>
        /\ q.glob = global
        /\ Fresh(Nullifiers(q, {global}))
        /\ Verified(global, q.gacc)

KeylessAccepts(q) ==
    /\ InWindow(q)
    /\ q.rule \in pinned
    /\ q.total <= Available
    /\ Fresh(Nullifiers(q, {q.rule}))
    /\ Verified(q.rule, q.acc)
    /\ GlobalAccepts(q)

\* Each batch task is made for one request and released at most once, so the
\* step record that would answer a replay is left out.
BatchAccepts(t, q) ==
    /\ InWindow(q)
    /\ tasks[t].open
    /\ tasks[t].spent + q.total <= tasks[t].budget
    /\ Fresh(Nullifiers(q, {q.rule}))
    /\ q.rule \in pinned
    /\ Verified(q.rule, q.acc)

Accepts(tx) ==
    CASE tx.op = "keyless" -> KeylessAccepts(tx.q)
      [] tx.op = "lock" -> tx.q.total <= Available
      [] tx.op = "release" -> BatchAccepts(tx.task, tx.q)
      [] tx.op = "complete" -> tasks[tx.task].open

\* record_nullifier.
Consume(ns) ==
    used' = used \cup {[nul |-> n, until |-> now + NullifierTtl] : n \in ns}

\* The accumulators are computed from the state before, and written primary
\* first; tally and paid are history.
Roll(q, rs) ==
    /\ accum' = [r \in Rules |-> IF r \in rs THEN Rolled(accum[r], q) ELSE accum[r]]
    /\ tally' = [r \in Rules |->
           IF r \notin rs THEN tally[r]
           ELSE [sum |-> tally[r].sum + q.total,
                 first |-> IF tally[r].sum = 0 THEN q.va ELSE tally[r].first,
                 last |-> Max2(tally[r].last, q.va)]]
    /\ paid' = [paid EXCEPT ![q.id] = @ + 1]

\* release_proved_keyless, after its checks.
PayKeyless(q) ==
    LET proven == {q.rule} \cup ({global} \ {None}) IN
    /\ Consume(Nullifiers(q, proven))
    /\ balance' = balance - q.total
    /\ Roll(q, proven)
    /\ UNCHANGED <<locked, tasks>>

\* create_task_with_policy, for plan_cost = the batch's total.
LockBudget(q) ==
    /\ tasks' = Append(tasks, [open |-> TRUE, budget |-> q.total, spent |-> 0, of |-> q.id])
    /\ locked' = locked + q.total
    /\ UNCHANGED <<balance, accum, used, paid, tally>>

\* release_payment_proved_batch, after its checks.
PayBatch(t, q) ==
    /\ Consume(Nullifiers(q, {q.rule}))
    /\ tasks' = [tasks EXCEPT ![t].spent = @ + q.total]
    /\ Roll(q, {q.rule})
    /\ UNCHANGED <<balance, locked>>

\* Variant: the whole budget leaves, spent or not.
CompleteTaskGross(t) ==
    /\ tasks' = [tasks EXCEPT ![t].open = FALSE]
    /\ locked' = locked - tasks[t].budget
    /\ balance' = balance - tasks[t].budget
    /\ UNCHANGED <<accum, used, paid, tally>>

\* complete_task.
CompleteTask(t) ==
    /\ tasks' = [tasks EXCEPT ![t].open = FALSE]
    /\ locked' = locked - tasks[t].budget
    /\ balance' = balance - tasks[t].spent
    /\ UNCHANGED <<accum, used, paid, tally>>

Apply(tx) ==
    \/ tx.op = "keyless" /\ PayKeyless(tx.q)
    \/ tx.op = "lock" /\ LockBudget(tx.q)
    \/ tx.op = "release" /\ PayBatch(tx.task, tx.q)
    \/ tx.op = "complete" /\ CompleteTask(tx.task)

-----------------------------------------------------------------------------
\* Transactions.  The relayer signs the keyless ones, the delegate the others.
\* All that a signer has in flight carry one sequence number, so one landing
\* kills the others.  A caller polls for 30 seconds a transaction that stays
\* valid for 120, and so may leave it behind (by = None).

Signer(tx) == IF tx.op = "keyless" THEN "relayer" ELSE "delegate"
SameSigner(tx) == {t \in flight : Signer(t) = Signer(tx)}
Waiting(w) == {tx \in flight : tx.by = w}
Abandon(w) == (flight \ Waiting(w)) \cup {[tx EXCEPT !.by = None] : tx \in Waiting(w)}

Submit(tx) == Accepts(tx) /\ flight' = flight \cup {tx} /\ UNCHANGED chainVars
Refused(tx) == ~Accepts(tx) /\ UNCHANGED <<flight, chainVars>>

Lands(w) ==
    \E tx \in Waiting(w) : Accepts(tx) /\ Apply(tx) /\ flight' = flight \ SameSigner(tx)
FailsOnChain(w) ==
    \E tx \in Waiting(w) :
        ~Accepts(tx) /\ flight' = flight \ SameSigner(tx) /\ UNCHANGED chainVars
Fault == faults + changes < MaxTroubles /\ faults' = faults + 1
GivesUp(w) == Fault /\ flight' = Abandon(w) /\ UNCHANGED chainVars

AbandonedLands ==
    /\ \E tx \in Waiting(None) :
        /\ IF Accepts(tx) THEN Apply(tx) ELSE UNCHANGED chainVars
        /\ flight' = flight \ SameSigner(tx)
    /\ UNCHANGED <<now, ownerVars, client, workerVars, faults>>
AbandonedExpires ==
    /\ \E tx \in Waiting(None) : flight' = flight \ {tx}
    /\ UNCHANGED <<now, chainVars, ownerVars, client, workerVars, faults>>

-----------------------------------------------------------------------------
\* Clients.  The browser ("web") proves group after group of a list; the SDK
\* ("sdk") proves one; a batch ("job") is proved once and queued.  Only the
\* browser looks up the account's global rule, the SDK has it configured, and
\* the batch lane has no field for it.

At(d, place) == client[d].at = place
Goto(d, place) == client' = [client EXCEPT ![d].at = place]
Total(d) == Groups[d][client[d].group]
First(kind) == IF kind = "web" THEN "start" ELSE "read"
NoRequest == [id |-> None]

Begin(plan, g) ==
    [kind |-> plan.kind, rule |-> plan.rule, at |-> First(plan.kind), group |-> 1, try |-> 1,
     glob |-> IF plan.kind = "sdk" THEN g ELSE None,
     acc |-> NoSpend, gacc |-> NoSpend, va |-> 0, q |-> NoRequest]

\* What a client leaves behind when it stops.
Ended(d, place) ==
    client' = [client EXCEPT ![d].at = place, ![d].acc = NoSpend,
                             ![d].gacc = NoSpend, ![d].va = 0, ![d].q = NoRequest]

clientOnly == <<now, chainVars, ownerVars, workerVars, flight>>

\* getGlobals.
ReadGlobals(d) ==
    /\ At(d, "start")
    /\ client' = [client EXCEPT ![d].glob = global, ![d].at = "read"]
    /\ UNCHANGED <<clientOnly, faults>>

AfterRead(d) == IF client[d].glob = None THEN "prove" ELSE "readGlobal"

\* The rule's accumulator.  The SDK proves under the rule at once, so the
\* validity window starts here; it stops early if the rule is not pinned.
ReadAccumulator(d) ==
    /\ At(d, "read")
    /\ IF client[d].kind = "sdk" /\ client[d].rule \notin pinned
       THEN Ended(d, "failed")
       ELSE client' = [client EXCEPT ![d].acc = accum[client[d].rule],
                                     ![d].va = IF @ = 0 /\ client[d].kind = "sdk" THEN now ELSE @,
                                     ![d].at = AfterRead(d)]
    /\ UNCHANGED <<clientOnly, faults>>

\* In the browser a read that fails counts as an accumulator of zeros.
ReadFails(d) ==
    /\ client[d].kind = "web"
    /\ Fault
    /\ \/ At(d, "read") /\ Goto(d, AfterRead(d))
       \/ At(d, "readGlobal") /\ Goto(d, "prove")
    /\ UNCHANGED clientOnly

ReadGlobalAccumulator(d) ==
    /\ At(d, "readGlobal")
    /\ client' = [client EXCEPT ![d].gacc = accum[client[d].glob], ![d].at = "prove"]
    /\ UNCHANGED <<clientOnly, faults>>

\* The circuit has no witness for a group that breaks a rule.
Prove(d) ==
    LET c == client[d]
        va == IF c.kind = "sdk" THEN c.va ELSE now
        keeps == /\ Provable(c.rule, c.acc, va, Total(d))
                 /\ c.glob # None => Provable(c.glob, c.gacc, va, Total(d))
    IN
    /\ At(d, "prove")
    /\ IF keeps
       THEN \E span \in Spans :
              client' = [client EXCEPT ![d].at = "post",
                  ![d].q = [id |-> <<d, c.group, c.try>>, total |-> Total(d),
                            va |-> va, vb |-> va + span, rule |-> c.rule, acc |-> c.acc,
                            glob |-> c.glob, gacc |-> c.gacc]]
       ELSE Ended(d, "failed")
    /\ UNCHANGED <<clientOnly, faults>>

\* The API's relayer submits one transaction at a time.
RelayerFree == \A tx \in flight : Signer(tx) = "relayer" => tx.by = None
KeylessTx(d) == [op |-> "keyless", by |-> d, task |-> 0, q |-> client[d].q]

Relay(d) ==
    /\ At(d, "post") /\ client[d].kind # "job"
    /\ RelayerFree
    /\ \/ Submit(KeylessTx(d)) /\ Goto(d, "sent")
       \/ Refused(KeylessTx(d)) /\ Ended(d, "failed")
    /\ UNCHANGED <<now, ownerVars, workerVars, faults>>

\* Variant: the windows are left as they were read.
AdvancedUnrolled(d) ==
    IF client[d].group < Len(Groups[d])
    THEN client' = [client EXCEPT ![d].group = @ + 1, ![d].at = "prove", ![d].q = NoRequest]
    ELSE Ended(d, "done")

\* The reply carries a transaction hash: the browser rolls the windows it has
\* read by itself and proves the next group.
Advanced(d) ==
    LET c == client[d] IN
    IF c.group < Len(Groups[d])
    THEN client' = [client EXCEPT ![d].group = @ + 1, ![d].at = "prove", ![d].q = NoRequest,
             ![d].acc = Rolled(c.acc, c.q),
             ![d].gacc = IF c.glob = None THEN @ ELSE Rolled(c.gacc, c.q)]
    ELSE Ended(d, "done")

ReplyPaid(d) ==
    /\ At(d, "sent")
    /\ Lands(d)
    /\ Advanced(d)
    /\ UNCHANGED <<now, ownerVars, workerVars, faults>>

ReplyFailed(d) ==
    /\ At(d, "sent")
    /\ FailsOnChain(d)
    /\ Ended(d, "failed")
    /\ UNCHANGED <<now, ownerVars, workerVars, faults>>

\* "timed out": the client learns of a failure that may yet land.
ReplyTimesOut(d) ==
    /\ At(d, "sent")
    /\ GivesUp(d)
    /\ Ended(d, "failed")
    /\ UNCHANGED <<now, ownerVars, workerVars>>

\* The owner tries the whole list again, with new proofs.
TryAgain(d) ==
    /\ At(d, "failed") /\ client[d].kind # "job"
    /\ client[d].try < Tries[d]
    /\ client' = [client EXCEPT ![d].try = @ + 1, ![d].group = 1,
                                ![d].at = First(client[d].kind)]
    /\ UNCHANGED <<clientOnly, faults>>

NoJob == [state |-> "none", by |-> None, stalls |-> 0]

\* POST batch-release-proved.
Enqueue(d) ==
    /\ At(d, "post") /\ client[d].kind = "job"
    /\ Goto(d, "queued")
    /\ job' = [job EXCEPT ![d].state = "waiting"]
    /\ UNCHANGED <<now, chainVars, ownerVars, run, holder, record, flight, faults>>

-----------------------------------------------------------------------------
\* The batch worker: settleBatch, under the delegate's lock.

Idle == [at |-> "idle", of |-> None, task |-> 0]
RunAt(w, place) == run[w].at = place
Request(w) == client[run[w].of].q
RunGoto(w, place) == run' = [run EXCEPT ![w].at = place]
runOnly == <<now, chainVars, ownerVars, client, record, flight, faults>>

Take(w, d) ==
    /\ RunAt(w, "idle")
    /\ job[d].state = "waiting"
    /\ job' = [job EXCEPT ![d].state = "active", ![d].by = w]
    /\ run' = [run EXCEPT ![w] = [Idle EXCEPT !.at = "enter", !.of = d]]
    /\ UNCHANGED <<runOnly, holder>>

Enter(w) ==
    /\ RunAt(w, "enter")
    /\ holder = None
    /\ holder' = w
    /\ RunGoto(w, "lock")
    /\ UNCHANGED <<runOnly, job>>

LockTx(w) == [op |-> "lock", by |-> w, task |-> 0, q |-> Request(w)]
ReleaseTx(w) == [op |-> "release", by |-> w, task |-> run[w].task, q |-> Request(w)]
CompleteTx(w) == [op |-> "complete", by |-> w, task |-> run[w].task, q |-> Request(w)]

\* A call of submitDelegateCall: where execution w goes when it is sent, lands,
\* and when it throws.
Call(w, place, tx, sent, ok, error) ==
    \/ RunAt(w, place) /\ Submit(tx) /\ RunGoto(w, sent) /\ UNCHANGED <<holder, faults>>
    \/ RunAt(w, place) /\ Refused(tx) /\ error /\ UNCHANGED faults
    \/ RunAt(w, sent) /\ Lands(w) /\ ok /\ UNCHANGED faults
    \/ RunAt(w, sent) /\ FailsOnChain(w) /\ error /\ UNCHANGED faults
    \/ RunAt(w, sent) /\ GivesUp(w) /\ error

On(w, place) == RunGoto(w, place) /\ UNCHANGED holder
Leaving(w, place) == RunGoto(w, place) /\ holder' = None

LockBatch(w) ==
    /\ Call(w, "lock", LockTx(w), "locking",
            /\ run' = [run EXCEPT ![w].at = "release", ![w].task = Len(tasks) + 1]
            /\ UNCHANGED holder,
            Leaving(w, "failed"))
    /\ UNCHANGED <<now, ownerVars, client, job, record>>

\* Variant: a release that failed leaves its task locked.
ReleaseBatchOnly(w) ==
    /\ Call(w, "release", ReleaseTx(w), "releasing", On(w, "complete"), Leaving(w, "failed"))
    /\ UNCHANGED <<now, ownerVars, client, job, record>>

ReleaseBatch(w) ==
    /\ Call(w, "release", ReleaseTx(w), "releasing", On(w, "complete"), On(w, "rollback"))
    /\ UNCHANGED <<now, ownerVars, client, job, record>>

\* Both completions are best effort.
FinishBatch(w) ==
    /\ Call(w, "complete", CompleteTx(w), "completing", Leaving(w, "settled"), Leaving(w, "settled"))
    /\ UNCHANGED <<now, ownerVars, client, job, record>>

RollBack(w) ==
    /\ Call(w, "rollback", CompleteTx(w), "rolling", Leaving(w, "failed"), Leaving(w, "failed"))
    /\ UNCHANGED <<now, ownerVars, client, job, record>>

\* recordBatchActivity, and the job ends: a failure is not retried.
Record(w) ==
    LET d == run[w].of IN
    /\ run[w].at \in {"settled", "failed"}
    /\ record' = [record EXCEPT ![d] = IF RunAt(w, "settled") THEN "COMPLETED" ELSE "FAILED"]
    /\ job' = IF job[d].by = w THEN [job EXCEPT ![d].state = "done", ![d].by = None] ELSE job
    /\ run' = [run EXCEPT ![w] = Idle]
    /\ UNCHANGED <<now, chainVars, ownerVars, client, holder, flight, faults>>

\* A job whose worker is gone, or too slow to renew it, is handed out again,
\* once.
Requeued(d) ==
    [job[d] EXCEPT !.by = None, !.stalls = 1,
                   !.state = IF job[d].stalls = 0 THEN "waiting" ELSE "failed"]

Crash(w) ==
    /\ ~RunAt(w, "idle")
    /\ Fault
    /\ LET d == run[w].of IN
       job' = IF job[d].by = w THEN [job EXCEPT ![d] = Requeued(d)] ELSE job
    /\ run' = [run EXCEPT ![w] = Idle]
    /\ holder' = IF holder = w THEN None ELSE holder
    /\ flight' = Abandon(w)
    /\ UNCHANGED <<now, chainVars, ownerVars, client, record>>

Stall(d) ==
    /\ job[d].state = "active"
    /\ Fault
    /\ job' = [job EXCEPT ![d] = Requeued(d)]
    /\ UNCHANGED <<now, chainVars, ownerVars, client, run, holder, record, flight>>

\* recoverOrphanLocks completes vault tasks that no row references; a batch's
\* row never does.
Sweep(t) ==
    /\ holder = None
    /\ tasks[t].open
    /\ CompleteTask(t)
    /\ flight' = {tx \in flight : Signer(tx) = "relayer"}
    /\ UNCHANGED <<now, ownerVars, client, workerVars, faults>>

-----------------------------------------------------------------------------
\* The owner's wallet, and time.  Pinning again undoes a change and is not counted.

Change == faults + changes < MaxTroubles /\ changes' = changes + 1
ownerOnly == <<now, chainVars, client, workerVars, flight, faults>>

Pin(r) == r \notin pinned /\ pinned' = pinned \cup {r} /\ UNCHANGED <<ownerOnly, global, changes>>
Unpin(r) == r \in pinned /\ Change /\ pinned' = pinned \ {r} /\ UNCHANGED <<ownerOnly, global>>
SetGlobal(r) == global # r /\ Change /\ global' = r /\ UNCHANGED <<ownerOnly, pinned>>
ClearGlobal == global # None /\ Change /\ global' = None /\ UNCHANGED <<ownerOnly, pinned>>

\* A nullifier's entry lapses with its lease on storage.
Tick ==
    /\ now < Start + MaxTime
    /\ now' = now + 1
    /\ used' = {u \in used : u.until >= now'}
    /\ UNCHANGED <<balance, locked, tasks, accum, paid, tally, ownerVars, client,
                   workerVars, flight, faults>>

Init ==
    /\ now = Start
    /\ balance = Funds /\ locked = 0
    /\ tasks = <<>>
    /\ accum = [r \in Rules |-> NoSpend]
    /\ used = {}
    /\ pinned = Rules
    /\ global \in Rules \cup {None}
    /\ \E plan \in Plans : client = [d \in Spends |-> Begin(plan[d], global)]
    /\ job = [d \in Spends |-> NoJob]
    /\ run = [w \in Workers |-> Idle]
    /\ holder = None
    /\ flight = {}
    /\ record = [d \in Spends |-> "none"]
    /\ paid = [i \in Ids |-> 0]
    /\ tally = [r \in Rules |-> [sum |-> 0, first |-> 0, last |-> 0]]
    /\ faults = 0 /\ changes = 0

ClientStep(d) ==
    \/ ReadGlobals(d) \/ ReadAccumulator(d) \/ ReadFails(d) \/ ReadGlobalAccumulator(d)
    \/ Prove(d) \/ Relay(d) \/ ReplyPaid(d) \/ ReplyFailed(d) \/ ReplyTimesOut(d)
    \/ TryAgain(d) \/ Enqueue(d)

WorkerStep(w) ==
    \/ \E d \in Spends : Take(w, d)
    \/ Enter(w) \/ LockBatch(w) \/ ReleaseBatch(w) \/ FinishBatch(w) \/ RollBack(w)
    \/ Record(w) \/ Crash(w)

Next ==
    \/ \E d \in Spends : ClientStep(d) \/ Stall(d)
    \/ \E w \in Workers : WorkerStep(w)
    \/ \E t \in 1..Len(tasks) : Sweep(t)
    \/ \E r \in Rules : Pin(r) \/ Unpin(r) \/ SetGlobal(r)
    \/ ClearGlobal \/ Tick
    \/ AbandonedLands \/ AbandonedExpires

Spec == Init /\ [][Next]_vars

-----------------------------------------------------------------------------
TaskIds == DOMAIN tasks
OpenTasks == {t \in TaskIds : tasks[t].open}
Budgets == [t \in TaskIds |-> tasks[t].budget]
SpentOf == [t \in TaskIds |-> tasks[t].spent]
PaidIds == {i \in Ids : paid[i] > 0}
Payouts == [i \in Ids |-> paid[i] * Groups[i[1]][i[2]]]
JobId(d) == <<d, 1, 1>>

\* The books, the windows and the records keep their types; what is locked
\* never exceeds the balance.
TypeOK ==
    /\ now \in Start..(Start + MaxTime)
    /\ {balance, locked} \subseteq 0..Funds /\ locked <= balance
    /\ \A t \in TaskIds : tasks[t].spent \in 0..tasks[t].budget
    /\ \A r \in Rules : accum[r].spent \in 0..Cap[r] /\ accum[r].anchor <= now
    /\ pinned \subseteq Rules /\ global \in Rules \cup {None}
    /\ \A d \in Spends :
          /\ client[d].at \in {"start", "read", "readGlobal", "prove", "post", "sent",
                               "queued", "done", "failed"}
          /\ job[d].state \in {"none", "waiting", "active", "done", "failed"}
          /\ record[d] \in {"none", "COMPLETED", "FAILED"}
    /\ \A w \in Workers : run[w].task \in {0} \cup TaskIds
    /\ holder \in Workers \cup {None}
    /\ faults \in Nat /\ changes \in Nat /\ faults + changes <= MaxTroubles

\* Both lanes keep one set of books: what is locked is what the open batch
\* tasks reserve, and the balance is the deposit less every payout, those of
\* open tasks apart, whatever calls land, fail, time out or land late.
BooksBalance ==
    /\ locked = SumFunctionOnSet(Budgets, OpenTasks)
    /\ balance + SumFunctionOnSet(Payouts, PaidIds) = Funds + SumFunctionOnSet(SpentOf, OpenTasks)

\* One proof moves money at most once, in either lane, also if its transaction
\* lands after its sender gave up or is retried by a second execution of its
\* job.  Its nullifier may lapse with its storage, but never while the proof
\* is in its validity window.
ProofPaysOnce ==
    /\ \A i \in Ids : paid[i] <= 1
    /\ \A d \in Spends : LET q == client[d].q IN
          q # NoRequest /\ paid[q.id] > 0 => now > q.vb \/ ~Fresh(Nullifiers(q, {q.rule}))

\* All that is paid under a rule in any stretch of time fits its rolling cap
\* once per window begun, whichever lanes and clients pay concurrently from
\* accumulators they read earlier.
RateBounded ==
    \A r \in Rules : LET t == tally[r] IN
        t.sum > 0 => t.sum <= Cap[r] * (1 + (t.last - t.first) \div Window)

\* A batch recorded as completed has paid; without faults one recorded as
\* failed has not, and no finished job leaves a budget locked.
RecordTellsTruth ==
    \A d \in Spends :
        /\ record[d] = "COMPLETED" => paid[JobId(d)] = 1
        /\ faults = 0 /\ record[d] = "FAILED" => paid[JobId(d)] = 0
        /\ faults = 0 /\ job[d].state = "done" =>
              \A t \in OpenTasks : tasks[t].of # JobId(d)

\* Nobody else has used the account, and nothing went wrong.
Alone(d) ==
    /\ faults = 0 /\ changes = 0 /\ client[d].try = 1
    /\ tasks = <<>>
    /\ \A i \in Ids : i[1] # d => paid[i] = 0

\* A list whose account nobody else uses is refused part-way only when its
\* proof is out of its validity window or the money does not suffice: the
\* windows the browser rolls by itself are those the vault has stored.
ListGoesThrough ==
    [][\A d \in Spends :
         /\ At(d, "post") /\ client'[d].at = "failed"
         /\ client[d].kind = "web" /\ Alone(d)
         => ~InWindow(client[d].q) \/ client[d].q.total > Available]_vars

\* "The global applies to every spend in that lane" (set_global): a payment
\* made while the account has a global rule counts against it.  The batch
\* release consults only the task's own rule.
GlobalApplies ==
    [][paid' # paid /\ global # None => accum'[global] # accum[global]]_vars

=============================================================================
