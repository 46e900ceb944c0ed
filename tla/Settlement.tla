------------------------------ MODULE Settlement ------------------------------
(***************************************************************************)
(* The settlement workers, for one task of one user: a job per released    *)
(* step locks the task's budget on chain if nobody has, releases the       *)
(* step's payment, records it, and finalizes the task once every step is   *)
(* done.  The database, the chain and the job queue are three stores with  *)
(* no transaction over them: a job may stop between any two of its steps,  *)
(* run twice at once (a stalled job is handed out again while its first    *)
(* run still lives), or give up on a transaction that lands later.         *)
(*                                                                         *)
(* Each await of settleStep and finalizeTaskIfComplete that reads or       *)
(* writes a shared store is a step of its own; run[w].at names the next.   *)
(***************************************************************************)
EXTENDS DelegateSigner, FiniteSets

CONSTANTS
    Sweepers,        \* signers that run recoverOrphanLocks, not jobs
    OpenStatuses,    \* the statuses in which a step may start
    MaxAttempts,     \* attempts per settlement job (3 in the code)
    MaxStalls,       \* times a stalled job is handed out again (BullMQ: 1)
    MaxFaults        \* bound: crashes, errors, refusals and interventions

ASSUME SettlementAssumption ==
    /\ Sweepers \subseteq Signers
    /\ IsFiniteSet(Steps)
    /\ OpenStatuses \subseteq {"PENDING", "RUNNING", "AWAITING_APPROVAL", "INPUT_REQUIRED"}
    /\ MaxAttempts \in Nat \ {0}
    /\ MaxStalls \in Nat
    /\ MaxFaults \in Nat

VARIABLES
    taskStatus,   \* task.status
    vaultTaskId,  \* task.vaultTaskId
    finalized,    \* task.vaultFinalizedAt is set
    stepStatus,   \* taskStep.status
    recorded,     \* steps with a payment row settle-<step>
    job,          \* the settlement queue: settle-<step>
    run,          \* the executions of jobs and sweeps
    passed,       \* history: steps that waited for the buyer when a finalization
                  \* found nothing open
    faults

taskVars == <<taskStatus, vaultTaskId, finalized, passed>>
vars == <<signerVars, taskVars, stepStatus, recorded, job, run, faults>>

Workers == Signers \ Sweepers
NonTerminalStep == {"PENDING", "RUNNING", "AWAITING_APPROVAL"}
Released == {s \in Steps : stepStatus[s] = "RELEASED"}
Paid == {s \in Steps : \E v \in 1..Len(vault) : s \in vault[v].paid}

\* A job is handed to one worker at a time, by; a finished one is retained, so
\* its id stays taken.
Job == [state : {"none", "waiting", "active", "exhausted", "marking", "failed", "done"},
        by : Signers \cup {None}, attempts : 0..MaxAttempts, stalls : 0..MaxStalls]
NoJob == [state |-> "none", by |-> None, attempts |-> 0, stalls |-> 0]
Queued == [NoJob EXCEPT !.state = "waiting"]

\* An execution: what it does next, for which step, and what it read: seen is
\* vaultTaskId as read first (alreadyLocked), task the vault task it works on,
\* owed the released steps and status the task status finalization saw.
Places == {"idle", "read", "acquire", "fresh", "lock", "locking", "save",
           "release", "releasing", "record", "failCheck", "fail", "finRead",
           "finCount", "finAcquire", "complete", "completing", "finUpdate", "end"}
Execution == [at : Places, step : Steps \cup {None}, seen : TaskIds \cup {None},
              task : TaskIds \cup {None}, owed : SUBSET Steps,
              status : {"RUNNING", "COMPLETED", "FAILED", "none"}]
Idle == [at |-> "idle", step |-> None, seen |-> None, task |-> None,
         owed |-> {}, status |-> "none"]

\* createPayment stores a task with its steps released and queued, and leaves
\* the lock to the workers.  A hire is locked at creation; its steps are open or
\* released, and the executor may have completed it once all are released.
Payment == vault = <<>> /\ vaultTaskId = None /\ taskStatus = "RUNNING"
Hire ==
    /\ vault = <<[state |-> "open", paid |-> {}]>>
    /\ vaultTaskId = 1
    /\ taskStatus \in {"RUNNING", "COMPLETED"}

Init ==
    /\ stepStatus \in [Steps -> OpenStatuses \cup {"RELEASED"}]
    /\ job = [s \in Steps |-> IF stepStatus[s] = "RELEASED" THEN Queued ELSE NoJob]
    /\ Payment \/ Hire
    /\ Released = Steps \/ (Hire /\ taskStatus = "RUNNING")
    /\ finalized = FALSE
    /\ recorded = {} /\ passed = {}
    /\ inFlight = {}
    /\ holder = None
    /\ orphaned = FALSE
    /\ run = [w \in Signers |-> Idle]
    /\ faults = 0

-----------------------------------------------------------------------------
\* Moving one execution.

At(w, place) == run[w].at = place
Goto(w, place) == run' = [run EXCEPT ![w].at = place]
Stop(w) == run' = [run EXCEPT ![w] = Idle]
Fault == faults < MaxFaults /\ faults' = faults + 1

\* The queue's view of an execution that ends: only the one the job was last
\* handed to counts.
JobOf(w) == job[run[w].step]
SetJob(w, j) ==
    job' = IF JobOf(w).by = w THEN [job EXCEPT ![run[w].step] = j] ELSE job

JobDone(w) == SetJob(w, [JobOf(w) EXCEPT !.state = "done", !.by = None])

\* Variant: the job is retried as often as it throws.
JobThrowsEndlessly(w) ==
    SetJob(w, [JobOf(w) EXCEPT !.by = None, !.attempts = @ + 1, !.state = "waiting"])

\* Throwing: the job is retried until its attempts are used up.
JobThrows(w) ==
    SetJob(w, [JobOf(w) EXCEPT
        !.by = None, !.attempts = @ + 1,
        !.state = IF JobOf(w).attempts + 1 = MaxAttempts
                  THEN "exhausted" ELSE "waiting"])

-----------------------------------------------------------------------------
\* settleStep.

\* A free worker takes a waiting job.
Take(w, s) ==
    /\ At(w, "idle")
    /\ job[s].state = "waiting"
    /\ job' = [job EXCEPT ![s].state = "active", ![s].by = w]
    /\ run' = [run EXCEPT ![w] = [Idle EXCEPT !.at = "read", !.step = s]]
    /\ UNCHANGED <<signerVars, taskVars, stepStatus, recorded, faults>>

\* The task row is read, then the payment row (no later read can miss a row an
\* earlier one saw, so one step does for both): a step that was paid before goes
\* straight to finalization.
ReadStep(w) ==
    /\ At(w, "read")
    /\ run' = [run EXCEPT
         ![w].seen = vaultTaskId,
         ![w].at = IF run[w].step \in recorded THEN "finRead" ELSE "acquire"]
    /\ UNCHANGED <<signerVars, taskVars, stepStatus, recorded, job, faults>>

EnterSection(w) ==
    /\ At(w, "acquire")
    /\ Acquire(w)
    /\ run' = [run EXCEPT
         ![w].task = run[w].seen,
         ![w].at = IF run[w].seen = None THEN "fresh" ELSE "release"]
    /\ UNCHANGED <<vault, inFlight, taskVars, stepStatus, recorded, job, faults>>

\* Variant: what was read before the lock was taken is trusted.
FreshReadSkipped(w) ==
    /\ At(w, "fresh")
    /\ Goto(w, "lock")
    /\ UNCHANGED <<signerVars, taskVars, stepStatus, recorded, job, faults>>

\* Inside the section vaultTaskId is read again.
FreshRead(w) ==
    /\ At(w, "fresh")
    /\ run' = [run EXCEPT
         ![w].task = vaultTaskId,
         ![w].at = IF vaultTaskId = None THEN "lock" ELSE "release"]
    /\ UNCHANGED <<signerVars, taskVars, stepStatus, recorded, job, faults>>

SubmitLock(w) ==
    /\ At(w, "lock")
    /\ Submit(LockTx(w))
    /\ Goto(w, "locking")
    /\ UNCHANGED <<holder, orphaned, taskVars, stepStatus, recorded, job, faults>>

\* Variant: the id of the vault task is not saved.
LockLandsUnsaved(w) ==
    /\ At(w, "locking")
    /\ Lands(w)
    /\ run' = [run EXCEPT ![w].task = Len(vault) + 1, ![w].at = "release"]
    /\ UNCHANGED <<holder, orphaned, taskVars, stepStatus, recorded, job, faults>>

LockLands(w) ==
    /\ At(w, "locking")
    /\ Lands(w)
    /\ run' = [run EXCEPT ![w].task = Len(vault) + 1, ![w].at = "save"]
    /\ UNCHANGED <<holder, orphaned, taskVars, stepStatus, recorded, job, faults>>

SaveLock(w) ==
    /\ At(w, "save")
    /\ vaultTaskId' = run[w].task
    /\ Goto(w, "release")
    /\ UNCHANGED <<signerVars, taskStatus, finalized, passed, stepStatus, recorded, job, faults>>

SubmitRelease(w) ==
    /\ At(w, "release")
    /\ Submit(ReleaseTx(w, run[w].task, run[w].step))
    /\ Goto(w, "releasing")
    /\ UNCHANGED <<holder, orphaned, taskVars, stepStatus, recorded, job, faults>>

\* Variant: without waiting for the transaction.
ReleaseUnawaited(w) ==
    /\ At(w, "releasing")
    /\ Leave(w)
    /\ Goto(w, "record")
    /\ UNCHANGED <<vault, inFlight, taskVars, stepStatus, recorded, job, faults>>

ReleaseLands(w) ==
    /\ At(w, "releasing")
    /\ Lands(w)
    /\ Leave(w)
    /\ Goto(w, "record")
    /\ UNCHANGED <<taskVars, stepStatus, recorded, job, faults>>

\* payment.create; a row that exists already (P2002) is a benign race.
Record(w) ==
    /\ At(w, "record")
    /\ recorded' = recorded \cup {run[w].step}
    /\ Goto(w, "finRead")
    /\ UNCHANGED <<signerVars, taskVars, stepStatus, job, faults>>

\* The vault refuses the lock or the release, for the task's state or for its
\* other rules (a commitment unpinned, a budget exceeded, a pause).  Without a
\* lock the task can never settle, so it is to be failed; otherwise it is left
\* as it is.
RejectedByVault(w) ==
    /\ \/ At(w, "lock") /\ Refused(LockTx(w)) /\ UNCHANGED faults
       \/ /\ At(w, "release")
          /\ Refused(ReleaseTx(w, run[w].task, run[w].step))
          /\ UNCHANGED faults
       \/ (At(w, "lock") \/ At(w, "release")) /\ Fault /\ UNCHANGED <<vault, inFlight>>
       \/ (At(w, "locking") \/ At(w, "releasing")) /\ FailsOnChain(w) /\ UNCHANGED faults
    /\ Leave(w)
    /\ Goto(w, IF run[w].seen = None THEN "failCheck" ELSE "finRead")
    /\ UNCHANGED <<taskVars, stepStatus, recorded, job>>

FailCheck(w) ==
    /\ At(w, "failCheck")
    /\ Goto(w, IF vaultTaskId = None THEN "fail" ELSE "finRead")
    /\ UNCHANGED <<signerVars, taskVars, stepStatus, recorded, job, faults>>

FailTask(w) ==
    /\ At(w, "fail")
    /\ \/ taskStatus' = "FAILED" /\ UNCHANGED faults
       \/ Fault /\ UNCHANGED taskStatus
    /\ Goto(w, "finRead")
    /\ UNCHANGED <<signerVars, vaultTaskId, finalized, passed, stepStatus, recorded, job>>

\* Everything else that goes wrong is transient: the job throws.
Breakable == {"read", "acquire", "fresh", "lock", "locking", "save", "release",
              "releasing", "record", "failCheck", "finRead", "finCount", "finUpdate"}

Abort(w) ==
    /\ GivesUp(w)
    /\ Leave(w)
    /\ JobThrows(w)
    /\ Stop(w)
    /\ UNCHANGED <<taskVars, stepStatus, recorded>>

\* Variant: no limit on the time spent waiting.
ThrowsOnFault(w) ==
    /\ run[w].at \in Breakable
    /\ Fault
    /\ Abort(w)

\* Nobody waits for ever: a caller whose transaction is dead times out, and so
\* may one that waits for a lock its holder took to the grave.
Throws(w) ==
    /\ run[w].at \in Breakable
    /\ \/ Fault
       \/ At(w, "acquire") /\ orphaned /\ UNCHANGED faults
       \/ (At(w, "locking") \/ At(w, "releasing")) /\ Waiting(w) = {} /\ UNCHANGED faults
    /\ Abort(w)

-----------------------------------------------------------------------------
\* finalizeTaskIfComplete, which every job runs at its end.

\* The task and its steps are read at once.  A step in INPUT_REQUIRED does not
\* count as open.
Due ==
    /\ vaultTaskId # None
    /\ ~finalized
    /\ \A s \in Steps : stepStatus[s] \notin NonTerminalStep
Asking == {s \in Steps : stepStatus[s] = "INPUT_REQUIRED"}

FinRead(w) ==
    /\ At(w, "finRead")
    /\ run' = [run EXCEPT ![w] =
         IF Due THEN [@ EXCEPT !.at = "finCount", !.task = vaultTaskId,
                               !.owed = Released, !.status = taskStatus]
                ELSE [@ EXCEPT !.at = "end"]]
    /\ passed' = IF Due THEN passed \cup Asking ELSE passed
    /\ UNCHANGED <<signerVars, taskStatus, vaultTaskId, finalized, stepStatus, recorded,
                   job, faults>>

\* Variant: without counting.
FinCountSkipped(w) ==
    /\ At(w, "finCount")
    /\ Goto(w, "finAcquire")
    /\ UNCHANGED <<signerVars, taskVars, stepStatus, recorded, job, faults>>

\* Variant: off by one.
FinCountStrict(w) ==
    /\ At(w, "finCount")
    /\ Goto(w, IF Cardinality(recorded) <= Cardinality(run[w].owed)
               THEN "end" ELSE "finAcquire")
    /\ UNCHANGED <<signerVars, taskVars, stepStatus, recorded, job, faults>>

\* As many payment rows as released steps?
FinCount(w) ==
    /\ At(w, "finCount")
    /\ Goto(w, IF Cardinality(recorded) < Cardinality(run[w].owed)
               THEN "end" ELSE "finAcquire")
    /\ UNCHANGED <<signerVars, taskVars, stepStatus, recorded, job, faults>>

EnterFinal(w) ==
    /\ At(w, "finAcquire")
    /\ Acquire(w)
    /\ Goto(w, "complete")
    /\ UNCHANGED <<vault, inFlight, taskVars, stepStatus, recorded, job, faults>>

SubmitComplete(w) ==
    /\ At(w, "complete")
    /\ Submit(CompleteTx(w, run[w].task))
    /\ Goto(w, "completing")
    /\ UNCHANGED <<holder, orphaned, taskVars, stepStatus, recorded, job, faults>>

AfterComplete(w) == IF w \in Sweepers THEN "end" ELSE "finUpdate"

CompleteLands(w) ==
    /\ At(w, "completing")
    /\ Lands(w)
    /\ Leave(w)
    /\ Goto(w, AfterComplete(w))
    /\ UNCHANGED <<taskVars, stepStatus, recorded, job, faults>>

\* TaskAlreadyCompleted in simulation counts as done.
AlreadyComplete(w) ==
    /\ At(w, "complete")
    /\ vault[run[w].task].state = "closed"
    /\ Refused(CompleteTx(w, run[w].task))
    /\ Leave(w)
    /\ Goto(w, AfterComplete(w))
    /\ UNCHANGED <<taskVars, stepStatus, recorded, job, faults>>

\* A dispute, a timeout or any other error ends finalization without a retry.
CompleteFails(w) ==
    /\ \/ At(w, "finAcquire") /\ Fault /\ UNCHANGED <<vault, inFlight>>
       \/ At(w, "finAcquire") /\ orphaned /\ UNCHANGED <<vault, inFlight, faults>>
       \/ /\ At(w, "complete")
          /\ vault[run[w].task].state = "disputed"
          /\ Refused(CompleteTx(w, run[w].task))
          /\ UNCHANGED faults
       \/ At(w, "complete") /\ Fault /\ UNCHANGED <<vault, inFlight>>
       \/ At(w, "completing") /\ FailsOnChain(w) /\ UNCHANGED faults
       \/ At(w, "completing") /\ Waiting(w) # {} /\ Fault /\ GivesUp(w)
       \/ At(w, "completing") /\ Waiting(w) = {} /\ UNCHANGED <<vault, inFlight, faults>>
    /\ Leave(w)
    /\ Goto(w, "end")
    /\ UNCHANGED <<taskVars, stepStatus, recorded, job>>

\* The task becomes COMPLETED if the status read at the start was not terminal.
FinUpdate(w) ==
    /\ At(w, "finUpdate")
    /\ finalized' = TRUE
    /\ taskStatus' = IF run[w].status = "RUNNING" THEN "COMPLETED" ELSE taskStatus
    /\ Goto(w, "end")
    /\ UNCHANGED <<signerVars, vaultTaskId, passed, stepStatus, recorded, job, faults>>

End(w) ==
    /\ At(w, "end")
    /\ IF w \in Sweepers THEN UNCHANGED job ELSE JobDone(w)
    /\ Stop(w)
    /\ UNCHANGED <<signerVars, taskVars, stepStatus, recorded, faults>>

-----------------------------------------------------------------------------
\* recoverOrphanLocks: every open vault task that no row references is
\* completed.  The reference is looked up before the lock is taken.

SweepPick(w, v) ==
    /\ At(w, "idle")
    /\ vault[v].state # "closed"
    /\ vaultTaskId # v
    /\ run' = [run EXCEPT ![w] = [Idle EXCEPT !.at = "finAcquire", !.task = v]]
    /\ UNCHANGED <<signerVars, taskVars, stepStatus, recorded, job, faults>>

-----------------------------------------------------------------------------
\* The queue and its failed handler.

\* BullMQ hands a stalled job out again, or gives it up.
Restarted(j) ==
    IF j.stalls < MaxStalls
    THEN [j EXCEPT !.state = "waiting", !.by = None, !.stalls = @ + 1]
    ELSE [j EXCEPT !.state = "failed", !.by = None]

\* A worker loses its hold on a job it is still running.
Stall(s) ==
    /\ job[s].state = "active"
    /\ Fault
    /\ job' = [job EXCEPT ![s] = Restarted(@)]
    /\ UNCHANGED <<signerVars, taskVars, stepStatus, recorded, run>>

\* A worker dies: its lock stays until the lease ends, its job stalls.
Crash(w) ==
    /\ ~At(w, "idle")
    /\ Fault
    /\ Dies(w)
    /\ GivesUp(w)
    /\ IF w \in Sweepers THEN UNCHANGED job ELSE SetJob(w, Restarted(JobOf(w)))
    /\ Stop(w)
    /\ UNCHANGED <<taskVars, stepStatus, recorded>>

\* Attempts exhausted: the failed handler reads the status ...
ExhaustedRead(s) ==
    /\ job[s].state = "exhausted"
    /\ job' = [job EXCEPT ![s].state = IF taskStatus = "RUNNING" THEN "marking" ELSE "failed"]
    /\ UNCHANGED <<signerVars, taskVars, stepStatus, recorded, run, faults>>

\* ... and fails the task, unless that fails too.
ExhaustedMark(s) ==
    /\ job[s].state = "marking"
    /\ \/ taskStatus' = "FAILED" /\ UNCHANGED faults
       \/ Fault /\ UNCHANGED taskStatus
    /\ job' = [job EXCEPT ![s].state = "failed"]
    /\ UNCHANGED <<signerVars, vaultTaskId, finalized, passed, stepStatus, recorded, run>>

-----------------------------------------------------------------------------
\* The world around the workers.

\* A step is accepted (delivered, approved, or its window ended) and its
\* settlement is queued; a failed enqueue is swallowed.  A poll stops at a
\* task that is over, an approval does not.
Accept(s) ==
    /\ stepStatus[s] \in NonTerminalStep \cup {"INPUT_REQUIRED"}
    /\ stepStatus[s] = "AWAITING_APPROVAL" \/ taskStatus = "RUNNING"
    /\ stepStatus' = [stepStatus EXCEPT ![s] = "RELEASED"]
    /\ \/ job' = [job EXCEPT ![s] = Queued] /\ UNCHANGED faults
       \/ Fault /\ UNCHANGED job
    /\ UNCHANGED <<signerVars, taskVars, recorded, run>>

\* The provider works on the step, or asks the buyer, who may answer.
Park(s) ==
    /\ stepStatus[s] \in {"PENDING", "RUNNING", "INPUT_REQUIRED"}
    /\ taskStatus = "RUNNING"
    /\ \E parked \in {"RUNNING", "INPUT_REQUIRED"} :
         stepStatus' = [stepStatus EXCEPT ![s] = parked]
    /\ UNCHANGED <<signerVars, taskVars, recorded, job, run, faults>>

\* The provider fails the step, or its deadline passes.
Reject(s) ==
    /\ stepStatus[s] \in {"PENDING", "RUNNING", "INPUT_REQUIRED"}
    /\ taskStatus = "RUNNING"
    /\ stepStatus' = [stepStatus EXCEPT ![s] = "FAILED"]
    /\ UNCHANGED <<signerVars, taskVars, recorded, job, run, faults>>

\* On chain: the owner cancels (or anyone force-completes a stale task), or
\* the owner raises a dispute.
Intervene(v, state) ==
    /\ vault[v].state = "open"
    /\ Fault
    /\ vault' = [vault EXCEPT ![v].state = state]
    /\ UNCHANGED <<inFlight, holder, orphaned, taskVars, stepStatus, recorded, job, run>>

-----------------------------------------------------------------------------
Settle(w) ==
    \/ ReadStep(w) \/ EnterSection(w) \/ FreshRead(w)
    \/ SubmitLock(w) \/ LockLands(w) \/ SaveLock(w)
    \/ SubmitRelease(w) \/ ReleaseLands(w) \/ Record(w)
    \/ RejectedByVault(w) \/ FailCheck(w) \/ FailTask(w)

Finalize(w) ==
    \/ FinRead(w) \/ FinCount(w) \/ EnterFinal(w)
    \/ SubmitComplete(w) \/ CompleteLands(w) \/ AlreadyComplete(w)
    \/ FinUpdate(w) \/ End(w)

Execute(w) == Settle(w) \/ Finalize(w) \/ Throws(w) \/ CompleteFails(w)

Queue(s) == ExhaustedRead(s) \/ ExhaustedMark(s)

Signer == AbandonedLands \/ AbandonedExpires \/ LeaseExpires
restVars == <<taskVars, stepStatus, recorded, job, run, faults>>

Next ==
    \/ \E w \in Workers, s \in Steps : Take(w, s)
    \/ \E w \in Signers : Execute(w) \/ Crash(w)
    \/ \E w \in Sweepers, v \in 1..Len(vault) : SweepPick(w, v)
    \/ \E s \in Steps : Queue(s) \/ Stall(s) \/ Accept(s) \/ Park(s) \/ Reject(s)
    \/ \E v \in 1..Len(vault), state \in {"closed", "disputed"} : Intervene(v, state)
    \/ Signer /\ UNCHANGED restVars

\* Processes keep running, the queue keeps handing out jobs, a transaction
\* lands or its caller stops polling, a dead holder's lease ends, and a held
\* step is accepted in the end (its window has a timer).
Fairness ==
    /\ \A w \in Signers : WF_vars(Execute(w))
    /\ \A s \in Steps :
          /\ WF_vars(\E w \in Workers : Take(w, s))
          /\ WF_vars(Queue(s))
          /\ WF_vars(Accept(s))
    /\ WF_vars(orphaned /\ LeaseExpires /\ UNCHANGED restVars)

Spec == Init /\ [][Next]_vars
FairSpec == Spec /\ Fairness

-----------------------------------------------------------------------------
\* Properties.

\* Every variable holds a value of its type, whatever fails and restarts.
TypeOK ==
    /\ SignerTypeOK
    /\ taskStatus \in {"RUNNING", "COMPLETED", "FAILED"}
    /\ vaultTaskId \in TaskIds \cup {None}
    /\ finalized \in BOOLEAN
    /\ stepStatus \in [Steps -> NonTerminalStep \cup {"INPUT_REQUIRED", "RELEASED", "FAILED"}]
    /\ recorded \in SUBSET Steps /\ passed \in SUBSET Steps
    /\ job \in [Steps -> Job]
    /\ run \in [Signers -> Execution]
    /\ faults \in 0..MaxFaults

\* settleStep: "a retry after a crash returns success without moving funds
\* twice".  The vault pays a step once per vault task; that a step is not paid
\* under two of them is up to the workers.
PaidOnce ==
    \A v, x \in 1..Len(vault) :
        v # x => vault[v].paid \cap vault[x].paid = {}

\* recoverOrphanLocks may complete any vault task no row references, so such a
\* task has paid nothing and nothing will be paid from it.
OrphansUnpaid ==
    \A v \in 1..Len(vault) :
        vaultTaskId # v =>
            /\ vault[v].paid = {}
            /\ \A tx \in inFlight : tx.op = "release" => tx.task # v

\* "A Payment row is written only after a real on-chain release".
RecordMeansPaid == recorded \subseteq Paid

\* finalizeTaskIfComplete: "Finalize the on-chain task once all its steps are
\* terminal AND every released step has settled on-chain", by counting rows that
\* were read at different times.  It takes a step that waits for its buyer for one
\* that is over.  So every step it did not pass over that way has ended, and it
\* leaves no more released steps without a payment than it passed over: none, if
\* nobody was asked.
FinalizedMeansSettled ==
    finalized =>
        /\ \A s \in Steps \ passed : stepStatus[s] \in {"RELEASED", "FAILED"}
        /\ Cardinality(Released \ recorded) <= Cardinality(passed)

\* Every settlement job ends, whoever crashes holding the lock.
JobsEnd ==
    \A s \in Steps :
        job[s].state = "waiting" ~> job[s].state \in {"done", "failed"}

\* Left alone, a task with nothing to wait for is settled in full and its lock
\* is given back, although no single job is in charge of that.
SettledInPeace ==
    [](faults = 0) => <>(finalized \/ taskStatus = "FAILED")
=============================================================================
