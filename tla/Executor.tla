------------------------------- MODULE Executor -------------------------------
(***************************************************************************)
(* The task executor, for one hired task: one task-<id> job walks the      *)
(* steps in order and dispatches each to its provider; a step whose        *)
(* provider does not answer at once is parked and driven by poll jobs; a   *)
(* delivery is released, or held for the buyer's approval or a dispute     *)
(* window; a released step is handed to settlement.                        *)
(*                                                                         *)
(* The executor, two polls of one step, the window's timer, settlement and *)
(* the buyer's requests share the database without locks: each reads its   *)
(* row, waits, and writes.  Each such wait is a step boundary here.        *)
(* Settlement is seen from outside: a payment, then a finalization (module *)
(* Settlement has its insides).                                            *)
(***************************************************************************)
EXTENDS Naturals, FiniteSets

CONSTANTS
    N,            \* the task's steps are 1..N, in the order of their index
    Deps,         \* Deps[s]: the steps s depends on
    Tier,         \* Tier[s]: its service's verification tier
    Pollers,      \* concurrent executions of the step-poll worker
    MaxAttempts,  \* attempts of the task job (3 in the code)
    MaxAnswers,   \* bound: answers the buyer gives
    MaxDisputes,  \* bound: disputes the buyer raises
    MaxEvicts,    \* bound: times the finished task job is dropped from Redis
    MaxFaults     \* bound: crashes, database errors and lost enqueues

Steps == 1..N

ASSUME ExecutorAssumption ==
    /\ N \in Nat \ {0}
    /\ Deps \in [Steps -> SUBSET Steps]
    /\ Tier \in [Steps -> {"T1", "T2", "T3"}]
    /\ MaxAttempts \in Nat \ {0}
    /\ {MaxAnswers, MaxDisputes, MaxEvicts, MaxFaults} \subseteq Nat

VARIABLES
    locked,      \* task.vaultTaskId is set (decided when the hire was created)
    window,      \* DISPUTE_WINDOW_SECONDS > 0
    taskStatus,  \* task.status
    finalized,   \* task.vaultFinalizedAt is set
    status,      \* taskStep.status
    answered,    \* taskStep.inputResponse is set
    handled,     \* taskStep.providerJobHandle is set
    disputed,    \* the task has an OPEN dispute row
    late,        \* the steps are older than ASYNC_MAX_SECONDS
    job,         \* the task queue: task-<id>
    polls,       \* waiting poll jobs per step
    timer,       \* the release queue: release-<step>
    settle,      \* the settlement queue: settle-<step>
    exec,        \* the execution of the task job
    poll,        \* the executions of poll jobs
    provider,    \* the provider's own state of each step's job
    delivered,   \* history: steps with an accepted delivery
    cleared,     \* history: <<s, who>>: the hold on s was ended by the buyer or the timer
    overlapped,  \* history: steps of which two polls awaited an answer at once, or which
                 \* the executor took although its copy shows them running
    answers, disputes, evicts, faults

config == <<locked, window>>
rows == <<taskStatus, finalized, status, answered, handled, disputed>>
queues == <<job, polls, timer, settle>>
runs == <<exec, poll>>
history == <<delivered, cleared, overlapped>>
bounds == <<answers, disputes, evicts, faults>>
vars == <<config, rows, late, queues, runs, provider, history, bounds>>

StepStatus == {"PENDING", "RUNNING", "INPUT_REQUIRED", "AWAITING_APPROVAL",
               "RELEASED", "FAILED", "SKIPPED"}
Terminal == {"COMPLETED", "FAILED"}
Parked == {"RUNNING", "INPUT_REQUIRED"}

\* What a provider answers; "failed" is also a delivery that fails the
\* acceptance, schema or verification check, "error" no answer or an HTTP error.
Replies == {"done", "working", "asking", "failed", "error", "none"}
Effects == {"poll", "release", "settle", "task"}

\* The task job's execution: seen and handled are its copies of the step rows,
\* next the step it is at, todo the jobs to enqueue after the row it wrote.  A
\* poll's handled says whether it read a handle in its step's row.
NoExec == [at |-> "idle", next |-> 1, seen |-> [s \in Steps |-> "PENDING"], handled |-> {},
           failed |-> FALSE, held |-> FALSE, reply |-> "none", todo |-> {}]
NoPoll == [at |-> "idle", step |-> 1, kind |-> "none", handled |-> FALSE,
           reply |-> "none", todo |-> {}]
NoJob == [state |-> "none", attempts |-> 0]

\* The hire is stored and enqueued; whether its budget could be locked, and
\* whether the deployment holds T2 deliveries, is settled by now.
Init ==
    /\ locked \in BOOLEAN /\ window \in BOOLEAN
    /\ taskStatus = "DRAFT" /\ finalized = FALSE
    /\ status = [s \in Steps |-> "PENDING"]
    /\ answered = [s \in Steps |-> FALSE]
    /\ handled = {} /\ disputed = FALSE /\ late = FALSE
    /\ job = [NoJob EXCEPT !.state = "waiting"]
    /\ polls = [s \in Steps |-> 0]
    /\ timer = [s \in Steps |-> "none"]
    /\ settle = [s \in Steps |-> "none"]
    /\ exec = NoExec
    /\ poll = [p \in Pollers |-> NoPoll]
    /\ provider = [s \in Steps |-> "idle"]
    /\ delivered = {} /\ cleared = {} /\ overlapped = {}
    /\ answers = 0 /\ disputes = 0 /\ evicts = 0 /\ faults = 0

-----------------------------------------------------------------------------
\* The pieces handlers share.

Fault == faults < MaxFaults /\ faults' = faults + 1 /\ UNCHANGED <<answers, disputes, evicts>>

\* Variant: only a human tier is held, the window's is not.
HeldForApproval(s) == Tier[s] = "T3"

\* finalizeDelivery: a held delivery waits for the window or for approval.
Held(s) == (Tier[s] = "T2" /\ window) \/ Tier[s] = "T3"

\* The status a reply gives the step, and the jobs that are enqueued after it.
StatusAfter(s, reply) ==
    CASE reply = "working" -> "RUNNING"
      [] reply = "asking" -> "INPUT_REQUIRED"
      [] reply = "done" -> IF Held(s) THEN "AWAITING_APPROVAL" ELSE "RELEASED"
      [] OTHER -> "FAILED"

\* Variant: a parked step is not polled.
FollowingUnpolled(s, reply) ==
    IF reply # "done" THEN {}
    ELSE IF ~Held(s) THEN IF locked THEN {"settle"} ELSE {}
    ELSE IF Tier[s] = "T2" THEN {"release"} ELSE {}

\* Variant: the window of a held step is not scheduled.
FollowingUntimed(s, reply) ==
    CASE reply \in {"working", "asking"} -> {"poll"}
      [] reply = "done" /\ ~Held(s) /\ locked -> {"settle"}
      [] OTHER -> {}

Following(s, reply) ==
    CASE reply \in {"working", "asking"} -> {"poll"}
      [] reply = "done" ->
           IF Held(s) THEN IF Tier[s] = "T2" THEN {"release"} ELSE {}
           ELSE IF locked THEN {"settle"} ELSE {}
      [] OTHER -> {}

\* A reply that parks the step stores the handle it brings or, without one, the
\* handle its writer knows of, if any.
KeepHandle(s, reply, known) ==
    IF StatusAfter(s, reply) \in Parked
    THEN handled' \in {handled \cup {s}} \cup (IF known THEN {} ELSE {handled \ {s}})
    ELSE handled' = handled

\* The reply to a dispatch: "working" without a handle is refused (and is "failed"
\* here).  The row and the history change together; a new question, like a
\* consumed one, clears the stored answer.
WriteReply(s, reply) ==
    /\ KeepHandle(s, reply, reply = "working" \/ s \in exec.handled)
    /\ status' = [status EXCEPT ![s] = StatusAfter(s, reply)]
    /\ answered' = IF reply = "asking" THEN [answered EXCEPT ![s] = FALSE] ELSE answered
    /\ delivered' = IF reply = "done" THEN delivered \cup {s} ELSE delivered

\* Adding a job whose id is taken, by a waiting, active or retained job, does nothing.
Added(state) == IF state = "none" THEN "waiting" ELSE state

Enqueue(s, todo) ==
    /\ polls' = IF "poll" \in todo THEN [polls EXCEPT ![s] = @ + 1] ELSE polls
    /\ timer' = IF "release" \in todo THEN [timer EXCEPT ![s] = Added(@)] ELSE timer
    /\ settle' = IF "settle" \in todo THEN [settle EXCEPT ![s] = Added(@)] ELSE settle
    /\ job' = IF "task" \in todo THEN [job EXCEPT !.state = Added(@)] ELSE job

\* finalizeTaskIfComplete: nothing pending, running or held, every release paid.
Paid == {s \in Steps : settle[s] \in {"paid", "done"}}
Complete ==
    /\ locked /\ ~finalized
    /\ \A s \in Steps : status[s] \notin {"PENDING", "RUNNING", "AWAITING_APPROVAL"}
    /\ \A s \in Steps : status[s] = "RELEASED" => s \in Paid
Finalize ==
    /\ finalized' = (finalized \/ Complete)
    /\ taskStatus' = IF Complete /\ taskStatus \notin Terminal THEN "COMPLETED" ELSE taskStatus

\* What approve and releaseHeldStep do for a task without a lock.
CompleteUnlocked(newStatus) ==
    taskStatus' =
        IF ~locked /\ \A s \in Steps :
                newStatus[s] \notin {"PENDING", "RUNNING", "AWAITING_APPROVAL"}
        THEN "COMPLETED" ELSE taskStatus

\* The provider of step s answers a call: its job moves on or stays; a finished
\* or failed job answers the same again, and a question stands until answered.
\* An answer may be lost on its way.
Answers(s, kind) ==
    CASE kind = "dispatch" -> {"done", "working", "asking", "failed"}
      [] provider[s] = "working" -> {"done", "working", "asking", "failed"}
      [] provider[s] = "asking" /\ kind = "answer" ->
           {"done", "working", "asking", "failed"}
      [] OTHER -> {provider[s]}

Reply(s, kind, reply) ==
    \E answer \in Answers(s, kind) :
        /\ reply \in {answer, "error"}
        /\ provider' = [provider EXCEPT ![s] = answer]

-----------------------------------------------------------------------------
\* executeTask.

\* A worker takes the job and reads the task and its steps; a terminal task is
\* left alone.
TakeTask ==
    /\ job.state = "waiting" /\ exec.at = "idle"
    /\ IF taskStatus \in Terminal
       THEN job' = [job EXCEPT !.state = "done"] /\ exec' = exec
       ELSE /\ job' = [job EXCEPT !.state = "active"]
            /\ exec' = [NoExec EXCEPT !.at = "start", !.seen = status,
                                      !.handled = handled]
    /\ UNCHANGED <<config, rows, late, polls, timer, settle, poll, provider,
                   history, bounds>>

MarkRunning ==
    /\ exec.at = "start"
    /\ taskStatus' = "RUNNING"
    /\ exec' = [exec EXCEPT !.at = "loop"]
    /\ UNCHANGED <<config, finalized, status, answered, handled, disputed, late, queues, poll,
                   provider, history, bounds>>

AtStep(s) == exec.at = "loop" /\ exec.next = s /\ s \in Steps

\* A step that was never driven, or whose last run ended in vain.
Unstarted == {"PENDING", "FAILED", "SKIPPED"}

\* Variant: a running step is taken whether or not it has a handle.
DispatchableParked(s) == exec.seen[s] \in Unstarted \cup {"RUNNING"}

\* A running step is driven by its polls, unless its row has no handle to poll by.
Dispatchable(s) ==
    \/ exec.seen[s] \in Unstarted
    \/ exec.seen[s] = "RUNNING" /\ s \notin exec.handled

\* The executor takes s, which another may be driving.
Contend(s) ==
    overlapped' = IF exec.seen[s] = "RUNNING" THEN overlapped \cup {s} ELSE overlapped

Blocked(s) == \E d \in Deps[s] : exec.seen[d] \in {"FAILED", "SKIPPED"}

\* Variant: a dependency counts as met once it has not failed.
ReadyEarly(s) == ~Blocked(s)

Ready(s) == \A d \in Deps[s] : exec.seen[d] = "RELEASED"

\* Released, held and parked steps are passed over, and so is one that waits
\* for a dependency.
PassOver(s) ==
    /\ AtStep(s)
    /\ ~Dispatchable(s) \/ (~Blocked(s) /\ ~Ready(s))
    /\ exec' = [exec EXCEPT !.next = s + 1,
                            !.held = @ \/ exec.seen[s] # "RELEASED"]
    /\ UNCHANGED <<config, rows, late, queues, poll, provider, history, bounds>>

SkipStep(s) ==
    /\ AtStep(s)
    /\ Dispatchable(s)
    /\ Blocked(s)
    /\ status' = [status EXCEPT ![s] = "SKIPPED"]
    /\ exec' = [exec EXCEPT !.next = s + 1, !.failed = TRUE, !.seen[s] = "SKIPPED"]
    /\ Contend(s)
    /\ UNCHANGED <<config, taskStatus, finalized, answered, handled, disputed, late, queues,
                   poll, provider, delivered, cleared, bounds>>

Dispatch(s) ==
    /\ AtStep(s)
    /\ Dispatchable(s)
    /\ ~Blocked(s) /\ Ready(s)
    /\ \E reply \in Replies :
        /\ Reply(s, "dispatch", reply)
        /\ exec' = [exec EXCEPT !.at = "reply", !.reply = reply]
    /\ Contend(s)
    /\ UNCHANGED <<config, rows, late, queues, poll, delivered, cleared, bounds>>

\* The reply is written to the row, and to the executor's copy unless the dispatch
\* failed: later steps of this run then see the status the copy had before.
ApplyReply ==
    /\ exec.at = "reply"
    /\ LET s == exec.next
           after == StatusAfter(s, exec.reply) IN
        /\ WriteReply(s, exec.reply)
        /\ exec' = [exec EXCEPT
             !.at = "enqueue", !.reply = "none",
             !.todo = Following(s, exec.reply),
             !.seen[s] = IF after = "FAILED" THEN @ ELSE after,
             !.failed = @ \/ after = "FAILED",
             !.held = @ \/ after \in Parked \cup {"AWAITING_APPROVAL"}]
    /\ UNCHANGED <<config, taskStatus, finalized, disputed, late, queues, poll, provider,
                   cleared, overlapped, bounds>>

ExecEnqueue ==
    /\ exec.at = "enqueue"
    /\ Enqueue(exec.next, exec.todo)
    /\ exec' = [exec EXCEPT !.at = "loop", !.next = @ + 1, !.todo = {}]
    /\ UNCHANGED <<config, rows, late, poll, provider, history, bounds>>

\* The outcome of the walk is written whatever the row holds by now.
WriteOutcome ==
    /\ exec.at = "loop" /\ exec.next = N + 1
    /\ taskStatus' = IF exec.failed THEN "FAILED" ELSE IF exec.held THEN "RUNNING" ELSE "COMPLETED"
    /\ exec' = [exec EXCEPT !.at = "finalize"]
    /\ UNCHANGED <<config, finalized, status, answered, handled, disputed, late, queues, poll,
                   provider, history, bounds>>

EndTask ==
    /\ exec.at = "finalize"
    /\ Finalize
    /\ exec' = NoExec
    /\ job' = [job EXCEPT !.state = "done"]
    /\ UNCHANGED <<config, status, answered, handled, disputed, late, polls, timer, settle, poll,
                   provider, history, bounds>>

-----------------------------------------------------------------------------
\* pollStep.

\* A poll of s is about to write what it was answered.
Awaiting(q, s) == poll[q].at \in {"call", "reply"} /\ poll[q].step = s

\* A poll job is taken and its step and task are read.  A step that has been
\* resolved, or whose task is terminal, is left alone; one that waits for an
\* answer is polled again later, which changes nothing.
TakePoll(p, s) ==
    /\ poll[p].at = "idle" /\ polls[s] > 0
    /\ taskStatus \in Terminal \/ status[s] # "INPUT_REQUIRED" \/ answered[s] \/ late
    /\ polls' = [polls EXCEPT ![s] = @ - 1]
    /\ IF taskStatus \in Terminal \/ status[s] \notin Parked
       THEN UNCHANGED <<poll, overlapped>>
       ELSE /\ poll' = [poll EXCEPT ![p] = [NoPoll EXCEPT !.step = s,
                 !.at = IF late THEN "reply" ELSE "call",
                 !.reply = IF late THEN "failed" ELSE "none",
                 !.kind = IF status[s] = "INPUT_REQUIRED" THEN "answer" ELSE "poll",
                 !.handled = s \in handled]]
            /\ overlapped' = IF \E q \in Pollers : Awaiting(q, s)
                             THEN overlapped \cup {s} ELSE overlapped
    /\ UNCHANGED <<config, rows, late, job, timer, settle, exec, provider, delivered,
                   cleared, bounds>>

CallProvider(p) ==
    /\ poll[p].at = "call"
    /\ \E reply \in Replies :
        /\ Reply(poll[p].step, poll[p].kind, reply)
        /\ poll' = [poll EXCEPT ![p].at = "reply", ![p].reply = reply, ![p].kind = "none"]
    /\ UNCHANGED <<config, rows, late, queues, exec, history, bounds>>

\* No answer changes no row; any other is applied, and a final one sends the
\* task back to the executor.
ApplyPoll(p) ==
    /\ poll[p].at = "reply"
    /\ LET s == poll[p].step
           reply == poll[p].reply
           final == StatusAfter(s, reply) \notin Parked IN
        IF reply = "error"
        THEN /\ poll' = [poll EXCEPT ![p] = [NoPoll EXCEPT
                  !.step = s, !.at = "enqueue", !.todo = {"poll"}]]
             /\ UNCHANGED <<status, answered, handled, delivered>>
        ELSE /\ status' = [status EXCEPT ![s] = StatusAfter(s, reply)]
             /\ answered' = IF final THEN answered ELSE [answered EXCEPT ![s] = FALSE]
             /\ KeepHandle(s, reply, poll[p].handled)
             /\ delivered' = IF reply = "done" THEN delivered \cup {s} ELSE delivered
             /\ poll' = [poll EXCEPT ![p] = [NoPoll EXCEPT
                  !.step = s, !.at = "enqueue",
                  !.todo = Following(s, reply) \cup (IF final THEN {"task"} ELSE {})]]
    /\ UNCHANGED <<config, taskStatus, finalized, disputed, late, queues, exec, provider,
                   cleared, overlapped, bounds>>

PollEnqueue(p) ==
    /\ poll[p].at = "enqueue"
    /\ Enqueue(poll[p].step, poll[p].todo)
    /\ poll' = [poll EXCEPT ![p] = NoPoll]
    /\ UNCHANGED <<config, rows, late, exec, provider, history, bounds>>

-----------------------------------------------------------------------------
\* releaseHeldStep, when a step's window has elapsed.

\* The step, its task and the count of open disputes are read.
TimerFires(s) ==
    /\ timer[s] = "waiting"
    /\ timer' = [timer EXCEPT ![s] =
         IF status[s] = "AWAITING_APPROVAL" /\ taskStatus # "FAILED" /\ ~disputed
         THEN "releasing" ELSE "done"]
    /\ UNCHANGED <<config, rows, late, job, polls, settle, runs, provider, history, bounds>>

TimerReleases(s) ==
    /\ timer[s] = "releasing"
    /\ status' = [status EXCEPT ![s] = "RELEASED"]
    /\ timer' = [timer EXCEPT ![s] = "released"]
    /\ cleared' = cleared \cup {<<s, "timer">>}
    /\ UNCHANGED <<config, taskStatus, finalized, answered, handled, disputed, late, job, polls,
                   settle, runs, provider, delivered, overlapped, bounds>>

\* Variant: only the row is written, and the settlement is forgotten.
TimerForgets(s) ==
    /\ timer[s] = "released"
    /\ timer' = [timer EXCEPT ![s] = "done"]
    /\ CompleteUnlocked(status)
    /\ UNCHANGED <<config, finalized, status, answered, handled, disputed, late, job, polls, settle,
                   runs, provider, history, bounds>>

TimerSettles(s) ==
    /\ timer[s] = "released"
    /\ timer' = [timer EXCEPT ![s] = "done"]
    /\ settle' = IF locked THEN [settle EXCEPT ![s] = Added(@)] ELSE settle
    /\ CompleteUnlocked(status)
    /\ UNCHANGED <<config, finalized, status, answered, handled, disputed, late, job, polls, runs,
                   provider, history, bounds>>

-----------------------------------------------------------------------------
\* The buyer's requests, and settlement as the executor sees it.

\* approve: every held step is released and its settlement enqueued.
Approve ==
    LET held == {s \in Steps : status[s] = "AWAITING_APPROVAL"}
        newStatus == [s \in Steps |-> IF s \in held THEN "RELEASED" ELSE status[s]] IN
    /\ held # {}
    /\ status' = newStatus
    /\ cleared' = cleared \cup (held \X {"buyer"})
    /\ settle' = [s \in Steps |-> IF s \in held /\ locked THEN Added(settle[s]) ELSE settle[s]]
    /\ CompleteUnlocked(newStatus)
    /\ UNCHANGED <<config, finalized, answered, handled, disputed, late, job, polls, timer, runs,
                   provider, delivered, overlapped, bounds>>

\* answerStep: the answer is stored and a poll is enqueued to relay it.
AnswerStep(s) ==
    /\ status[s] = "INPUT_REQUIRED"
    /\ answers < MaxAnswers
    /\ answered' = [answered EXCEPT ![s] = TRUE]
    /\ polls' = [polls EXCEPT ![s] = @ + 1]
    /\ answers' = answers + 1
    /\ UNCHANGED <<config, taskStatus, finalized, status, handled, disputed, late, job,
                   timer, settle, runs, provider, history, disputes, evicts, faults>>

\* raiseDispute writes a row and leaves task.status alone.
RaiseDispute ==
    /\ ~disputed /\ disputes < MaxDisputes
    /\ disputed' = TRUE
    /\ disputes' = disputes + 1
    /\ UNCHANGED <<config, taskStatus, finalized, status, answered, handled, late, queues,
                   runs, provider, history, answers, evicts, faults>>

ResolveDispute ==
    /\ disputed
    /\ disputed' = FALSE
    /\ UNCHANGED <<config, taskStatus, finalized, status, answered, handled, late, queues,
                   runs, provider, history, bounds>>

\* A settlement job pays a step that is released when it looks, and the worker
\* then finalizes the task if nothing is left.
Settle(s) ==
    /\ settle[s] = "waiting"
    /\ settle' = [settle EXCEPT ![s] = IF status[s] = "RELEASED" THEN "paid" ELSE "skipped"]
    /\ UNCHANGED <<config, rows, late, job, polls, timer, runs, provider, history, bounds>>

AfterSettle(s) ==
    /\ settle[s] = "paid"
    /\ settle' = [settle EXCEPT ![s] = "done"]
    /\ Finalize
    /\ UNCHANGED <<config, status, answered, handled, disputed, late, job, polls, timer, runs,
                   provider, history, bounds>>

-----------------------------------------------------------------------------
\* Time, Redis and failures.

PassDeadline ==
    /\ ~late
    /\ late' = TRUE
    /\ UNCHANGED <<config, rows, queues, runs, provider, history, bounds>>

\* removeOnComplete: 200 later tasks push the finished job out.
EvictTask ==
    /\ job.state = "done"
    /\ evicts < MaxEvicts
    /\ evicts' = evicts + 1
    /\ job' = NoJob
    /\ UNCHANGED <<config, rows, late, polls, timer, settle, runs, provider, history,
                   answers, disputes, faults>>

\* Variant: a task job that fails is retried whatever it has used up.
ExecFailsEndlessly ==
    /\ exec.at # "idle"
    /\ exec' = NoExec
    /\ job' = [state |-> "waiting", attempts |-> job.attempts + 1]
    /\ UNCHANGED <<config, rows, late, polls, timer, settle, poll, provider, history, bounds>>

\* The process dies or the database refuses: the job runs again from the start,
\* until its attempts are used up.
ExecFails ==
    /\ exec.at # "idle"
    /\ Fault
    /\ exec' = NoExec
    /\ job' = [state |-> IF job.attempts + 1 = MaxAttempts THEN "failed" ELSE "waiting",
               attempts |-> job.attempts + 1]
    /\ UNCHANGED <<config, rows, late, polls, timer, settle, poll, provider, history>>

PollFails(p) ==
    /\ poll[p].at # "idle"
    /\ Fault
    /\ polls' = [polls EXCEPT ![poll[p].step] = @ + 1]
    /\ poll' = [poll EXCEPT ![p] = NoPoll]
    /\ UNCHANGED <<config, rows, late, job, timer, settle, exec, provider, history>>

TimerFails(s) ==
    /\ timer[s] \in {"releasing", "released"}
    /\ Fault
    /\ timer' = [timer EXCEPT ![s] = "waiting"]
    /\ UNCHANGED <<config, rows, late, job, polls, settle, runs, provider, history>>

\* An enqueue that fails is swallowed.
ExecLosesJobs ==
    /\ exec.at = "enqueue" /\ exec.todo # {}
    /\ Fault
    /\ exec' = [exec EXCEPT !.todo = {}]
    /\ UNCHANGED <<config, rows, late, queues, poll, provider, history>>

PollLosesJobs(p) ==
    /\ poll[p].at = "enqueue" /\ poll[p].todo # {}
    /\ Fault
    /\ poll' = [poll EXCEPT ![p].todo = {}]
    /\ UNCHANGED <<config, rows, late, queues, exec, provider, history>>

-----------------------------------------------------------------------------
ExecStep ==
    \/ TakeTask \/ MarkRunning \/ ApplyReply \/ ExecEnqueue \/ WriteOutcome \/ EndTask
    \/ \E s \in Steps : PassOver(s) \/ SkipStep(s) \/ Dispatch(s)

PollRun(p) == CallProvider(p) \/ ApplyPoll(p) \/ PollEnqueue(p)
TimerRun(s) == TimerFires(s) \/ TimerReleases(s) \/ TimerSettles(s)
SettleRun(s) == Settle(s) \/ AfterSettle(s)

Next ==
    \/ ExecStep
    \/ \E p \in Pollers : PollRun(p) \/ (\E s \in Steps : TakePoll(p, s))
    \/ \E s \in Steps : TimerRun(s) \/ SettleRun(s) \/ AnswerStep(s)
    \/ Approve \/ RaiseDispute \/ ResolveDispute \/ PassDeadline \/ EvictTask
    \/ ExecFails \/ ExecLosesJobs
    \/ \E p \in Pollers : PollFails(p) \/ PollLosesJobs(p)
    \/ \E s \in Steps : TimerFails(s)

\* Workers run what they took and take what waits; delayed jobs fall due and
\* time passes.  The buyer, the provider's choices and faults owe nothing.
Fairness ==
    /\ WF_vars(ExecStep)
    /\ \A p \in Pollers : WF_vars(PollRun(p))
    /\ \A s \in Steps : WF_vars(\E p \in Pollers : TakePoll(p, s))
    /\ \A s \in Steps : WF_vars(TimerRun(s)) /\ WF_vars(SettleRun(s))
    /\ WF_vars(PassDeadline)

Spec == Init /\ [][Next]_vars
FairSpec == Spec /\ Fairness

-----------------------------------------------------------------------------
\* Every row, job and execution is well formed.
TypeOK ==
    /\ taskStatus \in {"DRAFT", "RUNNING"} \cup Terminal
    /\ locked \in BOOLEAN /\ window \in BOOLEAN /\ finalized \in BOOLEAN
    /\ disputed \in BOOLEAN /\ late \in BOOLEAN
    /\ status \in [Steps -> StepStatus]
    /\ answered \in [Steps -> BOOLEAN] /\ handled \subseteq Steps
    /\ job \in [state : {"none", "waiting", "active", "done", "failed"}, attempts : 0..MaxAttempts]
    /\ polls \in [Steps -> Nat]
    /\ timer \in [Steps -> {"none", "waiting", "releasing", "released", "done"}]
    /\ settle \in [Steps -> {"none", "waiting", "paid", "skipped", "done"}]
    /\ exec \in [at : {"idle", "start", "loop", "reply", "enqueue", "finalize"},
                 next : 1..(N + 1), seen : [Steps -> StepStatus], handled : SUBSET Steps,
                 failed : BOOLEAN, held : BOOLEAN, reply : Replies, todo : SUBSET Effects]
    /\ poll \in [Pollers -> [at : {"idle", "call", "reply", "enqueue"}, step : Steps,
                 kind : {"none", "poll", "answer"}, handled : BOOLEAN, reply : Replies,
                 todo : SUBSET Effects]]
    /\ provider \in [Steps -> (Replies \ {"none", "error"}) \cup {"idle"}]
    /\ delivered \subseteq Steps /\ overlapped \subseteq Steps
    /\ cleared \subseteq Steps \X {"buyer", "timer"}
    /\ answers \in 0..MaxAnswers /\ disputes \in 0..MaxDisputes
    /\ evicts \in 0..MaxEvicts /\ faults \in 0..MaxFaults

\* A step has been earned: its provider delivered, and a delivery that the
\* buyer may contest was approved or outlived its window; a T3 one was approved.
Earned(s) ==
    /\ s \in delivered
    /\ Tier[s] = "T2" /\ window => \E who \in {"buyer", "timer"} : <<s, who>> \in cleared
    /\ Tier[s] = "T3" => <<s, "buyer">> \in cleared

\* A settlement is requested only for an earned step, whatever is dispatched,
\* polled, answered or retried twice: two polls that overlap, a job that starts
\* over and a timer that races the buyer must not slip past the hold.
PaidForDelivery == \A s \in Steps : settle[s] # "none" => Earned(s)

\* A provider is called only when all the steps its step depends on have been
\* earned, although the executor decides on a copy of the rows that polls,
\* timers and approvals overtake.
DependentsWait ==
    \A s \in Steps : provider[s] # "idle" => \A d \in Deps[s] : Earned(d)

\* A job that starts over, after a crash or for a poll, never sends a step to its
\* provider again once the provider's answer is on record as parked, held or
\* released, although it decides on a copy that polls, timers and approvals
\* overtake.  Only an answer that was lost with the first run, or one that failed
\* the step, is asked for twice.  Two exceptions.  A step that was running without
\* a handle when the job copied it is taken for one that never started: its first
\* answer was a question, and neither that nor any later answer brought a handle.
\* And it takes one poll at a time: the poll an answer adds may revive a step that
\* another has failed, after the job copied it.
RecordedNotRedone ==
    [][\A s \in Steps \ overlapped :
         exec.at = "loop" /\ exec'.at = "reply" /\ exec.next = s
            => \/ status[s] \in {"PENDING", "FAILED", "SKIPPED"}
               \/ exec.seen[s] = "RUNNING" /\ s \notin exec.handled]_vars

\* Nothing has gone wrong so far: no crash, no lost enqueue, and the task is live.
Undisturbed == faults = 0 /\ taskStatus \notin Terminal

\* A parked step whose provider has not delivered does not stay parked: the
\* provider delivers, fails or passes its deadline, whatever the buyer does,
\* because every poll that does not resolve the step leaves another one behind.
\* With several steps it takes, besides, that nobody completes the task around a
\* step that waits for the buyer while the executor still walks: the polls that
\* come then leave the step alone, and the executor's outcome revives the task.
ParkedEnds ==
    \A s \in Steps :
        (status[s] \in Parked /\ s \notin delivered)
            ~> (status[s] \notin Parked \/ s \in delivered \/ ~Undisturbed)

\* Without faults or answers.  An answer adds a second poll of its step, and may
\* leave it running without a handle, to be dispatched again: two that drive one
\* step may write it back from held or released to parked.
Alone == faults = 0 /\ answers = 0

\* A T2 delivery nobody disputes does not stay held: the window's timer or the
\* buyer releases it, whichever comes first, and neither stops the other.
WindowEnds ==
    \A s \in Steps :
        (Tier[s] = "T2" /\ status[s] = "AWAITING_APPROVAL")
            ~> (status[s] # "AWAITING_APPROVAL" \/ disputes > 0
                \/ ~Undisturbed \/ ~Alone)

\* A released step of a locked task is paid, however it came to be released.
ReleasedIsPaid ==
    \A s \in Steps :
        (locked /\ status[s] = "RELEASED") ~> (s \in Paid \/ ~Alone)

-----------------------------------------------------------------------------
\* What the code says of itself and does not do.

\* A locked budget is unlocked once every step is resolved: a final answer to a
\* poll re-enqueues the task so that it finalizes (executor.ts:620-622).
Resolved(s) == status[s] \in {"RELEASED", "FAILED", "SKIPPED"}
LockNeverStranded ==
    (locked /\ \A s \in Steps : Resolved(s)) ~> (finalized \/ ~(\A s \in Steps : Resolved(s)))

=============================================================================
