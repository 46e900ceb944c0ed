---------------------------- MODULE ExecutorProofs -----------------------------
(***************************************************************************)
(* Proofs about the task executor for every number of steps, dependencies, *)
(* tiers and poll workers: type correctness, a settlement only for an      *)
(* earned step, a dependent only after what it depends on, no second       *)
(* dispatch of a step whose answer is on record, and nothing that nobody   *)
(* will see to.                                                            *)
(***************************************************************************)
EXTENDS Executor, TLAPS

\* The task job has an attempt left while it waits or runs, runs while the
\* executor does, and the executor is at a step while it applies a reply.
RunOK ==
    /\ job.state \in {"waiting", "active"} => job.attempts < MaxAttempts
    /\ job.state = "none" => job.attempts = 0
    /\ exec.at # "idle" => job.state = "active"
    /\ exec.at \in {"reply", "enqueue"} => exec.next \in Steps

TypeInv == TypeOK /\ RunOK

-----------------------------------------------------------------------------
\* What the shared pieces return and preserve.

LEMMA FollowingType ==
    ASSUME NEW s \in Steps, NEW reply \in Replies
    PROVE  StatusAfter(s, reply) \in StepStatus /\ Following(s, reply) \in SUBSET Effects
  BY DEF StatusAfter, Following, StepStatus, Effects, Replies

LEMMA EnqueueType ==
    ASSUME TypeInv, NEW s \in Steps, NEW todo \in SUBSET Effects, Enqueue(s, todo)
    PROVE  /\ polls' \in [Steps -> Nat]
           /\ timer' \in [Steps -> {"none", "waiting", "releasing", "released", "done"}]
           /\ settle' \in [Steps -> {"none", "waiting", "paid", "skipped", "done"}]
           /\ job' \in [state : {"none", "waiting", "active", "done", "failed"},
                        attempts : 0..MaxAttempts]
           /\ job'.state \in {"waiting", "active"} => job'.attempts < MaxAttempts
           /\ job'.state = "none" => job'.attempts = 0
           /\ job.state = "active" => job'.state = "active"
<1> USE DEF TypeInv, TypeOK
<1>1. polls' \in [Steps -> Nat]
  BY DEF Enqueue
<1>2. timer' \in [Steps -> {"none", "waiting", "releasing", "released", "done"}]
  BY DEF Enqueue, Added
<1>3. settle' \in [Steps -> {"none", "waiting", "paid", "skipped", "done"}]
  BY DEF Enqueue, Added
<1>4. CASE "task" \in todo
  <2>1. job' = [job EXCEPT !.state = Added(job.state)]
    BY <1>4 DEF Enqueue
  <2>2. job'.attempts = job.attempts /\ job'.state = Added(job.state)
    BY <2>1
  <2>3. QED
    BY <1>1, <1>2, <1>3, <2>1, <2>2, ExecutorAssumption DEF Added, RunOK
<1>5. CASE "task" \notin todo
  BY <1>1, <1>2, <1>3, <1>5 DEF Enqueue, RunOK
<1>6. QED
  BY <1>4, <1>5

LEMMA FinalizeType ==
    ASSUME TypeOK, Finalize
    PROVE  finalized' \in BOOLEAN /\ taskStatus' \in {"DRAFT", "RUNNING"} \cup Terminal
  BY DEF TypeOK, Finalize, Complete, Terminal

LEMMA CompleteUnlockedType ==
    ASSUME TypeOK, NEW newStatus, CompleteUnlocked(newStatus)
    PROVE  taskStatus' \in {"DRAFT", "RUNNING"} \cup Terminal
  BY DEF TypeOK, CompleteUnlocked, Terminal

LEMMA HandleType ==
    ASSUME TypeOK, NEW s \in Steps, NEW reply, NEW known, KeepHandle(s, reply, known)
    PROVE  handled' \subseteq Steps
<1>1. handled \subseteq Steps
  BY DEF TypeOK
<1>2. handled' \in {handled, handled \cup {s}, handled \ {s}}
  BY Zenon DEF KeepHandle
<1>3. QED
  BY <1>1, <1>2

\* A step the executor takes has not been started, or is marked as contended.
LEMMA Contended ==
    ASSUME TypeOK, NEW s \in Steps, Dispatchable(s), Contend(s)
    PROVE  /\ overlapped \subseteq overlapped' /\ overlapped' \subseteq Steps
           /\ s \in overlapped' \/ exec.seen[s] \in Unstarted
           /\ \A t \in Steps : t # s => (t \in overlapped' <=> t \in overlapped)
  BY DEF TypeOK, Dispatchable, Contend

LEMMA ReplyType ==
    ASSUME TypeOK, NEW s \in Steps, NEW kind, NEW reply, Reply(s, kind, reply)
    PROVE  provider' \in [Steps -> (Replies \ {"none", "error"}) \cup {"idle"}]
  BY DEF TypeOK, Reply, Answers, Replies

-----------------------------------------------------------------------------
\* Type correctness.

Execs == [at : {"idle", "start", "loop", "reply", "enqueue", "finalize"},
          next : 1..(N + 1), seen : [Steps -> StepStatus], handled : SUBSET Steps,
          failed : BOOLEAN, held : BOOLEAN, reply : Replies, todo : SUBSET Effects]
Polls == [at : {"idle", "call", "reply", "enqueue"}, step : Steps,
          kind : {"none", "poll", "answer"}, handled : BOOLEAN, reply : Replies,
          todo : SUBSET Effects]

LEMMA IdleType == NoExec \in Execs /\ NoPoll \in Polls
<1>1. 1 \in 1..(N + 1) /\ 1 \in Steps
  BY ExecutorAssumption DEF Steps
<1>2. [s \in Steps |-> "PENDING"] \in [Steps -> StepStatus]
  BY DEF StepStatus
<1>3. QED
  BY <1>1, <1>2 DEF NoExec, NoPoll, Execs, Polls, Replies

LEMMA InitType == Init => TypeInv
<1> SUFFICES ASSUME Init PROVE TypeInv
  OBVIOUS
<1>1. exec \in Execs /\ poll \in [Pollers -> Polls]
  BY IdleType DEF Init
<1>2. job = [state |-> "waiting", attempts |-> 0]
  BY DEF Init, NoJob
<1>3. RunOK
  BY <1>2, ExecutorAssumption DEF Init, RunOK, NoExec
<1>4. TypeOK
  <2>1. job \in [state : {"none", "waiting", "active", "done", "failed"},
                attempts : 0..MaxAttempts]
    BY <1>2, ExecutorAssumption
  <2>2. /\ locked \in BOOLEAN /\ window \in BOOLEAN /\ finalized \in BOOLEAN
        /\ disputed \in BOOLEAN /\ late \in BOOLEAN
        /\ answered \in [Steps -> BOOLEAN] /\ handled \subseteq Steps
    BY DEF Init
  <2>3. /\ taskStatus \in {"DRAFT", "RUNNING"} \cup Terminal
        /\ status \in [Steps -> StepStatus]
        /\ polls \in [Steps -> Nat]
        /\ timer \in [Steps -> {"none", "waiting", "releasing", "released", "done"}]
        /\ settle \in [Steps -> {"none", "waiting", "paid", "skipped", "done"}]
        /\ provider \in [Steps -> (Replies \ {"none", "error"}) \cup {"idle"}]
    BY DEF Init, StepStatus
  <2>4. /\ delivered \subseteq Steps /\ overlapped \subseteq Steps
        /\ cleared \subseteq Steps \X {"buyer", "timer"}
    BY DEF Init
  <2>5. /\ answers \in 0..MaxAnswers /\ disputes \in 0..MaxDisputes
        /\ evicts \in 0..MaxEvicts /\ faults \in 0..MaxFaults
    BY ExecutorAssumption DEF Init
  <2>6. QED
    BY <1>1, <2>1, <2>2, <2>3, <2>4, <2>5 DEF TypeOK, Execs, Polls
<1>5. QED
  BY <1>3, <1>4 DEF TypeInv

\* The executor's own steps.
LEMMA ExecType ==
    ASSUME TypeInv, ExecStep
    PROVE  TypeInv'
<1> USE ExecutorAssumption DEF TypeInv, bounds, config, rows, runs, queues, history
<1>1. CASE TakeTask
  <2>1. CASE taskStatus \in Terminal
    BY <1>1, <2>1 DEF TakeTask, TypeOK, RunOK
  <2>2. CASE taskStatus \notin Terminal
    <3>1. exec' = [NoExec EXCEPT !.at = "start", !.seen = status, !.handled = handled]
          /\ job' = [job EXCEPT !.state = "active"]
      BY <1>1, <2>2 DEF TakeTask
    <3>2. exec' \in Execs
      BY <3>1, IdleType DEF TypeOK, Execs
    <3>3. exec'.at = "start"
      BY <3>1 DEF NoExec
    <3>4. QED
      BY <1>1, <3>1, <3>2, <3>3 DEF TakeTask, TypeOK, RunOK, Execs
  <2>3. QED
    BY <2>1, <2>2
<1>2. CASE MarkRunning
  BY <1>2 DEF MarkRunning, TypeOK, RunOK
<1>3. CASE ApplyReply
  <2> DEFINE s == exec.next
             after == StatusAfter(s, exec.reply)
  <2>1. s \in Steps /\ exec.reply \in Replies
    BY <1>3 DEF ApplyReply, TypeOK, RunOK
  <2>2. after \in StepStatus /\ Following(s, exec.reply) \in SUBSET Effects
    BY <2>1, FollowingType
  <2>3. /\ status' = [status EXCEPT ![s] = after]
        /\ answered' \in [Steps -> BOOLEAN]
        /\ delivered' \subseteq Steps /\ handled' \subseteq Steps
    BY <1>3, <2>1, HandleType DEF ApplyReply, WriteReply, TypeOK
  <2>4. exec' \in Execs /\ exec'.at = "enqueue" /\ exec'.next = s
    BY <1>3, <2>1, <2>2 DEF ApplyReply, TypeOK, Execs, Replies
  <2>5. QED
    BY <1>3, <2>1, <2>2, <2>3, <2>4 DEF ApplyReply, TypeOK, RunOK, Execs
<1>4. CASE ExecEnqueue
  <2>1. exec.next \in Steps /\ exec.todo \in SUBSET Effects /\ job.state = "active"
    BY <1>4 DEF ExecEnqueue, TypeOK, RunOK
  <2>2. Enqueue(exec.next, exec.todo)
    BY <1>4 DEF ExecEnqueue
  <2>3. exec.next + 1 \in 1..(N + 1)
    BY <2>1 DEF Steps
  <2>4. exec' \in Execs /\ exec'.at = "loop"
    BY <1>4, <2>3 DEF ExecEnqueue, TypeOK, Execs
  <2>5. QED
    BY <1>4, <2>1, <2>2, <2>4, EnqueueType DEF ExecEnqueue, TypeOK, RunOK, Execs
<1>5. CASE WriteOutcome
  BY <1>5 DEF WriteOutcome, TypeOK, RunOK, Terminal
<1>6. CASE EndTask
  <2>1. finalized' \in BOOLEAN /\ taskStatus' \in {"DRAFT", "RUNNING"} \cup Terminal
    BY <1>6, FinalizeType DEF EndTask
  <2>2. exec' \in Execs /\ exec'.at = "idle"
    BY <1>6, IdleType DEF EndTask, NoExec
  <2>3. QED
    BY <1>6, <2>1, <2>2 DEF EndTask, TypeOK, RunOK, Execs
<1>7. ASSUME NEW s \in Steps, PassOver(s) \/ SkipStep(s) \/ Dispatch(s)
      PROVE  TypeInv'
  <2>1. s + 1 \in 1..(N + 1) /\ s \in 1..(N + 1)
    BY DEF Steps
  <2>2. CASE PassOver(s)
    <3>1. exec' \in Execs /\ exec'.at = "loop"
      BY <2>1, <2>2 DEF PassOver, AtStep, TypeOK, Execs
    <3>2. QED
      BY <2>2, <3>1 DEF PassOver, AtStep, TypeOK, RunOK, Execs
  <2>3. CASE SkipStep(s)
    <3>1. exec' \in Execs /\ exec'.at = "loop"
      BY <2>1, <2>3 DEF SkipStep, AtStep, TypeOK, Execs, StepStatus
    <3>2. status' \in [Steps -> StepStatus] /\ overlapped' \subseteq Steps
      BY <2>3, Contended DEF SkipStep, TypeOK, StepStatus
    <3>3. QED
      BY <2>3, <3>1, <3>2 DEF SkipStep, AtStep, TypeOK, RunOK, Execs
  <2>4. CASE Dispatch(s)
    <3>1. PICK reply \in Replies : /\ Reply(s, "dispatch", reply)
                                   /\ exec' = [exec EXCEPT !.at = "reply", !.reply = reply]
      BY <2>4 DEF Dispatch
    <3>2. exec' \in Execs /\ exec'.at = "reply" /\ exec'.next = s
      BY <2>4, <3>1 DEF Dispatch, AtStep, TypeOK, Execs
    <3>3. overlapped' \subseteq Steps
      BY <2>4, Contended DEF Dispatch
    <3>4. QED
      BY <2>4, <3>1, <3>2, <3>3, ReplyType DEF Dispatch, AtStep, TypeOK, RunOK, Execs
  <2>5. QED
    BY <1>7, <2>2, <2>3, <2>4
<1>8. QED
  BY <1>1, <1>2, <1>3, <1>4, <1>5, <1>6, <1>7 DEF ExecStep

\* The polls.
LEMMA PollType ==
    ASSUME TypeInv, NEW p \in Pollers,
           PollRun(p) \/ (\E s \in Steps : TakePoll(p, s)) \/ PollFails(p) \/ PollLosesJobs(p)
    PROVE  TypeInv'
<1> USE ExecutorAssumption DEF TypeInv, bounds, config, rows, runs, queues, history
<1>0. poll \in [Pollers -> Polls] /\ poll[p].step \in Steps /\ poll[p].reply \in Replies
      /\ poll[p].todo \in SUBSET Effects
  BY DEF TypeOK, Polls
<1>1. ASSUME NEW s \in Steps, TakePoll(p, s) PROVE TypeInv'
  <2>1. poll' \in [Pollers -> Polls]
    <3>1. CASE poll' = poll
      BY <1>0, <3>1
    <3>2. CASE poll' # poll
      <4> DEFINE new == [NoPoll EXCEPT !.step = s,
                 !.at = IF late THEN "reply" ELSE "call",
                 !.reply = IF late THEN "failed" ELSE "none",
                 !.kind = IF status[s] = "INPUT_REQUIRED" THEN "answer" ELSE "poll",
                 !.handled = s \in handled]
      <4>1. poll' = [poll EXCEPT ![p] = new]
        BY <1>1, <3>2 DEF TakePoll
      <4>2. \A known \in BOOLEAN : [NoPoll EXCEPT !.step = s,
                 !.at = IF late THEN "reply" ELSE "call",
                 !.reply = IF late THEN "failed" ELSE "none",
                 !.kind = IF status[s] = "INPUT_REQUIRED" THEN "answer" ELSE "poll",
                 !.handled = known] \in Polls
        BY IdleType DEF Polls, Replies
      <4>3. (s \in handled) \in BOOLEAN
        OBVIOUS
      <4>4. new \in Polls
        BY <4>2, <4>3, Zenon
      <4>5. QED
        BY <1>0, <4>1, <4>4
    <3>3. QED
      BY <3>1, <3>2
  <2>2. polls' \in [Steps -> Nat]
    <3>1. polls[s] > 0 /\ polls' = [polls EXCEPT ![s] = polls[s] - 1]
      BY <1>1 DEF TakePoll
    <3>2. polls \in [Steps -> Nat]
      BY DEF TypeOK
    <3>3. QED
      BY <3>1, <3>2
  <2>3. overlapped' \subseteq Steps
    <3>1. overlapped' = overlapped \/ overlapped' = overlapped \cup {s}
      BY <1>1, Zenon DEF TakePoll
    <3>2. overlapped \subseteq Steps
      BY DEF TypeOK
    <3>3. QED
      BY <3>1, <3>2
  <2>4. UNCHANGED <<config, rows, late, job, timer, settle, exec, provider, delivered,
                    cleared, bounds>>
    BY <1>1 DEF TakePoll
  <2>5. QED
    BY <2>1, <2>2, <2>3, <2>4 DEF TypeOK, RunOK, Polls
<1>2. CASE CallProvider(p)
  <2>1. PICK reply \in Replies :
          /\ Reply(poll[p].step, poll[p].kind, reply)
          /\ poll' = [poll EXCEPT ![p].at = "reply", ![p].reply = reply, ![p].kind = "none"]
    BY <1>2 DEF CallProvider
  <2>2. poll' \in [Pollers -> Polls]
    <3>1. [poll[p] EXCEPT !.at = "reply", !.reply = reply, !.kind = "none"] \in Polls
      BY <1>0 DEF Polls
    <3>2. poll' = [poll EXCEPT ![p] =
            [poll[p] EXCEPT !.at = "reply", !.reply = reply, !.kind = "none"]]
      BY <1>0, <2>1
    <3>3. QED
      BY <1>0, <3>1, <3>2
  <2>3. provider' \in [Steps -> (Replies \ {"none", "error"}) \cup {"idle"}]
    BY <1>0, <2>1, ReplyType
  <2>4. QED
    BY <1>2, <2>2, <2>3 DEF CallProvider, TypeOK, RunOK, Polls
<1>3. CASE ApplyPoll(p)
  <2> DEFINE s == poll[p].step
             reply == poll[p].reply
  <2>1. StatusAfter(s, reply) \in StepStatus /\ Following(s, reply) \in SUBSET Effects
    BY <1>0, FollowingType
  <2>2. PICK todo \in SUBSET Effects :
          poll' = [poll EXCEPT ![p] = [NoPoll EXCEPT !.step = s, !.at = "enqueue", !.todo = todo]]
    <3>1. CASE reply = "error"
      BY <1>3, <3>1 DEF ApplyPoll, Effects
    <3>2. CASE reply # "error"
      <4> DEFINE todo == Following(s, reply)
                   \cup (IF StatusAfter(s, reply) \notin Parked THEN {"task"} ELSE {})
      <4>1. todo \in SUBSET Effects
        BY <2>1 DEF Effects
      <4>2. poll' = [poll EXCEPT ![p] = [NoPoll EXCEPT !.step = s, !.at = "enqueue",
                                                        !.todo = todo]]
        BY <1>3, <3>2 DEF ApplyPoll
      <4>3. QED
        BY <4>1, <4>2
    <3>3. QED
      BY <3>1, <3>2
  <2>3. poll' \in [Pollers -> Polls]
    BY <1>0, <2>2, IdleType DEF Polls
  <2>4. status' \in [Steps -> StepStatus]
    BY <1>0, <1>3, <2>1 DEF ApplyPoll, TypeOK
  <2>5. answered' \in [Steps -> BOOLEAN] /\ handled' \subseteq Steps
    <3>1. answered' = answered \/ answered' = [answered EXCEPT ![s] = FALSE]
      BY <1>3, Zenon DEF ApplyPoll
    <3>2. answered \in [Steps -> BOOLEAN]
      BY DEF TypeOK
    <3>3. handled' = handled \/ KeepHandle(s, reply, poll[p].handled)
      BY <1>3, Zenon DEF ApplyPoll
    <3>4. handled' \subseteq Steps
      BY <1>0, <3>3, HandleType DEF TypeOK
    <3>5. QED
      BY <1>0, <3>1, <3>2, <3>4
  <2>6. delivered' \subseteq Steps
    <3>1. delivered' = delivered \/ delivered' = delivered \cup {s}
      BY <1>3, Zenon DEF ApplyPoll
    <3>2. QED
      BY <1>0, <3>1 DEF TypeOK
  <2>7. UNCHANGED <<config, taskStatus, finalized, disputed, late, queues, exec, provider,
                    cleared, overlapped, bounds>>
    BY <1>3 DEF ApplyPoll
  <2>8. QED
    BY <2>3, <2>4, <2>5, <2>6, <2>7 DEF TypeOK, RunOK, Polls
<1>4. CASE PollEnqueue(p)
  <2>1. Enqueue(poll[p].step, poll[p].todo)
    BY <1>4 DEF PollEnqueue
  <2>2. poll' \in [Pollers -> Polls]
    BY <1>0, <1>4, IdleType DEF PollEnqueue
  <2>3. QED
    BY <1>0, <1>4, <2>1, <2>2, EnqueueType DEF PollEnqueue, TypeOK, RunOK, Polls
<1>5. CASE PollFails(p)
  <2>1. poll' \in [Pollers -> Polls]
    BY <1>0, <1>5, IdleType DEF PollFails
  <2>2. polls' \in [Steps -> Nat] /\ faults' \in 0..MaxFaults
    BY <1>0, <1>5 DEF PollFails, Fault, TypeOK
  <2>3. QED
    BY <1>5, <2>1, <2>2 DEF PollFails, Fault, TypeOK, RunOK, Polls
<1>6. CASE PollLosesJobs(p)
  <2>1. poll' \in [Pollers -> Polls]
    <3>1. [poll[p] EXCEPT !.todo = {}] \in Polls
      BY <1>0 DEF Polls
    <3>2. poll' = [poll EXCEPT ![p] = [poll[p] EXCEPT !.todo = {}]]
      BY <1>6 DEF PollLosesJobs
    <3>3. QED
      BY <1>0, <3>1, <3>2
  <2>2. QED
    BY <1>6, <2>1 DEF PollLosesJobs, Fault, TypeOK, RunOK, Polls
<1>7. QED
  BY <1>1, <1>2, <1>3, <1>4, <1>5, <1>6 DEF PollRun

\* The timer, settlement, the buyer, time and failures.
LEMMA StepType ==
    ASSUME TypeInv, NEW s \in Steps,
           TimerRun(s) \/ SettleRun(s) \/ AnswerStep(s) \/ TimerFails(s)
    PROVE  TypeInv'
<1> USE ExecutorAssumption DEF TypeInv, bounds, config, rows, runs, queues, history
<1>1. CASE TimerFires(s)
  BY <1>1 DEF TimerFires, TypeOK, RunOK
<1>2. CASE TimerReleases(s)
  BY <1>2 DEF TimerReleases, TypeOK, RunOK, StepStatus
<1>3. CASE TimerSettles(s)
  <2>1. taskStatus' \in {"DRAFT", "RUNNING"} \cup Terminal
    BY <1>3, CompleteUnlockedType DEF TimerSettles
  <2>2. QED
    BY <1>3, <2>1 DEF TimerSettles, Added, TypeOK, RunOK
<1>4. CASE Settle(s)
  BY <1>4 DEF Settle, TypeOK, RunOK
<1>5. CASE AfterSettle(s)
  BY <1>5, FinalizeType DEF AfterSettle, TypeOK, RunOK
<1>6. CASE AnswerStep(s)
  BY <1>6 DEF AnswerStep, TypeOK, RunOK
<1>7. CASE TimerFails(s)
  BY <1>7 DEF TimerFails, Fault, TypeOK, RunOK
<1>8. QED
  BY <1>1, <1>2, <1>3, <1>4, <1>5, <1>6, <1>7 DEF TimerRun, SettleRun

LEMMA OtherType ==
    ASSUME TypeInv,
           Approve \/ RaiseDispute \/ ResolveDispute \/ PassDeadline \/ EvictTask
             \/ ExecFails \/ ExecLosesJobs \/ UNCHANGED vars
    PROVE  TypeInv'
<1> USE ExecutorAssumption DEF TypeInv, bounds, config, rows, runs, queues, history
<1>1. CASE Approve
  <2>1. taskStatus' \in {"DRAFT", "RUNNING"} \cup Terminal
    BY <1>1, CompleteUnlockedType DEF Approve
  <2>2. status' \in [Steps -> StepStatus]
        /\ settle' \in [Steps -> {"none", "waiting", "paid", "skipped", "done"}]
    BY <1>1 DEF Approve, Added, TypeOK, StepStatus
  <2>3. cleared' \subseteq Steps \X {"buyer", "timer"}
    BY <1>1 DEF Approve, TypeOK
  <2>4. QED
    BY <1>1, <2>1, <2>2, <2>3 DEF Approve, TypeOK, RunOK
<1>2. CASE RaiseDispute
  BY <1>2 DEF RaiseDispute, TypeOK, RunOK
<1>3. CASE ResolveDispute
  <2>1. disputed' \in BOOLEAN
    BY <1>3 DEF ResolveDispute
  <2>2. UNCHANGED <<config, taskStatus, finalized, status, answered, handled, late, queues,
                    runs, provider, history, bounds>>
    BY <1>3 DEF ResolveDispute
  <2>3. QED
    BY <2>1, <2>2 DEF TypeOK, RunOK
<1>4. CASE PassDeadline
  BY <1>4 DEF PassDeadline, TypeOK, RunOK
<1>5. CASE EvictTask
  BY <1>5 DEF EvictTask, TypeOK, RunOK, NoJob
<1>6. CASE ExecFails
  <2>1. exec' \in Execs /\ exec'.at = "idle"
    BY <1>6, IdleType DEF ExecFails, NoExec
  <2>2. job.attempts + 1 \in 0..MaxAttempts
    BY <1>6 DEF ExecFails, TypeOK, RunOK
  <2>3. job' \in [state : {"none", "waiting", "active", "done", "failed"},
                  attempts : 0..MaxAttempts]
        /\ (job'.state \in {"waiting", "active"} => job'.attempts < MaxAttempts)
        /\ job'.state # "none"
    BY <1>6, <2>2 DEF ExecFails
  <2>4. QED
    BY <1>6, <2>1, <2>3 DEF ExecFails, Fault, TypeOK, RunOK, Execs
<1>7. CASE ExecLosesJobs
  BY <1>7 DEF ExecLosesJobs, Fault, TypeOK, RunOK
<1>8. CASE UNCHANGED vars
  BY <1>8 DEF vars, TypeOK, RunOK
<1>9. QED
  BY <1>1, <1>2, <1>3, <1>4, <1>5, <1>6, <1>7, <1>8

LEMMA TypeStep == TypeInv /\ [Next]_vars => TypeInv'
  BY ExecType, PollType, StepType, OtherType DEF Next

LEMMA TypeInvariant == Spec => []TypeInv
  BY InitType, TypeStep, PTL DEF Spec

\* Every reachable state is well typed; in particular the job of a task never
\* runs more often than its attempts allow (queue.ts 75-87).
THEOREM TypeCorrect == Spec => []TypeOK
<1>1. TypeInv => TypeOK
  BY DEF TypeInv
<1>2. QED
  BY <1>1, TypeInvariant, PTL

-----------------------------------------------------------------------------
\* What has been earned.  A step may be settled once it is released, and the
\* facts below follow the permission on its way: from the reply to the row, from
\* the row to the executor's copy and to the timer, and into the jobs that are
\* still to be enqueued.

\* The jobs that follow a reply to s are justified by it.
Warranted(s, todo) ==
    /\ "settle" \in todo => Earned(s)
    /\ "release" \in todo => s \in delivered /\ Tier[s] = "T2"

PayInv ==
    /\ \A s \in Steps : settle[s] # "none" => Earned(s)
    /\ \A s \in Steps : status[s] = "RELEASED" => Earned(s)
    /\ \A s \in Steps : exec.seen[s] = "RELEASED" => Earned(s)
    /\ \A s \in Steps : status[s] = "AWAITING_APPROVAL" => s \in delivered
    /\ \A s \in Steps : timer[s] # "none" => s \in delivered /\ Tier[s] = "T2"
    /\ \A s \in Steps : timer[s] = "released" => <<s, "timer">> \in cleared
    /\ exec.todo # {} => exec.at = "enqueue"
    /\ Warranted(exec.next, exec.todo)
    /\ \A p \in Pollers : Warranted(poll[p].step, poll[p].todo)
    /\ \A s \in Steps : provider[s] # "idle" => \A d \in Deps[s] : Earned(d)

\* What was earned stays earned: deliveries and approvals are never withdrawn.
LEMMA EarnedStays ==
    ASSUME delivered \subseteq delivered', cleared \subseteq cleared', UNCHANGED window
    PROVE  /\ \A s \in Steps : Earned(s) => Earned(s)'
           /\ \A s, todo : Warranted(s, todo) => Warranted(s, todo)'
<1>1. ASSUME NEW s, Earned(s) PROVE Earned(s)'
  BY <1>1 DEF Earned
<1>2. ASSUME NEW s, NEW todo, Warranted(s, todo) PROVE Warranted(s, todo)'
  BY <1>1, <1>2 DEF Warranted
<1>3. QED
  BY <1>1, <1>2

\* A reply that is written leaves the row and the jobs after it justified.
LEMMA ReplyWarranted ==
    ASSUME NEW s \in Steps, NEW reply \in Replies,
           delivered' = IF reply = "done" THEN delivered \cup {s} ELSE delivered,
           UNCHANGED <<cleared, window>>
    PROVE  /\ StatusAfter(s, reply) = "RELEASED" => Earned(s)'
           /\ StatusAfter(s, reply) = "AWAITING_APPROVAL" => s \in delivered'
           /\ "settle" \in Following(s, reply) => Earned(s)'
           /\ "release" \in Following(s, reply) => s \in delivered' /\ Tier[s] = "T2"
<1>1. CASE reply = "done"
  <2>1. s \in delivered'
    BY <1>1
  <2>2. ~Held(s) => Earned(s)'
    BY <2>1 DEF Held, Earned
  <2>3. "settle" \in Following(s, reply) => ~Held(s)
    BY <1>1 DEF Following
  <2>4. "release" \in Following(s, reply) => Tier[s] = "T2"
    BY <1>1 DEF Following
  <2>5. StatusAfter(s, reply) = "RELEASED" => ~Held(s)
    BY <1>1 DEF StatusAfter
  <2>6. QED
    BY <2>1, <2>2, <2>3, <2>4, <2>5
<1>2. CASE reply # "done"
  BY <1>2 DEF StatusAfter, Following, Replies
<1>3. QED
  BY <1>1, <1>2

\* Enqueueing what is warranted.
LEMMA EnqueuePay ==
    ASSUME TypeInv, PayInv, NEW s \in Steps, NEW todo \in SUBSET Effects,
           Warranted(s, todo), Enqueue(s, todo)
    PROVE  /\ \A t \in Steps : settle'[t] # "none" => Earned(t)
           /\ \A t \in Steps : timer'[t] # "none" => t \in delivered /\ Tier[t] = "T2"
           /\ \A t \in Steps : timer'[t] = "released" => <<t, "timer">> \in cleared
<1> SUFFICES ASSUME NEW t \in Steps
             PROVE  /\ settle'[t] # "none" => Earned(t)
                    /\ timer'[t] # "none" => t \in delivered /\ Tier[t] = "T2"
                    /\ timer'[t] = "released" => <<t, "timer">> \in cleared
  OBVIOUS
<1>0. timer \in [Steps -> {"none", "waiting", "releasing", "released", "done"}]
      /\ settle \in [Steps -> {"none", "waiting", "paid", "skipped", "done"}]
  BY DEF TypeInv, TypeOK
<1>1. settle'[t] = settle[t] \/ (t = s /\ "settle" \in todo)
  BY <1>0 DEF Enqueue
<1>2. timer'[t] = timer[t] \/ (t = s /\ "release" \in todo /\ timer'[t] = Added(timer[t]))
  BY <1>0 DEF Enqueue
<1>3. settle'[t] # "none" => Earned(t)
  BY <1>1 DEF PayInv, Warranted
<1>4. timer'[t] # "none" => t \in delivered /\ Tier[t] = "T2"
  BY <1>2 DEF PayInv, Warranted
<1>5. timer'[t] = "released" => <<t, "timer">> \in cleared
  BY <1>2 DEF PayInv, Added
<1>6. QED
  BY <1>3, <1>4, <1>5

LEMMA PayInit == Init => PayInv
<1> SUFFICES ASSUME Init PROVE PayInv
  OBVIOUS
<1>1. exec = NoExec /\ poll = [p \in Pollers |-> NoPoll]
  BY DEF Init
<1>2. \A s, todo : todo = {} => Warranted(s, todo)
  BY DEF Warranted
<1>3. \A s \in Steps : exec.seen[s] = "PENDING"
  BY <1>1 DEF NoExec
<1>4. exec.todo = {} /\ \A p \in Pollers : poll[p].todo = {}
  BY <1>1 DEF NoExec, NoPoll
<1>5. QED
  BY <1>2, <1>3, <1>4 DEF Init, PayInv

\* The executor's own steps.
LEMMA PayExec ==
    ASSUME TypeInv, PayInv, ExecStep
    PROVE  PayInv'
<1> USE DEF bounds, config, rows, runs, queues, history
<1>0. \A s, todo : todo = {} => Warranted(s, todo)
  BY DEF Warranted
<1>1. CASE TakeTask
  <2>1. exec' = exec \/ exec' = [NoExec EXCEPT !.at = "start", !.seen = status,
                                                 !.handled = handled]
    BY <1>1 DEF TakeTask
  <2>2. CASE exec' = exec
    BY <1>1, <2>2 DEF TakeTask, PayInv, Warranted, Earned
  <2>3. CASE exec' = [NoExec EXCEPT !.at = "start", !.seen = status,
                                                 !.handled = handled]
    <3>1. exec'.todo = {} /\ exec'.seen = status
      BY <2>3 DEF NoExec
    <3>2. Warranted(exec.next, exec.todo)'
      BY <3>1 DEF Warranted
    <3>3. QED
      BY <1>1, <3>1, <3>2 DEF TakeTask, PayInv, Warranted, Earned
  <2>4. QED
    BY <2>1, <2>2, <2>3
<1>2. CASE MarkRunning
  <2>1. exec'.todo = {} /\ exec'.seen = exec.seen /\ exec.todo = {}
    BY <1>2 DEF MarkRunning, PayInv, TypeInv, TypeOK
  <2>2. Warranted(exec.next, exec.todo)'
    BY <2>1 DEF Warranted
  <2>3. QED
    BY <1>2, <2>1, <2>2 DEF MarkRunning, PayInv, Warranted, Earned
<1>3. CASE ApplyReply
  <2>0. exec.next \in Steps /\ exec.reply \in Replies
    BY <1>3 DEF ApplyReply, TypeInv, TypeOK, RunOK
  <2>1. PICK s \in Steps, reply \in Replies : s = exec.next /\ reply = exec.reply
    BY <2>0
  <2>2. /\ status' = [status EXCEPT ![s] = StatusAfter(s, reply)]
        /\ delivered' = IF reply = "done" THEN delivered \cup {s} ELSE delivered
        /\ UNCHANGED <<cleared, window>>
    BY <1>3, <2>1 DEF ApplyReply, WriteReply
  <2>3. /\ exec'.at = "enqueue" /\ exec'.next = s
        /\ exec'.todo = Following(s, reply)
        /\ exec'.seen \in {exec.seen, [exec.seen EXCEPT ![s] = StatusAfter(s, reply)]}
    BY <1>3, <2>1 DEF ApplyReply, TypeInv, TypeOK
  <2>4. /\ \A t \in Steps : Earned(t) => Earned(t)'
        /\ \A t, todo : Warranted(t, todo) => Warranted(t, todo)'
    BY <2>2, EarnedStays
  <2>5. /\ StatusAfter(s, reply) = "RELEASED" => Earned(s)'
        /\ StatusAfter(s, reply) = "AWAITING_APPROVAL" => s \in delivered'
        /\ "settle" \in Following(s, reply) => Earned(s)'
        /\ "release" \in Following(s, reply) => s \in delivered' /\ Tier[s] = "T2"
    BY <2>1, <2>2, ReplyWarranted
  <2>6. Warranted(exec.next, exec.todo)'
    BY <2>3, <2>5 DEF Warranted
  <2>7. UNCHANGED <<settle, timer, poll, provider>> /\ delivered \subseteq delivered'
    BY <1>3, <2>2 DEF ApplyReply
  <2>8. status \in [Steps -> StepStatus] /\ exec.seen \in [Steps -> StepStatus]
        /\ Deps \in [Steps -> SUBSET Steps]
    BY ExecutorAssumption DEF TypeInv, TypeOK
  <2>9. /\ \A t \in Steps : status'[t] = "RELEASED" => Earned(t)'
        /\ \A t \in Steps : status'[t] = "AWAITING_APPROVAL" => t \in delivered'
        /\ \A t \in Steps : exec'.seen[t] = "RELEASED" => Earned(t)'
    BY <2>1, <2>2, <2>3, <2>4, <2>5, <2>7, <2>8 DEF PayInv
  <2>10. /\ \A p \in Pollers : Warranted(poll[p].step, poll[p].todo)'
         /\ \A t \in Steps : provider'[t] # "idle" => \A d \in Deps[t] : Earned(d)'
    BY <2>4, <2>7, <2>8 DEF PayInv
  <2>11. QED
    BY <2>2, <2>3, <2>4, <2>6, <2>7, <2>9, <2>10 DEF PayInv
<1>4. CASE ExecEnqueue
  <2>1. exec.next \in Steps /\ exec.todo \in SUBSET Effects
    BY <1>4 DEF ExecEnqueue, TypeInv, TypeOK, RunOK
  <2>2. Enqueue(exec.next, exec.todo) /\ Warranted(exec.next, exec.todo)
    BY <1>4 DEF ExecEnqueue, PayInv
  <2>3. exec'.todo = {} /\ exec'.seen = exec.seen
    BY <1>4 DEF ExecEnqueue, TypeInv, TypeOK
  <2>4. Warranted(exec.next, exec.todo)'
    BY <2>3 DEF Warranted
  <2>5. UNCHANGED <<status, poll, provider, delivered, cleared, window>>
    BY <1>4 DEF ExecEnqueue
  <2>6. QED
    BY <2>1, <2>2, <2>3, <2>4, <2>5, EnqueuePay DEF PayInv, Warranted, Earned
<1>5. CASE WriteOutcome
  <2>1. exec'.todo = {} /\ exec'.seen = exec.seen
    BY <1>5 DEF WriteOutcome, PayInv, TypeInv, TypeOK
  <2>2. Warranted(exec.next, exec.todo)'
    BY <2>1 DEF Warranted
  <2>3. UNCHANGED <<status, settle, timer, poll, provider, delivered, cleared, window>>
    BY <1>5 DEF WriteOutcome
  <2>4. QED
    BY <2>1, <2>2, <2>3 DEF PayInv, Warranted, Earned
<1>6. CASE EndTask
  <2>1. exec'.todo = {} /\ \A s \in Steps : exec'.seen[s] = "PENDING"
    BY <1>6 DEF EndTask, NoExec
  <2>2. Warranted(exec.next, exec.todo)'
    BY <2>1 DEF Warranted
  <2>3. UNCHANGED <<status, settle, timer, poll, provider, delivered, cleared, window>>
    BY <1>6 DEF EndTask
  <2>4. QED
    BY <2>1, <2>2, <2>3 DEF PayInv, Warranted, Earned
<1>7. ASSUME NEW s \in Steps, PassOver(s) PROVE PayInv'
  <2>1. exec'.todo = {} /\ exec'.seen = exec.seen
    BY <1>7 DEF PassOver, AtStep, PayInv, TypeInv, TypeOK
  <2>2. Warranted(exec.next, exec.todo)'
    BY <2>1 DEF Warranted
  <2>3. UNCHANGED <<status, settle, timer, poll, provider, delivered, cleared, window>>
    BY <1>7 DEF PassOver
  <2>4. QED
    BY <2>1, <2>2, <2>3 DEF PayInv, Warranted, Earned
<1>8. ASSUME NEW s \in Steps, SkipStep(s) PROVE PayInv'
  <2>1. exec'.todo = {} /\ exec'.seen = [exec.seen EXCEPT ![s] = "SKIPPED"]
    BY <1>8 DEF SkipStep, AtStep, PayInv, TypeInv, TypeOK
  <2>2. status' = [status EXCEPT ![s] = "SKIPPED"]
    BY <1>8 DEF SkipStep
  <2>3. /\ \A t \in Steps : status'[t] = status[t] \/ status'[t] = "SKIPPED"
        /\ \A t \in Steps : exec'.seen[t] = exec.seen[t] \/ exec'.seen[t] = "SKIPPED"
    BY <2>1, <2>2 DEF TypeInv, TypeOK
  <2>4. Warranted(exec.next, exec.todo)'
    BY <2>1 DEF Warranted
  <2>5. UNCHANGED <<settle, timer, poll, provider, delivered, cleared, window>>
    BY <1>8 DEF SkipStep
  <2>6. QED
    BY <2>1, <2>3, <2>4, <2>5 DEF PayInv, Warranted, Earned
<1>9. ASSUME NEW s \in Steps, Dispatch(s) PROVE PayInv'
  <2>1. PICK reply \in Replies : /\ Reply(s, "dispatch", reply)
                                 /\ exec' = [exec EXCEPT !.at = "reply", !.reply = reply]
    BY <1>9 DEF Dispatch
  <2>2. exec'.todo = {} /\ exec'.seen = exec.seen
    BY <1>9, <2>1 DEF Dispatch, AtStep, PayInv, TypeInv, TypeOK
  <2>3. Warranted(exec.next, exec.todo)'
    BY <2>2 DEF Warranted
  <2>4. UNCHANGED <<status, settle, timer, poll, delivered, cleared, window>>
    BY <1>9 DEF Dispatch
  <2>5. \A d \in Deps[s] : Earned(d)
    BY <1>9, ExecutorAssumption DEF Dispatch, Ready, PayInv
  <2>6. \A t \in Steps : t # s => provider'[t] = provider[t]
    BY <2>1 DEF Reply, TypeInv, TypeOK
  <2>7. \A t \in Steps : provider'[t] # "idle" => \A d \in Deps[t] : Earned(d)
    BY <2>5, <2>6 DEF PayInv
  <2>8. QED
    BY <2>2, <2>3, <2>4, <2>7 DEF PayInv, Warranted, Earned
<1>10. QED
  BY <1>1, <1>2, <1>3, <1>4, <1>5, <1>6, <1>7, <1>8, <1>9 DEF ExecStep

\* The polls.
LEMMA PayPoll ==
    ASSUME TypeInv, PayInv, NEW p \in Pollers,
           PollRun(p) \/ (\E s \in Steps : TakePoll(p, s)) \/ PollFails(p) \/ PollLosesJobs(p)
    PROVE  PayInv'
<1> USE DEF bounds, config, rows, runs, queues, history
<1>0. poll \in [Pollers -> Polls]
  BY DEF TypeInv, TypeOK, Polls
\* A poll that enqueues nothing disturbs nothing else.
<1>1. ASSUME \A q \in Pollers : poll'[q].todo = {} \/ poll'[q] = poll[q],
             UNCHANGED <<exec, status, settle, timer, provider, delivered, cleared, window>>
      PROVE  PayInv'
  <2>1. \A q \in Pollers : Warranted(poll[q].step, poll[q].todo)'
    BY <1>1 DEF PayInv, Warranted, Earned
  <2>2. QED
    BY <1>1, <2>1 DEF PayInv, Warranted, Earned
<1>2. ASSUME NEW s \in Steps, TakePoll(p, s) PROVE PayInv'
  <2>1. CASE poll' = poll
    BY <1>1, <1>2, <2>1 DEF TakePoll
  <2>2. CASE poll' # poll
    <3>1. PICK new : poll' = [poll EXCEPT ![p] = new] /\ new.todo = {}
      <4> DEFINE new == [NoPoll EXCEPT !.step = s,
                 !.at = IF late THEN "reply" ELSE "call",
                 !.reply = IF late THEN "failed" ELSE "none",
                 !.kind = IF status[s] = "INPUT_REQUIRED" THEN "answer" ELSE "poll",
                 !.handled = s \in handled]
      <4>1. poll' = [poll EXCEPT ![p] = new]
        BY <1>2, <2>2 DEF TakePoll
      <4>2. new.todo = {}
        BY DEF NoPoll
      <4> HIDE DEF new
      <4>3. QED
        BY <4>1, <4>2
    <3>2. \A q \in Pollers : poll'[q].todo = {} \/ poll'[q] = poll[q]
      BY <1>0, <3>1
    <3>3. UNCHANGED <<exec, status, settle, timer, provider, delivered, cleared, window>>
      BY <1>2 DEF TakePoll
    <3>4. QED
      BY <1>1, <3>2, <3>3
  <2>3. QED
    BY <2>1, <2>2
<1>3. CASE CallProvider(p)
  <2>0. poll[p].step \in Steps /\ poll[p].kind \in {"none", "poll", "answer"}
    BY <1>0 DEF Polls
  <2>1. PICK s \in Steps, kind \in {"none", "poll", "answer"}, reply \in Replies :
          /\ s = poll[p].step /\ kind = poll[p].kind
          /\ Reply(s, kind, reply)
          /\ poll' = [poll EXCEPT ![p].at = "reply", ![p].reply = reply, ![p].kind = "none"]
    <3>1. \E reply \in Replies :
            /\ Reply(poll[p].step, poll[p].kind, reply)
            /\ poll' = [poll EXCEPT ![p].at = "reply", ![p].reply = reply, ![p].kind = "none"]
      BY <1>3, Zenon DEF CallProvider
    <3>2. QED
      BY <2>0, <3>1, ZenonT(60)
  <2>2. \A q \in Pollers : poll'[q].todo = poll[q].todo /\ poll'[q].step = poll[q].step
    BY <1>0, <2>1 DEF Polls
  <2>3. UNCHANGED <<exec, status, settle, timer, delivered, cleared, window>>
    BY <1>3 DEF CallProvider
  <2>4. \A t \in Steps : t # s => provider'[t] = provider[t]
    BY <2>1 DEF Reply, TypeInv, TypeOK
  <2>5. provider[s] = "idle" => provider'[s] = "idle"
    BY <2>0, <2>1 DEF Reply, Answers, TypeInv, TypeOK
  <2>6. \A t \in Steps : provider'[t] # "idle" => \A d \in Deps[t] : Earned(d)
    BY <2>4, <2>5 DEF PayInv
  <2>7. \A q \in Pollers : Warranted(poll[q].step, poll[q].todo)'
    BY <2>2, <2>3 DEF PayInv, Warranted, Earned
  <2>8. QED
    BY <2>3, <2>6, <2>7 DEF PayInv, Warranted, Earned
<1>4. CASE ApplyPoll(p)
  <2>0. poll[p].step \in Steps /\ poll[p].reply \in Replies
    BY <1>0 DEF Polls
  <2>1. PICK s \in Steps, reply \in Replies : s = poll[p].step /\ reply = poll[p].reply
    BY <2>0
  <2>2. CASE reply = "error"
    <3>1. poll' = [poll EXCEPT ![p] = [NoPoll EXCEPT !.step = s, !.at = "enqueue",
                                                      !.todo = {"poll"}]]
      BY <1>4, <2>1, <2>2 DEF ApplyPoll
    <3>2. \A q \in Pollers : q # p => poll'[q] = poll[q]
      BY <1>0, <3>1
    <3>3. poll'[p].todo = {"poll"}
      BY <1>0, <3>1 DEF NoPoll
    <3>4. UNCHANGED <<exec, status, settle, timer, provider, delivered, cleared, window>>
      BY <1>4, <2>1, <2>2 DEF ApplyPoll
    <3>5. \A q \in Pollers : Warranted(poll[q].step, poll[q].todo)'
      BY <3>2, <3>3, <3>4 DEF PayInv, Warranted, Earned
    <3>6. QED
      BY <3>4, <3>5 DEF PayInv, Warranted, Earned
  <2>3. CASE reply # "error"
    <3>1. /\ status' = [status EXCEPT ![s] = StatusAfter(s, reply)]
          /\ delivered' = IF reply = "done" THEN delivered \cup {s} ELSE delivered
          /\ UNCHANGED <<cleared, window, exec, settle, timer, provider>>
      BY <1>4, <2>1, <2>3 DEF ApplyPoll
    <3>2. PICK todo : /\ poll' = [poll EXCEPT ![p] =
                           [NoPoll EXCEPT !.step = s, !.at = "enqueue", !.todo = todo]]
                      /\ "settle" \in todo => "settle" \in Following(s, reply)
                      /\ "release" \in todo => "release" \in Following(s, reply)
      <4> DEFINE todo == Following(s, reply)
                   \cup (IF StatusAfter(s, reply) \notin Parked THEN {"task"} ELSE {})
      <4>1. poll' = [poll EXCEPT ![p] =
                       [NoPoll EXCEPT !.step = s, !.at = "enqueue", !.todo = todo]]
        BY <1>4, <2>1, <2>3 DEF ApplyPoll
      <4>2. /\ "settle" \in todo => "settle" \in Following(s, reply)
            /\ "release" \in todo => "release" \in Following(s, reply)
        OBVIOUS
      <4> HIDE DEF todo
      <4>3. QED
        BY <4>1, <4>2
    <3>3. \A q \in Pollers : q # p => poll'[q] = poll[q]
      BY <1>0, <3>2
    <3>4. poll'[p].todo = todo /\ poll'[p].step = s
      BY <1>0, <3>2 DEF NoPoll
    <3>5. /\ \A t \in Steps : Earned(t) => Earned(t)'
          /\ \A t, x : Warranted(t, x) => Warranted(t, x)'
          /\ delivered \subseteq delivered'
      BY <3>1, EarnedStays
    <3>6. /\ StatusAfter(s, reply) = "RELEASED" => Earned(s)'
          /\ StatusAfter(s, reply) = "AWAITING_APPROVAL" => s \in delivered'
          /\ "settle" \in Following(s, reply) => Earned(s)'
          /\ "release" \in Following(s, reply) => s \in delivered' /\ Tier[s] = "T2"
      BY <3>1, ReplyWarranted
    <3>7. \A q \in Pollers : Warranted(poll[q].step, poll[q].todo)'
      <4>1. Warranted(poll[p].step, poll[p].todo)'
        BY <3>2, <3>4, <3>6 DEF Warranted
      <4>2. ASSUME NEW q \in Pollers, q # p
            PROVE  Warranted(poll[q].step, poll[q].todo)'
        <5>1. PICK t, x : t = poll[q].step /\ x = poll[q].todo
          OBVIOUS
        <5>2. Warranted(t, x)'
          BY <3>5, <5>1 DEF PayInv
        <5>3. poll'[q].step = t /\ poll'[q].todo = x
          BY <3>3, <4>2, <5>1
        <5>4. QED
          BY <5>2, <5>3 DEF Warranted
      <4>3. QED
        BY <4>1, <4>2
    <3>8. status \in [Steps -> StepStatus] /\ Deps \in [Steps -> SUBSET Steps]
      BY ExecutorAssumption DEF TypeInv, TypeOK
    <3>9. /\ \A t \in Steps : status'[t] = "RELEASED" => Earned(t)'
          /\ \A t \in Steps : status'[t] = "AWAITING_APPROVAL" => t \in delivered'
      BY <3>1, <3>5, <3>6, <3>8 DEF PayInv
    <3>10. \A t \in Steps : provider'[t] # "idle" => \A d \in Deps[t] : Earned(d)'
      BY <3>1, <3>5, <3>8 DEF PayInv
    <3>11. Warranted(exec.next, exec.todo)'
      <4>1. PICK t, x : t = exec.next /\ x = exec.todo
        OBVIOUS
      <4>2. Warranted(t, x)'
        BY <3>5, <4>1 DEF PayInv
      <4>3. QED
        BY <3>1, <4>1, <4>2 DEF Warranted
    <3>12. QED
      BY <3>1, <3>5, <3>7, <3>9, <3>10, <3>11 DEF PayInv
  <2>4. QED
    BY <2>2, <2>3
<1>5. CASE PollEnqueue(p)
  <2>1. poll[p].step \in Steps /\ poll[p].todo \in SUBSET Effects
    BY <1>0 DEF Polls
  <2>2. Enqueue(poll[p].step, poll[p].todo) /\ Warranted(poll[p].step, poll[p].todo)
    BY <1>5 DEF PollEnqueue, PayInv
  <2>3. \A q \in Pollers : poll'[q].todo = {} \/ poll'[q] = poll[q]
    BY <1>0, <1>5 DEF PollEnqueue, NoPoll
  <2>4. UNCHANGED <<exec, status, provider, delivered, cleared, window>>
    BY <1>5 DEF PollEnqueue
  <2>5. \A q \in Pollers : Warranted(poll[q].step, poll[q].todo)'
    BY <2>3, <2>4 DEF PayInv, Warranted, Earned
  <2>6. /\ \A t \in Steps : settle'[t] # "none" => Earned(t)
        /\ \A t \in Steps : timer'[t] # "none" => t \in delivered /\ Tier[t] = "T2"
        /\ \A t \in Steps : timer'[t] = "released" => <<t, "timer">> \in cleared
    BY <2>1, <2>2, EnqueuePay
  <2>7. QED
    BY <2>4, <2>5, <2>6 DEF PayInv, Warranted, Earned
<1>6. CASE PollFails(p)
  <2>1. \A q \in Pollers : poll'[q].todo = {} \/ poll'[q] = poll[q]
    BY <1>0, <1>6 DEF PollFails, NoPoll
  <2>2. QED
    BY <1>1, <1>6, <2>1 DEF PollFails
<1>7. CASE PollLosesJobs(p)
  <2>1. \A q \in Pollers : poll'[q].todo = {} \/ poll'[q] = poll[q]
    BY <1>0, <1>7 DEF PollLosesJobs, Polls
  <2>2. QED
    BY <1>1, <1>7, <2>1 DEF PollLosesJobs
<1>8. QED
  BY <1>2, <1>3, <1>4, <1>5, <1>6, <1>7 DEF PollRun

\* The timer, settlement and the buyer's answer.
LEMMA PayOfStep ==
    ASSUME TypeInv, PayInv, NEW s \in Steps,
           TimerRun(s) \/ SettleRun(s) \/ AnswerStep(s) \/ TimerFails(s)
    PROVE  PayInv'
<1> USE DEF bounds, config, rows, runs, queues, history
<1>0. /\ timer \in [Steps -> {"none", "waiting", "releasing", "released", "done"}]
      /\ settle \in [Steps -> {"none", "waiting", "paid", "skipped", "done"}]
      /\ status \in [Steps -> StepStatus]
      /\ Deps \in [Steps -> SUBSET Steps]
  BY ExecutorAssumption DEF TypeInv, TypeOK
<1>1. CASE TimerFires(s)
  <2>1. \A t \in Steps : timer'[t] = timer[t]
                         \/ (timer[t] # "none" /\ timer'[t] \in {"releasing", "done"})
    BY <1>0, <1>1 DEF TimerFires
  <2>2. UNCHANGED <<exec, poll, status, settle, provider, delivered, cleared, window>>
    BY <1>1 DEF TimerFires
  <2>3. QED
    BY <2>1, <2>2 DEF PayInv, Warranted, Earned
<1>2. CASE TimerReleases(s)
  <2>1. /\ status' = [status EXCEPT ![s] = "RELEASED"]
        /\ timer' = [timer EXCEPT ![s] = "released"]
        /\ cleared' = cleared \cup {<<s, "timer">>}
        /\ UNCHANGED <<exec, poll, settle, provider, delivered, window>>
    BY <1>2 DEF TimerReleases
  <2>2. s \in delivered /\ Tier[s] = "T2"
    BY <1>2 DEF TimerReleases, PayInv
  <2>3. Earned(s)'
    BY <2>1, <2>2 DEF Earned
  <2>4. /\ \A t \in Steps : Earned(t) => Earned(t)'
        /\ \A t, x : Warranted(t, x) => Warranted(t, x)'
    BY <2>1, EarnedStays
  <2>5. /\ \A t \in Steps : t # s => status'[t] = status[t] /\ timer'[t] = timer[t]
        /\ status'[s] = "RELEASED" /\ timer'[s] = "released"
    BY <1>0, <2>1
  <2>6. /\ \A t \in Steps : settle'[t] # "none" => Earned(t)'
        /\ \A t \in Steps : status'[t] = "RELEASED" => Earned(t)'
        /\ \A t \in Steps : exec'.seen[t] = "RELEASED" => Earned(t)'
        /\ \A t \in Steps : provider'[t] # "idle" => \A d \in Deps[t] : Earned(d)'
    BY <1>0, <2>1, <2>3, <2>4, <2>5 DEF PayInv
  <2>7. /\ \A t \in Steps : status'[t] = "AWAITING_APPROVAL" => t \in delivered'
        /\ \A t \in Steps : timer'[t] # "none" => t \in delivered' /\ Tier[t] = "T2"
        /\ \A t \in Steps : timer'[t] = "released" => <<t, "timer">> \in cleared'
    BY <2>1, <2>2, <2>5 DEF PayInv
  <2>8. Warranted(exec.next, exec.todo)'
    BY <2>1, <2>4 DEF PayInv
  <2>9. \A p \in Pollers : Warranted(poll[p].step, poll[p].todo)'
    BY <2>1, <2>4 DEF PayInv
  <2>10. QED
    BY <2>1, <2>6, <2>7, <2>8, <2>9 DEF PayInv
<1>3. CASE TimerSettles(s)
  <2>1. s \in delivered /\ Tier[s] = "T2" /\ <<s, "timer">> \in cleared
    BY <1>3 DEF TimerSettles, PayInv
  <2>2. Earned(s)
    BY <2>1 DEF Earned
  <2>3. \A t \in Steps : (t # s => settle'[t] = settle[t] /\ timer'[t] = timer[t])
                         /\ timer'[s] = "done"
    BY <1>0, <1>3 DEF TimerSettles
  <2>4. UNCHANGED <<exec, poll, status, provider, delivered, cleared, window>>
    BY <1>3 DEF TimerSettles
  <2>5. QED
    BY <2>1, <2>2, <2>3, <2>4 DEF PayInv, Warranted, Earned
<1>4. CASE SettleRun(s)
  <2>1. \A t \in Steps : settle'[t] = settle[t] \/ settle[t] # "none"
    BY <1>0, <1>4 DEF SettleRun, Settle, AfterSettle
  <2>2. UNCHANGED <<exec, poll, status, timer, provider, delivered, cleared, window>>
    BY <1>4 DEF SettleRun, Settle, AfterSettle
  <2>3. QED
    BY <2>1, <2>2 DEF PayInv, Warranted, Earned
<1>5. CASE AnswerStep(s)
  BY <1>5 DEF AnswerStep, PayInv, Warranted, Earned
<1>6. CASE TimerFails(s)
  <2>1. \A t \in Steps : timer'[t] = timer[t] \/ (timer[t] # "none" /\ timer'[t] = "waiting")
    BY <1>0, <1>6 DEF TimerFails
  <2>2. UNCHANGED <<exec, poll, status, settle, provider, delivered, cleared, window>>
    BY <1>6 DEF TimerFails
  <2>3. QED
    BY <2>1, <2>2 DEF PayInv, Warranted, Earned
<1>7. QED
  BY <1>1, <1>2, <1>3, <1>4, <1>5, <1>6 DEF TimerRun

\* The buyer, time and failures.
LEMMA PayOther ==
    ASSUME TypeInv, PayInv,
           Approve \/ RaiseDispute \/ ResolveDispute \/ PassDeadline \/ EvictTask
             \/ ExecFails \/ ExecLosesJobs \/ UNCHANGED vars
    PROVE  PayInv'
<1> USE DEF bounds, config, rows, runs, queues, history
<1>1. CASE Approve
  <2> DEFINE heldNow == {s \in Steps : status[s] = "AWAITING_APPROVAL"}
  <2>1. /\ status' = [s \in Steps |-> IF s \in heldNow THEN "RELEASED" ELSE status[s]]
        /\ cleared' = cleared \cup (heldNow \X {"buyer"})
        /\ settle' = [s \in Steps |-> IF s \in heldNow /\ locked THEN Added(settle[s])
                                                                 ELSE settle[s]]
        /\ UNCHANGED <<exec, poll, timer, provider, delivered, window>>
    BY <1>1 DEF Approve
  <2>2. /\ \A t \in Steps : Earned(t) => Earned(t)'
        /\ \A t, x : Warranted(t, x) => Warranted(t, x)'
    BY <2>1, EarnedStays
  <2>3. \A t \in heldNow : Earned(t)'
    BY <2>1 DEF Earned, PayInv
  <2>4. Deps \in [Steps -> SUBSET Steps]
    BY ExecutorAssumption
  <2>5. /\ \A t \in Steps : settle'[t] # "none" => Earned(t)'
        /\ \A t \in Steps : status'[t] = "RELEASED" => Earned(t)'
        /\ \A t \in Steps : status'[t] = "AWAITING_APPROVAL" => t \in delivered'
    BY <2>1, <2>2, <2>3 DEF PayInv
  <2>6. /\ \A t \in Steps : exec'.seen[t] = "RELEASED" => Earned(t)'
        /\ \A t \in Steps : provider'[t] # "idle" => \A d \in Deps[t] : Earned(d)'
        /\ \A t \in Steps : timer'[t] = "released" => <<t, "timer">> \in cleared'
    BY <2>1, <2>2, <2>4 DEF PayInv
  <2>7. Warranted(exec.next, exec.todo)'
    BY <2>1, <2>2 DEF PayInv
  <2>8. \A p \in Pollers : Warranted(poll[p].step, poll[p].todo)'
    BY <2>1, <2>2 DEF PayInv
  <2>9. QED
    BY <2>1, <2>5, <2>6, <2>7, <2>8 DEF PayInv
<1>2. CASE RaiseDispute \/ ResolveDispute \/ PassDeadline \/ EvictTask
  <2>1. UNCHANGED <<exec, poll, status, settle, timer, provider, delivered, cleared, window>>
    BY <1>2 DEF RaiseDispute, ResolveDispute, PassDeadline, EvictTask
  <2>2. QED
    BY <2>1 DEF PayInv, Warranted, Earned
<1>3. CASE ExecFails
  <2>1. exec'.todo = {} /\ \A s \in Steps : exec'.seen[s] = "PENDING"
    BY <1>3 DEF ExecFails, NoExec
  <2>2. Warranted(exec.next, exec.todo)'
    BY <2>1 DEF Warranted
  <2>3. UNCHANGED <<poll, status, settle, timer, provider, delivered, cleared, window>>
    BY <1>3 DEF ExecFails
  <2>4. QED
    BY <2>1, <2>2, <2>3 DEF PayInv, Warranted, Earned
<1>4. CASE ExecLosesJobs
  <2>1. exec'.todo = {} /\ exec'.seen = exec.seen
    BY <1>4 DEF ExecLosesJobs, TypeInv, TypeOK
  <2>2. Warranted(exec.next, exec.todo)'
    BY <2>1 DEF Warranted
  <2>3. UNCHANGED <<poll, status, settle, timer, provider, delivered, cleared, window>>
    BY <1>4 DEF ExecLosesJobs
  <2>4. QED
    BY <2>1, <2>2, <2>3 DEF PayInv, Warranted, Earned
<1>5. CASE UNCHANGED vars
  BY <1>5 DEF vars, PayInv, Warranted, Earned
<1>6. QED
  BY <1>1, <1>2, <1>3, <1>4, <1>5

LEMMA PayStep == TypeInv /\ PayInv /\ [Next]_vars => PayInv'
  BY PayExec, PayPoll, PayOfStep, PayOther DEF Next

\* Nothing is handed to settlement before its provider delivered and its hold was
\* ended, however the executor, polls, timers and the buyer interleave, crash and
\* retry (executor.ts 262-331, 854-912; tasks.service.ts 461-496).
THEOREM OnlyEarnedIsPaid == Spec => []PaidForDelivery
<1>1. PayInv => PaidForDelivery
  BY DEF PayInv, PaidForDelivery
<1>2. QED
  BY <1>1, PayInit, PayStep, TypeInvariant, PTL DEF Spec

\* No provider is called before everything its step depends on was earned, though
\* the executor reads its dependencies from a copy (executor.ts 472-486).
THEOREM DependentsAlwaysWait == Spec => []DependentsWait
<1>1. PayInv => DependentsWait
  BY DEF PayInv, DependentsWait
<1>2. QED
  BY <1>1, PayInit, PayStep, TypeInvariant, PTL DEF Spec

-----------------------------------------------------------------------------
\* The executor's copy.  For a step that no two drove at once, the copy may lag
\* behind, but a step it takes for unstarted still is: only an awaiting poll, the
\* window or the buyer moves a row behind the executor's back, a poll only a row
\* that is parked, the others only one that is held.

\* The executor has yet to come to s, or is about to write its reply.
Ahead(s) ==
    \/ exec.at \in {"start", "loop", "reply"} /\ exec.next <= s
    \/ exec.at = "enqueue" /\ exec.next < s

RedoInv ==
    /\ exec.at = "reply" => exec.next \in overlapped \/ exec.seen[exec.next] \in Unstarted
    /\ \A s \in Steps \ overlapped :
        /\ Ahead(s) /\ exec.seen[s] \in Unstarted => status[s] \in Unstarted
        /\ \A p \in Pollers : Awaiting(p, s) => status[s] \in Parked
        /\ \A p, q \in Pollers : Awaiting(p, s) /\ Awaiting(q, s) => p = q
        /\ timer[s] = "releasing" => status[s] \in {"AWAITING_APPROVAL", "RELEASED"}

LEMMA RedoInit == Init => RedoInv
<1> SUFFICES ASSUME Init PROVE RedoInv
  OBVIOUS
<1>1. exec.at = "idle" /\ \A p \in Pollers : poll[p].at = "idle"
  BY DEF Init, NoExec, NoPoll
<1>2. QED
  BY <1>1 DEF Init, RedoInv, Ahead, Awaiting

\* The executor's own steps.
LEMMA RedoExec ==
    ASSUME TypeInv, RedoInv, ExecStep
    PROVE  RedoInv'
<1> USE DEF bounds, config, rows, runs, queues, history
<1>0. /\ status \in [Steps -> StepStatus] /\ exec \in Execs
      /\ exec.seen \in [Steps -> StepStatus] /\ exec.next \in 1..(N + 1)
      /\ timer \in [Steps -> {"none", "waiting", "releasing", "released", "done"}]
      /\ N \in Nat /\ Steps = 1..N
  BY ExecutorAssumption DEF TypeInv, TypeOK, Execs, Steps
<1>1. CASE TakeTask
  <2>1. exec' = exec \/ exec' = [NoExec EXCEPT !.at = "start", !.seen = status,
                                                 !.handled = handled]
    BY <1>1 DEF TakeTask
  <2>2. UNCHANGED <<status, timer, poll, overlapped>>
    BY <1>1 DEF TakeTask
  <2>3. CASE exec' = exec
    BY <2>2, <2>3 DEF RedoInv, Ahead, Awaiting
  <2>4. CASE exec' = [NoExec EXCEPT !.at = "start", !.seen = status,
                                                 !.handled = handled]
    <3>1. exec'.at = "start" /\ exec'.seen = status
      BY <2>4 DEF NoExec
    <3>2. QED
      BY <2>2, <3>1 DEF RedoInv, Ahead, Awaiting
  <2>5. QED
    BY <2>1, <2>3, <2>4
<1>2. CASE MarkRunning
  <2>1. /\ exec.at = "start" /\ exec'.at = "loop"
        /\ exec'.next = exec.next /\ exec'.seen = exec.seen
        /\ UNCHANGED <<status, timer, poll, overlapped>>
    BY <1>0, <1>2 DEF MarkRunning, Execs
  <2>2. QED
    BY <2>1 DEF RedoInv, Ahead, Awaiting
<1>3. CASE ApplyReply
  <2> DEFINE s == exec.next
             after == StatusAfter(s, exec.reply)
  <2>1. /\ s \in Steps /\ exec.at = "reply"
        /\ s \in overlapped \/ exec.seen[s] \in Unstarted
    BY <1>3 DEF ApplyReply, TypeInv, RunOK, RedoInv
  <2>2. /\ status' = [status EXCEPT ![s] = after]
        /\ UNCHANGED <<timer, poll, overlapped>>
    BY <1>3 DEF ApplyReply, WriteReply
  <2>3. /\ exec'.at = "enqueue" /\ exec'.next = s
        /\ exec'.seen \in {exec.seen, [exec.seen EXCEPT ![s] = after]}
    BY <1>0, <1>3 DEF ApplyReply, Execs
  <2>4. s \notin overlapped => status[s] \in Unstarted
    BY <1>0, <2>1 DEF RedoInv, Ahead
  <2>5. /\ s \notin overlapped => \A p \in Pollers : ~Awaiting(p, s)
        /\ s \notin overlapped => timer[s] # "releasing"
    BY <2>1, <2>4 DEF RedoInv, Unstarted, Parked
  <2>6. \A t \in Steps : t # s => status'[t] = status[t] /\ exec'.seen[t] = exec.seen[t]
    BY <1>0, <2>2, <2>3
  <2>7. \A t \in Steps : Ahead(t)' => t # s /\ Ahead(t)
    BY <1>0, <2>1, <2>3 DEF Ahead
  <2>8. \A t, p : Awaiting(p, t)' <=> Awaiting(p, t)
    BY <2>2 DEF Awaiting
  <2>9. QED
    BY <2>2, <2>3, <2>5, <2>6, <2>7, <2>8 DEF RedoInv
<1>4. CASE ExecEnqueue
  <2>1. /\ exec.at = "enqueue" /\ exec'.at = "loop"
        /\ exec'.next = exec.next + 1 /\ exec'.seen = exec.seen
        /\ UNCHANGED <<status, poll, overlapped>>
    BY <1>0, <1>4 DEF ExecEnqueue, Execs
  <2>2. \A t \in Steps : timer'[t] = timer[t] \/ timer'[t] = Added(timer[t])
    BY <1>0, <1>4 DEF ExecEnqueue, Enqueue
  <2>3. \A t \in Steps : timer'[t] = "releasing" => timer[t] = "releasing"
    BY <2>2 DEF Added
  <2>4. \A t \in Steps : Ahead(t)' => Ahead(t)
    BY <1>0, <2>1 DEF Ahead
  <2>5. QED
    BY <2>1, <2>3, <2>4 DEF RedoInv, Awaiting
<1>5. CASE WriteOutcome \/ EndTask
  <2>1. /\ exec'.at \in {"idle", "finalize"}
        /\ UNCHANGED <<status, timer, poll, overlapped>>
    BY <1>0, <1>5 DEF WriteOutcome, EndTask, NoExec, Execs
  <2>2. QED
    BY <2>1 DEF RedoInv, Ahead, Awaiting
<1>6. ASSUME NEW s \in Steps, PassOver(s) PROVE RedoInv'
  <2>1. /\ exec.at = "loop" /\ exec'.at = "loop"
        /\ exec'.next = exec.next + 1 /\ exec'.seen = exec.seen
        /\ UNCHANGED <<status, timer, poll, overlapped>>
    BY <1>0, <1>6 DEF PassOver, AtStep, Execs
  <2>2. \A t \in Steps : Ahead(t)' => Ahead(t)
    BY <1>0, <2>1 DEF Ahead
  <2>3. QED
    BY <2>1, <2>2 DEF RedoInv, Awaiting
<1>7. ASSUME NEW s \in Steps, SkipStep(s) PROVE RedoInv'
  <2>1. /\ exec.at = "loop" /\ exec.next = s /\ Dispatchable(s) /\ Contend(s)
        /\ exec'.at = "loop" /\ exec'.next = s + 1
        /\ exec'.seen = [exec.seen EXCEPT ![s] = "SKIPPED"]
        /\ status' = [status EXCEPT ![s] = "SKIPPED"]
        /\ UNCHANGED <<timer, poll>>
    BY <1>0, <1>7 DEF SkipStep, AtStep, Execs
  <2>2. /\ overlapped \subseteq overlapped'
        /\ s \in overlapped' \/ exec.seen[s] \in Unstarted
    BY <2>1, Contended DEF TypeInv
  <2>3. s \notin overlapped' => status[s] \in Unstarted
    BY <1>0, <2>1, <2>2 DEF RedoInv, Ahead
  <2>4. /\ s \notin overlapped' => \A p \in Pollers : ~Awaiting(p, s)
        /\ s \notin overlapped' => timer[s] # "releasing"
    BY <2>2, <2>3 DEF RedoInv, Unstarted, Parked
  <2>5. \A t \in Steps : t # s => status'[t] = status[t] /\ exec'.seen[t] = exec.seen[t]
    BY <1>0, <2>1
  <2>6. \A t \in Steps : Ahead(t)' => t # s /\ Ahead(t)
    BY <1>0, <2>1 DEF Ahead
  <2>7. \A t, p : Awaiting(p, t)' <=> Awaiting(p, t)
    BY <2>1 DEF Awaiting
  <2>8. QED
    BY <2>1, <2>2, <2>4, <2>5, <2>6, <2>7 DEF RedoInv
<1>8. ASSUME NEW s \in Steps, Dispatch(s) PROVE RedoInv'
  <2>1. /\ exec.at = "loop" /\ exec.next = s /\ Dispatchable(s) /\ Contend(s)
        /\ exec'.at = "reply" /\ exec'.next = s /\ exec'.seen = exec.seen
        /\ UNCHANGED <<status, timer, poll>>
    BY <1>0, <1>8 DEF Dispatch, AtStep, Execs
  <2>2. /\ overlapped \subseteq overlapped'
        /\ s \in overlapped' \/ exec.seen[s] \in Unstarted
    BY <2>1, Contended DEF TypeInv
  <2>3. \A t \in Steps : Ahead(t)' => Ahead(t)
    BY <1>0, <2>1 DEF Ahead
  <2>4. QED
    BY <2>1, <2>2, <2>3 DEF RedoInv, Awaiting
<1>9. QED
  BY <1>1, <1>2, <1>3, <1>4, <1>5, <1>6, <1>7, <1>8 DEF ExecStep

\* The polls.
LEMMA RedoPoll ==
    ASSUME TypeInv, RedoInv, NEW p \in Pollers,
           PollRun(p) \/ (\E s \in Steps : TakePoll(p, s)) \/ PollFails(p) \/ PollLosesJobs(p)
    PROVE  RedoInv'
<1> USE DEF bounds, config, rows, runs, queues, history
<1>0. /\ poll \in [Pollers -> Polls] /\ status \in [Steps -> StepStatus]
      /\ timer \in [Steps -> {"none", "waiting", "releasing", "released", "done"}]
  BY DEF TypeInv, TypeOK, Polls
\* A poll that goes on awaiting what it awaited, or stops, disturbs nothing.
<1>1. ASSUME \A q \in Pollers, t \in Steps : Awaiting(q, t)' => Awaiting(q, t),
             \A t \in Steps : timer'[t] = "releasing" => timer[t] = "releasing",
             UNCHANGED <<exec, status, overlapped>>
      PROVE  RedoInv'
  BY <1>1 DEF RedoInv, Ahead
<1>2. ASSUME NEW s \in Steps, TakePoll(p, s) PROVE RedoInv'
  <2>1. CASE UNCHANGED <<poll, overlapped>>
    BY <1>1, <1>2, <2>1 DEF TakePoll, Awaiting
  <2>2. CASE ~UNCHANGED <<poll, overlapped>>
    <3>1. status[s] \in Parked
      BY <1>2, <2>2 DEF TakePoll
    <3>2. overlapped' = IF \E q \in Pollers : Awaiting(q, s)
                        THEN overlapped \cup {s} ELSE overlapped
      BY <1>2, <2>2 DEF TakePoll
    <3>3. PICK new : poll' = [poll EXCEPT ![p] = new] /\ new.step = s
      <4> DEFINE new == [NoPoll EXCEPT !.step = s,
                 !.at = IF late THEN "reply" ELSE "call",
                 !.reply = IF late THEN "failed" ELSE "none",
                 !.kind = IF status[s] = "INPUT_REQUIRED" THEN "answer" ELSE "poll",
                 !.handled = s \in handled]
      <4>1. poll' = [poll EXCEPT ![p] = new]
        BY <1>2, <2>2 DEF TakePoll
      <4>2. new.step = s
        BY DEF NoPoll
      <4> HIDE DEF new
      <4>3. QED
        BY <4>1, <4>2
    <3>4. poll'[p].step = s /\ \A q \in Pollers : q # p => poll'[q] = poll[q]
      BY <1>0, <3>3
    <3>5. /\ \A t \in Steps : Awaiting(p, t)' => t = s
          /\ \A q \in Pollers, t \in Steps : q # p => (Awaiting(q, t)' <=> Awaiting(q, t))
      BY <3>4 DEF Awaiting
    <3>6. UNCHANGED <<exec, status, timer>>
      BY <1>2 DEF TakePoll
    <3>7. ASSUME NEW t \in Steps, t \notin overlapped'
          PROVE  /\ \A q \in Pollers : Awaiting(q, t)' => status'[t] \in Parked
                 /\ \A q, r \in Pollers : Awaiting(q, t)' /\ Awaiting(r, t)' => q = r
      <4>1. t \notin overlapped
        BY <3>2, <3>7
      <4>2. CASE t = s
        BY <3>1, <3>2, <3>5, <3>6, <3>7, <4>1, <4>2
      <4>3. CASE t # s
        BY <3>5, <3>6, <4>1, <4>3 DEF RedoInv
      <4>4. QED
        BY <4>2, <4>3
    <3>8. overlapped \subseteq overlapped'
      BY <3>2
    <3>9. \A t \in Steps : Ahead(t)' <=> Ahead(t)
      BY <3>6 DEF Ahead
    <3>10. QED
      BY <3>6, <3>7, <3>8, <3>9 DEF RedoInv
  <2>3. QED
    BY <2>1, <2>2
<1>3. CASE CallProvider(p)
  <2>1. \A q \in Pollers, t \in Steps : Awaiting(q, t)' => Awaiting(q, t)
    <3>1. PICK reply : poll' = [poll EXCEPT ![p].at = "reply", ![p].reply = reply,
                                            ![p].kind = "none"]
      BY <1>3 DEF CallProvider
    <3>2. \A q \in Pollers : q # p => poll'[q] = poll[q]
      BY <1>0, <3>1
    <3>3. poll'[p].step = poll[p].step
      BY <1>0, <3>1 DEF Polls
    <3>4. poll[p].at = "call"
      BY <1>3 DEF CallProvider
    <3>5. QED
      BY <3>2, <3>3, <3>4 DEF Awaiting
  <2>2. QED
    BY <1>1, <1>3, <2>1 DEF CallProvider
<1>4. CASE ApplyPoll(p)
  <2>1. PICK s \in Steps : s = poll[p].step
    BY <1>0 DEF Polls
  <2>2. Awaiting(p, s)
    BY <1>4, <2>1 DEF ApplyPoll, Awaiting
  <2>3. PICK new : poll' = [poll EXCEPT ![p] = new] /\ new.at = "enqueue"
    <3>1. PICK todo : poll' = [poll EXCEPT ![p] =
                         [NoPoll EXCEPT !.step = s, !.at = "enqueue", !.todo = todo]]
      BY <1>4, <2>1 DEF ApplyPoll
    <3>2. [NoPoll EXCEPT !.step = s, !.at = "enqueue", !.todo = todo].at = "enqueue"
      BY DEF NoPoll
    <3>3. QED
      BY <3>1, <3>2
  <2>4. poll'[p].at = "enqueue" /\ \A q \in Pollers : q # p => poll'[q] = poll[q]
    BY <1>0, <2>3
  <2>5. /\ \A t \in Steps : ~Awaiting(p, t)'
        /\ \A q \in Pollers, t \in Steps : q # p => (Awaiting(q, t)' <=> Awaiting(q, t))
    BY <2>4 DEF Awaiting
  <2>6. \A t \in Steps : t # s => status'[t] = status[t]
    BY <1>0, <1>4, <2>1 DEF ApplyPoll
  <2>7. UNCHANGED <<exec, timer, overlapped>>
    BY <1>4 DEF ApplyPoll
  <2>8. \A t \in Steps : Ahead(t)' <=> Ahead(t)
    BY <2>7 DEF Ahead
  <2>9. s \notin overlapped =>
          /\ status[s] \in Parked
          /\ \A q \in Pollers : q # p => ~Awaiting(q, s)
          /\ ~(Ahead(s) /\ exec.seen[s] \in Unstarted)
          /\ timer[s] # "releasing"
    BY <2>2 DEF RedoInv, Parked, Unstarted
  <2>10. QED
    BY <2>5, <2>6, <2>7, <2>8, <2>9 DEF RedoInv
<1>5. CASE PollEnqueue(p)
  <2>1. \A t \in Steps : timer'[t] = timer[t] \/ timer'[t] = Added(timer[t])
    BY <1>0, <1>5 DEF PollEnqueue, Enqueue
  <2>2. \A t \in Steps : timer'[t] = "releasing" => timer[t] = "releasing"
    BY <2>1 DEF Added
  <2>3. \A q \in Pollers : poll'[q] = poll[q] \/ poll'[q].at = "idle"
    BY <1>0, <1>5 DEF PollEnqueue, NoPoll
  <2>4. \A q \in Pollers, t \in Steps : Awaiting(q, t)' => Awaiting(q, t)
    BY <2>3 DEF Awaiting
  <2>5. QED
    BY <1>1, <1>5, <2>2, <2>4 DEF PollEnqueue
<1>6. CASE PollFails(p)
  <2>1. \A q \in Pollers : poll'[q] = poll[q] \/ poll'[q].at = "idle"
    BY <1>0, <1>6 DEF PollFails, NoPoll
  <2>2. \A q \in Pollers, t \in Steps : Awaiting(q, t)' => Awaiting(q, t)
    BY <2>1 DEF Awaiting
  <2>3. QED
    BY <1>1, <1>6, <2>2 DEF PollFails
<1>7. CASE PollLosesJobs(p)
  <2>1. \A q \in Pollers : poll'[q].at = poll[q].at /\ poll'[q].step = poll[q].step
    BY <1>0, <1>7 DEF PollLosesJobs, Polls
  <2>2. \A q \in Pollers, t \in Steps : Awaiting(q, t)' => Awaiting(q, t)
    BY <2>1 DEF Awaiting
  <2>3. QED
    BY <1>1, <1>7, <2>2 DEF PollLosesJobs
<1>8. QED
  BY <1>2, <1>3, <1>4, <1>5, <1>6, <1>7 DEF PollRun

\* The timer, the buyer and the rest.
LEMMA RedoRest ==
    ASSUME TypeInv, RedoInv,
           \/ \E s \in Steps : TimerRun(s) \/ SettleRun(s) \/ AnswerStep(s) \/ TimerFails(s)
           \/ Approve \/ RaiseDispute \/ ResolveDispute \/ PassDeadline \/ EvictTask
           \/ ExecFails \/ ExecLosesJobs \/ UNCHANGED vars
    PROVE  RedoInv'
<1> USE DEF bounds, config, rows, runs, queues, history
<1>0. /\ status \in [Steps -> StepStatus] /\ exec \in Execs
      /\ timer \in [Steps -> {"none", "waiting", "releasing", "released", "done"}]
  BY DEF TypeInv, TypeOK, Execs
<1>1. ASSUME NEW s \in Steps, TimerFires(s) PROVE RedoInv'
  <2>1. \A t \in Steps : timer'[t] = "releasing" =>
           timer[t] = "releasing" \/ status[t] = "AWAITING_APPROVAL"
    BY <1>0, <1>1 DEF TimerFires
  <2>2. UNCHANGED <<exec, poll, status, overlapped>>
    BY <1>1 DEF TimerFires
  <2>3. QED
    BY <2>1, <2>2 DEF RedoInv, Ahead, Awaiting
\* A row that is held, or released from being held, is released.
<1>2. ASSUME \A t \in Steps :
               \/ status'[t] = status[t]
               \/ /\ status'[t] = "RELEASED"
                  /\ t \in overlapped \/ status[t] \in {"AWAITING_APPROVAL", "RELEASED"},
             \A t \in Steps : timer'[t] = "releasing" => timer[t] = "releasing",
             UNCHANGED <<exec, poll, overlapped>>
      PROVE  RedoInv'
  <2>1. \A t \in Steps : Ahead(t)' <=> Ahead(t)
    BY <1>2 DEF Ahead
  <2>2. \A t, q : Awaiting(q, t)' <=> Awaiting(q, t)
    BY <1>2 DEF Awaiting
  <2>3. QED
    BY <1>2, <2>1, <2>2 DEF RedoInv, Unstarted, Parked
<1>3. ASSUME NEW s \in Steps, TimerReleases(s) PROVE RedoInv'
  <2>1. /\ status' = [status EXCEPT ![s] = "RELEASED"]
        /\ timer' = [timer EXCEPT ![s] = "released"]
        /\ timer[s] = "releasing"
        /\ UNCHANGED <<exec, poll, overlapped>>
    BY <1>3 DEF TimerReleases
  <2>2. s \in overlapped \/ status[s] \in {"AWAITING_APPROVAL", "RELEASED"}
    BY <2>1 DEF RedoInv
  <2>3. QED
    BY <1>0, <1>2, <2>1, <2>2
<1>4. CASE Approve
  <2>1. \A t \in Steps : status'[t] = status[t]
          \/ (status'[t] = "RELEASED" /\ status[t] = "AWAITING_APPROVAL")
    BY <1>4 DEF Approve
  <2>2. UNCHANGED <<exec, poll, timer, overlapped>>
    BY <1>4 DEF Approve
  <2>3. QED
    BY <1>2, <2>1, <2>2
<1>5. ASSUME NEW s \in Steps,
             TimerSettles(s) \/ SettleRun(s) \/ AnswerStep(s) \/ TimerFails(s)
      PROVE  RedoInv'
  <2>1. \A t \in Steps : timer'[t] = "releasing" => timer[t] = "releasing"
    BY <1>0, <1>5 DEF TimerSettles, SettleRun, Settle, AfterSettle, AnswerStep, TimerFails
  <2>2. UNCHANGED <<exec, poll, status, overlapped>>
    BY <1>5 DEF TimerSettles, SettleRun, Settle, AfterSettle, AnswerStep, TimerFails
  <2>3. QED
    BY <1>2, <2>1, <2>2
<1>6. CASE RaiseDispute \/ ResolveDispute \/ PassDeadline \/ EvictTask \/ UNCHANGED vars
  <2>1. UNCHANGED <<exec, poll, status, timer, overlapped>>
    BY <1>6 DEF RaiseDispute, ResolveDispute, PassDeadline, EvictTask, vars
  <2>2. QED
    BY <1>2, <2>1
<1>7. CASE ExecFails \/ ExecLosesJobs
  <2>1. /\ UNCHANGED <<poll, status, timer, overlapped>>
        /\ exec'.at = "idle"
             \/ (exec'.at = exec.at /\ exec'.next = exec.next /\ exec'.seen = exec.seen)
    BY <1>0, <1>7 DEF ExecFails, ExecLosesJobs, NoExec, Execs
  <2>2. QED
    BY <2>1 DEF RedoInv, Ahead, Awaiting
<1>8. QED
  BY <1>1, <1>3, <1>4, <1>5, <1>6, <1>7 DEF TimerRun

LEMMA RedoStep == TypeInv /\ RedoInv /\ [Next]_vars => RedoInv'
  BY RedoExec, RedoPoll, RedoRest DEF Next

\* Only a dispatch takes the executor from its walk to a reply.
LEMMA OnlyDispatchCalls ==
    ASSUME TypeInv, [Next]_vars, exec.at = "loop", exec'.at = "reply"
    PROVE  \E s \in Steps : Dispatch(s)
<1>0. exec \in Execs
  BY DEF TypeInv, TypeOK, Execs
<1>1. CASE ExecStep
  <2>1. ~TakeTask /\ ~MarkRunning /\ ~ApplyReply /\ ~ExecEnqueue
    BY DEF TakeTask, MarkRunning, ApplyReply, ExecEnqueue
  <2>2. ~WriteOutcome
    BY <1>0 DEF WriteOutcome, Execs
  <2>3. ~EndTask
    BY DEF EndTask, NoExec
  <2>4. ASSUME NEW s \in Steps PROVE ~PassOver(s) /\ ~SkipStep(s)
    BY <1>0 DEF PassOver, SkipStep, AtStep, Execs
  <2>5. QED
    BY <1>1, <2>1, <2>2, <2>3, <2>4 DEF ExecStep
<1>2. ASSUME NEW p \in Pollers,
             PollRun(p) \/ (\E s \in Steps : TakePoll(p, s)) \/ PollFails(p) \/ PollLosesJobs(p)
      PROVE  FALSE
  <2>1. exec' = exec
    BY <1>2 DEF PollRun, CallProvider, ApplyPoll, PollEnqueue, TakePoll, PollFails,
         PollLosesJobs, runs
  <2>2. QED
    BY <2>1
<1>3. ASSUME NEW s \in Steps, TimerRun(s) \/ SettleRun(s) \/ AnswerStep(s) \/ TimerFails(s)
      PROVE  FALSE
  <2>1. exec' = exec
    BY <1>3 DEF TimerRun, TimerFires, TimerReleases, TimerSettles, SettleRun, Settle,
         AfterSettle, AnswerStep, TimerFails, runs
  <2>2. QED
    BY <2>1
<1>4. CASE Approve \/ RaiseDispute \/ ResolveDispute \/ PassDeadline \/ EvictTask
             \/ UNCHANGED vars
  <2>1. exec' = exec
    BY <1>4 DEF Approve, RaiseDispute, ResolveDispute, PassDeadline, EvictTask, vars, runs
  <2>2. QED
    BY <2>1
<1>5. CASE ExecFails \/ ExecLosesJobs
  BY <1>5 DEF ExecFails, ExecLosesJobs, NoExec
<1>6. QED
  BY <1>1, <1>2, <1>3, <1>4, <1>5 DEF Next

\* A provider is never sent a step again once its answer is on record, unless two
\* drove the step at once or the run's copy shows it running without a handle: a
\* job that starts over works on rows read after the crash (executor.ts 431-516),
\* and what it read cannot go stale the wrong way.
THEOREM RecordedNeverRedone == Spec => RecordedNotRedone
<1>1. TypeInv /\ RedoInv /\ [Next]_vars =>
        [\A s \in Steps \ overlapped :
           exec.at = "loop" /\ exec'.at = "reply" /\ exec.next = s
              => \/ status[s] \in {"PENDING", "FAILED", "SKIPPED"}
                 \/ exec.seen[s] = "RUNNING" /\ s \notin exec.handled]_vars
  <2> SUFFICES ASSUME TypeInv, RedoInv, [Next]_vars, NEW s \in Steps \ overlapped,
                      exec.at = "loop", exec'.at = "reply", exec.next = s
               PROVE  \/ status[s] \in {"PENDING", "FAILED", "SKIPPED"}
                      \/ exec.seen[s] = "RUNNING" /\ s \notin exec.handled
    OBVIOUS
  <2>1. exec \in Execs /\ Ahead(s)
    BY ExecutorAssumption DEF TypeInv, TypeOK, Execs, Ahead, Steps
  <2>2. Dispatchable(s)
    BY OnlyDispatchCalls DEF Dispatch, AtStep
  <2>3. CASE exec.seen[s] \in Unstarted
    BY <2>1, <2>3 DEF RedoInv, Unstarted
  <2>4. CASE exec.seen[s] = "RUNNING" /\ s \notin exec.handled
    BY <2>4
  <2>5. QED
    BY <2>2, <2>3, <2>4 DEF Dispatchable
<1>2. QED
  BY <1>1, RedoInit, RedoStep, TypeInvariant, PTL DEF Spec, RecordedNotRedone

-----------------------------------------------------------------------------
\* Nothing is forgotten.  A liveness property of the executor holds because
\* whatever is not over has somebody who will see to it; who that is, is an
\* invariant, and it needs no fairness.

\* A job for step s is about to be enqueued, by the executor or by a poll.
ExecDue(s, what) == exec.at = "enqueue" /\ exec.next = s /\ what \in exec.todo
PollDue(p, s, what) == poll[p].at = "enqueue" /\ poll[p].step = s /\ what \in poll[p].todo
Due(s, what) == ExecDue(s, what) \/ \E p \in Pollers : PollDue(p, s, what)

\* Somebody will ask the provider of step s again.
Polled(s) == polls[s] > 0 \/ (\E p \in Pollers : Awaiting(p, s)) \/ Due(s, "poll")

\* A locked hire whose books are open polls each of its parked steps.
Parking(s) ==
    locked /\ ~finalized /\ taskStatus \notin Terminal /\ status[s] \in Parked => Polled(s)

\* The window of an undisputed T2 delivery runs, or is about to.
Timed(s) ==
    Tier[s] = "T2" /\ status[s] = "AWAITING_APPROVAL" /\ disputes = 0 /\ taskStatus # "FAILED"
      => timer[s] \in {"waiting", "releasing"} \/ (timer[s] = "none" /\ Due(s, "release"))

\* A released step of a locked hire is settled, or is about to be.
Claimed(s) ==
    locked /\ status[s] = "RELEASED"
      => \/ settle[s] \in {"waiting", "paid", "done"}
         \/ settle[s] = "none" /\ (Due(s, "settle") \/ timer[s] = "released")

\* A delivery stays delivered, and only what is released is on its way to be settled.
Rows(s) ==
    /\ s \in delivered => status[s] \in {"AWAITING_APPROVAL", "RELEASED"}
    /\ Due(s, "settle") \/ timer[s] = "released" \/ settle[s] # "none"
         => status[s] = "RELEASED"

Kept(s) ==
    /\ s \notin overlapped => Rows(s)
    /\ faults = 0 => Parking(s)
    /\ faults = 0 /\ s \notin overlapped => Timed(s) /\ Claimed(s)

\* An executor that walks the steps works for a task that has not failed, nor, if it
\* is locked and not finalized, ended.
TaskInv ==
    /\ taskStatus = "FAILED" => exec.at \in {"idle", "finalize"}
    /\ locked /\ ~finalized /\ exec.at \in {"start", "loop", "reply", "enqueue"}
         => taskStatus \notin Terminal
    /\ disputed => disputes > 0

\* What a step of the system may not do to the task behind a row's back.
Sober(s) ==
    /\ locked' = locked /\ (faults' = 0 => faults = 0) /\ (disputes' = 0 => disputes = 0)
    /\ disputes' \in Nat /\ overlapped \subseteq overlapped'
    /\ locked /\ ~finalized' /\ taskStatus' \notin Terminal
         => ~finalized /\ taskStatus \notin Terminal
    /\ status'[s] = "AWAITING_APPROVAL" /\ taskStatus' # "FAILED" => taskStatus # "FAILED"

KeptInv == TaskInv /\ \A s \in Steps : Kept(s)

\* A finalization ends the task and never restarts it.
LEMMA FinalizeTask ==
    ASSUME Finalize
    PROVE  /\ taskStatus = "FAILED" <=> taskStatus' = "FAILED"
           /\ ~finalized' => ~finalized /\ taskStatus' = taskStatus
           /\ taskStatus' \notin Terminal => taskStatus \notin Terminal
  BY DEF Finalize, Terminal

\* The requests that complete an unlocked task leave a locked one alone.
LEMMA UnlockedTask ==
    ASSUME NEW newStatus, CompleteUnlocked(newStatus)
    PROVE  /\ locked => taskStatus' = taskStatus
           /\ taskStatus' # taskStatus =>
                /\ taskStatus' = "COMPLETED"
                /\ \A s \in Steps : newStatus[s] # "AWAITING_APPROVAL"
  BY DEF CompleteUnlocked

\* The executor's own steps.
LEMMA TaskExec ==
    ASSUME TypeInv, TaskInv, ExecStep, NEW s \in Steps
    PROVE  TaskInv' /\ Sober(s)
<1> USE DEF bounds, config, rows, runs, queues, history
<1>0. exec \in Execs /\ disputes \in Nat
  BY ExecutorAssumption DEF TypeInv, TypeOK, Execs
<1>1. CASE TakeTask
  <2>1. /\ UNCHANGED <<locked, finalized, taskStatus, disputed, disputes, faults, overlapped,
                       status>>
        /\ exec' = exec \/ (taskStatus \notin Terminal /\ exec'.at = "start")
    BY <1>1 DEF TakeTask, NoExec
  <2>2. QED
    BY <1>0, <2>1 DEF TaskInv, Sober, Terminal
<1>2. CASE MarkRunning
  <2>1. /\ UNCHANGED <<locked, finalized, disputed, disputes, faults, overlapped, status>>
        /\ exec.at = "start" /\ exec'.at = "loop" /\ taskStatus' = "RUNNING"
    BY <1>0, <1>2 DEF MarkRunning, Execs
  <2>2. QED
    BY <1>0, <2>1 DEF TaskInv, Sober, Terminal
<1>3. CASE ApplyReply \/ ExecEnqueue \/ (\E x \in Steps : PassOver(x) \/ SkipStep(x) \/ Dispatch(x))
  <2>1. /\ UNCHANGED <<locked, finalized, disputed, disputes, faults, taskStatus>>
        /\ exec.at \in {"loop", "reply", "enqueue"}
        /\ exec'.at \in {"loop", "reply", "enqueue"}
    BY <1>0, <1>3 DEF ApplyReply, ExecEnqueue, PassOver, SkipStep, Dispatch, AtStep, Execs
  <2>2. overlapped \subseteq overlapped'
    BY <1>3 DEF ApplyReply, ExecEnqueue, PassOver, SkipStep, Dispatch, Contend
  <2>3. QED
    BY <1>0, <2>1, <2>2 DEF TaskInv, Sober, Terminal
<1>4. CASE WriteOutcome
  <2>1. /\ UNCHANGED <<locked, finalized, disputed, disputes, faults, overlapped, status>>
        /\ exec.at = "loop" /\ exec'.at = "finalize"
    BY <1>0, <1>4 DEF WriteOutcome, Execs
  <2>2. QED
    BY <1>0, <2>1 DEF TaskInv, Sober, Terminal
<1>5. CASE EndTask
  <2>1. /\ UNCHANGED <<locked, disputed, disputes, faults, overlapped, status>>
        /\ exec'.at = "idle" /\ Finalize
    BY <1>5 DEF EndTask, NoExec
  <2>2. QED
    BY <1>0, <2>1, FinalizeTask DEF TaskInv, Sober
<1>6. QED
  BY <1>1, <1>2, <1>3, <1>4, <1>5 DEF ExecStep

\* Everybody else's.
LEMMA TaskOther ==
    ASSUME TypeInv, TaskInv, [Next]_vars, ~ExecStep, NEW s \in Steps
    PROVE  TaskInv' /\ Sober(s)
<1> USE DEF bounds, config, rows, runs, queues, history
<1>0. exec \in Execs /\ disputes \in Nat /\ faults \in Nat
  BY ExecutorAssumption DEF TypeInv, TypeOK, Execs
\* Most steps leave the task's row alone.
<1>1. ASSUME UNCHANGED <<locked, finalized, taskStatus, disputed, disputes>>,
             faults' = 0 => faults = 0, overlapped \subseteq overlapped',
             exec'.at \in {exec.at, "idle"}
      PROVE  TaskInv' /\ Sober(s)
  BY <1>0, <1>1 DEF TaskInv, Sober
<1>2. ASSUME NEW p \in Pollers, NEW x \in Steps,
             TakePoll(p, x) \/ PollRun(p) \/ PollFails(p) \/ PollLosesJobs(p)
      PROVE  TaskInv' /\ Sober(s)
  <2>1. /\ UNCHANGED <<locked, finalized, taskStatus, disputed, disputes, exec>>
        /\ faults' = faults \/ faults' = faults + 1
    BY <1>2 DEF TakePoll, PollRun, CallProvider, ApplyPoll, PollEnqueue, PollFails,
        PollLosesJobs, Fault
  <2>2. overlapped \subseteq overlapped'
    BY <1>2 DEF TakePoll, PollRun, CallProvider, ApplyPoll, PollEnqueue, PollFails,
        PollLosesJobs
  <2>3. QED
    BY <1>0, <1>1, <2>1, <2>2
<1>3. ASSUME NEW x \in Steps,
             TimerFires(x) \/ TimerReleases(x) \/ Settle(x) \/ AnswerStep(x) \/ TimerFails(x)
      PROVE  TaskInv' /\ Sober(s)
  <2>1. /\ UNCHANGED <<locked, finalized, taskStatus, disputed, disputes, exec, overlapped>>
        /\ faults' = faults \/ faults' = faults + 1
    BY <1>3 DEF TimerFires, TimerReleases, Settle, AnswerStep, TimerFails, Fault
  <2>2. QED
    BY <1>0, <1>1, <2>1
<1>4. ASSUME NEW x \in Steps, AfterSettle(x) PROVE TaskInv' /\ Sober(s)
  <2>1. /\ UNCHANGED <<locked, disputed, disputes, exec, overlapped, faults, status>>
        /\ Finalize
    BY <1>4 DEF AfterSettle
  <2>2. QED
    BY <1>0, <2>1, FinalizeTask DEF TaskInv, Sober
<1>5. ASSUME NEW x \in Steps, TimerSettles(x) PROVE TaskInv' /\ Sober(s)
  <2>1. /\ UNCHANGED <<locked, finalized, disputed, disputes, exec, overlapped, faults, status>>
        /\ CompleteUnlocked(status)
    BY <1>5 DEF TimerSettles
  <2>2. QED
    BY <1>0, <2>1, UnlockedTask DEF TaskInv, Sober
<1>6. CASE Approve
  <2>1. PICK newStatus : status' = newStatus /\ CompleteUnlocked(newStatus)
    BY <1>6 DEF Approve
  <2>2. UNCHANGED <<locked, finalized, disputed, disputes, exec, overlapped, faults>>
    BY <1>6 DEF Approve
  <2>3. QED
    BY <1>0, <2>1, <2>2, UnlockedTask DEF TaskInv, Sober
<1>7. CASE RaiseDispute \/ ResolveDispute
  <2>1. /\ UNCHANGED <<locked, finalized, taskStatus, exec, overlapped, faults, status>>
        /\ disputes' \in Nat /\ disputes' >= disputes /\ (disputed' => disputes' > 0)
    BY <1>0, <1>7 DEF RaiseDispute, ResolveDispute
  <2>2. QED
    BY <1>0, <2>1 DEF TaskInv, Sober
<1>8. CASE PassDeadline \/ EvictTask \/ ExecFails \/ ExecLosesJobs \/ UNCHANGED vars
  <2>1. /\ UNCHANGED <<locked, finalized, taskStatus, disputed, disputes, overlapped>>
        /\ faults' = faults \/ faults' = faults + 1
        /\ exec'.at \in {exec.at, "idle"}
    BY <1>0, <1>8 DEF PassDeadline, EvictTask, ExecFails, ExecLosesJobs, NoExec, Fault, vars, Execs
  <2>2. QED
    BY <1>0, <1>1, <2>1
<1>9. QED
  BY <1>2, <1>3, <1>4, <1>5, <1>6, <1>7, <1>8, IdleType
     DEF Next, TimerRun, SettleRun

\* So every step is sober.
LEMMA TaskStep ==
    ASSUME TypeInv, TaskInv, [Next]_vars
    PROVE  TaskInv' /\ \A s \in Steps : Sober(s)
<1>1. PICK z \in Steps : TRUE
  BY ExecutorAssumption DEF Steps
<1>2. QED
  BY <1>1, TaskExec, TaskOther

\* A row that holds a delivery is nobody's to write but the buyer's and the timer's.
LEMMA NotMine ==
    ASSUME TypeInv, RedoInv, NEW s \in Steps \ overlapped,
           status[s] \in {"AWAITING_APPROVAL", "RELEASED"}
    PROVE  /\ \A p \in Pollers : ~Awaiting(p, s)
           /\ ~(exec.at = "reply" /\ exec.next = s)
           /\ ~(exec.at = "loop" /\ exec.next = s /\ exec.seen[s] \in Unstarted)
<1>1. exec.next \in Nat
  BY ExecutorAssumption DEF TypeInv, TypeOK
<1>2. exec.next = s /\ exec.at \in {"reply", "loop"} => Ahead(s)
  BY <1>1 DEF Ahead
<1>3. QED
  BY <1>2 DEF RedoInv, Parked, Unstarted

-----------------------------------------------------------------------------
\* What the steps of the system may do to one row.

\* Nothing but to its polls.
LEMMA Framed ==
    ASSUME NEW s \in Steps, Kept(s), Sober(s), faults' = 0 => Parking(s)',
           status'[s] = status[s], s \in delivered' => s \in delivered,
           settle'[s] = settle[s], timer'[s] = timer[s],
           Due(s, "release")' <=> Due(s, "release"), Due(s, "settle")' <=> Due(s, "settle")
    PROVE  Kept(s)'
<1>1. s \notin overlapped' => Rows(s)'
  BY DEF Kept, Rows, Sober
<1>2. faults' = 0 /\ s \notin overlapped' => Timed(s)'
  BY DEF Kept, Timed, Sober
<1>3. faults' = 0 /\ s \notin overlapped' => Claimed(s)'
  BY DEF Kept, Claimed, Sober
<1>4. QED
  BY <1>1, <1>2, <1>3 DEF Kept

LEMMA Untouched ==
    ASSUME NEW s \in Steps, Kept(s), Sober(s), Polled(s) => Polled(s)',
           status'[s] = status[s], s \in delivered' => s \in delivered,
           settle'[s] = settle[s], timer'[s] = timer[s],
           Due(s, "release")' <=> Due(s, "release"), Due(s, "settle")' <=> Due(s, "settle")
    PROVE  Kept(s)'
<1>1. faults' = 0 => Parking(s)'
  BY DEF Kept, Parking, Sober
<1>2. QED
  BY <1>1, Framed

\* Nothing that anybody sees, as far as this row goes.
LEMMA Idled ==
    ASSUME NEW s \in Steps, Kept(s), Sober(s),
           UNCHANGED <<poll, status, delivered, settle, timer, polls>>,
           exec' = exec \/ (exec.at # "enqueue" /\ exec'.at # "enqueue")
    PROVE  Kept(s)'
<1>1. \A what : Due(s, what)' <=> Due(s, what)
  BY DEF Due, ExecDue, PollDue
<1>2. Polled(s) => Polled(s)'
  BY <1>1 DEF Polled, Awaiting
<1>3. QED
  BY <1>1, <1>2, Untouched

\* A reply is written to it.
LEMMA Written ==
    ASSUME PayInv, NEW s \in Steps, NEW reply \in Replies, Kept(s), Sober(s),
           s \notin overlapped => status[s] \notin {"AWAITING_APPROVAL", "RELEASED"},
           status'[s] = StatusAfter(s, reply),
           s \in delivered' => s \in delivered \/ reply = "done",
           settle'[s] = settle[s], timer'[s] = timer[s],
           \A what \in Following(s, reply) : Due(s, what)',
           Due(s, "settle")' => Due(s, "settle") \/ "settle" \in Following(s, reply)
    PROVE  Kept(s)'
<1>1. s \notin overlapped =>
        s \notin delivered /\ ~Due(s, "settle") /\ timer[s] = "none" /\ settle[s] = "none"
  BY DEF Kept, Rows, PayInv
<1>2. "settle" \in Following(s, reply) => reply = "done" /\ ~Held(s)
  BY DEF Following, Replies
<1>3. reply = "done" => StatusAfter(s, reply) = IF Held(s) THEN "AWAITING_APPROVAL" ELSE "RELEASED"
  BY DEF StatusAfter
<1>4. s \notin overlapped' => Rows(s)'
  BY <1>1, <1>2, <1>3 DEF Rows, Sober
<1>5. StatusAfter(s, reply) \in Parked => "poll" \in Following(s, reply)
  BY DEF StatusAfter, Following, Parked, Replies
<1>6. Parking(s)'
  BY <1>5 DEF Parking, Polled
<1>7. StatusAfter(s, reply) = "AWAITING_APPROVAL" => reply = "done" /\ Held(s)
  BY DEF StatusAfter, Replies
<1>8. reply = "done" /\ Held(s) /\ Tier[s] = "T2" => "release" \in Following(s, reply)
  BY DEF Following
<1>9. s \notin overlapped' => Timed(s)'
  BY <1>1, <1>7, <1>8 DEF Timed, Sober
<1>10. StatusAfter(s, reply) = "RELEASED" => reply = "done" /\ ~Held(s)
  BY DEF StatusAfter, Replies
<1>11. reply = "done" /\ ~Held(s) /\ locked => "settle" \in Following(s, reply)
  BY DEF Following
<1>12. s \notin overlapped' => Claimed(s)'
  BY <1>1, <1>10, <1>11 DEF Claimed, Sober
<1>13. QED
  BY <1>4, <1>6, <1>9, <1>12 DEF Kept

\* The jobs that were due are enqueued, for it or for another row.
LEMMA Enqueued ==
    ASSUME TypeInv, NEW s \in Steps, NEW x \in Steps, NEW todo, Enqueue(x, todo),
           Kept(s), Sober(s), status'[s] = status[s], s \in delivered' => s \in delivered,
           \A p \in Pollers : Awaiting(p, s) => Awaiting(p, s)',
           \A what : Due(s, what)' => Due(s, what),
           \A what : Due(s, what) => Due(s, what)' \/ (x = s /\ what \in todo),
           x = s => \A what \in todo : Due(s, what)
    PROVE  Kept(s)'
<1>0. /\ timer \in [Steps -> {"none", "waiting", "releasing", "released", "done"}]
      /\ settle \in [Steps -> {"none", "waiting", "paid", "skipped", "done"}]
      /\ polls \in [Steps -> Nat]
  BY DEF TypeInv, TypeOK
<1>1. timer'[s] = IF x = s /\ "release" \in todo /\ timer[s] = "none" THEN "waiting" ELSE timer[s]
  BY <1>0 DEF Enqueue, Added
<1>2. settle'[s] = IF x = s /\ "settle" \in todo /\ settle[s] = "none" THEN "waiting" ELSE settle[s]
  BY <1>0 DEF Enqueue, Added
<1>3. polls[s] > 0 \/ (x = s /\ "poll" \in todo) => polls'[s] > 0
  BY <1>0 DEF Enqueue
<1>4. s \notin overlapped' => Rows(s)'
  BY <1>1, <1>2 DEF Kept, Rows, Sober
<1>5. Polled(s) => Polled(s)'
  BY <1>3 DEF Polled
<1>6. faults' = 0 => Parking(s)'
  BY <1>5 DEF Kept, Parking, Sober
<1>7. faults' = 0 /\ s \notin overlapped' => Timed(s)'
  BY <1>1 DEF Kept, Timed, Sober
<1>8. faults' = 0 /\ s \notin overlapped' => Claimed(s)'
  <2>1. timer'[s] = "released" <=> timer[s] = "released"
    BY <1>1
  <2>2. QED
    BY <1>2, <2>1 DEF Kept, Claimed, Sober
<1>9. QED
  BY <1>4, <1>6, <1>7, <1>8 DEF Kept

\* A failure: what it forgets, the promise no longer covers.
LEMMA Failed ==
    ASSUME NEW s \in Steps, Kept(s), Sober(s), faults' # 0, status'[s] = status[s],
           s \in delivered' => s \in delivered, settle'[s] = settle[s],
           timer'[s] = "released" => timer[s] = "released",
           Due(s, "settle")' => Due(s, "settle")
    PROVE  Kept(s)'
  BY DEF Kept, Rows, Sober

-----------------------------------------------------------------------------
\* Every step keeps every row's promise.

\* The executor.
LEMMA KeptExec ==
    ASSUME TypeInv, PayInv, RedoInv, NEW s \in Steps, Kept(s), Sober(s), ExecStep
    PROVE  Kept(s)'
<1> USE DEF bounds, config, rows, runs, queues, history
<1>0. /\ status \in [Steps -> StepStatus] /\ exec \in Execs /\ exec.next \in Nat
      /\ exec.at \in {"reply", "enqueue"} => exec.next \in Steps
  BY ExecutorAssumption DEF TypeInv, TypeOK, Execs, RunOK
<1>1. CASE TakeTask
  BY <1>1, Idled DEF TakeTask, NoExec
<1>2. CASE MarkRunning \/ WriteOutcome \/ EndTask
  <2>1. /\ UNCHANGED <<poll, status, delivered, settle, timer, polls>>
        /\ exec.at # "enqueue" /\ exec'.at # "enqueue"
    BY <1>0, <1>2 DEF MarkRunning, WriteOutcome, EndTask, NoExec, Execs
  <2>2. QED
    BY <2>1, Idled
<1>3. ASSUME NEW x \in Steps, PassOver(x) \/ Dispatch(x) PROVE Kept(s)'
  <2>1. /\ UNCHANGED <<poll, status, delivered, settle, timer, polls>>
        /\ exec.at # "enqueue" /\ exec'.at # "enqueue"
    BY <1>0, <1>3 DEF PassOver, Dispatch, AtStep, Execs
  <2>2. QED
    BY <2>1, Idled
<1>4. ASSUME NEW x \in Steps, SkipStep(x) PROVE Kept(s)'
  <2>1. /\ UNCHANGED <<poll, delivered, settle, timer, polls>>
        /\ status' = [status EXCEPT ![x] = "SKIPPED"]
        /\ exec.at = "loop" /\ exec.next = x /\ exec'.at = "loop"
        /\ Dispatchable(x) /\ Contend(x)
    BY <1>0, <1>4 DEF SkipStep, AtStep, Execs
  <2>2. \A what : Due(s, what)' <=> Due(s, what)
    BY <2>1 DEF Due, ExecDue, PollDue
  <2>3. CASE s # x
    <3>1. Polled(s) => Polled(s)'
      BY <2>1, <2>2 DEF Polled, Awaiting
    <3>2. QED
      BY <1>0, <2>1, <2>2, <2>3, <3>1, Untouched
  <2>4. CASE s = x
    <3>1. status'[s] = "SKIPPED"
      BY <1>0, <2>1, <2>4
    <3>2. s \notin overlapped' => s \notin overlapped /\ exec.seen[s] \in Unstarted
      BY <2>1, <2>4, Contended DEF TypeInv
    <3>3. s \notin overlapped' => Rows(s)'
      <4>1. s \notin overlapped' => status[s] \notin {"AWAITING_APPROVAL", "RELEASED"}
        BY <2>1, <2>4, <3>2, NotMine
      <4>2. QED
        BY <2>1, <2>2, <3>2, <4>1 DEF Kept, Rows
    <3>4. QED
      BY <3>1, <3>3 DEF Kept, Parking, Timed, Claimed, Parked
  <2>5. QED
    BY <2>3, <2>4
<1>5. CASE ApplyReply
  <2>1. PICK x \in Steps : x = exec.next
    BY <1>0, <1>5 DEF ApplyReply
  <2>2. PICK reply \in Replies : reply = exec.reply
    BY <1>0 DEF Execs
  <2>3. /\ exec.at = "reply" /\ exec'.at = "enqueue" /\ exec'.next = x
        /\ exec'.todo = Following(x, reply)
    BY <1>0, <1>5, <2>1, <2>2 DEF ApplyReply, Execs
  <2>4. /\ UNCHANGED <<poll, settle, timer, polls>>
        /\ status' = [status EXCEPT ![x] = StatusAfter(x, reply)]
        /\ delivered' = IF reply = "done" THEN delivered \cup {x} ELSE delivered
    BY <1>5, <2>1, <2>2 DEF ApplyReply, WriteReply
  <2>5. \A what : Due(s, what)' <=> Due(s, what) \/ (s = x /\ what \in Following(x, reply))
    BY <2>3, <2>4 DEF Due, ExecDue, PollDue
  <2>6. CASE s # x
    <3>1. Polled(s) => Polled(s)'
      BY <2>4, <2>5, <2>6 DEF Polled, Awaiting
    <3>2. QED
      BY <1>0, <2>4, <2>5, <2>6, <3>1, Untouched
  <2>7. CASE s = x
    <3>1. s \notin overlapped => status[s] \notin {"AWAITING_APPROVAL", "RELEASED"}
      BY <2>1, <2>3, <2>7, NotMine
    <3>2. status'[s] = StatusAfter(s, reply) /\ (s \in delivered' => s \in delivered \/ reply = "done")
      BY <1>0, <2>4, <2>7
    <3>3. QED
      BY <2>4, <2>5, <2>7, <3>1, <3>2, Written
  <2>8. QED
    BY <2>6, <2>7
<1>6. CASE ExecEnqueue
  <2>1. PICK x \in Steps : x = exec.next
    BY <1>0, <1>6 DEF ExecEnqueue
  <2>2. PICK todo : todo = exec.todo
    OBVIOUS
  <2>3. /\ exec.at = "enqueue" /\ exec'.at = "loop" /\ Enqueue(x, todo)
        /\ UNCHANGED <<poll, status, delivered>>
    BY <1>0, <1>6, <2>1, <2>2 DEF ExecEnqueue, Execs
  <2>4. \A what : /\ Due(s, what)' => Due(s, what)
                  /\ Due(s, what) => Due(s, what)' \/ (x = s /\ what \in todo)
                  /\ x = s /\ what \in todo => Due(s, what)
    BY <2>1, <2>2, <2>3 DEF Due, ExecDue, PollDue
  <2>5. \A p \in Pollers : Awaiting(p, s) => Awaiting(p, s)'
    BY <2>3 DEF Awaiting
  <2>6. QED
    BY <2>3, <2>4, <2>5, Enqueued
<1>7. QED
  BY <1>1, <1>2, <1>3, <1>4, <1>5, <1>6 DEF ExecStep

\* The polls.
LEMMA KeptPoll ==
    ASSUME TypeInv, PayInv, RedoInv, NEW s \in Steps, Kept(s), Sober(s), NEW p \in Pollers,
           PollRun(p) \/ (\E x \in Steps : TakePoll(p, x)) \/ PollFails(p) \/ PollLosesJobs(p)
    PROVE  Kept(s)'
<1> USE DEF bounds, config, rows, runs, queues, history
<1>0. /\ poll \in [Pollers -> Polls] /\ status \in [Steps -> StepStatus]
      /\ polls \in [Steps -> Nat] /\ faults \in Nat
  BY ExecutorAssumption DEF TypeInv, TypeOK, Polls
<1>1. PICK x \in Steps : x = poll[p].step
  BY <1>0 DEF Polls
<1>2. ASSUME NEW t \in Steps, TakePoll(p, t) PROVE Kept(s)'
  <2>1. /\ poll[p].at = "idle"
        /\ UNCHANGED <<exec, status, delivered, settle, timer, locked, finalized, taskStatus, faults>>
        /\ polls' = [polls EXCEPT ![t] = @ - 1]
    BY <1>2 DEF TakePoll
  <2>2. CASE taskStatus \in Terminal \/ status[t] \notin Parked
    <3>1. UNCHANGED poll
      BY <1>2, <2>2 DEF TakePoll
    <3>2. \A what : Due(s, what)' <=> Due(s, what)
      BY <2>1, <3>1 DEF Due, ExecDue, PollDue
    <3>3. s # t => polls'[s] = polls[s]
      BY <1>0, <2>1
    <3>4. faults' = 0 => Parking(s)'
      BY <2>1, <2>2, <3>1, <3>2, <3>3 DEF Kept, Parking, Polled, Awaiting
    <3>5. QED
      BY <2>1, <3>2, <3>4, Framed
  <2>3. CASE ~(taskStatus \in Terminal \/ status[t] \notin Parked)
    <3>1. PICK new : poll' = [poll EXCEPT ![p] = new] /\ new.step = t /\ new.at \in {"call", "reply"}
      <4> DEFINE new == [NoPoll EXCEPT !.step = t,
                 !.at = IF late THEN "reply" ELSE "call",
                 !.reply = IF late THEN "failed" ELSE "none",
                 !.kind = IF status[t] = "INPUT_REQUIRED" THEN "answer" ELSE "poll",
                 !.handled = t \in handled]
      <4>1. poll' = [poll EXCEPT ![p] = new]
        BY <1>2, <2>3 DEF TakePoll
      <4>2. new.step = t /\ new.at \in {"call", "reply"}
        BY DEF NoPoll
      <4> HIDE DEF new
      <4>3. QED
        BY <4>1, <4>2
    <3>2. /\ poll'[p].step = t /\ poll'[p].at \in {"call", "reply"}
          /\ \A q \in Pollers : q # p => poll'[q] = poll[q]
      BY <1>0, <3>1
    <3>3. \A what : Due(s, what)' <=> Due(s, what)
      BY <2>1, <3>2 DEF Due, ExecDue, PollDue
    <3>4. Polled(s) => Polled(s)'
      <4>1. CASE s = t
        BY <3>2, <4>1 DEF Polled, Awaiting
      <4>2. CASE s # t
        <5>1. polls'[s] = polls[s]
          BY <1>0, <2>1, <4>2
        <5>2. \A q \in Pollers : Awaiting(q, s) => Awaiting(q, s)'
          BY <2>1, <3>2 DEF Awaiting
        <5>3. QED
          BY <3>3, <5>1, <5>2 DEF Polled
      <4>3. QED
        BY <4>1, <4>2
    <3>5. QED
      BY <2>1, <3>3, <3>4, Untouched
  <2>4. QED
    BY <2>2, <2>3
<1>3. CASE CallProvider(p)
  <2>1. /\ UNCHANGED <<exec, status, delivered, settle, timer, polls>>
        /\ poll[p].at = "call"
    BY <1>3 DEF CallProvider
  <2>2. /\ poll'[p].at = "reply" /\ poll'[p].step = poll[p].step
        /\ \A q \in Pollers : q # p => poll'[q] = poll[q]
    <3>1. PICK reply : poll' = [poll EXCEPT ![p].at = "reply", ![p].reply = reply,
                                            ![p].kind = "none"]
      BY <1>3 DEF CallProvider
    <3>2. QED
      BY <1>0, <3>1 DEF Polls
  <2>3. \A what : Due(s, what)' <=> Due(s, what)
    BY <2>1, <2>2 DEF Due, ExecDue, PollDue
  <2>4. \A q \in Pollers : Awaiting(q, s) => Awaiting(q, s)'
    BY <2>1, <2>2 DEF Awaiting
  <2>5. Polled(s) => Polled(s)'
    BY <2>1, <2>3, <2>4 DEF Polled
  <2>6. QED
    BY <2>1, <2>3, <2>5, Untouched
<1>4. CASE ApplyPoll(p)
  <2>1. PICK reply \in Replies : reply = poll[p].reply
    BY <1>0 DEF Polls
  <2>2. /\ UNCHANGED <<exec, settle, timer, polls>> /\ poll[p].at = "reply" /\ Awaiting(p, x)
    BY <1>1, <1>4 DEF ApplyPoll, Awaiting
  <2>3. PICK todo :
          /\ poll' = [poll EXCEPT ![p] = [NoPoll EXCEPT !.step = x, !.at = "enqueue", !.todo = todo]]
          /\ reply = "error" => todo = {"poll"} /\ UNCHANGED <<status, delivered>>
          /\ reply # "error" =>
               /\ todo \in {Following(x, reply), Following(x, reply) \cup {"task"}}
               /\ status' = [status EXCEPT ![x] = StatusAfter(x, reply)]
               /\ delivered' = IF reply = "done" THEN delivered \cup {x} ELSE delivered
    BY <1>1, <1>4, <2>1 DEF ApplyPoll
  <2>4. /\ poll'[p].at = "enqueue" /\ poll'[p].step = x /\ poll'[p].todo = todo
        /\ \A q \in Pollers : q # p => poll'[q] = poll[q]
    BY <1>0, <2>3 DEF NoPoll
  <2>5. \A what : Due(s, what)' <=> Due(s, what) \/ (s = x /\ what \in todo)
    BY <2>2, <2>4 DEF Due, ExecDue, PollDue
  <2>6. CASE s # x
    <3>1. \A q \in Pollers : Awaiting(q, s) => Awaiting(q, s)'
      BY <1>1, <2>4, <2>6 DEF Awaiting
    <3>2. Polled(s) => Polled(s)'
      BY <2>2, <2>5, <2>6, <3>1 DEF Polled
    <3>3. status'[s] = status[s] /\ (s \in delivered' => s \in delivered)
      BY <1>0, <2>3, <2>6
    <3>4. QED
      BY <2>2, <2>5, <2>6, <3>2, <3>3, Untouched
  <2>7. CASE s = x /\ reply = "error"
    <3>1. Polled(s)'
      BY <2>3, <2>5, <2>7 DEF Polled
    <3>2. QED
      BY <2>2, <2>3, <2>5, <2>7, <3>1, Untouched
  <2>8. CASE s = x /\ reply # "error"
    <3>1. s \notin overlapped => status[s] \notin {"AWAITING_APPROVAL", "RELEASED"}
      BY <2>2, <2>8, NotMine
    <3>2. status'[s] = StatusAfter(s, reply) /\ (s \in delivered' => s \in delivered \/ reply = "done")
      BY <1>0, <2>3, <2>8
    <3>3. /\ \A what \in Following(s, reply) : Due(s, what)'
          /\ Due(s, "settle")' => Due(s, "settle") \/ "settle" \in Following(s, reply)
      BY <2>3, <2>5, <2>8
    <3>4. QED
      BY <2>2, <3>1, <3>2, <3>3, Written
  <2>9. QED
    BY <2>6, <2>7, <2>8
<1>5. CASE PollEnqueue(p)
  <2>1. PICK todo : todo = poll[p].todo
    OBVIOUS
  <2>2. /\ poll[p].at = "enqueue" /\ Enqueue(x, todo)
        /\ UNCHANGED <<exec, status, delivered>> /\ poll' = [poll EXCEPT ![p] = NoPoll]
    BY <1>1, <1>5, <2>1 DEF PollEnqueue
  <2>3. poll'[p].at = "idle" /\ \A q \in Pollers : q # p => poll'[q] = poll[q]
    BY <1>0, <2>2 DEF NoPoll
  <2>4. \A what : /\ Due(s, what)' => Due(s, what)
                  /\ Due(s, what) => Due(s, what)' \/ (x = s /\ what \in todo)
                  /\ x = s /\ what \in todo => Due(s, what)
    BY <1>1, <2>1, <2>2, <2>3 DEF Due, ExecDue, PollDue
  <2>5. \A q \in Pollers : Awaiting(q, s) => Awaiting(q, s)'
    BY <2>2, <2>3 DEF Awaiting
  <2>6. QED
    BY <2>2, <2>4, <2>5, Enqueued
<1>6. CASE PollFails(p) \/ PollLosesJobs(p)
  <2>1. /\ faults' = faults + 1 /\ UNCHANGED <<exec, status, delivered, settle, timer>>
    BY <1>6 DEF PollFails, PollLosesJobs, Fault
  <2>2. \A q \in Pollers : poll'[q] = poll[q] \/ poll'[q].at = "idle" \/ poll'[q].todo = {}
    BY <1>0, <1>6 DEF PollFails, PollLosesJobs, NoPoll, Polls
  <2>3. Due(s, "settle")' => Due(s, "settle")
    BY <2>1, <2>2 DEF Due, ExecDue, PollDue
  <2>4. faults' # 0
    BY <1>0, <2>1
  <2>5. QED
    BY <2>1, <2>3, <2>4, Failed
<1>7. QED
  BY <1>2, <1>3, <1>4, <1>5, <1>6 DEF PollRun

\* The timer, settlement, the buyer and the rest.
LEMMA KeptRest ==
    ASSUME TypeInv, PayInv, RedoInv, TaskInv, NEW s \in Steps, Kept(s), Sober(s),
           \/ \E x \in Steps : TimerRun(x) \/ SettleRun(x) \/ AnswerStep(x) \/ TimerFails(x)
           \/ Approve \/ RaiseDispute \/ ResolveDispute \/ PassDeadline \/ EvictTask
           \/ ExecFails \/ ExecLosesJobs \/ UNCHANGED vars
    PROVE  Kept(s)'
<1> USE DEF bounds, config, rows, runs, queues, history
<1>0. /\ status \in [Steps -> StepStatus] /\ polls \in [Steps -> Nat] /\ faults \in Nat
      /\ timer \in [Steps -> {"none", "waiting", "releasing", "released", "done"}]
      /\ settle \in [Steps -> {"none", "waiting", "paid", "skipped", "done"}]
      /\ exec \in Execs
  BY ExecutorAssumption DEF TypeInv, TypeOK, Execs
\* None of these touches what is due.
<1>1. UNCHANGED <<exec, poll>> =>
        /\ \A what : Due(s, what)' <=> Due(s, what)
        /\ (polls[s] > 0 => polls'[s] > 0) => (Polled(s) => Polled(s)')
  <2> SUFFICES ASSUME UNCHANGED <<exec, poll>>
               PROVE  /\ \A what : Due(s, what)' <=> Due(s, what)
                      /\ (polls[s] > 0 => polls'[s] > 0) => (Polled(s) => Polled(s)')
    OBVIOUS
  <2>1. \A what : Due(s, what)' <=> Due(s, what)
    BY DEF Due, ExecDue, PollDue
  <2>2. \A p : Awaiting(p, s)' <=> Awaiting(p, s)
    BY DEF Awaiting
  <2>3. QED
    BY <2>1, <2>2 DEF Polled
<1>2. ASSUME UNCHANGED <<exec, poll, settle, timer>>, polls[s] > 0 => polls'[s] > 0,
             status'[s] = status[s], s \in delivered' => s \in delivered
      PROVE  Kept(s)'
  BY <1>1, <1>2, Untouched
<1>3. ASSUME NEW x \in Steps, TimerFires(x) PROVE Kept(s)'
  <2>1. /\ UNCHANGED <<exec, poll, settle, polls, status, delivered, disputes, disputed, taskStatus>>
        /\ timer[x] = "waiting"
        /\ timer' = [timer EXCEPT ![x] =
             IF status[x] = "AWAITING_APPROVAL" /\ taskStatus # "FAILED" /\ ~disputed
             THEN "releasing" ELSE "done"]
    BY <1>3 DEF TimerFires
  <2>2. CASE s # x
    <3>1. timer'[s] = timer[s]
      BY <1>0, <2>1, <2>2
    <3>2. QED
      BY <1>1, <2>1, <3>1, Untouched
  <2>3. CASE s = x
    <3>1. timer'[s] = IF status[s] = "AWAITING_APPROVAL" /\ taskStatus # "FAILED" /\ ~disputed
                      THEN "releasing" ELSE "done"
      BY <1>0, <2>1, <2>3
    <3>2. s \notin overlapped' => Rows(s)'
      BY <1>1, <2>1, <3>1 DEF Kept, Rows, Sober
    <3>3. faults' = 0 => Parking(s)'
      BY <1>1, <2>1 DEF Kept, Parking, Sober
    <3>4. Timed(s)'
      BY <2>1, <3>1 DEF Timed, TaskInv
    <3>5. faults' = 0 /\ s \notin overlapped' => Claimed(s)'
      BY <1>1, <2>1, <2>3 DEF Kept, Claimed, Sober
    <3>6. QED
      BY <3>2, <3>3, <3>4, <3>5 DEF Kept
  <2>4. QED
    BY <2>2, <2>3
<1>4. ASSUME NEW x \in Steps, TimerReleases(x) PROVE Kept(s)'
  <2>1. /\ UNCHANGED <<exec, poll, settle, polls, delivered>>
        /\ timer[x] = "releasing"
        /\ timer' = [timer EXCEPT ![x] = "released"]
        /\ status' = [status EXCEPT ![x] = "RELEASED"]
    BY <1>4 DEF TimerReleases
  <2>2. CASE s # x
    <3>1. timer'[s] = timer[s] /\ status'[s] = status[s]
      BY <1>0, <2>1, <2>2
    <3>2. QED
      BY <1>1, <2>1, <3>1, Untouched
  <2>3. CASE s = x
    <3>1. timer'[s] = "released" /\ status'[s] = "RELEASED" /\ settle'[s] = settle[s]
      BY <1>0, <2>1, <2>3
    <3>2. s \notin overlapped => status[s] \in {"AWAITING_APPROVAL", "RELEASED"}
      BY <2>1, <2>3 DEF RedoInv
    <3>3. Rows(s)' /\ Parking(s)' /\ Timed(s)'
      BY <3>1 DEF Rows, Parking, Timed, Parked
    <3>4. faults' = 0 /\ s \notin overlapped' => Claimed(s)'
      <4> SUFFICES ASSUME faults' = 0, s \notin overlapped', locked PROVE Claimed(s)'
        BY DEF Claimed, Sober
      <4>1. Rows(s) /\ Claimed(s) /\ status[s] \in {"AWAITING_APPROVAL", "RELEASED"}
        BY <3>2 DEF Kept, Sober
      <4>2. settle[s] \in {"none", "waiting", "paid", "done"}
        BY <4>1 DEF Rows, Claimed
      <4>3. QED
        BY <3>1, <4>2 DEF Claimed
    <3>5. QED
      BY <3>3, <3>4 DEF Kept
  <2>4. QED
    BY <2>2, <2>3
<1>5. ASSUME NEW x \in Steps, TimerSettles(x) PROVE Kept(s)'
  <2>1. /\ UNCHANGED <<exec, poll, polls, status, delivered, locked>>
        /\ timer[x] = "released"
        /\ timer' = [timer EXCEPT ![x] = "done"]
        /\ settle' = IF locked THEN [settle EXCEPT ![x] = Added(@)] ELSE settle
    BY <1>5 DEF TimerSettles
  <2>2. CASE s # x
    <3>1. timer'[s] = timer[s] /\ settle'[s] = settle[s]
      BY <1>0, <2>1, <2>2
    <3>2. QED
      BY <1>1, <2>1, <3>1, Untouched
  <2>3. CASE s = x
    <3>1. timer'[s] = "done" /\ settle'[s] = IF locked THEN Added(settle[s]) ELSE settle[s]
      BY <1>0, <2>1, <2>3
    <3>2. s \notin overlapped' => s \notin overlapped /\ status[s] = "RELEASED"
      BY <2>1, <2>3 DEF Kept, Rows, Sober
    <3>3. s \notin overlapped' => Rows(s)'
      BY <2>1, <3>2 DEF Rows
    <3>4. faults' = 0 => Parking(s)'
      BY <1>1, <2>1 DEF Kept, Parking, Sober
    <3>5. s \notin overlapped' => Timed(s)'
      BY <2>1, <3>2 DEF Timed
    <3>6. faults' = 0 /\ s \notin overlapped' => Claimed(s)'
      BY <1>1, <2>1, <3>1, <3>2 DEF Kept, Claimed, Sober, Added
    <3>7. QED
      BY <3>3, <3>4, <3>5, <3>6 DEF Kept
  <2>4. QED
    BY <2>2, <2>3
<1>6. ASSUME NEW x \in Steps, AnswerStep(x) PROVE Kept(s)'
  <2>1. /\ UNCHANGED <<exec, poll, settle, timer, status, delivered>>
        /\ polls' = [polls EXCEPT ![x] = @ + 1]
    BY <1>6 DEF AnswerStep
  <2>2. polls[s] > 0 => polls'[s] > 0
    BY <1>0, <2>1
  <2>3. QED
    BY <1>2, <2>1, <2>2
<1>7. ASSUME NEW x \in Steps, SettleRun(x) PROVE Kept(s)'
  <2>1. /\ UNCHANGED <<exec, poll, polls, status, delivered, timer>>
        /\ \/ settle[x] = "waiting" /\ settle' = [settle EXCEPT ![x] =
                 IF status[x] = "RELEASED" THEN "paid" ELSE "skipped"]
           \/ settle[x] = "paid" /\ settle' = [settle EXCEPT ![x] = "done"]
    BY <1>7 DEF SettleRun, Settle, AfterSettle
  <2>2. CASE s # x
    <3>1. settle'[s] = settle[s]
      BY <1>0, <2>1, <2>2
    <3>2. QED
      BY <1>1, <2>1, <3>1, Untouched
  <2>3. CASE s = x
    <3>1. settle[s] # "none" /\ settle'[s] # "none"
          /\ (status[s] = "RELEASED" => settle'[s] \in {"paid", "done"})
      BY <1>0, <2>1, <2>3
    <3>2. s \notin overlapped' => Rows(s)'
      BY <1>1, <2>1, <3>1 DEF Kept, Rows, Sober
    <3>3. faults' = 0 => Parking(s)'
      BY <1>1, <2>1 DEF Kept, Parking, Sober
    <3>4. faults' = 0 /\ s \notin overlapped' => Timed(s)'
      BY <1>1, <2>1 DEF Kept, Timed, Sober
    <3>5. Claimed(s)'
      BY <2>1, <3>1 DEF Claimed
    <3>6. QED
      BY <3>2, <3>3, <3>4, <3>5 DEF Kept
  <2>4. QED
    BY <2>2, <2>3
<1>8. CASE Approve
  <2>1. /\ UNCHANGED <<exec, poll, polls, delivered, timer, locked>>
        /\ status'[s] = IF status[s] = "AWAITING_APPROVAL" THEN "RELEASED" ELSE status[s]
        /\ settle'[s] = IF status[s] = "AWAITING_APPROVAL" /\ locked
                        THEN Added(settle[s]) ELSE settle[s]
    BY <1>8 DEF Approve
  <2>2. CASE status[s] # "AWAITING_APPROVAL"
    BY <1>1, <2>1, <2>2, Untouched
  <2>3. CASE status[s] = "AWAITING_APPROVAL"
    <3>1. Rows(s)' /\ Parking(s)' /\ Timed(s)'
      BY <2>1, <2>3 DEF Rows, Parking, Timed, Parked
    <3>2. s \notin overlapped' => settle[s] = "none"
      BY <2>3 DEF Kept, Rows, Sober
    <3>3. s \notin overlapped' => Claimed(s)'
      BY <2>1, <2>3, <3>2 DEF Claimed, Added
    <3>4. QED
      BY <3>1, <3>3 DEF Kept
  <2>4. QED
    BY <2>2, <2>3
<1>9. CASE RaiseDispute \/ ResolveDispute \/ PassDeadline \/ EvictTask \/ UNCHANGED vars
  <2>1. UNCHANGED <<exec, poll, polls, status, delivered, timer, settle>>
    BY <1>9 DEF RaiseDispute, ResolveDispute, PassDeadline, EvictTask, vars
  <2>2. QED
    BY <1>2, <2>1
<1>10. CASE ExecFails \/ ExecLosesJobs
  <2>1. /\ faults' = faults + 1 /\ UNCHANGED <<poll, status, delivered, settle, timer>>
        /\ exec'.at = "idle" \/ exec'.todo = {}
    BY <1>0, <1>10 DEF ExecFails, ExecLosesJobs, Fault, NoExec, Execs
  <2>2. Due(s, "settle")' => Due(s, "settle")
    BY <2>1 DEF Due, ExecDue, PollDue
  <2>3. faults' # 0
    BY <1>0, <2>1
  <2>4. QED
    BY <2>1, <2>2, <2>3, Failed
<1>11. ASSUME NEW x \in Steps, TimerFails(x) PROVE Kept(s)'
  <2>1. /\ faults' = faults + 1 /\ UNCHANGED <<exec, poll, status, delivered, settle>>
        /\ timer' = [timer EXCEPT ![x] = "waiting"]
    BY <1>11 DEF TimerFails, Fault
  <2>2. timer'[s] = "released" => timer[s] = "released"
    BY <1>0, <2>1
  <2>3. faults' # 0
    BY <1>0, <2>1
  <2>4. QED
    BY <1>1, <2>1, <2>2, <2>3, Failed
<1>12. QED
  BY <1>3, <1>4, <1>5, <1>6, <1>7, <1>8, <1>9, <1>10, <1>11 DEF TimerRun

LEMMA KeptInit == Init => KeptInv
<1> SUFFICES ASSUME Init PROVE KeptInv
  OBVIOUS
<1>1. exec.at = "idle" /\ \A p \in Pollers : poll[p].at = "idle"
  BY DEF Init, NoExec, NoPoll
<1>2. \A s \in Steps : /\ status[s] = "PENDING" /\ timer[s] = "none" /\ settle[s] = "none"
                       /\ s \notin delivered
  BY DEF Init
<1>3. TaskInv
  BY <1>1 DEF Init, TaskInv
<1>4. \A s \in Steps : ~Due(s, "settle")
  BY <1>1 DEF Due, ExecDue, PollDue
<1>5. \A s \in Steps : Kept(s)
  BY <1>2, <1>4 DEF Kept, Rows, Parking, Timed, Claimed, Parked
<1>6. QED
  BY <1>3, <1>5 DEF KeptInv

LEMMA KeptStep == TypeInv /\ PayInv /\ RedoInv /\ KeptInv /\ [Next]_vars => KeptInv'
<1> SUFFICES ASSUME TypeInv, PayInv, RedoInv, KeptInv, [Next]_vars PROVE KeptInv'
  OBVIOUS
<1>1. TaskInv /\ TaskInv' /\ \A s \in Steps : Sober(s)
  BY TaskStep DEF KeptInv
<1>2. ASSUME NEW s \in Steps PROVE Kept(s)'
  <2>1. Kept(s) /\ Sober(s)
    BY <1>1 DEF KeptInv
  <2>2. QED
    BY <1>1, <2>1, KeptExec, KeptPoll, KeptRest DEF Next
<1>3. QED
  BY <1>1, <1>2 DEF KeptInv

LEMMA KeptInvariant == Spec => []KeptInv
  BY KeptInit, KeptStep, PayInit, PayStep, RedoInit, RedoStep, TypeInvariant, PTL DEF Spec

\* No parked step is forgotten: while nothing has failed and the hire's locked
\* budget is neither spent nor returned, each step whose provider still works or
\* asks has a poll of its own that waits, runs or is about to be enqueued, whoever
\* else has polled, answered or restarted it (pollStep and enqueueStepPoll,
\* executor.ts).  It is what ParkedEnds needs beyond fairness, for any number of
\* steps.
ParkedIsPolled == \A s \in Steps : faults = 0 => Parking(s)

THEOREM ParkedAlwaysPolled == Spec => []ParkedIsPolled
<1>1. KeptInv => ParkedIsPolled
  BY DEF KeptInv, Kept, ParkedIsPolled
<1>2. QED
  BY <1>1, KeptInvariant, PTL

\* No undisputed T2 delivery is left without its timer, and no released step of a
\* locked hire without a settlement that has paid it or will find it released:
\* while nothing has failed, for steps that no two drove at once
\* (scheduleRelease and enqueueSettlement after the row is written, executor.ts
\* 262-331; releaseHeldStep 854-912; approve, tasks.service.ts 461-496).  It is
\* what WindowEnds and ReleasedIsPaid need beyond fairness.
HeldIsTimed == \A s \in Steps \ overlapped : faults = 0 => Timed(s)
ReleasedIsClaimed == \A s \in Steps \ overlapped : faults = 0 => Claimed(s)

THEOREM NothingLeftBehind == Spec => [](HeldIsTimed /\ ReleasedIsClaimed)
<1>1. KeptInv => HeldIsTimed /\ ReleasedIsClaimed
  BY DEF KeptInv, Kept, HeldIsTimed, ReleasedIsClaimed
<1>2. QED
  BY <1>1, KeptInvariant, PTL

=============================================================================
