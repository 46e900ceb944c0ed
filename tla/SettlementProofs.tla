---------------------------- MODULE SettlementProofs ----------------------------
(***************************************************************************)
(* Proofs about the settlement workers for every number of workers, sweeps *)
(* and steps, and every number of crashes, stalls and retries: a step is   *)
(* paid under one vault task only, what no row references has paid         *)
(* nothing, a payment row means the money moved, a task is finalized only  *)
(* when settled, and no job or lock is left that nobody will end.          *)
(***************************************************************************)
EXTENDS Settlement, FiniteSetTheorems, SequenceTheorems, TLAPS

\* The vault tasks transactions work on exist.
NetOK ==
    /\ SignerTypeOK
    /\ \A tx \in inFlight : tx.op # "lock" => tx.task \in 1..Len(vault)
    /\ \A tx \in inFlight : tx.op = "release" => tx.step \in Steps

DbOK ==
    /\ taskStatus \in {"RUNNING", "COMPLETED", "FAILED"}
    /\ vaultTaskId \in TaskIds \cup {None}
    /\ vaultTaskId # None => vaultTaskId \in 1..Len(vault)
    /\ finalized \in BOOLEAN
    /\ stepStatus \in [Steps -> NonTerminalStep \cup {"INPUT_REQUIRED", "RELEASED", "FAILED"}]
    /\ recorded \in SUBSET Steps /\ passed \in SUBSET Steps

\* A job that waits or runs has an attempt left, and is in a worker's hands only
\* while it runs.
QueueOK ==
    /\ job \in [Steps -> Job]
    /\ \A s \in Steps :
        /\ job[s].state \in {"waiting", "active"} => job[s].attempts < MaxAttempts
        /\ job[s].by # None => job[s].state = "active"

\* A worker that is not idle has a step, a sweep only finalizes, and the vault
\* task either works on exists.
OnTask == {"save", "release", "releasing", "finCount", "finAcquire", "complete", "completing"}
Sweeping == {"idle", "finAcquire", "complete", "completing", "end"}
ExecOK(w, r) ==
    /\ w \in Sweepers => r.at \in Sweeping
    /\ w \notin Sweepers /\ r.at # "idle" => r.step \in Steps
    /\ r.seen # None => r.seen \in 1..Len(vault)
    /\ r.at \in OnTask => r.task \in 1..Len(vault)
RunsOK == run \in [Signers -> Execution] /\ \A w \in Signers : ExecOK(w, run[w])

\* A transaction somebody waits for is the one its caller is at.
Own(w, r, tx) ==
    \/ r.at = "locking" /\ tx = LockTx(w)
    \/ r.at = "releasing" /\ tx = ReleaseTx(w, r.task, r.step)
    \/ r.at = "completing" /\ tx = CompleteTx(w, r.task)
TxOK == \A tx \in inFlight : tx.by # None => Own(tx.by, run[tx.by], tx)

TypeInv == NetOK /\ DbOK /\ QueueOK /\ RunsOK /\ TxOK /\ faults \in 0..MaxFaults

-----------------------------------------------------------------------------
\* The vault.

LEMMA NoneDiffers == None \notin Signers /\ None \notin Steps /\ None \notin Nat
  BY SignerAssumption

\* A transaction the vault accepts opens a task, pays a step or closes a task;
\* what was paid stays paid.
VaultGrows ==
    /\ vault' \in Seq(VaultTask) /\ Len(vault') <= MaxLocks
    /\ Len(vault) <= Len(vault')
    /\ \A v \in 1..Len(vault) : vault[v].paid \subseteq vault'[v].paid

LEMMA AppliedGrows ==
    ASSUME vault \in Seq(VaultTask), Len(vault) <= MaxLocks, NEW tx \in Tx, Accepts(tx),
           tx.op # "lock" => tx.task \in 1..Len(vault),
           tx.op = "release" => tx.step \in Steps, vault' = Applied(tx)
    PROVE  /\ VaultGrows
           /\ tx.op = "lock" => /\ Len(vault') = Len(vault) + 1
                                /\ vault'[Len(vault) + 1].paid = {}
                                /\ \A v \in 1..Len(vault) : vault'[v] = vault[v]
           /\ tx.op # "lock" => /\ Len(vault') = Len(vault)
                                /\ \A v \in 1..Len(vault) :
                                     v # tx.task => vault'[v] = vault[v]
           /\ tx.op = "release" => vault'[tx.task].paid = vault[tx.task].paid \cup {tx.step}
           /\ tx.op = "complete" => vault'[tx.task].paid = vault[tx.task].paid
<1> USE SignerAssumption
<1>1. tx.op \in {"lock", "release", "complete"} /\ Len(vault) \in Nat /\ MaxLocks \in Nat
  BY DEF Tx
<1>2. CASE tx.op = "lock"
  <2>1. PICK new \in VaultTask : new = [state |-> "open", paid |-> {}]
    BY DEF VaultTask
  <2>2. vault' = Append(vault, new) /\ Len(vault) < MaxLocks
    BY <1>2, <2>1 DEF Applied, Accepts
  <2>3. /\ vault' \in Seq(VaultTask) /\ Len(vault') = Len(vault) + 1
        /\ vault'[Len(vault) + 1] = new
        /\ \A v \in 1..Len(vault) : vault'[v] = vault[v]
    BY <2>2, AppendProperties
  <2>4. Len(vault') <= MaxLocks
    BY <1>1, <2>2, <2>3
  <2>5. new.paid = {}
    BY <2>1
  <2>6. QED
    BY <1>1, <1>2, <2>3, <2>4, <2>5 DEF VaultGrows
<1>3. ASSUME NEW v \in 1..Len(vault), NEW new \in VaultTask, v = tx.task,
             vault' = [vault EXCEPT ![v] = new], tx.op # "lock",
             vault[v].paid \subseteq new.paid
      PROVE  /\ VaultGrows /\ Len(vault') = Len(vault) /\ vault'[v] = new
             /\ \A x \in 1..Len(vault) : x # v => vault'[x] = vault[x]
  <2>1. /\ vault' \in Seq(VaultTask) /\ Len(vault') = Len(vault)
        /\ \A j \in 1..Len(vault) : vault'[j] = IF j = v THEN new ELSE vault[j]
    BY <1>3, ExceptSeq
  <2>2. QED
    BY <1>1, <1>3, <2>1 DEF VaultGrows
<1>4. CASE tx.op = "release"
  <2>1. PICK v \in 1..Len(vault), s \in Steps : v = tx.task /\ s = tx.step
    BY <1>4
  <2>2. vault[v] \in VaultTask
    BY <1>1, <2>1
  <2>3. PICK new \in VaultTask : new = [vault[v] EXCEPT !.paid = @ \cup {s}]
    BY <2>2 DEF VaultTask
  <2>4. vault' = [vault EXCEPT ![v] = new]
    BY <1>4, <2>1, <2>3 DEF Applied
  <2>5. new.paid = vault[v].paid \cup {s}
    BY <2>2, <2>3 DEF VaultTask
  <2>6. QED
    BY <1>3, <1>4, <2>1, <2>4, <2>5
<1>5. CASE tx.op = "complete"
  <2>1. PICK v \in 1..Len(vault) : v = tx.task
    BY <1>5
  <2>2. vault[v] \in VaultTask
    BY <1>1, <2>1
  <2>3. PICK new \in VaultTask : new = [vault[v] EXCEPT !.state = "closed"]
    BY <2>2 DEF VaultTask
  <2>4. vault' = [vault EXCEPT ![v] = new]
    BY <1>5, <2>1, <2>3 DEF Applied
  <2>5. new.paid = vault[v].paid
    BY <2>2, <2>3 DEF VaultTask
  <2>6. QED
    BY <1>3, <1>5, <2>1, <2>4, <2>5
<1>6. QED
  BY <1>1, <1>2, <1>4, <1>5

-----------------------------------------------------------------------------
\* What the shared pieces do to the network.

LEMMA NetTypes ==
    ASSUME NetOK
    PROVE  /\ vault \in Seq(VaultTask) /\ Len(vault) <= MaxLocks /\ Len(vault) \in Nat
           /\ inFlight \in SUBSET Tx
           /\ holder \in Signers \cup {None} /\ orphaned \in BOOLEAN
  BY DEF NetOK, SignerTypeOK

LEMMA OwnTx ==
    ASSUME NEW w \in Signers
    PROVE  /\ LockTx(w) \in Tx /\ LockTx(w).op = "lock" /\ LockTx(w).by = w
           /\ \A v \in TaskIds, s \in Steps :
                /\ ReleaseTx(w, v, s) \in Tx /\ ReleaseTx(w, v, s).op = "release"
                /\ ReleaseTx(w, v, s).by = w /\ ReleaseTx(w, v, s).task = v
                /\ ReleaseTx(w, v, s).step = s
           /\ \A v \in TaskIds :
                /\ CompleteTx(w, v) \in Tx /\ CompleteTx(w, v).op = "complete"
                /\ CompleteTx(w, v).by = w /\ CompleteTx(w, v).task = v
  BY DEF LockTx, ReleaseTx, CompleteTx, Tx

\* Nothing on the network moves but the Redis lock.
LEMMA HolderNet ==
    ASSUME NetOK, UNCHANGED <<vault, inFlight>>, holder' \in Signers \cup {None},
           orphaned' \in BOOLEAN
    PROVE  NetOK'
  BY DEF NetOK, SignerTypeOK

LEMMA LeaveType ==
    ASSUME NetOK, NEW w \in Signers, Leave(w)
    PROVE  holder' \in Signers \cup {None} /\ orphaned' \in BOOLEAN
  BY DEF NetOK, SignerTypeOK, Leave

LEMMA SubmitNet ==
    ASSUME NetOK, NEW tx \in Tx, Submit(tx), UNCHANGED <<holder, orphaned>>,
           tx.op # "lock" => tx.task \in 1..Len(vault), tx.op = "release" => tx.step \in Steps
    PROVE  NetOK' /\ UNCHANGED vault
  BY DEF NetOK, SignerTypeOK, Submit

LEMMA LandsNet ==
    ASSUME NetOK, NEW w \in Signers \cup {None}, Lands(w), holder' \in Signers \cup {None},
           orphaned' \in BOOLEAN
    PROVE  NetOK' /\ VaultGrows /\ inFlight' = {}
<1>1. PICK tx \in Waiting(w) : Accepts(tx) /\ vault' = Applied(tx) /\ inFlight' = {}
  BY DEF Lands
<1>2. tx \in inFlight /\ tx \in Tx
  BY <1>1, NetTypes DEF Waiting
<1>3. VaultGrows
  BY <1>1, <1>2, AppliedGrows, NetTypes DEF NetOK
<1>4. QED
  BY <1>1, <1>3 DEF NetOK, SignerTypeOK, VaultGrows

LEMMA AbandonedTx ==
    ASSUME NetOK, NEW w \in Signers
    PROVE  \A tx \in Abandoned(w) :
             /\ tx \in Tx
             /\ \E old \in inFlight :
                  /\ tx.op = old.op /\ tx.task = old.task /\ tx.step = old.step
                  /\ (tx = old /\ tx.by # w) \/ tx.by = None
<1> SUFFICES ASSUME NEW tx \in Abandoned(w)
             PROVE  /\ tx \in Tx
                    /\ \E old \in inFlight :
                         /\ tx.op = old.op /\ tx.task = old.task /\ tx.step = old.step
                         /\ (tx = old /\ tx.by # w) \/ tx.by = None
  OBVIOUS
<1>1. CASE tx \in inFlight /\ tx.by # w
  BY <1>1, NetTypes
<1>2. ASSUME NEW old \in Waiting(w), tx = [old EXCEPT !.by = None]
      PROVE  /\ tx \in Tx /\ old \in inFlight /\ tx.by = None
             /\ tx.op = old.op /\ tx.task = old.task /\ tx.step = old.step
  BY <1>2, NetTypes DEF Waiting, Tx
<1>3. QED
  BY <1>1, <1>2 DEF Abandoned

\* A call that ends without success leaves nothing new behind.
Retreats(w) == inFlight' \in {inFlight, {}, Abandoned(w)} /\ UNCHANGED vault

LEMMA RetreatNet ==
    ASSUME NetOK, NEW w \in Signers, Retreats(w), holder' \in Signers \cup {None},
           orphaned' \in BOOLEAN
    PROVE  NetOK'
<1>1. CASE inFlight' = inFlight \/ inFlight' = {}
  BY <1>1 DEF NetOK, SignerTypeOK, Retreats
<1>2. CASE inFlight' = Abandoned(w)
  <2>1. inFlight' \in SUBSET Tx
    BY <1>2, AbandonedTx
  <2>2. ASSUME NEW tx \in inFlight'
        PROVE  /\ tx.op # "lock" => tx.task \in 1..Len(vault)
               /\ tx.op = "release" => tx.step \in Steps
    BY <1>2, <2>2, AbandonedTx DEF NetOK
  <2>3. QED
    BY <1>2, <2>1, <2>2 DEF NetOK, SignerTypeOK, Retreats
<1>3. QED
  BY <1>1, <1>2 DEF Retreats

-----------------------------------------------------------------------------
\* What the shared pieces do to an execution.

\* The execution w becomes r.
Becomes(w, r) == r \in Execution /\ run' = [run EXCEPT ![w] = r]

LEMMA RunsKept ==
    ASSUME RunsOK, NetOK, Len(vault') \in Nat, Len(vault) <= Len(vault'),
           NEW w \in Signers, NEW r, Becomes(w, r), ExecOK(w, r)'
    PROVE  RunsOK'
<1>1. run' \in [Signers -> Execution] /\ run'[w] = r
      /\ \A y \in Signers : y # w => run'[y] = run[y]
  BY DEF RunsOK, Becomes
<1>2. ASSUME NEW y \in Signers, y # w PROVE ExecOK(y, run[y])'
  BY <1>1, <1>2, NetTypes DEF RunsOK, ExecOK
<1>3. QED
  BY <1>1, <1>2 DEF RunsOK, ExecOK

LEMMA RunsGrow ==
    ASSUME RunsOK, NetOK, Len(vault') \in Nat, Len(vault) <= Len(vault'), UNCHANGED run
    PROVE  RunsOK'
  BY NetTypes DEF RunsOK, ExecOK

LEMMA IdleOK == Idle \in Execution /\ \A w : ExecOK(w, Idle)
  BY DEF Idle, Execution, Places, ExecOK, Sweeping, OnTask

LEMMA TxKept ==
    ASSUME NetOK, RunsOK, TxOK, NEW w \in Signers, NEW r, Becomes(w, r),
           \A tx \in inFlight' : \/ tx.by = None
                                 \/ tx \in inFlight /\ tx.by # w
                                 \/ tx.by = w /\ Own(w, r, tx)
    PROVE  TxOK'
<1>1. run'[w] = r /\ \A y \in Signers : y # w => run'[y] = run[y]
  BY DEF RunsOK, Becomes
<1>2. SUFFICES ASSUME NEW tx \in inFlight', tx.by # None
               PROVE  Own(tx.by, run'[tx.by], tx)
  BY DEF TxOK, Own
<1>3. CASE tx \in inFlight /\ tx.by # w
  <2>1. tx.by \in Signers
    BY <1>2, <1>3, NetTypes DEF Tx
  <2>2. run'[tx.by] = run[tx.by]
    BY <1>1, <1>3, <2>1
  <2>3. Own(tx.by, run[tx.by], tx)
    BY <1>2, <1>3 DEF TxOK
  <2>4. QED
    BY <2>2, <2>3
<1>4. CASE tx.by = w /\ Own(w, r, tx)
  BY <1>1, <1>4
<1>5. QED
  BY <1>2, <1>3, <1>4

\* Who waits for nothing and sends nothing keeps the transactions in order, and so
\* does who retreats.
Awaits == {"locking", "releasing", "completing"}
LEMMA TxQuiet ==
    ASSUME NetOK, RunsOK, TxOK, NEW w \in Signers, NEW r, Becomes(w, r),
           run[w].at \notin Awaits, UNCHANGED inFlight
    PROVE  TxOK'
<1>1. \A tx \in inFlight : tx.by # w
  BY NoneDiffers DEF TxOK, Own, Awaits
<1>2. QED
  BY <1>1, TxKept

LEMMA TxRetreats ==
    ASSUME NetOK, RunsOK, TxOK, NEW w \in Signers, NEW r, Becomes(w, r), Retreats(w),
           inFlight' \in {{}, Abandoned(w)} \/ run[w].at \notin Awaits
    PROVE  TxOK'
<1>1. CASE inFlight' = inFlight /\ run[w].at \notin Awaits
  BY <1>1, TxQuiet
<1>2. CASE inFlight' = {}
  BY <1>2 DEF TxOK
<1>3. CASE inFlight' = Abandoned(w)
  BY <1>3, AbandonedTx, TxKept
<1>4. QED
  BY <1>1, <1>2, <1>3 DEF Retreats

\* Goto changes the place only.
LEMMA GotoRun ==
    ASSUME RunsOK, NEW w \in Signers, NEW place \in Places, Goto(w, place)
    PROVE  \E r \in Execution :
             /\ Becomes(w, r) /\ r.at = place
             /\ r.step = run[w].step /\ r.seen = run[w].seen /\ r.task = run[w].task
             /\ r.owed = run[w].owed /\ r.status = run[w].status
<1>1. PICK e \in Execution : e = run[w]
  BY DEF RunsOK
<1>2. PICK r \in Execution : r = [e EXCEPT !.at = place]
  BY DEF Execution
<1>3. /\ r.at = place /\ r.step = e.step /\ r.seen = e.seen /\ r.task = e.task
      /\ r.owed = e.owed /\ r.status = e.status
  BY <1>2 DEF Execution
<1>4. run' = [run EXCEPT ![w] = r]
  BY <1>1, <1>2 DEF Goto, RunsOK
<1>5. QED
  BY <1>1, <1>3, <1>4 DEF Becomes

\* Going to another place keeps an execution sound if the place suits it.
LEMMA GotoOK ==
    ASSUME RunsOK, NetOK, Len(vault') \in Nat, Len(vault) <= Len(vault'),
           NEW w \in Signers, NEW place \in Places, Goto(w, place),
           w \in Sweepers => place \in Sweeping,
           run[w].at # "idle",
           place \in OnTask => run[w].task \in 1..Len(vault)
    PROVE  RunsOK'
<1>1. PICK r \in Execution :
             /\ Becomes(w, r) /\ r.at = place
             /\ r.step = run[w].step /\ r.seen = run[w].seen /\ r.task = run[w].task
  BY GotoRun
<1>2. ExecOK(w, r)'
  BY <1>1, NetTypes DEF RunsOK, ExecOK
<1>3. QED
  BY <1>1, <1>2, RunsKept

-----------------------------------------------------------------------------
\* Type correctness.

LEMMA FaultType == faults \in 0..MaxFaults /\ (Fault \/ UNCHANGED faults) => faults' \in 0..MaxFaults
  BY SettlementAssumption DEF Fault

LEMMA SetJobQueue ==
    ASSUME QueueOK, NEW w \in Signers, NEW j, SetJob(w, j), run[w].step \in Steps,
           JobOf(w).by = w =>
             /\ j \in Job
             /\ j.state \in {"waiting", "active"} => j.attempts < MaxAttempts
             /\ j.by # None => j.state = "active"
    PROVE  QueueOK'
<1>1. CASE JobOf(w).by # w
  BY <1>1 DEF SetJob, QueueOK
<1>2. CASE JobOf(w).by = w
  <2>1. PICK s \in Steps : s = run[w].step
    OBVIOUS
  <2>2. job' = [job EXCEPT ![s] = j]
    BY <1>2, <2>1 DEF SetJob
  <2>3. QED
    BY <1>2, <2>2 DEF QueueOK
<1>3. QED
  BY <1>1, <1>2

LEMMA JobThrowsQueue ==
    ASSUME QueueOK, NEW w \in Signers, JobThrows(w), run[w].step \in Steps
    PROVE  QueueOK'
<1> USE SettlementAssumption
<1>1. PICK j \in Job : j = JobOf(w)
  BY DEF QueueOK, JobOf
<1>2. PICK k : k = [j EXCEPT !.by = None, !.attempts = @ + 1,
                             !.state = IF j.attempts + 1 = MaxAttempts
                                       THEN "exhausted" ELSE "waiting"]
  OBVIOUS
<1>3. SetJob(w, k)
  BY <1>1, <1>2 DEF JobThrows
<1>4. ASSUME j.by = w
      PROVE  /\ k \in Job
             /\ k.state \in {"waiting", "active"} => k.attempts < MaxAttempts
             /\ k.by = None
  <2>1. j.attempts \in 0..MaxAttempts /\ j.attempts < MaxAttempts
    BY <1>1, <1>4, NoneDiffers DEF QueueOK, JobOf, Job
  <2>2. PICK n \in 0..MaxAttempts, state \in {"exhausted", "waiting"} :
          /\ n = j.attempts + 1
          /\ state = IF j.attempts + 1 = MaxAttempts THEN "exhausted" ELSE "waiting"
    BY <2>1
  <2>3. k = [j EXCEPT !.by = None, !.attempts = n, !.state = state]
    BY <1>2, <2>2
  <2>4. k \in Job /\ k.by = None /\ k.attempts = n /\ k.state = state
    BY <2>3 DEF Job
  <2>5. QED
    BY <2>1, <2>2, <2>4
<1>5. QED
  BY <1>1, <1>3, <1>4, SetJobQueue

LEMMA RestartedType ==
    ASSUME NEW j \in Job, j.attempts < MaxAttempts
    PROVE  /\ Restarted(j) \in Job /\ Restarted(j).by = None
           /\ Restarted(j).state \in {"waiting", "failed"}
           /\ Restarted(j).attempts = j.attempts
<1>1. CASE j.stalls < MaxStalls
  <2>1. PICK n \in 0..MaxStalls : n = j.stalls + 1
    BY <1>1, SettlementAssumption DEF Job
  <2>2. Restarted(j) = [j EXCEPT !.state = "waiting", !.by = None, !.stalls = n]
    BY <1>1, <2>1 DEF Restarted
  <2>3. QED
    BY <2>2 DEF Job
<1>2. CASE ~(j.stalls < MaxStalls)
  BY <1>2 DEF Restarted, Job
<1>3. QED
  BY <1>1, <1>2

LEMMA JobDoneQueue ==
    ASSUME QueueOK, NEW w \in Signers, JobDone(w), run[w].step \in Steps
    PROVE  QueueOK'
<1>1. PICK j \in Job : j = JobOf(w)
  BY DEF QueueOK, JobOf
<1>2. PICK k \in Job : k = [j EXCEPT !.state = "done", !.by = None]
  BY DEF Job
<1>3. k.state = "done" /\ k.by = None
  BY <1>2 DEF Job
<1>4. QED
  BY <1>1, <1>2, <1>3, SetJobQueue DEF JobDone

\* The four parts a step has to keep, and what they take of the steps that leave
\* vault, database and queue alone.
LEMMA Kept ==
    ASSUME TypeInv
    PROVE  /\ UNCHANGED signerVars => NetOK'
           /\ UNCHANGED <<vault, taskVars, stepStatus, recorded>> => DbOK'
           /\ UNCHANGED job => QueueOK'
           /\ UNCHANGED <<vault, run>> => RunsOK'
           /\ UNCHANGED <<inFlight, run>> => TxOK'
  BY DEF TypeInv, NetOK, SignerTypeOK, signerVars, DbOK, taskVars, QueueOK, RunsOK, ExecOK,
         TxOK, Own

LEMMA DbGrows ==
    ASSUME TypeInv, Len(vault') \in Nat, Len(vault) <= Len(vault'),
           UNCHANGED <<taskVars, stepStatus, recorded>>
    PROVE  DbOK'
  BY NetTypes DEF TypeInv, DbOK, taskVars

\* How an execution moves: on its own, sending, landing and retreating.
LEMMA QuietMove ==
    ASSUME TypeInv, NEW w \in Signers, NEW r, Becomes(w, r), run[w].at \notin Awaits,
           UNCHANGED <<vault, inFlight>>, ExecOK(w, r)'
    PROVE  RunsOK' /\ TxOK'
<1>1. NetOK /\ RunsOK /\ TxOK /\ Len(vault) \in Nat
  BY NetTypes DEF TypeInv
<1>2. QED
  BY <1>1, RunsKept, TxQuiet

LEMMA QuietGoto ==
    ASSUME TypeInv, NEW w \in Signers, NEW place \in Places, Goto(w, place),
           run[w].at \notin Awaits, run[w].at # "idle", UNCHANGED <<vault, inFlight>>,
           w \in Sweepers => place \in Sweeping,
           place \in OnTask => run[w].task \in 1..Len(vault)
    PROVE  RunsOK' /\ TxOK'
<1>1. NetOK /\ RunsOK /\ TxOK /\ Len(vault) \in Nat
  BY NetTypes DEF TypeInv
<1>2. PICK r \in Execution : Becomes(w, r)
  BY <1>1, GotoRun
<1>3. QED
  BY <1>1, <1>2, GotoOK, TxQuiet

LEMMA SubmitMove ==
    ASSUME TypeInv, NEW w \in Signers, NEW tx \in Tx, Submit(tx), tx.by = w,
           NEW place \in Awaits, Goto(w, place), run[w].at # "idle",
           run[w].at \notin Awaits, UNCHANGED <<holder, orphaned>>,
           tx.op # "lock" => tx.task \in 1..Len(vault), tx.op = "release" => tx.step \in Steps,
           w \in Sweepers => place = "completing",
           /\ place = "locking" => tx = LockTx(w)
           /\ place = "releasing" => tx = ReleaseTx(w, run[w].task, run[w].step)
           /\ place = "completing" => tx = CompleteTx(w, run[w].task),
           place # "locking" => run[w].task \in 1..Len(vault)
    PROVE  NetOK' /\ RunsOK' /\ TxOK' /\ UNCHANGED vault
<1>1. NetOK /\ RunsOK /\ TxOK /\ Len(vault) \in Nat
  BY NetTypes DEF TypeInv
<1>2. NetOK' /\ UNCHANGED vault
  BY <1>1, SubmitNet
<1>3. place \in Places /\ (w \in Sweepers => place \in Sweeping)
  BY DEF Awaits, Places, Sweeping
<1>4. PICK r \in Execution : /\ Becomes(w, r) /\ r.at = place
                             /\ r.step = run[w].step /\ r.task = run[w].task
  BY <1>1, <1>3, GotoRun
<1>5. Own(w, r, tx)
  BY <1>4 DEF Own, Awaits
<1>6. \A other \in inFlight : other.by # w
  BY <1>1, NoneDiffers DEF TxOK, Own, Awaits
<1>7. TxOK'
  BY <1>1, <1>4, <1>5, <1>6, TxKept DEF Submit
<1>8. RunsOK'
  <2>1. place \in OnTask => run[w].task \in 1..Len(vault)
    BY DEF OnTask
  <2>2. QED
    BY <1>1, <1>2, <1>3, <2>1, GotoOK
<1>9. QED
  BY <1>2, <1>7, <1>8

LEMMA RetreatMove ==
    ASSUME TypeInv, NEW w \in Signers, NEW r, Becomes(w, r), Retreats(w),
           inFlight' \in {{}, Abandoned(w)} \/ run[w].at \notin Awaits,
           holder' \in Signers \cup {None}, orphaned' \in BOOLEAN, ExecOK(w, r)
    PROVE  NetOK' /\ RunsOK' /\ TxOK'
<1>1. NetOK /\ RunsOK /\ TxOK /\ Len(vault) \in Nat /\ UNCHANGED vault
  BY NetTypes DEF TypeInv, Retreats
<1>2. ExecOK(w, r)'
  BY <1>1 DEF ExecOK
<1>3. QED
  BY <1>1, <1>2, RetreatNet, RunsKept, TxRetreats

LEMMA LandsMove ==
    ASSUME TypeInv, NEW w \in Signers, NEW r, Becomes(w, r), Lands(w),
           holder' \in Signers \cup {None}, orphaned' \in BOOLEAN, ExecOK(w, r)'
    PROVE  NetOK' /\ RunsOK' /\ TxOK'
<1>1. NetOK /\ RunsOK /\ TxOK
  BY DEF TypeInv
<1>2. NetOK' /\ VaultGrows /\ inFlight' = {}
  BY <1>1, LandsNet
<1>3. Len(vault') \in Nat /\ Len(vault) <= Len(vault')
  BY <1>2 DEF VaultGrows
<1>4. TxOK'
  BY <1>2 DEF TxOK
<1>5. QED
  BY <1>1, <1>2, <1>3, <1>4, RunsKept

\* A place that binds an execution to nothing new.
LEMMA PlainPlace ==
    ASSUME RunsOK, NEW w \in Signers, w \notin Sweepers, NEW r,
           r.at \notin OnTask, r.step = run[w].step, r.seen = run[w].seen, run[w].at # "idle"
    PROVE  ExecOK(w, r)
  BY DEF RunsOK, ExecOK

\* settleStep.
LEMMA SettleType ==
    ASSUME TypeInv, NEW w \in Signers, Settle(w)
    PROVE  TypeInv'
<1> USE SignerAssumption, SettlementAssumption
<1>0. /\ NetOK /\ DbOK /\ QueueOK /\ RunsOK /\ TxOK /\ faults \in 0..MaxFaults
      /\ Len(vault) \in Nat
  BY NetTypes DEF TypeInv
<1>1. ASSUME NetOK', DbOK', QueueOK', RunsOK', TxOK', Fault \/ UNCHANGED faults
      PROVE  TypeInv'
  BY <1>0, <1>1, FaultType DEF TypeInv
<1>2. PICK e \in Execution : e = run[w] /\ ExecOK(w, e)
  BY <1>0 DEF RunsOK
<1>3. CASE ReadStep(w)
  <2>1. PICK r \in Execution : r = [e EXCEPT !.seen = vaultTaskId,
                 !.at = IF e.step \in recorded THEN "finRead" ELSE "acquire"]
    BY <1>0 DEF Execution, Places, DbOK
  <2>2. r.at \in {"finRead", "acquire"} /\ r.seen = vaultTaskId /\ r.step = e.step
    BY <2>1 DEF Execution
  <2>3. Becomes(w, r)
    BY <1>0, <1>2, <1>3, <2>1 DEF ReadStep, Becomes, RunsOK
  <2>4. e.at = "read" /\ UNCHANGED <<signerVars, taskVars, stepStatus, recorded, job, faults>>
    BY <1>2, <1>3 DEF ReadStep, At
  <2>5. ExecOK(w, r)'
    BY <1>0, <1>2, <2>2, <2>4 DEF ExecOK, OnTask, Sweeping, DbOK, signerVars
  <2>6. RunsOK' /\ TxOK'
    BY <1>2, <2>3, <2>4, <2>5, QuietMove DEF signerVars, Awaits
  <2>7. QED
    BY <1>1, <2>4, <2>6, Kept DEF signerVars
<1>4. CASE EnterSection(w)
  <2>1. PICK r \in Execution : r = [e EXCEPT !.task = e.seen,
                 !.at = IF e.seen = None THEN "fresh" ELSE "release"]
    BY DEF Execution, Places
  <2>2. /\ r.at = IF e.seen = None THEN "fresh" ELSE "release"
        /\ r.seen = e.seen /\ r.step = e.step /\ r.task = e.seen
    BY <2>1 DEF Execution
  <2>3. Becomes(w, r)
    BY <1>0, <1>2, <1>4, <2>1 DEF EnterSection, Becomes, RunsOK
  <2>4. /\ e.at = "acquire" /\ holder' = w /\ orphaned' = orphaned
        /\ UNCHANGED <<vault, inFlight, taskVars, stepStatus, recorded, job, faults>>
    BY <1>2, <1>4 DEF EnterSection, At, Acquire
  <2>5. ExecOK(w, r)'
    BY <1>2, <2>2, <2>4 DEF ExecOK, OnTask, Sweeping
  <2>6. RunsOK' /\ TxOK'
    BY <1>2, <2>3, <2>4, <2>5, QuietMove DEF Awaits
  <2>7. NetOK'
    BY <1>0, <2>4, HolderNet, NetTypes
  <2>8. QED
    BY <1>1, <2>4, <2>6, <2>7, Kept
<1>5. CASE FreshRead(w)
  <2>1. PICK r \in Execution : r = [e EXCEPT !.task = vaultTaskId,
                 !.at = IF vaultTaskId = None THEN "lock" ELSE "release"]
    BY <1>0 DEF Execution, Places, DbOK
  <2>2. /\ r.at = IF vaultTaskId = None THEN "lock" ELSE "release"
        /\ r.seen = e.seen /\ r.step = e.step /\ r.task = vaultTaskId
    BY <2>1 DEF Execution
  <2>3. Becomes(w, r)
    BY <1>0, <1>2, <1>5, <2>1 DEF FreshRead, Becomes, RunsOK
  <2>4. e.at = "fresh" /\ UNCHANGED <<signerVars, taskVars, stepStatus, recorded, job, faults>>
    BY <1>2, <1>5 DEF FreshRead, At
  <2>5. ExecOK(w, r)'
    BY <1>0, <1>2, <2>2, <2>4 DEF ExecOK, OnTask, Sweeping, DbOK, signerVars
  <2>6. RunsOK' /\ TxOK'
    BY <1>2, <2>3, <2>4, <2>5, QuietMove DEF signerVars, Awaits
  <2>7. QED
    BY <1>1, <2>4, <2>6, Kept DEF signerVars
<1>6. CASE SubmitLock(w)
  <2>1. /\ e.at = "lock" /\ Submit(LockTx(w)) /\ Goto(w, "locking")
        /\ UNCHANGED <<holder, orphaned, taskVars, stepStatus, recorded, job, faults>>
    BY <1>2, <1>6 DEF SubmitLock, At
  <2>2. PICK tx \in Tx : tx = LockTx(w) /\ tx.op = "lock" /\ tx.by = w
    BY OwnTx
  <2>3. w \notin Sweepers
    BY <1>2, <2>1 DEF ExecOK, Sweeping
  <2>4. NetOK' /\ RunsOK' /\ TxOK' /\ UNCHANGED vault
    BY <1>2, <2>1, <2>2, <2>3, SubmitMove DEF Awaits
  <2>5. QED
    BY <1>1, <2>1, <2>4, Kept
<1>7. CASE LockLands(w)
  <2>1. /\ e.at = "locking" /\ Lands(w) /\ UNCHANGED <<holder, orphaned>>
        /\ UNCHANGED <<taskVars, stepStatus, recorded, job, faults>>
    BY <1>2, <1>7 DEF LockLands, At
  <2>2. PICK tx \in Waiting(w) : Accepts(tx) /\ vault' = Applied(tx)
    BY <2>1 DEF Lands
  <2>3. tx \in Tx /\ tx.op = "lock"
    BY <1>0, <1>2, <2>1, <2>2, NetTypes, NoneDiffers DEF Waiting, TxOK, Own, LockTx
  <2>4. VaultGrows /\ Len(vault') = Len(vault) + 1
    BY <1>0, <2>2, <2>3, NetTypes, AppliedGrows
  <2>5. PICK n \in 1..Len(vault') : n = Len(vault) + 1 /\ n \in TaskIds
    BY <1>0, <2>4 DEF VaultGrows, TaskIds
  <2>6. PICK r \in Execution : r = [e EXCEPT !.task = n, !.at = "save"]
    BY <2>5 DEF Execution, Places
  <2>7. r.at = "save" /\ r.seen = e.seen /\ r.step = e.step /\ r.task = n
    BY <2>6 DEF Execution
  <2>8. Becomes(w, r)
    BY <1>0, <1>2, <1>7, <2>5, <2>6 DEF LockLands, Becomes, RunsOK
  <2>9. ExecOK(w, r)'
    BY <1>0, <1>2, <2>1, <2>4, <2>5, <2>7 DEF ExecOK, Sweeping
  <2>10. NetOK' /\ RunsOK' /\ TxOK'
    BY <1>0, <2>1, <2>8, <2>9, LandsMove, NetTypes
  <2>11. DbOK'
    BY <1>0, <2>1, <2>4, DbGrows
  <2>12. QED
    BY <1>1, <2>1, <2>10, <2>11, Kept
<1>8. CASE SaveLock(w)
  <2>1. /\ e.at = "save" /\ vaultTaskId' = e.task /\ Goto(w, "release")
        /\ UNCHANGED <<signerVars, taskStatus, finalized, passed, stepStatus, recorded, job, faults>>
    BY <1>2, <1>8 DEF SaveLock, At
  <2>2. w \notin Sweepers /\ e.task \in 1..Len(vault)
    BY <1>2, <2>1 DEF ExecOK, Sweeping, OnTask
  <2>3. RunsOK' /\ TxOK'
    BY <1>2, <2>1, <2>2, QuietGoto DEF Awaits, Places, signerVars
  <2>4. e.task \in TaskIds
    BY <1>0, <2>2, NetTypes DEF TaskIds
  <2>5. DbOK'
    BY <1>0, <2>1, <2>2, <2>4 DEF DbOK, signerVars
  <2>6. QED
    BY <1>1, <2>1, <2>3, <2>5, Kept
<1>9. CASE SubmitRelease(w)
  <2>1. /\ e.at = "release" /\ Submit(ReleaseTx(w, e.task, e.step)) /\ Goto(w, "releasing")
        /\ UNCHANGED <<holder, orphaned, taskVars, stepStatus, recorded, job, faults>>
    BY <1>2, <1>9 DEF SubmitRelease, At
  <2>2. w \notin Sweepers /\ e.task \in 1..Len(vault) /\ e.step \in Steps
    BY <1>2, <2>1 DEF ExecOK, Sweeping, OnTask
  <2>3. e.task \in TaskIds
    BY <1>0, <2>2, NetTypes DEF TaskIds
  <2>4. PICK tx \in Tx : /\ tx = ReleaseTx(w, e.task, e.step) /\ tx.op = "release"
                         /\ tx.by = w /\ tx.task = e.task /\ tx.step = e.step
    BY <2>2, <2>3, OwnTx
  <2>5. NetOK' /\ RunsOK' /\ TxOK' /\ UNCHANGED vault
    BY <1>2, <2>1, <2>2, <2>4, SubmitMove DEF Awaits
  <2>6. QED
    BY <1>1, <2>1, <2>5, Kept
<1>10. CASE ReleaseLands(w)
  <2>1. /\ e.at = "releasing" /\ Lands(w) /\ Leave(w) /\ Goto(w, "record")
        /\ UNCHANGED <<taskVars, stepStatus, recorded, job, faults>>
    BY <1>2, <1>10 DEF ReleaseLands, At
  <2>2. w \notin Sweepers
    BY <1>2, <2>1 DEF ExecOK, Sweeping
  <2>3. holder' \in Signers \cup {None} /\ orphaned' \in BOOLEAN
    BY <1>0, <2>1, LeaveType
  <2>4. VaultGrows
    BY <1>0, <2>1, <2>3, LandsNet
  <2>5. PICK r \in Execution : /\ Becomes(w, r) /\ r.at = "record"
                               /\ r.step = e.step /\ r.seen = e.seen
    BY <1>0, <1>2, <2>1, GotoRun DEF Places
  <2>6. ExecOK(w, r)'
    BY <1>0, <1>2, <2>1, <2>2, <2>4, <2>5 DEF ExecOK, OnTask, VaultGrows
  <2>7. NetOK' /\ RunsOK' /\ TxOK'
    BY <2>1, <2>3, <2>5, <2>6, LandsMove
  <2>8. DbOK'
    BY <1>0, <2>1, <2>4, DbGrows DEF VaultGrows
  <2>9. QED
    BY <1>1, <2>1, <2>7, <2>8, Kept
<1>11. CASE Record(w)
  <2>1. /\ e.at = "record" /\ recorded' = recorded \cup {e.step} /\ Goto(w, "finRead")
        /\ UNCHANGED <<signerVars, taskVars, stepStatus, job, faults>>
    BY <1>2, <1>11 DEF Record, At
  <2>2. w \notin Sweepers /\ e.step \in Steps
    BY <1>2, <2>1 DEF ExecOK, Sweeping
  <2>3. RunsOK' /\ TxOK'
    BY <1>2, <2>1, <2>2, QuietGoto DEF Awaits, Places, signerVars, OnTask
  <2>4. DbOK'
    BY <1>0, <2>1, <2>2 DEF DbOK, signerVars, taskVars
  <2>5. QED
    BY <1>1, <2>1, <2>3, <2>4, Kept
<1>12. CASE RejectedByVault(w)
  <2>1. /\ Retreats(w) /\ Leave(w) /\ e.at \in {"lock", "locking", "release", "releasing"}
        /\ inFlight' \in {{}, Abandoned(w)} \/ e.at \notin Awaits
        /\ Fault \/ UNCHANGED faults
        /\ UNCHANGED <<taskVars, stepStatus, recorded, job>>
    <3>1. /\ Leave(w) /\ UNCHANGED <<taskVars, stepStatus, recorded, job>>
      BY <1>12 DEF RejectedByVault
    <3>2. CASE e.at = "lock" \/ e.at = "release"
      BY <1>2, <1>12, <3>1, <3>2 DEF RejectedByVault, At, Refused, Retreats, Awaits
    <3>3. CASE (e.at = "locking" \/ e.at = "releasing") /\ FailsOnChain(w) /\ UNCHANGED faults
      <4>1. inFlight' = {} /\ inFlight # {} /\ UNCHANGED vault
        BY <3>3 DEF FailsOnChain, Waiting
      <4>2. QED
        BY <3>1, <3>3, <4>1 DEF Retreats
    <3>4. QED
      BY <1>2, <1>12, <3>2, <3>3 DEF RejectedByVault, At
  <2>2. w \notin Sweepers
    BY <1>2, <2>1 DEF ExecOK, Sweeping
  <2>3. PICK place \in Places \ OnTask : Goto(w, place)
    BY <1>12 DEF RejectedByVault, Places, OnTask
  <2>4. PICK r \in Execution : /\ Becomes(w, r) /\ r.at = place
                               /\ r.step = e.step /\ r.seen = e.seen
    BY <1>0, <1>2, <2>3, GotoRun
  <2>5. ExecOK(w, r)
    BY <1>0, <1>2, <2>1, <2>2, <2>3, <2>4, PlainPlace
  <2>6. NetOK' /\ RunsOK' /\ TxOK'
    BY <1>0, <1>2, <2>1, <2>4, <2>5, RetreatMove, LeaveType
  <2>7. QED
    BY <1>1, <2>1, <2>6, Kept DEF Retreats
<1>13. CASE FailCheck(w)
  <2>1. PICK place \in {"fail", "finRead"} : Goto(w, place)
    BY <1>13 DEF FailCheck
  <2>2. e.at = "failCheck" /\ UNCHANGED <<signerVars, taskVars, stepStatus, recorded, job, faults>>
    BY <1>2, <1>13 DEF FailCheck, At
  <2>3. w \notin Sweepers
    BY <1>2, <2>2 DEF ExecOK, Sweeping
  <2>4. RunsOK' /\ TxOK'
    BY <1>2, <2>1, <2>2, <2>3, QuietGoto DEF Awaits, Places, signerVars, OnTask
  <2>5. QED
    BY <1>1, <2>2, <2>4, Kept DEF signerVars
<1>14. CASE FailTask(w)
  <2>1. /\ e.at = "fail" /\ Goto(w, "finRead")
        /\ Fault \/ UNCHANGED faults
        /\ taskStatus' = "FAILED" \/ UNCHANGED taskStatus
        /\ UNCHANGED <<signerVars, vaultTaskId, finalized, passed, stepStatus, recorded, job>>
    BY <1>2, <1>14 DEF FailTask, At
  <2>2. w \notin Sweepers
    BY <1>2, <2>1 DEF ExecOK, Sweeping
  <2>3. RunsOK' /\ TxOK'
    BY <1>2, <2>1, <2>2, QuietGoto DEF Awaits, Places, signerVars, OnTask
  <2>4. DbOK'
    BY <1>0, <2>1 DEF DbOK, signerVars
  <2>5. QED
    BY <1>1, <2>1, <2>3, <2>4, Kept DEF signerVars
<1>15. QED
  BY <1>3, <1>4, <1>5, <1>6, <1>7, <1>8, <1>9, <1>10, <1>11, <1>12, <1>13, <1>14 DEF Settle
\* finalizeTaskIfComplete.
LEMMA FinalizeType ==
    ASSUME TypeInv, NEW w \in Signers, Finalize(w)
    PROVE  TypeInv'
<1> USE SignerAssumption, SettlementAssumption
<1>0. /\ NetOK /\ DbOK /\ QueueOK /\ RunsOK /\ TxOK /\ faults \in 0..MaxFaults
      /\ Len(vault) \in Nat
  BY NetTypes DEF TypeInv
<1>1. ASSUME NetOK', DbOK', QueueOK', RunsOK', TxOK', Fault \/ UNCHANGED faults
      PROVE  TypeInv'
  BY <1>0, <1>1, FaultType DEF TypeInv
<1>2. PICK e \in Execution : e = run[w] /\ ExecOK(w, e)
  BY <1>0 DEF RunsOK
<1>3. CASE FinRead(w)
  <2>0. /\ e.at = "finRead" /\ passed' \in {passed, passed \cup Asking}
        /\ UNCHANGED <<signerVars, taskStatus, vaultTaskId, finalized, stepStatus, recorded,
                       job, faults>>
    BY <1>2, <1>3 DEF FinRead, At
  <2>1. /\ e.at = "finRead" /\ DbOK'
        /\ UNCHANGED <<signerVars, vaultTaskId, stepStatus, recorded, job, faults>>
    BY <1>0, <2>0 DEF DbOK, Asking, signerVars
  <2>2. w \notin Sweepers /\ e.step \in Steps
    BY <1>2, <2>1 DEF ExecOK, Sweeping
  <2>3. \/ run' = [run EXCEPT ![w] = [e EXCEPT !.at = "end"]]
        \/ /\ vaultTaskId # None
           /\ run' = [run EXCEPT ![w] = [e EXCEPT !.at = "finCount", !.task = vaultTaskId,
                                                  !.owed = Released, !.status = taskStatus]]
    BY <1>0, <1>2, <1>3 DEF FinRead, RunsOK, Due
  <2>4. CASE run' = [run EXCEPT ![w] = [e EXCEPT !.at = "end"]]
    <3>1. Goto(w, "end")
      BY <1>0, <1>2, <2>4 DEF Goto, RunsOK
    <3>2. RunsOK' /\ TxOK'
      BY <1>2, <2>1, <2>2, <3>1, QuietGoto DEF Awaits, Places, signerVars, OnTask
    <3>3. QED
      BY <1>1, <2>1, <3>2, Kept DEF signerVars
  <2>5. CASE /\ vaultTaskId # None
             /\ run' = [run EXCEPT ![w] = [e EXCEPT !.at = "finCount", !.task = vaultTaskId,
                                                    !.owed = Released, !.status = taskStatus]]
    <3>1. PICK r \in Execution : r = [e EXCEPT !.at = "finCount", !.task = vaultTaskId,
                                               !.owed = Released, !.status = taskStatus]
      BY <1>0 DEF Execution, Places, DbOK, Released
    <3>2. r.at = "finCount" /\ r.task = vaultTaskId /\ r.step = e.step /\ r.seen = e.seen
      BY <3>1 DEF Execution
    <3>3. Becomes(w, r)
      BY <2>5, <3>1 DEF Becomes
    <3>4. ExecOK(w, r)'
      BY <1>0, <1>2, <2>1, <2>2, <2>5, <3>2 DEF ExecOK, DbOK, signerVars
    <3>5. RunsOK' /\ TxOK'
      BY <1>2, <2>1, <3>3, <3>4, QuietMove DEF signerVars, Awaits
    <3>6. QED
      BY <1>1, <2>1, <3>5, Kept DEF signerVars
  <2>6. QED
    BY <2>3, <2>4, <2>5
<1>4. CASE FinCount(w)
  <2>1. PICK place \in {"end", "finAcquire"} : Goto(w, place)
    BY <1>4 DEF FinCount
  <2>2. /\ e.at = "finCount"
        /\ UNCHANGED <<signerVars, taskVars, stepStatus, recorded, job, faults>>
    BY <1>2, <1>4 DEF FinCount, At
  <2>3. w \notin Sweepers /\ e.task \in 1..Len(vault)
    BY <1>2, <2>2 DEF ExecOK, Sweeping, OnTask
  <2>4. RunsOK' /\ TxOK'
    BY <1>2, <2>1, <2>2, <2>3, QuietGoto DEF Awaits, Places, signerVars
  <2>5. QED
    BY <1>1, <2>2, <2>4, Kept DEF signerVars
<1>5. CASE EnterFinal(w)
  <2>1. /\ e.at = "finAcquire" /\ holder' = w /\ orphaned' = orphaned /\ Goto(w, "complete")
        /\ UNCHANGED <<vault, inFlight, taskVars, stepStatus, recorded, job, faults>>
    BY <1>2, <1>5 DEF EnterFinal, At, Acquire
  <2>2. e.task \in 1..Len(vault)
    BY <1>2, <2>1 DEF ExecOK, OnTask
  <2>3. RunsOK' /\ TxOK'
    BY <1>2, <2>1, <2>2, QuietGoto DEF Awaits, Places, Sweeping
  <2>4. NetOK'
    BY <1>0, <2>1, HolderNet, NetTypes
  <2>5. QED
    BY <1>1, <2>1, <2>3, <2>4, Kept
<1>6. CASE SubmitComplete(w)
  <2>1. /\ e.at = "complete" /\ Submit(CompleteTx(w, e.task)) /\ Goto(w, "completing")
        /\ UNCHANGED <<holder, orphaned, taskVars, stepStatus, recorded, job, faults>>
    BY <1>2, <1>6 DEF SubmitComplete, At
  <2>2. e.task \in 1..Len(vault)
    BY <1>2, <2>1 DEF ExecOK, OnTask
  <2>3. e.task \in TaskIds
    BY <1>0, <2>2, NetTypes DEF TaskIds
  <2>4. PICK tx \in Tx : /\ tx = CompleteTx(w, e.task) /\ tx.op = "complete"
                         /\ tx.by = w /\ tx.task = e.task
    BY <2>3, OwnTx
  <2>5. NetOK' /\ RunsOK' /\ TxOK' /\ UNCHANGED vault
    BY <1>2, <2>1, <2>2, <2>4, SubmitMove DEF Awaits
  <2>6. QED
    BY <1>1, <2>1, <2>5, Kept
<1>7. CASE CompleteLands(w)
  <2>1. /\ e.at = "completing" /\ Lands(w) /\ Leave(w) /\ Goto(w, AfterComplete(w))
        /\ UNCHANGED <<taskVars, stepStatus, recorded, job, faults>>
    BY <1>2, <1>7 DEF CompleteLands, At
  <2>2. holder' \in Signers \cup {None} /\ orphaned' \in BOOLEAN
    BY <1>0, <2>1, LeaveType
  <2>3. VaultGrows
    BY <1>0, <2>1, <2>2, LandsNet
  <2>4. PICK r \in Execution : /\ Becomes(w, r) /\ r.at = AfterComplete(w)
                               /\ r.step = e.step /\ r.seen = e.seen
    BY <1>0, <1>2, <2>1, GotoRun DEF Places, AfterComplete
  <2>5. ExecOK(w, r)'
    BY <1>0, <1>2, <2>1, <2>3, <2>4 DEF ExecOK, OnTask, Sweeping, AfterComplete, VaultGrows
  <2>6. NetOK' /\ RunsOK' /\ TxOK'
    BY <2>1, <2>2, <2>4, <2>5, LandsMove
  <2>7. DbOK'
    BY <1>0, <2>1, <2>3, DbGrows DEF VaultGrows
  <2>8. QED
    BY <1>1, <2>1, <2>6, <2>7, Kept
<1>8. CASE AlreadyComplete(w)
  <2>1. /\ e.at = "complete" /\ Leave(w) /\ Goto(w, AfterComplete(w))
        /\ UNCHANGED <<vault, inFlight, taskVars, stepStatus, recorded, job, faults>>
    BY <1>2, <1>8 DEF AlreadyComplete, At, Refused
  <2>2. RunsOK' /\ TxOK'
    BY <1>2, <2>1, QuietGoto DEF Awaits, Places, Sweeping, OnTask, AfterComplete
  <2>3. NetOK'
    BY <1>0, <2>1, HolderNet, LeaveType
  <2>4. QED
    BY <1>1, <2>1, <2>2, <2>3, Kept
<1>9. CASE FinUpdate(w)
  <2>1. /\ e.at = "finUpdate" /\ finalized' = TRUE /\ Goto(w, "end")
        /\ taskStatus' \in {"COMPLETED", taskStatus}
        /\ UNCHANGED <<signerVars, vaultTaskId, passed, stepStatus, recorded, job, faults>>
    BY <1>2, <1>9 DEF FinUpdate, At
  <2>2. RunsOK' /\ TxOK'
    BY <1>2, <2>1, QuietGoto DEF Awaits, Places, Sweeping, OnTask, signerVars
  <2>3. DbOK'
    BY <1>0, <2>1 DEF DbOK, signerVars
  <2>4. QED
    BY <1>1, <2>1, <2>2, <2>3, Kept
<1>10. CASE End(w)
  <2>1. /\ e.at = "end" /\ Stop(w)
        /\ UNCHANGED <<signerVars, taskVars, stepStatus, recorded, faults>>
    BY <1>2, <1>10 DEF End, At
  <2>2. Becomes(w, Idle)
    BY <2>1, IdleOK DEF Becomes, Stop
  <2>3. RunsOK' /\ TxOK'
    <3>1. ExecOK(w, Idle)'
      BY <2>1, IdleOK DEF ExecOK, signerVars
    <3>2. QED
      BY <1>2, <2>1, <2>2, <3>1, QuietMove DEF signerVars, Awaits
  <2>4. QueueOK'
    BY <1>0, <1>2, <1>10, <2>1, JobDoneQueue, Kept DEF End, ExecOK
  <2>5. QED
    BY <1>1, <2>1, <2>3, <2>4, Kept DEF signerVars
<1>11. QED
  BY <1>3, <1>4, <1>5, <1>6, <1>7, <1>8, <1>9, <1>10 DEF Finalize

\* What goes wrong: an execution that throws, a finalization that fails, a
\* process that dies.
LEMMA ThrowsType ==
    ASSUME TypeInv, NEW w \in Signers, Throws(w)
    PROVE  TypeInv'
<1>0. /\ NetOK /\ DbOK /\ QueueOK /\ RunsOK /\ TxOK /\ faults \in 0..MaxFaults
  BY DEF TypeInv
<1>1. /\ run[w].at \in Breakable /\ GivesUp(w) /\ Leave(w) /\ JobThrows(w) /\ Stop(w)
      /\ Fault \/ UNCHANGED faults
      /\ UNCHANGED <<taskVars, stepStatus, recorded>>
  BY DEF Throws, Abort
<1>2. Becomes(w, Idle) /\ ExecOK(w, Idle)
  BY <1>1, IdleOK DEF Becomes, Stop
<1>3. Retreats(w) /\ inFlight' = Abandoned(w) /\ UNCHANGED vault
  BY <1>1 DEF GivesUp, Retreats
<1>4. holder' \in Signers \cup {None} /\ orphaned' \in BOOLEAN
  BY <1>0, <1>1, LeaveType
<1>5. NetOK' /\ RunsOK' /\ TxOK'
  BY <1>2, <1>3, <1>4, RetreatMove
<1>6. run[w].step \in Steps
  BY <1>0, <1>1 DEF RunsOK, ExecOK, Breakable, Sweeping
<1>7. QueueOK'
  BY <1>0, <1>1, <1>6, JobThrowsQueue
<1>8. QED
  BY <1>0, <1>1, <1>3, <1>5, <1>7, Kept, FaultType DEF TypeInv

LEMMA CompleteFailsType ==
    ASSUME TypeInv, NEW w \in Signers, CompleteFails(w)
    PROVE  TypeInv'
<1>0. /\ NetOK /\ DbOK /\ QueueOK /\ RunsOK /\ TxOK /\ faults \in 0..MaxFaults
      /\ Len(vault) \in Nat
  BY NetTypes DEF TypeInv
<1>1. PICK e \in Execution : e = run[w] /\ ExecOK(w, e)
  BY <1>0 DEF RunsOK
<1>2. /\ Leave(w) /\ Goto(w, "end")
      /\ UNCHANGED <<taskVars, stepStatus, recorded, job>>
  BY DEF CompleteFails
<1>3. /\ e.at \in {"finAcquire", "complete", "completing"}
      /\ Fault \/ UNCHANGED faults
      /\ Retreats(w)
      /\ inFlight' \in {{}, Abandoned(w)} \/ e.at \notin Awaits
  <2>1. CASE e.at \in {"finAcquire", "complete"} /\ UNCHANGED <<vault, inFlight>>
             /\ (Fault \/ UNCHANGED faults)
    BY <2>1 DEF Retreats, Awaits
  <2>2. CASE e.at = "completing" /\ FailsOnChain(w) /\ UNCHANGED faults
    BY <2>2 DEF FailsOnChain, Retreats
  <2>3. CASE e.at = "completing" /\ Fault /\ GivesUp(w)
    BY <2>3 DEF GivesUp, Retreats
  <2>4. CASE e.at = "completing" /\ Waiting(w) = {} /\ UNCHANGED <<vault, inFlight, faults>>
    <3>1. Abandoned(w) = inFlight
      BY <2>4 DEF Abandoned, Waiting
    <3>2. QED
      BY <2>4, <3>1 DEF Retreats
  <2>5. QED
    BY <1>1, <2>1, <2>2, <2>3, <2>4 DEF CompleteFails, At, Refused
<1>4. PICK r \in Execution : /\ Becomes(w, r) /\ r.at = "end"
                             /\ r.step = e.step /\ r.seen = e.seen
  BY <1>0, <1>1, <1>2, GotoRun DEF Places
<1>5. ExecOK(w, r)
  BY <1>1, <1>3, <1>4 DEF ExecOK, Sweeping, OnTask
<1>6. NetOK' /\ RunsOK' /\ TxOK'
  BY <1>0, <1>1, <1>2, <1>3, <1>4, <1>5, RetreatMove, LeaveType
<1>7. UNCHANGED vault
  BY <1>3 DEF Retreats
<1>8. QED
  BY <1>0, <1>2, <1>3, <1>6, <1>7, Kept, FaultType DEF TypeInv

LEMMA CrashType ==
    ASSUME TypeInv, NEW w \in Signers, Crash(w)
    PROVE  TypeInv'
<1>0. /\ NetOK /\ DbOK /\ QueueOK /\ RunsOK /\ TxOK /\ faults \in 0..MaxFaults
  BY DEF TypeInv
<1>1. /\ ~At(w, "idle") /\ Dies(w) /\ GivesUp(w) /\ Stop(w) /\ Fault
      /\ UNCHANGED <<taskVars, stepStatus, recorded>>
      /\ w \in Sweepers => UNCHANGED job
      /\ w \notin Sweepers => SetJob(w, Restarted(JobOf(w)))
  BY DEF Crash
<1>2. Becomes(w, Idle) /\ ExecOK(w, Idle)
  BY <1>1, IdleOK DEF Becomes, Stop
<1>3. Retreats(w) /\ inFlight' = Abandoned(w) /\ UNCHANGED vault
  BY <1>1 DEF GivesUp, Retreats
<1>4. holder' \in Signers \cup {None} /\ orphaned' \in BOOLEAN
  BY <1>0, <1>1 DEF NetOK, SignerTypeOK, Dies
<1>5. NetOK' /\ RunsOK' /\ TxOK'
  BY <1>2, <1>3, <1>4, RetreatMove
<1>6. QueueOK'
  <2>1. CASE w \in Sweepers
    BY <1>1, <2>1, Kept
  <2>2. CASE w \notin Sweepers
    <3>1. run[w].step \in Steps
      BY <1>0, <1>1, <2>2 DEF RunsOK, ExecOK, At
    <3>2. JobOf(w) \in Job
      BY <1>0, <3>1 DEF QueueOK, JobOf
    <3>3. JobOf(w).by = w => JobOf(w).attempts < MaxAttempts
      BY <1>0, <3>1, NoneDiffers DEF QueueOK, JobOf
    <3>4. JobOf(w).by = w =>
            /\ Restarted(JobOf(w)) \in Job /\ Restarted(JobOf(w)).by = None
            /\ Restarted(JobOf(w)).attempts < MaxAttempts
      BY <3>2, <3>3, RestartedType
    <3>5. QED
      BY <1>0, <1>1, <2>2, <3>1, <3>4, SetJobQueue
  <2>3. QED
    BY <2>1, <2>2
<1>7. QED
  BY <1>0, <1>1, <1>3, <1>5, <1>6, Kept, FaultType DEF TypeInv

\* Work is handed out: a job to a worker, a vault task to a sweep.
LEMMA TakeType ==
    ASSUME TypeInv, NEW w \in Workers, NEW s \in Steps, Take(w, s)
    PROVE  TypeInv'
<1>0. /\ NetOK /\ DbOK /\ QueueOK /\ RunsOK /\ TxOK /\ faults \in 0..MaxFaults
      /\ w \in Signers /\ w \notin Sweepers
  BY DEF TypeInv, Workers
<1>1. /\ run[w].at = "idle" /\ job[s].state = "waiting"
      /\ job' = [job EXCEPT ![s].state = "active", ![s].by = w]
      /\ run' = [run EXCEPT ![w] = [Idle EXCEPT !.at = "read", !.step = s]]
      /\ UNCHANGED <<signerVars, taskVars, stepStatus, recorded, faults>>
  BY DEF Take, At
<1>2. PICK r \in Execution : r = [Idle EXCEPT !.at = "read", !.step = s]
  BY DEF Idle, Execution, Places
<1>3. r.at = "read" /\ r.step = s /\ r.seen = None
  BY <1>2 DEF Idle
<1>4. Becomes(w, r)
  BY <1>1, <1>2 DEF Becomes
<1>5. ExecOK(w, r)'
  BY <1>0, <1>3 DEF ExecOK, OnTask
<1>6. RunsOK' /\ TxOK'
  BY <1>0, <1>1, <1>4, <1>5, QuietMove DEF signerVars, Awaits
<1>7. QueueOK'
  <2>1. PICK k \in Job : k = [job[s] EXCEPT !.state = "active", !.by = w]
    BY <1>0 DEF QueueOK, Job
  <2>2. k.state = "active" /\ k.attempts = job[s].attempts
    BY <1>0, <2>1 DEF QueueOK, Job
  <2>3. job' = [job EXCEPT ![s] = k]
    BY <1>0, <1>1, <2>1 DEF QueueOK
  <2>4. QED
    BY <1>0, <1>1, <2>2, <2>3 DEF QueueOK
<1>8. QED
  BY <1>0, <1>1, <1>6, <1>7, Kept DEF TypeInv, signerVars

LEMMA SweepPickType ==
    ASSUME TypeInv, NEW w \in Sweepers, NEW v \in 1..Len(vault), SweepPick(w, v)
    PROVE  TypeInv'
<1>0. /\ NetOK /\ DbOK /\ QueueOK /\ RunsOK /\ TxOK /\ faults \in 0..MaxFaults
      /\ w \in Signers
  BY SettlementAssumption DEF TypeInv
<1>1. /\ run[w].at = "idle"
      /\ run' = [run EXCEPT ![w] = [Idle EXCEPT !.at = "finAcquire", !.task = v]]
      /\ UNCHANGED <<signerVars, taskVars, stepStatus, recorded, job, faults>>
  BY DEF SweepPick, At
<1>2. v \in TaskIds
  BY <1>0, NetTypes, SignerAssumption DEF TaskIds
<1>3. PICK r \in Execution : r = [Idle EXCEPT !.at = "finAcquire", !.task = v]
  BY <1>2 DEF Idle, Execution, Places
<1>4. r.at = "finAcquire" /\ r.task = v /\ r.seen = None
  BY <1>3 DEF Idle
<1>5. Becomes(w, r)
  BY <1>1, <1>3 DEF Becomes
<1>6. ExecOK(w, r)'
  BY <1>1, <1>4 DEF ExecOK, Sweeping, signerVars
<1>7. RunsOK' /\ TxOK'
  BY <1>0, <1>1, <1>5, <1>6, QuietMove DEF signerVars, Awaits
<1>8. QED
  BY <1>0, <1>1, <1>7, Kept DEF TypeInv, signerVars

\* The queue and its failed handler, and a worker that loses its hold.
LEMMA OneJob ==
    ASSUME TypeInv, NEW s \in Steps, NEW k \in Job, job' = [job EXCEPT ![s] = k],
           k.state \in {"waiting", "active"} => k.attempts < MaxAttempts,
           k.by # None => k.state = "active"
    PROVE  QueueOK'
  BY DEF TypeInv, QueueOK

LEMMA QueueType ==
    ASSUME TypeInv, NEW s \in Steps, Queue(s) \/ Stall(s)
    PROVE  TypeInv'
<1>0. /\ NetOK /\ DbOK /\ QueueOK /\ RunsOK /\ TxOK /\ faults \in 0..MaxFaults
  BY DEF TypeInv
<1>1. PICK j \in Job : j = job[s]
  BY <1>0 DEF QueueOK
<1>2. CASE ExhaustedRead(s)
  <2>1. PICK state \in {"marking", "failed"} : job' = [job EXCEPT ![s].state = state]
    BY <1>2 DEF ExhaustedRead
  <2>2. PICK k \in Job : k = [j EXCEPT !.state = state]
    BY DEF Job
  <2>3. k.state = state /\ k.by = j.by
    BY <2>2 DEF Job
  <2>4. job' = [job EXCEPT ![s] = k] /\ j.by = None
    BY <1>0, <1>1, <1>2, <2>1, <2>2 DEF QueueOK, ExhaustedRead
  <2>5. QueueOK'
    BY <2>1, <2>3, <2>4, OneJob
  <2>6. QED
    BY <1>0, <1>2, <2>5, Kept DEF ExhaustedRead, TypeInv, signerVars
<1>3. CASE ExhaustedMark(s)
  <2>1. PICK k \in Job : k = [j EXCEPT !.state = "failed"]
    BY DEF Job
  <2>2. k.state = "failed" /\ k.by = j.by
    BY <2>1 DEF Job
  <2>3. job' = [job EXCEPT ![s] = k] /\ j.by = None
    BY <1>0, <1>1, <1>3, <2>1 DEF QueueOK, ExhaustedMark
  <2>4. QueueOK'
    BY <2>2, <2>3, OneJob
  <2>5. /\ UNCHANGED <<signerVars, vaultTaskId, finalized, passed, stepStatus, recorded, run>>
        /\ taskStatus' \in {"FAILED", taskStatus}
        /\ Fault \/ UNCHANGED faults
    BY <1>3 DEF ExhaustedMark
  <2>6. DbOK'
    BY <1>0, <2>5 DEF DbOK, signerVars
  <2>7. QED
    BY <1>0, <2>4, <2>5, <2>6, Kept, FaultType DEF TypeInv, signerVars
<1>4. CASE Stall(s)
  <2>1. /\ j.state = "active" /\ job' = [job EXCEPT ![s] = Restarted(j)] /\ Fault
        /\ UNCHANGED <<signerVars, taskVars, stepStatus, recorded, run>>
    BY <1>0, <1>1, <1>4 DEF Stall, QueueOK
  <2>2. j.attempts < MaxAttempts
    BY <1>0, <1>1, <2>1 DEF QueueOK
  <2>3. /\ Restarted(j) \in Job /\ Restarted(j).by = None
        /\ Restarted(j).attempts < MaxAttempts
    BY <2>2, RestartedType
  <2>4. QueueOK'
    BY <2>1, <2>3, OneJob
  <2>5. QED
    BY <1>0, <2>1, <2>4, Kept, FaultType DEF TypeInv, signerVars
<1>5. QED
  BY <1>2, <1>3, <1>4 DEF Queue

\* Steps are accepted and rejected, and the owner intervenes on chain.
LEMMA AcceptType ==
    ASSUME TypeInv, NEW s \in Steps, Accept(s) \/ Park(s) \/ Reject(s)
    PROVE  TypeInv'
<1>0. /\ NetOK /\ DbOK /\ QueueOK /\ RunsOK /\ TxOK /\ faults \in 0..MaxFaults
  BY DEF TypeInv
<1>1. /\ UNCHANGED <<signerVars, taskVars, recorded, run>>
      /\ Fault \/ UNCHANGED faults
      /\ UNCHANGED job \/ job' = [job EXCEPT ![s] = Queued]
  BY DEF Accept, Park, Reject
<1>2. PICK status \in {"RELEASED", "FAILED", "RUNNING", "INPUT_REQUIRED"} :
        stepStatus' = [stepStatus EXCEPT ![s] = status]
  BY DEF Accept, Park, Reject
<1>3. DbOK'
  BY <1>0, <1>1, <1>2 DEF NonTerminalStep, DbOK, taskVars, signerVars
<1>4. QueueOK'
  <2>1. CASE UNCHANGED job
    BY <2>1, Kept
  <2>2. CASE job' = [job EXCEPT ![s] = Queued]
    <3>1. /\ Queued \in Job /\ Queued.state = "waiting" /\ Queued.attempts < MaxAttempts
          /\ Queued.by = None
      BY SettlementAssumption DEF Queued, NoJob, Job
    <3>2. QED
      BY <2>2, <3>1, OneJob
  <2>3. QED
    BY <1>1, <2>1, <2>2
<1>5. QED
  BY <1>0, <1>1, <1>3, <1>4, Kept, FaultType DEF TypeInv, signerVars

LEMMA IntervenesVault ==
    ASSUME NetOK, NEW v \in 1..Len(vault), NEW state \in {"closed", "disputed"},
           vault' = [vault EXCEPT ![v].state = state]
    PROVE  /\ vault' \in Seq(VaultTask) /\ Len(vault') = Len(vault)
           /\ \A x \in 1..Len(vault) : vault'[x].paid = vault[x].paid
<1>1. vault[v] \in VaultTask /\ vault \in Seq(VaultTask)
  BY NetTypes
<1>2. PICK new \in VaultTask : new = [vault[v] EXCEPT !.state = state]
  BY <1>1 DEF VaultTask
<1>3. new.paid = vault[v].paid
  BY <1>1, <1>2 DEF VaultTask
<1>4. /\ vault' = [vault EXCEPT ![v] = new]
  BY <1>2
<1>5. /\ vault' \in Seq(VaultTask) /\ Len(vault') = Len(vault)
      /\ \A x \in 1..Len(vault) : vault'[x] = IF x = v THEN new ELSE vault[x]
  BY <1>1, <1>4, ExceptSeq
<1>6. QED
  BY <1>3, <1>5

\* The vault grew, and nothing else moved but what the network holds.
LEMMA NetMoves ==
    ASSUME TypeInv, VaultGrows, inFlight' \subseteq inFlight, holder' \in Signers \cup {None},
           orphaned' \in BOOLEAN, UNCHANGED <<taskVars, stepStatus, recorded, job, run>>,
           Fault \/ UNCHANGED faults
    PROVE  TypeInv'
<1>0. /\ NetOK /\ DbOK /\ QueueOK /\ RunsOK /\ TxOK /\ faults \in 0..MaxFaults
      /\ Len(vault) \in Nat /\ Len(vault') \in Nat /\ Len(vault) <= Len(vault')
  BY NetTypes DEF TypeInv, VaultGrows
<1>1. NetOK'
  BY <1>0 DEF NetOK, SignerTypeOK, VaultGrows
<1>2. RunsOK'
  BY <1>0, RunsGrow
<1>3. TxOK'
  BY <1>0 DEF TxOK, Own
<1>4. DbOK'
  BY <1>0, DbGrows
<1>5. QED
  BY <1>0, <1>1, <1>2, <1>3, <1>4, Kept, FaultType DEF TypeInv

LEMMA IntervenesType ==
    ASSUME TypeInv, NEW v \in 1..Len(vault), NEW state \in {"closed", "disputed"},
           Intervene(v, state)
    PROVE  TypeInv'
<1>1. /\ Fault /\ vault' = [vault EXCEPT ![v].state = state]
      /\ UNCHANGED <<inFlight, holder, orphaned, taskVars, stepStatus, recorded, job, run>>
  BY DEF Intervene
<1>2. NetOK /\ Len(vault) \in Nat /\ Len(vault) <= MaxLocks
      /\ holder \in Signers \cup {None} /\ orphaned \in BOOLEAN
  BY NetTypes DEF TypeInv
<1>3. VaultGrows
  <2>1. /\ vault' \in Seq(VaultTask) /\ Len(vault') = Len(vault)
        /\ \A x \in 1..Len(vault) : vault'[x].paid = vault[x].paid
    BY <1>1, <1>2, IntervenesVault
  <2>2. QED
    BY <1>2, <2>1 DEF VaultGrows
<1>4. QED
  BY <1>1, <1>2, <1>3, NetMoves

LEMMA SignerType ==
    ASSUME TypeInv, Signer, UNCHANGED restVars
    PROVE  TypeInv'
<1>0. /\ NetOK /\ vault \in Seq(VaultTask) /\ Len(vault) \in Nat /\ Len(vault) <= MaxLocks
      /\ holder \in Signers \cup {None} /\ orphaned \in BOOLEAN /\ inFlight \in SUBSET Tx
  BY NetTypes DEF TypeInv
<1>1. UNCHANGED <<taskVars, stepStatus, recorded, job, run, faults>>
  BY DEF restVars
<1>2. UNCHANGED vault => VaultGrows
  BY <1>0 DEF VaultGrows
<1>3. CASE AbandonedLands
  <2>1. PICK tx \in Waiting(None) : vault' = IF Accepts(tx) THEN Applied(tx) ELSE vault
    BY <1>3 DEF AbandonedLands
  <2>2. tx \in inFlight /\ tx \in Tx
    BY <1>0, <2>1 DEF Waiting
  <2>3. VaultGrows
    BY <1>0, <1>2, <2>1, <2>2, AppliedGrows DEF NetOK
  <2>4. QED
    BY <1>0, <1>1, <1>3, <2>3, NetMoves DEF AbandonedLands
<1>4. CASE AbandonedExpires
  BY <1>0, <1>1, <1>2, <1>4, NetMoves DEF AbandonedExpires
<1>5. CASE LeaseExpires
  BY <1>0, <1>1, <1>2, <1>5, NetMoves DEF LeaseExpires
<1>6. QED
  BY <1>3, <1>4, <1>5 DEF Signer

LEMMA TypeInit == Init => TypeInv
<1> SUFFICES ASSUME Init PROVE TypeInv
  OBVIOUS
<1> USE SignerAssumption, SettlementAssumption
<1>1. vault \in Seq(VaultTask) /\ Len(vault) \in 0..1
      /\ (vaultTaskId # None => vaultTaskId = 1 /\ Len(vault) = 1)
  <2>1. CASE Payment
    BY <2>1 DEF Payment
  <2>2. CASE Hire
    <3>1. PICK new \in VaultTask : new = [state |-> "open", paid |-> {}]
      BY DEF VaultTask
    <3>2. vault = <<new>> /\ vaultTaskId = 1
      BY <2>2, <3>1 DEF Hire
    <3>3. QED
      BY <3>2
  <2>3. QED
    BY <2>1, <2>2 DEF Init
<1>2. NetOK
  <2>1. Len(vault) <= MaxLocks
    <3>1. Len(vault) = 0 \/ Len(vault) = 1
      BY <1>1
    <3>2. 0 <= MaxLocks /\ 1 <= MaxLocks
      OBVIOUS
    <3>3. QED
      BY <3>1, <3>2
  <2>2. inFlight = {} /\ inFlight \in SUBSET Tx
    BY DEF Init
  <2>3. SignerTypeOK
    <3>1. holder \in Signers \cup {None} /\ orphaned \in BOOLEAN
      BY DEF Init
    <3>2. vault \in Seq(VaultTask)
      BY <1>1
    <3>3. QED
      BY <2>1, <2>2, <3>1, <3>2, Zenon DEF SignerTypeOK
  <2>4. QED
    BY <2>2, <2>3 DEF NetOK
<1>3. DbOK
  <2>1. /\ taskStatus \in {"RUNNING", "COMPLETED", "FAILED"}
        /\ vaultTaskId \in {1, None} /\ finalized \in BOOLEAN /\ recorded \in SUBSET Steps
    BY DEF Init, Payment, Hire
  <2>2. /\ stepStatus \in [Steps -> NonTerminalStep \cup {"INPUT_REQUIRED", "RELEASED", "FAILED"}]
        /\ passed \in SUBSET Steps
    BY DEF Init, NonTerminalStep
  <2>3. 1 \in TaskIds
    BY DEF TaskIds
  <2>4. QED
    BY <1>1, <2>1, <2>2, <2>3 DEF DbOK
<1>4. QueueOK
  BY DEF Init, QueueOK, Job, Queued, NoJob
<1>5. RunsOK
  BY IdleOK DEF Init, RunsOK
<1>6. TxOK
  BY DEF Init, TxOK
<1>7. QED
  BY <1>2, <1>3, <1>4, <1>5, <1>6 DEF TypeInv, Init

LEMMA TypeNext == TypeInv /\ [Next]_vars => TypeInv'
<1> SUFFICES ASSUME TypeInv, [Next]_vars PROVE TypeInv'
  OBVIOUS
<1>1. CASE UNCHANGED vars
  BY <1>1, Kept DEF vars, signerVars, taskVars, TypeInv
<1>2. ASSUME NEW w \in Signers, Execute(w) PROVE TypeInv'
  BY <1>2, SettleType, FinalizeType, ThrowsType, CompleteFailsType DEF Execute
<1>3. QED
  BY <1>1, <1>2, TakeType, CrashType, SweepPickType, QueueType, AcceptType, IntervenesType,
     SignerType DEF Next

\* Every variable of the settlement workers keeps its type, through every crash,
\* stall, refusal and retry: in particular a job never uses more attempts than it
\* has, and nothing works on a vault task that does not exist.
THEOREM TypeCorrect == Spec => []TypeOK
<1>1. TypeInv => TypeOK
  BY DEF TypeInv, TypeOK, NetOK, DbOK, QueueOK, RunsOK
<1>2. Init => TypeInv
  BY TypeInit
<1>3. TypeInv /\ [Next]_vars => TypeInv'
  BY TypeNext
<1>4. QED
  BY <1>1, <1>2, <1>3, PTL DEF Spec

-----------------------------------------------------------------------------
\* What holds however long the lease is: a payment row is true, a job in hand is
\* in the hands of a worker that is at it, and the lock is not held by somebody
\* who waits for it.

\* The places inside the delegate lock.
Section == {"fresh", "lock", "locking", "save", "release", "releasing", "complete", "completing"}

LEMMA Becoming ==
    ASSUME TypeInv, NEW w \in Signers, NEW r, Becomes(w, r)
    PROVE  run'[w] = r /\ \A y \in Signers : y # w => run'[y] = run[y]
  BY DEF TypeInv, RunsOK, Becomes

\* What a step of one execution does, whichever it is, to the Redis lock, the
\* payment rows and its job.
Moved(w, r) ==
    /\ Becomes(w, r)
    /\ r.at = "record" => ReleaseLands(w) /\ r.step = run[w].step
    /\ \/ UNCHANGED <<holder, orphaned>> /\ (r.at \in Section <=> run[w].at \in Section)
       \/ Acquire(w) /\ r.at \in Section
       \/ (Leave(w) \/ Dies(w)) /\ r.at \notin Section
    /\ \/ recorded' = recorded
       \/ run[w].at = "record" /\ recorded' = recorded \cup {run[w].step}
    /\ \/ UNCHANGED job /\ r.at # "idle" /\ r.step = run[w].step
       \/ UNCHANGED job /\ w \in Sweepers
       \/ \E j : SetJob(w, j) /\ j.state # "active"

LEMMA GotoMoves ==
    ASSUME TypeInv, NEW w \in Signers, NEW place \in Places \ {"idle"}, Goto(w, place), UNCHANGED job,
           place = "record" => ReleaseLands(w),
           \/ UNCHANGED <<holder, orphaned>> /\ (place \in Section <=> run[w].at \in Section)
           \/ Acquire(w) /\ place \in Section
           \/ (Leave(w) \/ Dies(w)) /\ place \notin Section,
           \/ recorded' = recorded
           \/ run[w].at = "record" /\ recorded' = recorded \cup {run[w].step}
    PROVE  \E r : Moved(w, r)
<1>1. PICK r \in Execution : Becomes(w, r) /\ r.at = place /\ r.step = run[w].step
  BY GotoRun DEF TypeInv
<1>2. QED
  BY <1>1 DEF Moved

LEMMA SettleMoves ==
    ASSUME TypeInv, NEW w \in Signers, Settle(w)
    PROVE  \E r : Moved(w, r)
<1>0. RunsOK /\ DbOK /\ UNCHANGED job /\ run \in [Signers -> Execution]
  BY DEF TypeInv, RunsOK, Settle, ReadStep, EnterSection, FreshRead, SubmitLock, LockLands, SaveLock,
         SubmitRelease, ReleaseLands, Record, RejectedByVault, FailCheck, FailTask
<1>1. PICK e \in Execution : e = run[w]
  BY <1>0
<1>2. CASE ReadStep(w)
  <2>1. PICK r \in Execution : r = [e EXCEPT !.seen = vaultTaskId,
                 !.at = IF e.step \in recorded THEN "finRead" ELSE "acquire"]
    BY <1>0 DEF Execution, Places, DbOK
  <2>2. Becomes(w, r)
    BY <1>0, <1>1, <1>2, <2>1 DEF ReadStep, Becomes
  <2>3. r.at \in {"finRead", "acquire"} /\ r.step = e.step
    BY <2>1 DEF Execution
  <2>4. e.at = "read" /\ UNCHANGED <<holder, orphaned, recorded>>
    BY <1>1, <1>2 DEF ReadStep, At, signerVars
  <2>5. QED
    BY <1>0, <1>1, <2>2, <2>3, <2>4 DEF Moved, Section
<1>3. CASE EnterSection(w)
  <2>1. PICK r \in Execution : r = [e EXCEPT !.task = e.seen,
                 !.at = IF e.seen = None THEN "fresh" ELSE "release"]
    BY DEF Execution, Places
  <2>2. Becomes(w, r)
    BY <1>0, <1>1, <1>3, <2>1 DEF EnterSection, Becomes
  <2>3. r.at \in {"fresh", "release"} /\ r.step = e.step
    BY <2>1 DEF Execution
  <2>4. Acquire(w) /\ UNCHANGED recorded
    BY <1>3 DEF EnterSection
  <2>5. QED
    BY <1>0, <1>1, <2>2, <2>3, <2>4 DEF Moved, Section
<1>4. CASE FreshRead(w)
  <2>1. PICK r \in Execution : r = [e EXCEPT !.task = vaultTaskId,
                 !.at = IF vaultTaskId = None THEN "lock" ELSE "release"]
    BY <1>0 DEF Execution, Places, DbOK
  <2>2. Becomes(w, r)
    BY <1>0, <1>1, <1>4, <2>1 DEF FreshRead, Becomes
  <2>3. r.at \in {"lock", "release"} /\ r.step = e.step
    BY <2>1 DEF Execution
  <2>4. e.at = "fresh" /\ UNCHANGED <<holder, orphaned, recorded>>
    BY <1>1, <1>4 DEF FreshRead, At, signerVars
  <2>5. QED
    BY <1>0, <1>1, <2>2, <2>3, <2>4 DEF Moved, Section
<1>5. CASE LockLands(w)
  <2>1. /\ e.at = "locking" /\ Lands(w) /\ UNCHANGED <<holder, orphaned, recorded>>
        /\ run' = [run EXCEPT ![w] = [e EXCEPT !.task = Len(vault) + 1, !.at = "save"]]
    BY <1>0, <1>1, <1>5 DEF LockLands, At
  <2>2. PICK n \in TaskIds : n = Len(vault) + 1
    <3>1. PICK tx \in Waiting(w) : Accepts(tx)
      BY <2>1 DEF Lands
    <3>2. tx.op = "lock"
      BY <1>1, <2>1, <3>1, NoneDiffers DEF TypeInv, TxOK, Own, LockTx, Waiting
    <3>3. QED
      BY <3>1, <3>2, NetTypes, SignerAssumption DEF TypeInv, Accepts, TaskIds
  <2>3. PICK r \in Execution : r = [e EXCEPT !.task = n, !.at = "save"]
    BY DEF Execution, Places
  <2>4. Becomes(w, r) /\ r.at = "save" /\ r.step = e.step
    BY <2>1, <2>2, <2>3 DEF Becomes, Execution
  <2>5. QED
    BY <1>0, <1>1, <2>1, <2>4 DEF Moved, Section
<1>6. CASE SubmitLock(w) \/ SaveLock(w) \/ SubmitRelease(w)
  <2>1. PICK place \in {"locking", "release", "releasing"} :
          /\ Goto(w, place) /\ e.at \in {"lock", "save", "release"}
          /\ UNCHANGED <<holder, orphaned, recorded>>
    BY <1>1, <1>6 DEF SubmitLock, SaveLock, SubmitRelease, At, signerVars
  <2>2. QED
    BY <1>0, <1>1, <2>1, GotoMoves DEF Places, Section
<1>7. CASE ReleaseLands(w) \/ RejectedByVault(w)
  <2>1. PICK place \in {"record", "failCheck", "finRead"} :
          /\ Goto(w, place) /\ Leave(w) /\ UNCHANGED recorded
          /\ place = "record" => ReleaseLands(w)
    BY <1>7 DEF ReleaseLands, RejectedByVault
  <2>2. QED
    BY <1>0, <2>1, GotoMoves DEF Places, Section
<1>8. CASE Record(w) \/ FailCheck(w) \/ FailTask(w)
  <2>1. PICK place \in {"fail", "finRead"} :
          /\ Goto(w, place) /\ e.at \in {"record", "failCheck", "fail"}
          /\ UNCHANGED <<holder, orphaned>>
          /\ \/ recorded' = recorded
             \/ e.at = "record" /\ recorded' = recorded \cup {e.step}
    BY <1>1, <1>8 DEF Record, FailCheck, FailTask, At, signerVars
  <2>2. QED
    BY <1>0, <1>1, <2>1, GotoMoves DEF Places, Section
<1>9. QED
  BY <1>2, <1>3, <1>4, <1>5, <1>6, <1>7, <1>8 DEF Settle

LEMMA FinalizeMoves ==
    ASSUME TypeInv, NEW w \in Signers, Finalize(w)
    PROVE  \E r : Moved(w, r)
<1>0. RunsOK /\ DbOK /\ UNCHANGED recorded /\ run \in [Signers -> Execution] /\ QueueOK
  BY DEF TypeInv, RunsOK, Finalize, FinRead, FinCount, EnterFinal, SubmitComplete, CompleteLands,
         AlreadyComplete, FinUpdate, End
<1>1. PICK e \in Execution : e = run[w] /\ ExecOK(w, e)
  BY <1>0 DEF RunsOK
<1>2. CASE FinRead(w)
  <2>1. /\ e.at = "finRead" /\ UNCHANGED <<holder, orphaned, job>>
        /\ \/ run' = [run EXCEPT ![w] = [e EXCEPT !.at = "end"]]
           \/ run' = [run EXCEPT ![w] = [e EXCEPT !.at = "finCount", !.task = vaultTaskId,
                                                  !.owed = Released, !.status = taskStatus]]
    BY <1>0, <1>1, <1>2 DEF FinRead, At, signerVars
  <2>2. CASE run' = [run EXCEPT ![w] = [e EXCEPT !.at = "end"]]
    <3>1. Goto(w, "end")
      BY <1>0, <1>1, <2>2 DEF Goto
    <3>2. QED
      BY <1>0, <1>1, <2>1, <3>1, GotoMoves DEF Places, Section
  <2>3. CASE run' = [run EXCEPT ![w] = [e EXCEPT !.at = "finCount", !.task = vaultTaskId,
                                                 !.owed = Released, !.status = taskStatus]]
    <3>1. PICK r \in Execution : r = [e EXCEPT !.at = "finCount", !.task = vaultTaskId,
                                               !.owed = Released, !.status = taskStatus]
      BY <1>0 DEF Execution, Places, DbOK, Released
    <3>2. Becomes(w, r) /\ r.at = "finCount" /\ r.step = e.step
      BY <2>3, <3>1 DEF Becomes, Execution
    <3>3. QED
      BY <1>0, <1>1, <2>1, <3>2 DEF Moved, Section
  <2>4. QED
    BY <2>1, <2>2, <2>3
<1>3. CASE FinCount(w) \/ SubmitComplete(w) \/ FinUpdate(w)
  <2>1. PICK place \in {"end", "finAcquire", "completing"} :
          /\ Goto(w, place) /\ e.at \in {"finCount", "complete", "finUpdate"}
          /\ place = "completing" <=> e.at = "complete"
          /\ UNCHANGED <<holder, orphaned, job>>
    BY <1>1, <1>3 DEF FinCount, SubmitComplete, FinUpdate, At, signerVars
  <2>2. QED
    BY <1>0, <1>1, <2>1, GotoMoves DEF Places, Section
<1>4. CASE EnterFinal(w)
  BY <1>0, <1>4, GotoMoves DEF EnterFinal, Places, Section
<1>5. CASE CompleteLands(w) \/ AlreadyComplete(w)
  <2>1. PICK place \in {"end", "finUpdate"} : Goto(w, place) /\ Leave(w) /\ UNCHANGED job
    BY <1>5 DEF CompleteLands, AlreadyComplete, AfterComplete
  <2>2. QED
    BY <1>0, <2>1, GotoMoves DEF Places, Section
<1>6. CASE End(w)
  <2>1. Becomes(w, Idle) /\ Idle.at = "idle"
    BY <1>6, IdleOK DEF End, Stop, Becomes, Idle
  <2>2. e.at = "end" /\ UNCHANGED <<holder, orphaned>>
    BY <1>1, <1>6 DEF End, At, signerVars
  <2>3. w \notin Sweepers => \E j : SetJob(w, j) /\ j.state # "active"
    <3>1. SUFFICES ASSUME w \notin Sweepers PROVE \E j : SetJob(w, j) /\ j.state # "active"
      OBVIOUS
    <3>2. JobOf(w) \in Job
      BY <1>0, <1>1, <2>2, <3>1 DEF ExecOK, QueueOK, JobOf
    <3>3. [JobOf(w) EXCEPT !.state = "done", !.by = None].state # "active"
      BY <3>2 DEF Job
    <3>4. QED
      BY <1>6, <3>1, <3>3 DEF End, JobDone
  <2>4. QED
    BY <1>0, <1>1, <1>6, <2>1, <2>2, <2>3 DEF Moved, Section, End
<1>7. QED
  BY <1>2, <1>3, <1>4, <1>5, <1>6 DEF Finalize

LEMMA FailureMoves ==
    ASSUME TypeInv, NEW w \in Signers, Throws(w) \/ Crash(w) \/ CompleteFails(w)
    PROVE  \E r : Moved(w, r)
<1>0. RunsOK /\ QueueOK /\ UNCHANGED recorded
  BY DEF TypeInv, Throws, Abort, Crash, CompleteFails
<1>1. CASE CompleteFails(w)
  BY <1>0, <1>1, GotoMoves DEF CompleteFails, Places, Section
<1>2. CASE Throws(w) \/ Crash(w)
  <2>1. Becomes(w, Idle) /\ Idle.at = "idle" /\ (Leave(w) \/ Dies(w)) /\ run[w].at # "idle"
    BY <1>2, IdleOK DEF Throws, Abort, Crash, Stop, Becomes, Idle, Breakable, At
  <2>2. (UNCHANGED job /\ w \in Sweepers) \/ \E j : SetJob(w, j) /\ j.state # "active"
    <3>1. SUFFICES ASSUME w \notin Sweepers PROVE \E j : SetJob(w, j) /\ j.state # "active"
      BY <1>0, <1>2 DEF Crash, Throws, RunsOK, ExecOK, Sweeping, Breakable
    <3>2. JobOf(w) \in Job
      BY <1>0, <2>1, <3>1 DEF RunsOK, ExecOK, QueueOK, JobOf
    <3>3. CASE Crash(w)
      <4>1. Restarted(JobOf(w)).state # "active"
        BY <3>2 DEF Restarted, Job
      <4>2. QED
        BY <3>1, <3>3, <4>1 DEF Crash
    <3>4. CASE Throws(w)
      <4>1. PICK state \in {"exhausted", "waiting"} :
              state = IF JobOf(w).attempts + 1 = MaxAttempts THEN "exhausted" ELSE "waiting"
        OBVIOUS
      <4>2. PICK j : j = [JobOf(w) EXCEPT !.by = None, !.attempts = @ + 1, !.state = state]
        OBVIOUS
      <4>3. j.state # "active"
        BY <3>2, <4>2 DEF Job
      <4>4. SetJob(w, j)
        BY <3>4, <4>1, <4>2 DEF Throws, Abort, JobThrows
      <4>5. QED
        BY <4>3, <4>4
    <3>5. QED
      BY <1>2, <3>3, <3>4
  <2>3. QED
    BY <1>0, <1>2, <2>1, <2>2 DEF Moved, Section, Crash, Throws
<1>3. QED
  BY <1>1, <1>2

\* What the vault paid stays paid, whoever moves.
LEMMA PaidStays == TypeInv /\ [Next]_vars => Paid \subseteq Paid'
<1> SUFFICES ASSUME TypeInv, [Next]_vars PROVE Paid \subseteq Paid'
  OBVIOUS
<1>0. NetOK /\ vault \in Seq(VaultTask) /\ Len(vault) \in Nat /\ Len(vault) <= MaxLocks
  BY NetTypes DEF TypeInv
<1>1. ASSUME NEW tx \in inFlight, Accepts(tx), vault' = Applied(tx) PROVE Paid \subseteq Paid'
  <2>1. VaultGrows
    BY <1>0, <1>1, AppliedGrows, NetTypes DEF NetOK
  <2>2. Len(vault') \in Nat /\ 1..Len(vault) \subseteq 1..Len(vault')
    BY <1>0, <2>1 DEF VaultGrows
  <2>3. QED
    BY <2>1, <2>2 DEF VaultGrows, Paid
<1>2. CASE UNCHANGED vault
  BY <1>2 DEF Paid
<1>3. ASSUME NEW v \in 1..Len(vault), NEW state \in {"closed", "disputed"}, Intervene(v, state)
      PROVE  Paid \subseteq Paid'
  <2>1. /\ Len(vault') = Len(vault)
        /\ \A x \in 1..Len(vault) : vault'[x].paid = vault[x].paid
    BY <1>0, <1>3, IntervenesVault DEF Intervene
  <2>2. QED
    BY <2>1 DEF Paid
<1>4. ASSUME NEW w \in Signers, Lands(w) PROVE Paid \subseteq Paid'
  BY <1>1, <1>4 DEF Lands, Waiting
<1>5. ASSUME NEW w \in Signers, Execute(w) \/ Crash(w) PROVE UNCHANGED vault \/ Lands(w)
  <2>1. CASE Settle(w)
    BY <2>1 DEF Settle, ReadStep, EnterSection, FreshRead, SubmitLock, LockLands, SaveLock,
       SubmitRelease, ReleaseLands, Record, RejectedByVault, FailCheck, FailTask, signerVars,
       Submit, Refused, FailsOnChain
  <2>2. CASE Finalize(w)
    BY <2>2 DEF Finalize, FinRead, FinCount, EnterFinal, SubmitComplete, CompleteLands,
       AlreadyComplete, FinUpdate, End, signerVars, Submit, Refused
  <2>3. CASE Throws(w) \/ Crash(w) \/ CompleteFails(w)
    BY <2>3 DEF Throws, Abort, Crash, CompleteFails, GivesUp, Refused, FailsOnChain
  <2>4. QED
    BY <1>5, <2>1, <2>2, <2>3 DEF Execute
<1>6. CASE Signer
  BY <1>1, <1>2, <1>6 DEF Signer, AbandonedLands, AbandonedExpires, LeaseExpires, Waiting
<1>7. ASSUME NEW s \in Steps, Queue(s) \/ Stall(s) \/ Accept(s) \/ Park(s) \/ Reject(s) PROVE UNCHANGED vault
  BY <1>7 DEF Queue, ExhaustedRead, ExhaustedMark, Stall, Accept, Park, Reject, signerVars
<1>8. ASSUME NEW w, \/ \E s \in Steps : Take(w, s)
                    \/ \E v \in 1..Len(vault) : SweepPick(w, v)
      PROVE  UNCHANGED vault
  BY <1>8 DEF Take, SweepPick, signerVars
<1>9. CASE UNCHANGED vars
  BY <1>2, <1>9 DEF vars, signerVars
<1>10. QED
  BY <1>2, <1>3, <1>4, <1>5, <1>6, <1>7, <1>8, <1>9 DEF Next

\* A release that lands pays its caller's step.
LEMMA ReleasePays ==
    ASSUME TypeInv, NEW w \in Signers, ReleaseLands(w)
    PROVE  run[w].step \in Paid'
<1>0. NetOK /\ TxOK /\ RunsOK
  BY DEF TypeInv
<1>1. PICK tx \in Waiting(w) : Accepts(tx) /\ vault' = Applied(tx)
  BY DEF ReleaseLands, Lands
<1>2. tx \in inFlight /\ tx.by = w /\ run[w].at = "releasing"
  BY <1>1 DEF Waiting, ReleaseLands, At
<1>3. tx = ReleaseTx(w, run[w].task, run[w].step)
  BY <1>0, <1>2, NoneDiffers DEF TxOK, Own
<1>4. tx.op = "release" /\ tx.step = run[w].step
  BY <1>3 DEF ReleaseTx
<1>5. tx \in Tx /\ tx.task \in 1..Len(vault) /\ tx.step \in Steps
  BY <1>0, <1>2, <1>4, NetTypes DEF NetOK
<1>6. VaultGrows /\ vault'[tx.task].paid = vault[tx.task].paid \cup {tx.step}
  BY <1>0, <1>1, <1>4, <1>5, AppliedGrows, NetTypes
<1>7. tx.task \in 1..Len(vault')
  BY <1>0, <1>5, <1>6, NetTypes DEF VaultGrows
<1>8. QED
  BY <1>4, <1>5, <1>6, <1>7 DEF Paid

LockHasHolder ==
    /\ orphaned => holder # None
    /\ holder # None /\ ~orphaned => run[holder].at \in Section

JobsHaveWorkers ==
    \A s \in Steps :
        job[s].state = "active" => /\ job[s].by \in Workers
                                   /\ run[job[s].by].at # "idle"
                                   /\ run[job[s].by].step = s

AnyLeaseInv ==
    /\ \A w \in Signers : run[w].at = "record" => run[w].step \in Paid
    /\ RecordMeansPaid
    /\ LockHasHolder
    /\ JobsHaveWorkers

LEMMA MovedKeeps ==
    ASSUME TypeInv, AnyLeaseInv, NEW w \in Signers, NEW r, Moved(w, r), Paid \subseteq Paid'
    PROVE  AnyLeaseInv'
<1>0. /\ run'[w] = r /\ \A y \in Signers : y # w => run'[y] = run[y]
      /\ holder \in Signers \cup {None} /\ orphaned \in BOOLEAN /\ None \notin Signers
      /\ job \in [Steps -> Job]
  BY Becoming, NetTypes, NoneDiffers DEF Moved, TypeInv, QueueOK
<1>1. \A y \in Signers : run'[y].at = "record" => run'[y].step \in Paid'
  <2>1. r.at = "record" => r.step \in Paid'
    BY ReleasePays DEF Moved
  <2>2. QED
    BY <1>0, <2>1 DEF AnyLeaseInv
<1>2. RecordMeansPaid'
  BY DEF AnyLeaseInv, RecordMeansPaid, Moved
<1>3. LockHasHolder'
  <2>1. CASE UNCHANGED <<holder, orphaned>> /\ (r.at \in Section <=> run[w].at \in Section)
    BY <1>0, <2>1 DEF AnyLeaseInv, LockHasHolder
  <2>2. CASE Acquire(w) /\ r.at \in Section
    BY <1>0, <2>2 DEF AnyLeaseInv, LockHasHolder, Acquire
  <2>3. CASE Leave(w) /\ r.at \notin Section
    BY <1>0, <2>3 DEF AnyLeaseInv, LockHasHolder, Leave
  <2>4. CASE Dies(w) /\ r.at \notin Section
    BY <1>0, <2>4 DEF AnyLeaseInv, LockHasHolder, Dies
  <2>5. QED
    BY <2>1, <2>2, <2>3, <2>4 DEF Moved
<1>4. JobsHaveWorkers'
  <2>0. JobsHaveWorkers /\ Workers' = Workers /\ Workers \subseteq Signers /\ Sweepers \cap Workers = {}
    BY DEF AnyLeaseInv, Workers
  <2>1. CASE UNCHANGED job /\ r.at # "idle" /\ r.step = run[w].step
    BY <1>0, <2>0, <2>1 DEF JobsHaveWorkers
  <2>2. CASE UNCHANGED job /\ w \in Sweepers
    BY <1>0, <2>0, <2>2 DEF JobsHaveWorkers
  <2>3. ASSUME NEW j, SetJob(w, j), j.state # "active" PROVE JobsHaveWorkers'
    <3>1. SUFFICES ASSUME NEW s \in Steps, job'[s].state = "active"
                   PROVE  /\ job'[s].by \in Workers /\ run'[job'[s].by].at # "idle"
                          /\ run'[job'[s].by].step = s
      BY <2>0 DEF JobsHaveWorkers
    <3>2. job'[s] = job[s]
      BY <1>0, <2>3, <3>1 DEF SetJob
    <3>3. job[s].by # w
      BY <1>0, <2>0, <2>3, <3>1, <3>2 DEF JobsHaveWorkers, SetJob, JobOf
    <3>4. QED
      BY <1>0, <2>0, <3>1, <3>2, <3>3 DEF JobsHaveWorkers
  <2>4. QED
    BY <2>1, <2>2, <2>3 DEF Moved
<1>5. QED
  BY <1>1, <1>2, <1>3, <1>4 DEF AnyLeaseInv

LEMMA TakeKeeps ==
    ASSUME TypeInv, AnyLeaseInv, NEW w \in Workers, NEW s \in Steps, Take(w, s), Paid \subseteq Paid'
    PROVE  AnyLeaseInv'
<1>0. w \in Signers /\ job \in [Steps -> Job] /\ run \in [Signers -> Execution]
      /\ holder \in Signers \cup {None} /\ JobsHaveWorkers /\ Workers' = Workers
      /\ Workers \subseteq Signers
  BY NetTypes DEF TypeInv, QueueOK, RunsOK, Workers, AnyLeaseInv
<1>1. PICK r \in Execution : r = [Idle EXCEPT !.at = "read", !.step = s]
  BY DEF Idle, Execution, Places
<1>2. r.at = "read" /\ r.step = s
  BY <1>1 DEF Idle
<1>3. /\ run[w].at = "idle" /\ run'[w] = r /\ \A y \in Signers : y # w => run'[y] = run[y]
      /\ UNCHANGED <<holder, orphaned, recorded>>
  BY <1>0, <1>1 DEF Take, At, signerVars
<1>4. \A x \in Steps : x # s => job'[x] = job[x]
  BY <1>0 DEF Take
<1>5. job'[s].by = w
  BY <1>0 DEF Take, Job
<1>6. JobsHaveWorkers'
  BY <1>0, <1>2, <1>3, <1>4, <1>5 DEF JobsHaveWorkers
<1>7. LockHasHolder'
  BY <1>0, <1>3 DEF AnyLeaseInv, LockHasHolder, Section
<1>8. QED
  BY <1>2, <1>3, <1>6, <1>7 DEF AnyLeaseInv, RecordMeansPaid

LEMMA SweepKeeps ==
    ASSUME TypeInv, AnyLeaseInv, NEW w \in Sweepers, NEW v \in 1..Len(vault), SweepPick(w, v),
           Paid \subseteq Paid'
    PROVE  AnyLeaseInv'
<1>0. w \in Signers /\ run \in [Signers -> Execution] /\ holder \in Signers \cup {None}
      /\ Workers' = Workers /\ Workers \subseteq Signers /\ w \notin Workers /\ v \in TaskIds
  BY NetTypes, SettlementAssumption, SignerAssumption DEF TypeInv, RunsOK, Workers, TaskIds
<1>1. PICK r \in Execution : r = [Idle EXCEPT !.at = "finAcquire", !.task = v]
  BY <1>0 DEF Idle, Execution, Places
<1>2. r.at = "finAcquire"
  BY <1>1 DEF Idle
<1>3. /\ run[w].at = "idle" /\ run'[w] = r /\ \A y \in Signers : y # w => run'[y] = run[y]
      /\ UNCHANGED <<holder, orphaned, recorded, job>>
  BY <1>0, <1>1 DEF SweepPick, At, signerVars
<1>4. JobsHaveWorkers'
  BY <1>0, <1>3 DEF AnyLeaseInv, JobsHaveWorkers
<1>5. LockHasHolder'
  BY <1>0, <1>3 DEF AnyLeaseInv, LockHasHolder, Section
<1>6. QED
  BY <1>2, <1>3, <1>4, <1>5 DEF AnyLeaseInv, RecordMeansPaid

\* Nobody's execution moves: the queue, the chain, the lease and the world.
LEMMA OthersKeep ==
    ASSUME TypeInv, AnyLeaseInv, Paid \subseteq Paid', UNCHANGED <<run, recorded>>,
           \/ UNCHANGED <<holder, orphaned>> \/ LeaseExpires,
           \/ UNCHANGED job \/ \E s \in Steps : Queue(s) \/ Stall(s) \/ Accept(s)
    PROVE  AnyLeaseInv'
<1>0. job \in [Steps -> Job] /\ JobsHaveWorkers /\ Workers' = Workers
  BY DEF TypeInv, QueueOK, AnyLeaseInv, Workers
<1>1. JobsHaveWorkers'
  <2>1. ASSUME NEW s \in Steps, Queue(s) \/ Stall(s) \/ Accept(s) PROVE JobsHaveWorkers'
    <3>1. \A x \in Steps : x # s => job'[x] = job[x]
      BY <1>0, <2>1 DEF Queue, ExhaustedRead, ExhaustedMark, Stall, Accept
    <3>2. job'[s].state # "active" \/ job'[s] = job[s]
      <4>1. job[s] \in Job
        BY <1>0
      <4>2. CASE Queue(s)
        BY <1>0, <4>1, <4>2 DEF Queue, ExhaustedRead, ExhaustedMark, Job
      <4>3. CASE Stall(s)
        <5>1. Restarted(job[s]).state # "active"
          BY <4>1 DEF Restarted, Job
        <5>2. QED
          BY <1>0, <4>3, <5>1 DEF Stall
      <4>4. CASE Accept(s)
        BY <1>0, <4>4 DEF Accept, Queued, NoJob
      <4>5. QED
        BY <2>1, <4>2, <4>3, <4>4
    <3>3. QED
      BY <1>0, <3>1, <3>2 DEF JobsHaveWorkers
  <2>2. QED
    BY <1>0, <2>1 DEF JobsHaveWorkers
<1>2. LockHasHolder'
  BY DEF AnyLeaseInv, LockHasHolder, LeaseExpires
<1>3. QED
  BY <1>1, <1>2 DEF AnyLeaseInv, RecordMeansPaid

LEMMA AnyLeaseInit == Init => AnyLeaseInv
  BY NoneDiffers DEF Init, AnyLeaseInv, RecordMeansPaid, LockHasHolder, JobsHaveWorkers, Idle, Queued,
     NoJob

LEMMA AnyLeaseNext == TypeInv /\ AnyLeaseInv /\ [Next]_vars => AnyLeaseInv'
<1> SUFFICES ASSUME TypeInv, AnyLeaseInv, [Next]_vars PROVE AnyLeaseInv'
  OBVIOUS
<1>0. Paid \subseteq Paid'
  BY PaidStays
<1>1. ASSUME NEW w \in Signers, Execute(w) \/ Crash(w) PROVE AnyLeaseInv'
  BY <1>0, <1>1, SettleMoves, FinalizeMoves, FailureMoves, MovedKeeps DEF Execute
<1>2. ASSUME NEW s \in Steps, Queue(s) \/ Stall(s) \/ Accept(s) \/ Park(s) \/ Reject(s) PROVE AnyLeaseInv'
  <2>1. UNCHANGED <<run, recorded, holder, orphaned>>
    BY <1>2 DEF Queue, ExhaustedRead, ExhaustedMark, Stall, Accept, Park, Reject, signerVars
  <2>2. Park(s) \/ Reject(s) => UNCHANGED job
    BY DEF Park, Reject
  <2>3. QED
    BY <1>0, <1>2, <2>1, <2>2, OthersKeep
<1>3. ASSUME NEW v \in 1..Len(vault), NEW state \in {"closed", "disputed"}, Intervene(v, state)
      PROVE  AnyLeaseInv'
  BY <1>0, <1>3, OthersKeep DEF Intervene
<1>4. CASE Signer /\ UNCHANGED restVars
  <2>1. UNCHANGED <<holder, orphaned>> \/ LeaseExpires
    BY <1>4 DEF Signer, AbandonedLands, AbandonedExpires
  <2>2. QED
    BY <1>0, <1>4, <2>1, OthersKeep DEF restVars
<1>5. CASE UNCHANGED vars
  BY <1>0, <1>5, OthersKeep DEF vars, signerVars
<1>6. QED
  BY <1>0, <1>1, <1>2, <1>3, <1>4, <1>5, TakeKeeps, SweepKeeps DEF Next

LEMMA AnyLease == Spec => [](TypeInv /\ AnyLeaseInv)
<1>1. Init => TypeInv /\ AnyLeaseInv
  BY TypeInit, AnyLeaseInit
<1>2. TypeInv /\ AnyLeaseInv /\ [Next]_vars => (TypeInv /\ AnyLeaseInv)'
  BY TypeNext, AnyLeaseNext
<1>3. QED
  BY <1>1, <1>2, PTL DEF Spec

\* "A Payment row is written only after a real on-chain release": whatever crashes,
\* stalls and times out, and even when the lease ends under its holder.
THEOREM RecordsAreTrue == Spec => []RecordMeansPaid
<1>1. AnyLeaseInv => RecordMeansPaid
  BY DEF AnyLeaseInv
<1>2. QED
  BY <1>1, AnyLease, PTL

\* What the end of every settlement job rests on: a job that is handed out is
\* being run, for its own step, by the worker it was handed to, and the delegate
\* lock, unless its holder died and its lease runs out, is held by an execution
\* inside the section, never by one that waits for the lock or has forgotten it.
THEOREM NobodyWaitsForNothing == Spec => [](JobsHaveWorkers /\ LockHasHolder)
<1>1. AnyLeaseInv => JobsHaveWorkers /\ LockHasHolder
  BY DEF AnyLeaseInv
<1>2. QED
  BY <1>1, AnyLease, PTL

-----------------------------------------------------------------------------
\* The lock and what it protects.  Everything below assumes that the lease
\* outlasts its holder's section.

\* The lock is held by whoever is in a section, unless its holder is gone.
LockInv ==
    /\ holder = None => ~orphaned
    /\ \A w \in Signers : run[w].at \in Section <=> holder = w /\ ~orphaned

\* Nobody remembers another vault task than the row's, a lock is made only while
\* the row has none, and a release works on the row's.
ExecSafe(r) ==
    /\ r.seen # None => r.seen = vaultTaskId
    /\ r.at \in {"lock", "locking", "save"} => vaultTaskId = None
    /\ r.at \in {"release", "releasing"} => r.task = vaultTaskId

\* What is paid, and what may still be, is paid under the row's vault task.
NetSafe ==
    /\ \A tx \in inFlight : tx.op = "release" => tx.task = vaultTaskId
    /\ \A v \in 1..Len(vault) : vault[v].paid # {} => v = vaultTaskId

SafeInv ==
    /\ LockInv
    /\ \A w \in Signers : ExecSafe(run[w])
    /\ NetSafe

\* The lock follows its holder into the section and out of it.
LEMMA LockKept ==
    ASSUME TypeInv, LockInv, NEW w \in Signers, NEW r, Becomes(w, r),
           \/ UNCHANGED <<holder, orphaned>> /\ (r.at \in Section <=> run[w].at \in Section)
           \/ Acquire(w) /\ r.at \in Section
           \/ (Leave(w) \/ Dies(w)) /\ r.at \notin Section
    PROVE  LockInv'
<1>1. /\ run'[w] = r /\ \A y \in Signers : y # w => run'[y] = run[y]
      /\ None \notin Signers /\ orphaned \in BOOLEAN
  BY Becoming, NoneDiffers DEF TypeInv, NetOK, SignerTypeOK
<1>2. CASE UNCHANGED <<holder, orphaned>> /\ (r.at \in Section <=> run[w].at \in Section)
  BY <1>1, <1>2 DEF LockInv
<1>3. CASE Acquire(w) /\ r.at \in Section
  BY <1>1, <1>3 DEF LockInv, Acquire
<1>4. CASE Leave(w) /\ r.at \notin Section
  BY <1>1, <1>4 DEF LockInv, Leave
<1>5. CASE Dies(w) /\ r.at \notin Section
  BY <1>1, <1>5 DEF LockInv, Dies
<1>6. QED
  BY <1>2, <1>3, <1>4, <1>5

\* What the network does to what is paid.
LEMMA QuietSafe ==
    ASSUME NetSafe, UNCHANGED <<vault, vaultTaskId>>,
           \A tx \in inFlight' : \E old \in inFlight : tx.op = old.op /\ tx.task = old.task
    PROVE  NetSafe'
  BY DEF NetSafe

LEMMA RetreatSafe ==
    ASSUME TypeInv, NetSafe, NEW w \in Signers, Retreats(w), UNCHANGED vaultTaskId
    PROVE  NetSafe'
<1>1. NetOK
  BY DEF TypeInv
<1>2. \A tx \in Abandoned(w) : \E old \in inFlight : tx.op = old.op /\ tx.task = old.task
  BY <1>1, AbandonedTx
<1>3. QED
  BY <1>2, QuietSafe DEF Retreats

LEMMA AppliedSafe ==
    ASSUME TypeInv, NetSafe, NEW tx \in inFlight, Accepts(tx), vault' = Applied(tx),
           inFlight' = {}, UNCHANGED vaultTaskId
    PROVE  NetSafe'
<1>1. /\ tx \in Tx /\ NetOK /\ vault \in Seq(VaultTask) /\ Len(vault) \in Nat
      /\ Len(vault) <= MaxLocks
      /\ tx.op # "lock" => tx.task \in 1..Len(vault)
      /\ tx.op = "release" => tx.step \in Steps
      /\ tx.op \in {"lock", "release", "complete"}
  BY NetTypes DEF TypeInv, NetOK, Tx
<1>2. /\ VaultGrows
      /\ tx.op = "lock" => /\ Len(vault') = Len(vault) + 1
                           /\ vault'[Len(vault) + 1].paid = {}
                           /\ \A v \in 1..Len(vault) : vault'[v] = vault[v]
      /\ tx.op # "lock" => /\ Len(vault') = Len(vault)
                           /\ \A v \in 1..Len(vault) : v # tx.task => vault'[v] = vault[v]
      /\ tx.op = "release" => vault'[tx.task].paid = vault[tx.task].paid \cup {tx.step}
      /\ tx.op = "complete" => vault'[tx.task].paid = vault[tx.task].paid
  BY <1>1, AppliedGrows
<1>3. ASSUME NEW v \in 1..Len(vault'), vault'[v].paid # {} PROVE v = vaultTaskId
  <2>1. CASE tx.op = "lock"
    <3>1. v # Len(vault) + 1
      BY <1>2, <1>3, <2>1
    <3>2. v \in 1..Len(vault)
      BY <1>1, <1>2, <2>1, <3>1
    <3>3. QED
      BY <1>2, <1>3, <2>1, <3>2 DEF NetSafe
  <2>2. CASE tx.op = "release"
    BY <1>2, <1>3, <2>2 DEF NetSafe
  <2>3. CASE tx.op = "complete"
    BY <1>2, <1>3, <2>3 DEF NetSafe
  <2>4. QED
    BY <1>1, <2>1, <2>2, <2>3
<1>4. QED
  BY <1>3 DEF NetSafe

\* One execution moves.
LEMMA SafeMove ==
    ASSUME TypeInv, SafeInv, NEW w \in Signers, NEW r, Becomes(w, r), ExecSafe(r)', LockInv',
           NetSafe', UNCHANGED vaultTaskId
    PROVE  SafeInv'
<1>1. run'[w] = r /\ \A y \in Signers : y # w => run'[y] = run[y]
  BY Becoming
<1>2. ASSUME NEW y \in Signers, y # w PROVE ExecSafe(run[y])'
  BY <1>1, <1>2 DEF SafeInv, ExecSafe
<1>3. QED
  BY <1>1, <1>2 DEF SafeInv

\* It moves to a place outside of the section, where nothing depends on the lock.
Outside == Places \ Section

LEMMA SafeOutside ==
    ASSUME TypeInv, SafeInv, NEW w \in Signers, NEW r, Becomes(w, r), r.at \in Outside,
           r.seen \in {None, run[w].seen, vaultTaskId},
           \/ UNCHANGED <<holder, orphaned>> /\ run[w].at \notin Section
           \/ Leave(w) \/ Dies(w),
           NetSafe', UNCHANGED vaultTaskId
    PROVE  SafeInv'
<1>1. ExecSafe(r)'
  BY DEF SafeInv, ExecSafe, Outside, Section
<1>2. r.at \notin Section
  BY DEF Outside
<1>3. LockInv'
  BY <1>2, LockKept DEF SafeInv
<1>4. QED
  BY <1>1, <1>3, SafeMove

\* What a step shares that pays nothing: the vault stays as it is.
LEMMA SafeRetreat ==
    ASSUME TypeInv, SafeInv, NEW w \in Signers, NEW r, Becomes(w, r), r.at \in Outside,
           r.seen \in {None, run[w].seen, vaultTaskId}, Retreats(w),
           \/ UNCHANGED <<holder, orphaned>> /\ run[w].at \notin Section
           \/ Leave(w) \/ Dies(w),
           UNCHANGED vaultTaskId
    PROVE  SafeInv'
<1>1. NetSafe'
  BY RetreatSafe DEF SafeInv
<1>2. QED
  BY <1>1, SafeOutside

LEMMA IdleOutside == Idle.at \in Outside /\ Idle.seen = None
  BY DEF Idle, Outside, Section, Places

\* settleStep, from the first read to the transactions.
LEMMA SettleSafe ==
    ASSUME TypeInv, SafeInv, NEW w \in Signers, Settle(w)
    PROVE  SafeInv'
<1>0. /\ NetOK /\ DbOK /\ QueueOK /\ RunsOK /\ TxOK /\ Len(vault) \in Nat
      /\ LockInv /\ NetSafe /\ run \in [Signers -> Execution]
  BY NetTypes DEF TypeInv, SafeInv, RunsOK
<1>1. PICK e \in Execution : e = run[w] /\ ExecOK(w, e) /\ ExecSafe(e)
  BY <1>0 DEF RunsOK, SafeInv
<1>2. CASE ReadStep(w)
  <2>1. PICK r \in Execution : r = [e EXCEPT !.seen = vaultTaskId,
                 !.at = IF e.step \in recorded THEN "finRead" ELSE "acquire"]
    BY <1>0 DEF Execution, Places, DbOK
  <2>2. r.at \in Outside /\ r.seen = vaultTaskId
    BY <2>1 DEF Execution, Outside, Section, Places
  <2>3. Becomes(w, r)
    BY <1>0, <1>1, <1>2, <2>1 DEF ReadStep, Becomes
  <2>4. /\ e.at \notin Section /\ Retreats(w)
        /\ UNCHANGED <<holder, orphaned, vaultTaskId>>
    BY <1>1, <1>2 DEF ReadStep, At, Section, Retreats, signerVars, taskVars
  <2>5. QED
    BY <1>0, <1>1, <2>2, <2>3, <2>4, SafeRetreat
<1>3. CASE EnterSection(w)
  <2>1. PICK r \in Execution : r = [e EXCEPT !.task = e.seen,
                 !.at = IF e.seen = None THEN "fresh" ELSE "release"]
    BY DEF Execution, Places
  <2>2. /\ r.at = IF e.seen = None THEN "fresh" ELSE "release"
        /\ r.seen = e.seen /\ r.task = e.seen
    BY <2>1 DEF Execution
  <2>3. Becomes(w, r)
    BY <1>0, <1>1, <1>3, <2>1 DEF EnterSection, Becomes
  <2>4. /\ Acquire(w) /\ UNCHANGED <<vault, inFlight, vaultTaskId>>
    BY <1>3 DEF EnterSection, taskVars
  <2>5. NetSafe'
    BY <1>0, <2>4, QuietSafe
  <2>6. ExecSafe(r)'
    BY <1>1, <2>2, <2>4, <2>5 DEF ExecSafe
  <2>7. LockInv'
    BY <1>0, <2>2, <2>3, <2>4, LockKept DEF Section
  <2>8. QED
    BY <1>0, <2>3, <2>4, <2>5, <2>6, <2>7, SafeMove
<1>4. CASE FreshRead(w)
  <2>1. PICK r \in Execution : r = [e EXCEPT !.task = vaultTaskId,
                 !.at = IF vaultTaskId = None THEN "lock" ELSE "release"]
    BY <1>0 DEF Execution, Places, DbOK
  <2>2. /\ r.at = IF vaultTaskId = None THEN "lock" ELSE "release"
        /\ r.seen = e.seen /\ r.task = vaultTaskId
    BY <2>1 DEF Execution
  <2>3. Becomes(w, r)
    BY <1>0, <1>1, <1>4, <2>1 DEF FreshRead, Becomes
  <2>4. e.at = "fresh" /\ UNCHANGED <<vault, inFlight, holder, orphaned, vaultTaskId>>
    BY <1>1, <1>4 DEF FreshRead, At, signerVars, taskVars
  <2>5. NetSafe'
    BY <1>0, <2>4, QuietSafe
  <2>6. ExecSafe(r)'
    BY <1>1, <2>2, <2>4, <2>5 DEF ExecSafe
  <2>7. LockInv'
    BY <1>0, <1>1, <2>2, <2>3, <2>4, LockKept DEF Section
  <2>8. QED
    BY <1>0, <2>3, <2>4, <2>5, <2>6, <2>7, SafeMove
<1>5. CASE SubmitLock(w) \/ SubmitRelease(w)
  <2>1. ASSUME NEW tx, NEW place \in {"locking", "releasing"}, Submit(tx), Goto(w, place),
               place = "locking" => e.at = "lock" /\ tx.op = "lock",
               place = "releasing" => e.at = "release" /\ tx.task = e.task,
               UNCHANGED <<holder, orphaned, vaultTaskId>>
        PROVE  SafeInv'
    <3>1. PICK r \in Execution : /\ Becomes(w, r) /\ r.at = place
                                 /\ r.seen = e.seen /\ r.task = e.task
      BY <1>0, <1>1, <2>1, GotoRun DEF Places
    <3>2. UNCHANGED vault /\ inFlight' = inFlight \cup {tx}
      BY <2>1 DEF Submit
    <3>3. NetSafe'
      BY <1>0, <1>1, <2>1, <3>2 DEF NetSafe, ExecSafe
    <3>4. ExecSafe(r)'
      BY <1>1, <2>1, <3>1 DEF ExecSafe
    <3>5. LockInv'
      BY <1>0, <1>1, <2>1, <3>1, LockKept DEF Section
    <3>6. QED
      BY <1>0, <2>1, <3>1, <3>3, <3>4, <3>5, SafeMove
  <2>2. CASE SubmitLock(w)
    <3>1. LockTx(w).op = "lock"
      BY DEF LockTx
    <3>2. QED
      BY <1>1, <2>1, <2>2, <3>1 DEF SubmitLock, At, taskVars
  <2>3. CASE SubmitRelease(w)
    <3>1. ReleaseTx(w, e.task, e.step).task = e.task
      BY DEF ReleaseTx
    <3>2. QED
      BY <1>1, <2>1, <2>3, <3>1 DEF SubmitRelease, At, taskVars
  <2>4. QED
    BY <1>5, <2>2, <2>3
<1>6. CASE LockLands(w)
  <2>1. /\ e.at = "locking" /\ Lands(w) /\ UNCHANGED <<holder, orphaned, vaultTaskId>>
        /\ run' = [run EXCEPT ![w] = [e EXCEPT !.task = Len(vault) + 1, !.at = "save"]]
    BY <1>0, <1>1, <1>6 DEF LockLands, At, taskVars
  <2>2. PICK tx \in Waiting(w) : Accepts(tx) /\ vault' = Applied(tx) /\ inFlight' = {}
    BY <2>1 DEF Lands
  <2>3. tx \in inFlight /\ tx.by = w
    BY <2>2 DEF Waiting
  <2>4. tx.op = "lock" /\ tx \in Tx
    BY <1>0, <1>1, <2>1, <2>3, NetTypes, NoneDiffers DEF TxOK, Own, LockTx
  <2>5. NetSafe'
    BY <1>0, <2>1, <2>2, <2>3, AppliedSafe
  <2>6. PICK n \in TaskIds : n = Len(vault) + 1
    BY <1>0, <2>2, <2>4, NetTypes, SignerAssumption DEF Accepts, TaskIds
  <2>7. PICK r \in Execution : r = [e EXCEPT !.task = n, !.at = "save"]
    BY DEF Execution, Places
  <2>8. r.at = "save" /\ r.seen = e.seen
    BY <2>7 DEF Execution
  <2>9. Becomes(w, r)
    BY <2>1, <2>6, <2>7 DEF Becomes
  <2>10. ExecSafe(r)'
    BY <1>1, <2>1, <2>8 DEF ExecSafe
  <2>11. LockInv'
    BY <1>0, <1>1, <2>1, <2>8, <2>9, LockKept DEF Section
  <2>12. QED
    BY <1>0, <2>1, <2>5, <2>9, <2>10, <2>11, SafeMove
<1>7. CASE SaveLock(w)
  <2>1. /\ e.at = "save" /\ vaultTaskId' = e.task /\ Goto(w, "release")
        /\ UNCHANGED <<vault, inFlight, holder, orphaned>>
    BY <1>1, <1>7 DEF SaveLock, At, signerVars
  <2>2. vaultTaskId = None
    BY <1>1, <2>1 DEF ExecSafe
  <2>3. PICK r \in Execution : /\ Becomes(w, r) /\ r.at = "release"
                               /\ r.seen = e.seen /\ r.task = e.task
    BY <1>0, <1>1, <2>1, GotoRun DEF Places
  <2>4. NetSafe'
    <3>1. \A tx \in inFlight : tx.op # "release"
      BY <1>0, <2>2, NoneDiffers DEF NetSafe, NetOK
    <3>2. \A v \in 1..Len(vault) : vault[v].paid = {}
      BY <1>0, <2>2, NoneDiffers DEF NetSafe
    <3>3. QED
      BY <2>1, <3>1, <3>2 DEF NetSafe
  <2>5. run'[w] = r /\ \A y \in Signers : y # w => run'[y] = run[y]
    BY <2>3, Becoming
  <2>6. ExecSafe(run[w])'
    BY <1>1, <2>1, <2>2, <2>3, <2>5 DEF ExecSafe
  <2>7. ASSUME NEW y \in Signers, y # w PROVE ExecSafe(run[y])'
    <3>1. holder = w
      BY <1>0, <1>1, <2>1 DEF LockInv, Section
    <3>2. run[y].at \notin Section
      BY <1>0, <2>7, <3>1 DEF LockInv
    <3>3. ExecSafe(run[y]) /\ run'[y] = run[y]
      BY <2>5, <2>7 DEF SafeInv
    <3>4. QED
      BY <2>2, <2>4, <3>2, <3>3 DEF ExecSafe, Section
  <2>8. LockInv'
    BY <1>0, <1>1, <2>1, <2>3, LockKept DEF Section
  <2>9. QED
    BY <1>0, <2>1, <2>4, <2>6, <2>7, <2>8 DEF SafeInv
<1>8. CASE ReleaseLands(w)
  <2>1. /\ e.at = "releasing" /\ Lands(w) /\ Leave(w) /\ Goto(w, "record")
        /\ UNCHANGED vaultTaskId
    BY <1>1, <1>8 DEF ReleaseLands, At, taskVars
  <2>2. PICK tx \in Waiting(w) : Accepts(tx) /\ vault' = Applied(tx) /\ inFlight' = {}
    BY <2>1 DEF Lands
  <2>3. NetSafe'
    BY <1>0, <2>1, <2>2, AppliedSafe DEF Waiting
  <2>4. PICK r \in Execution : Becomes(w, r) /\ r.at = "record" /\ r.seen = e.seen
    BY <1>0, <1>1, <2>1, GotoRun DEF Places
  <2>5. r.at \in Outside
    BY <2>4 DEF Outside, Section, Places
  <2>6. QED
    BY <1>1, <2>1, <2>3, <2>4, <2>5, SafeOutside
<1>9. CASE Record(w) \/ FailCheck(w) \/ FailTask(w)
  <2>1. PICK place \in {"fail", "finRead"} :
          /\ Goto(w, place) /\ e.at \notin Section
          /\ UNCHANGED <<vault, inFlight, holder, orphaned, vaultTaskId>>
    <3>1. CASE Record(w)
      BY <1>0, <1>1, <3>1 DEF Record, At, Section, ExecSafe, signerVars, taskVars
    <3>2. CASE FailCheck(w) \/ FailTask(w)
      BY <1>0, <1>1, <3>2 DEF FailCheck, FailTask, At, Section, signerVars, taskVars
    <3>3. QED
      BY <1>9, <3>1, <3>2
  <2>2. PICK r \in Execution : Becomes(w, r) /\ r.at = place /\ r.seen = e.seen
    BY <1>0, <1>1, <2>1, GotoRun DEF Places
  <2>3. r.at \in Outside /\ Retreats(w)
    BY <2>1, <2>2 DEF Outside, Section, Places, Retreats
  <2>4. QED
    BY <1>1, <2>1, <2>2, <2>3, SafeRetreat
<1>10. CASE RejectedByVault(w)
  <2>1. Leave(w) /\ UNCHANGED vaultTaskId
    BY <1>10 DEF RejectedByVault, taskVars
  <2>2. Retreats(w)
    BY <1>10 DEF RejectedByVault, Refused, FailsOnChain, Retreats
  <2>3. PICK place \in {"failCheck", "finRead"} : Goto(w, place)
    BY <1>10 DEF RejectedByVault
  <2>4. PICK r \in Execution : Becomes(w, r) /\ r.at = place /\ r.seen = e.seen
    BY <1>0, <1>1, <2>3, GotoRun DEF Places
  <2>5. r.at \in Outside
    BY <2>4 DEF Outside, Section, Places
  <2>6. QED
    BY <1>0, <1>1, <2>1, <2>2, <2>4, <2>5, SafeRetreat
<1>11. QED
  BY <1>2, <1>3, <1>4, <1>5, <1>6, <1>7, <1>8, <1>9, <1>10 DEF Settle

\* finalizeTaskIfComplete.
LEMMA FinalizeSafe ==
    ASSUME TypeInv, SafeInv, NEW w \in Signers, Finalize(w)
    PROVE  SafeInv'
<1>0. /\ NetOK /\ DbOK /\ RunsOK /\ TxOK
      /\ LockInv /\ NetSafe /\ run \in [Signers -> Execution]
  BY DEF TypeInv, SafeInv, RunsOK
<1>1. PICK e \in Execution : e = run[w] /\ ExecOK(w, e) /\ ExecSafe(e)
  BY <1>0 DEF RunsOK, SafeInv
<1>2. UNCHANGED vaultTaskId
  BY DEF Finalize, FinRead, FinCount, EnterFinal, SubmitComplete, CompleteLands,
         AlreadyComplete, FinUpdate, End, taskVars
<1>3. ASSUME NEW place \in Outside, Goto(w, place), Retreats(w),
             \/ UNCHANGED <<holder, orphaned>> /\ e.at \notin Section
             \/ Leave(w)
      PROVE  SafeInv'
  <2>1. PICK r \in Execution : Becomes(w, r) /\ r.at = place /\ r.seen = e.seen
    BY <1>0, <1>1, <1>3, GotoRun DEF Outside
  <2>2. QED
    BY <1>0, <1>1, <1>2, <1>3, <2>1, SafeRetreat
<1>4. {"end", "finAcquire", "finUpdate"} \subseteq Outside
  BY DEF Outside, Section, Places
<1>5. CASE FinRead(w)
  <2>1. /\ e.at \notin Section /\ UNCHANGED <<holder, orphaned>> /\ Retreats(w)
        /\ \/ run' = [run EXCEPT ![w] = [e EXCEPT !.at = "end"]]
           \/ run' = [run EXCEPT ![w] = [e EXCEPT !.at = "finCount", !.task = vaultTaskId,
                                                  !.owed = Released, !.status = taskStatus]]
    BY <1>0, <1>1, <1>5 DEF FinRead, At, Section, signerVars, Retreats
  <2>2. PICK r \in Execution : /\ run' = [run EXCEPT ![w] = r] /\ r.seen = e.seen
                               /\ r.at \in {"end", "finCount"}
    <3>1. CASE run' = [run EXCEPT ![w] = [e EXCEPT !.at = "end"]]
      <4>1. PICK r \in Execution : r = [e EXCEPT !.at = "end"]
        BY DEF Execution, Places
      <4>2. r.at = "end" /\ r.seen = e.seen
        BY <4>1 DEF Execution
      <4>3. QED
        BY <3>1, <4>1, <4>2
    <3>2. CASE run' = [run EXCEPT ![w] = [e EXCEPT !.at = "finCount", !.task = vaultTaskId,
                                                   !.owed = Released, !.status = taskStatus]]
      <4>1. PICK r \in Execution : r = [e EXCEPT !.at = "finCount", !.task = vaultTaskId,
                                                 !.owed = Released, !.status = taskStatus]
        BY <1>0 DEF Execution, Places, DbOK, Released
      <4>2. r.at = "finCount" /\ r.seen = e.seen
        BY <4>1 DEF Execution
      <4>3. QED
        BY <3>2, <4>1, <4>2
    <3>3. QED
      BY <2>1, <3>1, <3>2
  <2>3. Becomes(w, r) /\ r.at \in Outside
    BY <2>2 DEF Becomes, Outside, Section, Places
  <2>4. QED
    BY <1>0, <1>1, <1>2, <2>1, <2>2, <2>3, SafeRetreat
<1>6. CASE FinCount(w)
  <2>1. PICK place \in {"end", "finAcquire"} : Goto(w, place)
    BY <1>6 DEF FinCount
  <2>2. e.at \notin Section /\ UNCHANGED <<holder, orphaned>> /\ Retreats(w)
    BY <1>1, <1>6 DEF FinCount, At, Section, signerVars, Retreats
  <2>3. QED
    BY <1>3, <1>4, <2>1, <2>2
<1>7. CASE EnterFinal(w)
  <2>1. Acquire(w) /\ UNCHANGED <<vault, inFlight>> /\ Goto(w, "complete")
    BY <1>7 DEF EnterFinal
  <2>2. PICK r \in Execution : Becomes(w, r) /\ r.at = "complete" /\ r.seen = e.seen
    BY <1>0, <1>1, <2>1, GotoRun DEF Places
  <2>3. NetSafe'
    BY <1>0, <1>2, <2>1, QuietSafe
  <2>4. ExecSafe(r)'
    BY <1>1, <1>2, <2>2 DEF ExecSafe
  <2>5. LockInv'
    BY <1>0, <2>1, <2>2, LockKept DEF Section
  <2>6. QED
    BY <1>0, <1>2, <2>2, <2>3, <2>4, <2>5, SafeMove
<1>8. CASE SubmitComplete(w)
  <2>1. /\ e.at = "complete" /\ Submit(CompleteTx(w, e.task)) /\ Goto(w, "completing")
        /\ UNCHANGED <<holder, orphaned>>
    BY <1>1, <1>8 DEF SubmitComplete, At
  <2>2. PICK r \in Execution : Becomes(w, r) /\ r.at = "completing" /\ r.seen = e.seen
    BY <1>0, <1>1, <2>1, GotoRun DEF Places
  <2>3. NetSafe'
    BY <1>0, <1>2, <2>1 DEF NetSafe, Submit, CompleteTx
  <2>4. ExecSafe(r)'
    BY <1>1, <1>2, <2>2 DEF ExecSafe
  <2>5. LockInv'
    BY <1>0, <1>1, <2>1, <2>2, LockKept DEF Section
  <2>6. QED
    BY <1>0, <1>2, <2>2, <2>3, <2>4, <2>5, SafeMove
<1>9. CASE CompleteLands(w)
  <2>1. /\ Lands(w) /\ Leave(w) /\ Goto(w, AfterComplete(w))
    BY <1>9 DEF CompleteLands
  <2>2. PICK tx \in inFlight : Accepts(tx) /\ vault' = Applied(tx) /\ inFlight' = {}
    BY <2>1 DEF Lands, Waiting
  <2>3. NetSafe'
    BY <1>0, <1>2, <2>2, AppliedSafe
  <2>4. PICK r \in Execution : Becomes(w, r) /\ r.at = AfterComplete(w) /\ r.seen = e.seen
    BY <1>0, <1>1, <2>1, GotoRun DEF Places, AfterComplete
  <2>5. r.at \in Outside
    BY <1>4, <2>4 DEF AfterComplete
  <2>6. QED
    BY <1>0, <1>1, <1>2, <2>1, <2>3, <2>4, <2>5, SafeOutside
<1>10. CASE AlreadyComplete(w)
  <2>1. Leave(w) /\ Retreats(w) /\ Goto(w, AfterComplete(w))
    BY <1>10 DEF AlreadyComplete, Refused, Retreats
  <2>2. AfterComplete(w) \in Outside
    BY <1>4 DEF AfterComplete
  <2>3. QED
    BY <1>3, <2>1, <2>2
<1>11. CASE FinUpdate(w)
  <2>1. /\ e.at \notin Section /\ UNCHANGED <<holder, orphaned>> /\ Retreats(w)
        /\ Goto(w, "end")
    BY <1>1, <1>11 DEF FinUpdate, At, Section, signerVars, Retreats
  <2>2. QED
    BY <1>3, <1>4, <2>1
<1>12. CASE End(w)
  <2>1. e.at \notin Section /\ UNCHANGED <<holder, orphaned>> /\ Retreats(w) /\ Stop(w)
    BY <1>1, <1>12 DEF End, At, Section, signerVars, Retreats
  <2>2. Becomes(w, Idle)
    BY <2>1, IdleOK DEF Becomes, Stop
  <2>3. QED
    BY <1>0, <1>1, <1>2, <2>1, <2>2, IdleOutside, SafeRetreat
<1>13. QED
  BY <1>5, <1>6, <1>7, <1>8, <1>9, <1>10, <1>11, <1>12 DEF Finalize

\* What goes wrong leaves the section, or leaves it locked.
LEMMA FailureSafe ==
    ASSUME TypeInv, SafeInv, NEW w \in Signers, Throws(w) \/ Crash(w) \/ CompleteFails(w)
    PROVE  SafeInv'
<1>0. RunsOK
  BY DEF TypeInv, SafeInv
<1>1. CASE Throws(w) \/ Crash(w)
  <2>1. /\ Retreats(w) /\ (Leave(w) \/ Dies(w))
        /\ Stop(w) /\ UNCHANGED vaultTaskId
    BY <1>1 DEF Throws, Abort, Crash, GivesUp, Retreats, taskVars
  <2>2. Becomes(w, Idle)
    BY <2>1, IdleOK DEF Becomes, Stop
  <2>3. QED
    BY <1>0, <2>1, <2>2, IdleOutside, SafeRetreat
<1>2. CASE CompleteFails(w)
  <2>1. Leave(w) /\ Goto(w, "end") /\ UNCHANGED vaultTaskId
    BY <1>2 DEF CompleteFails, taskVars
  <2>2. Retreats(w)
    BY <1>2 DEF CompleteFails, Refused, FailsOnChain, GivesUp, Retreats
  <2>3. PICK r \in Execution : Becomes(w, r) /\ r.at = "end" /\ r.seen = run[w].seen
    BY <1>0, <2>1, GotoRun DEF Places
  <2>4. r.at \in Outside
    BY <2>3 DEF Outside, Section, Places
  <2>5. QED
    BY <1>0, <2>1, <2>2, <2>3, <2>4, SafeRetreat
<1>3. QED
  BY <1>1, <1>2

LEMMA StartSafe ==
    ASSUME TypeInv, SafeInv, NEW w \in Signers,
           \/ \E s \in Steps : Take(w, s)
           \/ \E v \in 1..Len(vault) : SweepPick(w, v)
    PROVE  SafeInv'
<1>1. /\ run[w].at = "idle" /\ UNCHANGED <<vault, inFlight, holder, orphaned>>
      /\ UNCHANGED vaultTaskId
  BY DEF Take, SweepPick, At, signerVars, taskVars
<1>2. PICK r \in Execution : Becomes(w, r) /\ r.at \in {"read", "finAcquire"} /\ r.seen = None
  <2>1. ASSUME NEW s \in Steps, Take(w, s)
        PROVE  \E r \in Execution : Becomes(w, r) /\ r.at = "read" /\ r.seen = None
    <3>1. PICK r \in Execution : r = [Idle EXCEPT !.at = "read", !.step = s]
      BY DEF Idle, Execution, Places
    <3>2. r.at = "read" /\ r.seen = None
      BY <3>1 DEF Idle
    <3>3. QED
      BY <2>1, <3>1, <3>2 DEF Take, Becomes
  <2>2. ASSUME NEW v \in 1..Len(vault), SweepPick(w, v)
        PROVE  \E r \in Execution : Becomes(w, r) /\ r.at = "finAcquire" /\ r.seen = None
    <3>1. v \in TaskIds
      BY NetTypes, SignerAssumption DEF TypeInv, TaskIds
    <3>2. PICK r \in Execution : r = [Idle EXCEPT !.at = "finAcquire", !.task = v]
      BY <3>1 DEF Idle, Execution, Places
    <3>3. r.at = "finAcquire" /\ r.seen = None
      BY <3>2 DEF Idle
    <3>4. QED
      BY <2>2, <3>2, <3>3 DEF SweepPick, Becomes
  <2>3. QED
    BY <2>1, <2>2
<1>3. r.at \in Outside /\ run[w].at \notin Section /\ Retreats(w)
  BY <1>1, <1>2 DEF Outside, Section, Places, Retreats
<1>4. QED
  BY <1>1, <1>2, <1>3, SafeRetreat

\* Nobody moves but the world around the workers.
LEMMA StillSafe ==
    ASSUME SafeInv, UNCHANGED <<run, vaultTaskId>>, LockInv', NetSafe'
    PROVE  SafeInv'
  BY DEF SafeInv, ExecSafe

LEMMA SignerSafe ==
    ASSUME ~LeaseCanExpire, TypeInv, SafeInv, Signer, UNCHANGED restVars
    PROVE  SafeInv'
<1>0. /\ LockInv /\ NetSafe /\ UNCHANGED <<run, vaultTaskId>>
      /\ orphaned \in BOOLEAN
  BY DEF SafeInv, restVars, taskVars, TypeInv, NetOK, SignerTypeOK
<1>1. CASE AbandonedLands
  <2>1. LockInv'
    BY <1>0, <1>1 DEF AbandonedLands, LockInv
  <2>2. PICK tx \in inFlight : vault' = IF Accepts(tx) THEN Applied(tx) ELSE vault
    BY <1>1 DEF AbandonedLands, Waiting
  <2>3. NetSafe'
    BY <1>0, <1>1, <2>2, AppliedSafe, QuietSafe DEF AbandonedLands
  <2>4. QED
    BY <1>0, <2>1, <2>3, StillSafe
<1>2. CASE AbandonedExpires
  <2>1. LockInv'
    BY <1>0, <1>2 DEF AbandonedExpires, LockInv
  <2>2. NetSafe'
    BY <1>0, <1>2, QuietSafe DEF AbandonedExpires
  <2>3. QED
    BY <1>0, <2>1, <2>2, StillSafe
<1>3. CASE LeaseExpires
  <2>1. LockInv'
    BY <1>0, <1>3, NoneDiffers DEF LeaseExpires, LockInv
  <2>2. NetSafe'
    BY <1>0, <1>3, QuietSafe DEF LeaseExpires
  <2>3. QED
    BY <1>0, <2>1, <2>2, StillSafe
<1>4. QED
  BY <1>1, <1>2, <1>3 DEF Signer

LEMMA WorldSafe ==
    ASSUME TypeInv, SafeInv,
           \/ \E s \in Steps : Queue(s) \/ Stall(s) \/ Accept(s) \/ Park(s) \/ Reject(s)
           \/ \E v \in 1..Len(vault), state \in {"closed", "disputed"} : Intervene(v, state)
           \/ UNCHANGED vars
    PROVE  SafeInv'
<1>0. /\ LockInv /\ NetSafe /\ NetOK
  BY DEF SafeInv, TypeInv
<1>1. UNCHANGED <<run, vaultTaskId, inFlight, holder, orphaned>>
  BY DEF Queue, ExhaustedRead, ExhaustedMark, Stall, Accept, Park, Reject, Intervene, vars,
         signerVars, taskVars
<1>2. LockInv'
  BY <1>0, <1>1 DEF LockInv
<1>3. CASE UNCHANGED vault
  BY <1>0, <1>1, <1>2, <1>3, QuietSafe, StillSafe
<1>4. ASSUME NEW v \in 1..Len(vault), NEW state \in {"closed", "disputed"}, Intervene(v, state)
      PROVE  SafeInv'
  <2>1. /\ Len(vault') = Len(vault)
        /\ \A x \in 1..Len(vault) : vault'[x].paid = vault[x].paid
    BY <1>0, <1>4, IntervenesVault DEF Intervene
  <2>2. NetSafe'
    BY <1>0, <1>1, <2>1 DEF NetSafe
  <2>3. QED
    BY <1>1, <1>2, <2>2, StillSafe
<1>5. QED
  BY <1>3, <1>4 DEF Queue, ExhaustedRead, ExhaustedMark, Stall, Accept, Park, Reject, vars, signerVars

LEMMA SafeInit == Init => SafeInv
<1> SUFFICES ASSUME Init PROVE SafeInv
  OBVIOUS
<1>1. LockInv
  BY NoneDiffers DEF Init, LockInv, Idle, Section
<1>2. \A w \in Signers : ExecSafe(run[w])
  BY DEF Init, ExecSafe, Idle
<1>3. NetSafe
  <2>1. CASE Payment
    BY <2>1 DEF Init, NetSafe, Payment
  <2>2. CASE Hire
    BY <2>2 DEF Init, NetSafe, Hire
  <2>3. QED
    BY <2>1, <2>2 DEF Init
<1>4. QED
  BY <1>1, <1>2, <1>3 DEF SafeInv

LEMMA SafeNext == ~LeaseCanExpire /\ TypeInv /\ SafeInv /\ [Next]_vars => SafeInv'
<1> SUFFICES ASSUME ~LeaseCanExpire, TypeInv, SafeInv, [Next]_vars PROVE SafeInv'
  OBVIOUS
<1>1. ASSUME NEW w \in Signers, Execute(w) \/ Crash(w) PROVE SafeInv'
  BY <1>1, SettleSafe, FinalizeSafe, FailureSafe DEF Execute
<1>2. ASSUME NEW w \in Workers, NEW s \in Steps, Take(w, s) PROVE SafeInv'
  BY <1>2, StartSafe DEF Workers
<1>3. ASSUME NEW w \in Sweepers, NEW v \in 1..Len(vault), SweepPick(w, v) PROVE SafeInv'
  BY <1>3, StartSafe, SettlementAssumption
<1>4. QED
  BY <1>1, <1>2, <1>3, SignerSafe, WorldSafe DEF Next

LEMMA AlwaysSafe == ASSUME ~LeaseCanExpire PROVE Spec => [](TypeInv /\ SafeInv)
<1>1. Init => TypeInv /\ SafeInv
  BY TypeInit, SafeInit
<1>2. TypeInv /\ SafeInv /\ [Next]_vars => (TypeInv /\ SafeInv)'
  BY TypeNext, SafeNext
<1>3. QED
  BY <1>1, <1>2, PTL DEF Spec

\* settleStep may lock a budget twice after a crash, but pays a step under one
\* vault task only: whatever is paid, and whatever release is in flight, is under
\* the vault task the row names, and the row never changes its mind.
THEOREM StepsPaidOnce == ASSUME ~LeaseCanExpire PROVE Spec => []PaidOnce
<1>1. SafeInv => PaidOnce
  BY DEF SafeInv, NetSafe, PaidOnce
<1>2. QED
  BY <1>1, AlwaysSafe, PTL

\* What recoverOrphanLocks completes has paid nothing and will pay nothing.
THEOREM OrphansNeverPay == ASSUME ~LeaseCanExpire PROVE Spec => []OrphansUnpaid
<1>1. SafeInv => OrphansUnpaid
  BY DEF SafeInv, NetSafe, OrphansUnpaid
<1>2. QED
  BY <1>1, AlwaysSafe, PTL

\* Once a task row names a vault task it names it for ever: of two workers that
\* both found the row empty the second looks again inside the lock, so the vault
\* task that steps are paid under is never replaced in the row by another.
THEOREM RowKeepsItsTask ==
    ASSUME ~LeaseCanExpire
    PROVE  Spec => [][vaultTaskId # None => vaultTaskId' = vaultTaskId]_vars
<1>1. TypeInv /\ SafeInv /\ [Next]_vars => [vaultTaskId # None => vaultTaskId' = vaultTaskId]_vars
  <2> SUFFICES ASSUME SafeInv, Next, vaultTaskId # None PROVE vaultTaskId' = vaultTaskId
    BY DEF vars
  <2>1. ASSUME NEW w \in Signers, Settle(w) PROVE UNCHANGED vaultTaskId
    <3>1. ~SaveLock(w)
      BY DEF SaveLock, At, SafeInv, ExecSafe
    <3>2. QED
      BY <2>1, <3>1 DEF Settle, ReadStep, EnterSection, FreshRead, SubmitLock, LockLands,
         SubmitRelease, ReleaseLands, Record, RejectedByVault, FailCheck, FailTask, taskVars
  <2>2. ASSUME NEW w \in Signers, Finalize(w) PROVE UNCHANGED vaultTaskId
    BY <2>2 DEF Finalize, FinRead, FinCount, EnterFinal, SubmitComplete, CompleteLands,
       AlreadyComplete, FinUpdate, End, taskVars
  <2>3. ASSUME NEW w \in Signers, Throws(w) \/ Crash(w) \/ CompleteFails(w)
        PROVE  UNCHANGED vaultTaskId
    BY <2>3 DEF Throws, Abort, Crash, CompleteFails, taskVars
  <2>4. QED
    BY <2>1, <2>2, <2>3 DEF Next, Execute, Take, SweepPick, Queue, ExhaustedRead, ExhaustedMark,
       Stall, Accept, Park, Reject, Intervene, restVars, taskVars
<1>2. QED
  BY <1>1, AlwaysSafe, PTL DEF Spec

-----------------------------------------------------------------------------
\* Finalization, which takes a step that waits for its buyer for one that is over:
\* finalizeTaskIfComplete does not count such a step as open.

\* Every step that no finalization passed over has ended, and payments are as many
\* as the released ones of them.
Ended == \A s \in Steps \ passed : stepStatus[s] \in {"RELEASED", "FAILED"}
Owed == Released \ passed
Settled == Ended /\ Cardinality(Owed) <= Cardinality(recorded)
Closing == {"finAcquire", "complete", "completing", "finUpdate"}

\* A worker settles a released step, counts with all that is owed in hand, and
\* closes the task only once it is settled.
ExecFinal(w, r) ==
    w \notin Sweepers =>
        /\ r.at # "idle" => stepStatus[r.step] = "RELEASED"
        /\ r.at = "finCount" => Ended /\ Owed \subseteq r.owed /\ r.owed \subseteq Steps
        /\ r.at \in Closing => Settled

JobsReleased == \A s \in Steps : job[s].state # "none" => stepStatus[s] = "RELEASED"

FinalInv ==
    /\ JobsReleased
    /\ recorded \subseteq Released
    /\ \A w \in Signers : ExecFinal(w, run[w])
    /\ finalized => Settled

\* More payments, and more steps passed over, leave what is settled settled.
LEMMA SettledStays ==
    ASSUME TypeInv, UNCHANGED stepStatus, recorded \subseteq recorded', recorded' \subseteq Released,
           passed \subseteq passed'
    PROVE  (Ended => Ended') /\ Owed' \subseteq Owed /\ (Settled => Settled')
<1>1. Released' = Released /\ Owed' \subseteq Owed /\ Released \subseteq Steps
  BY DEF Released, Owed
<1>2. IsFiniteSet(Released) /\ IsFiniteSet(Owed) /\ IsFiniteSet(recorded')
  BY <1>1, SettlementAssumption, FS_Subset DEF Owed
<1>3. /\ Cardinality(Owed') <= Cardinality(Owed)
      /\ Cardinality(recorded) <= Cardinality(recorded')
      /\ IsFiniteSet(Owed') /\ IsFiniteSet(recorded)
  BY <1>1, <1>2, FS_Subset
<1>4. /\ Cardinality(Owed') \in Nat /\ Cardinality(Owed) \in Nat
      /\ Cardinality(recorded) \in Nat /\ Cardinality(recorded') \in Nat
  BY <1>2, <1>3, FS_CardinalityType
<1>5. Ended => Ended'
  BY DEF Ended
<1>6. QED
  BY <1>1, <1>3, <1>4, <1>5 DEF Settled

\* One execution moves.
LEMMA FinalMove ==
    ASSUME TypeInv, FinalInv, NEW w \in Signers, NEW r, run' = [run EXCEPT ![w] = r],
           UNCHANGED stepStatus, recorded \subseteq recorded', recorded' \subseteq Released,
           passed \subseteq passed', ExecFinal(w, r)', JobsReleased',
           finalized' => finalized \/ Settled
    PROVE  FinalInv'
<1>1. run'[w] = r /\ \A y \in Signers : y # w => run'[y] = run[y]
  BY DEF TypeInv, RunsOK
<1>2. Released' = Released /\ (Ended => Ended') /\ Owed' \subseteq Owed /\ (Settled => Settled')
  BY SettledStays DEF Released
<1>3. ASSUME NEW y \in Signers, y # w PROVE ExecFinal(y, run[y])'
  BY <1>1, <1>2, <1>3 DEF FinalInv, ExecFinal
<1>4. finalized' => Settled'
  BY <1>2 DEF FinalInv
<1>5. QED
  BY <1>1, <1>2, <1>3, <1>4 DEF FinalInv

\* It goes on with its step, or stops, and closes nothing new.
LEMMA FinalPlain ==
    ASSUME TypeInv, FinalInv, NEW w \in Signers, NEW r, run' = [run EXCEPT ![w] = r],
           UNCHANGED <<stepStatus, finalized, passed>>,
           recorded' \in {recorded, recorded \cup {run[w].step}},
           recorded' # recorded => w \notin Sweepers /\ run[w].at # "idle",
           JobsReleased',
           w \notin Sweepers => \/ r.at = "idle"
                                \/ run[w].at # "idle" /\ r.step = run[w].step,
           r.at # "finCount", r.at \in Closing => run[w].at \in Closing
    PROVE  FinalInv'
<1>1. ExecFinal(w, run[w]) /\ recorded \subseteq Released
      /\ Released' = Released
  BY DEF FinalInv, Released
<1>2. recorded' \subseteq Released
  <2>1. CASE recorded' # recorded
    <3>1. run[w].step \in Steps
      BY <2>1 DEF TypeInv, RunsOK, ExecOK
    <3>2. stepStatus[run[w].step] = "RELEASED"
      BY <1>1, <2>1 DEF ExecFinal
    <3>3. QED
      BY <1>1, <3>1, <3>2 DEF Released
  <2>2. QED
    BY <1>1, <2>1
<1>3. recorded \subseteq recorded' /\ (Settled => Settled')
  BY <1>2, SettledStays
<1>4. ExecFinal(w, r)'
  BY <1>1, <1>3 DEF ExecFinal
<1>5. QED
  BY <1>2, <1>3, <1>4, FinalMove

LEMMA SetJobFinal ==
    ASSUME TypeInv, FinalInv, NEW w \in Signers, w \notin Sweepers, run[w].at # "idle",
           NEW j, SetJob(w, j), UNCHANGED stepStatus
    PROVE  JobsReleased'
<1>1. run[w].step \in Steps /\ stepStatus[run[w].step] = "RELEASED"
  BY DEF TypeInv, RunsOK, ExecOK, FinalInv, ExecFinal
<1>2. job' = job \/ job' = [job EXCEPT ![run[w].step] = j]
  BY DEF SetJob
<1>3. job \in [Steps -> Job] /\ JobsReleased
  BY DEF TypeInv, QueueOK, FinalInv
<1>4. QED
  BY <1>1, <1>2, <1>3 DEF JobsReleased

LEMMA JobsStay == JobsReleased /\ UNCHANGED <<job, stepStatus>> => JobsReleased'
  BY DEF JobsReleased

LEMMA SettleFinal ==
    ASSUME TypeInv, FinalInv, NEW w \in Signers, Settle(w)
    PROVE  FinalInv'
<1>0. RunsOK /\ run \in [Signers -> Execution] /\ JobsReleased
  BY DEF TypeInv, RunsOK, FinalInv
<1>1. PICK e \in Execution : e = run[w] /\ ExecOK(w, e)
  BY <1>0 DEF RunsOK
<1>2. e.at \in {"read", "acquire", "fresh", "lock", "locking", "save", "release", "releasing",
                "record", "failCheck", "fail"}
  BY <1>1 DEF Settle, ReadStep, EnterSection, FreshRead, SubmitLock, LockLands, SaveLock,
     SubmitRelease, ReleaseLands, Record, RejectedByVault, FailCheck, FailTask, At
<1>3. w \notin Sweepers /\ e.at # "idle"
  BY <1>1, <1>2 DEF ExecOK, Sweeping
<1>4. /\ UNCHANGED <<stepStatus, finalized, passed, job>>
      /\ recorded' \in {recorded, recorded \cup {e.step}}
  BY <1>1 DEF Settle, ReadStep, EnterSection, FreshRead, SubmitLock, LockLands, SaveLock,
     SubmitRelease, ReleaseLands, Record, RejectedByVault, FailCheck, FailTask, taskVars
<1>5. JobsReleased'
  BY <1>0, <1>4, JobsStay
<1>6. ASSUME NEW r, run' = [run EXCEPT ![w] = r], r.step = e.step,
             r.at \notin Closing \cup {"finCount"}
      PROVE  FinalInv'
  BY <1>1, <1>3, <1>4, <1>5, <1>6, FinalPlain
<1>7. ASSUME NEW place \in Places \ (Closing \cup {"finCount"}), Goto(w, place)
      PROVE  FinalInv'
  BY <1>0, <1>1, <1>6, <1>7, GotoRun DEF Becomes
<1>8. {"locking", "release", "releasing", "record", "failCheck", "fail", "finRead"}
        \subseteq Places \ (Closing \cup {"finCount"})
  BY DEF Places, Closing
<1>9. CASE ReadStep(w)
  <2>1. PICK r : r = [e EXCEPT !.seen = vaultTaskId,
                               !.at = IF e.step \in recorded THEN "finRead" ELSE "acquire"]
    OBVIOUS
  <2>2. r.at \in {"finRead", "acquire"} /\ r.step = e.step
    BY <2>1 DEF Execution
  <2>3. run' = [run EXCEPT ![w] = r]
    BY <1>0, <1>1, <1>9, <2>1 DEF ReadStep
  <2>4. QED
    BY <1>6, <2>2, <2>3 DEF Closing
<1>10. CASE EnterSection(w)
  <2>1. PICK r : r = [e EXCEPT !.task = e.seen,
                               !.at = IF e.seen = None THEN "fresh" ELSE "release"]
    OBVIOUS
  <2>2. r.at \in {"fresh", "release"} /\ r.step = e.step
    BY <2>1 DEF Execution
  <2>3. run' = [run EXCEPT ![w] = r]
    BY <1>0, <1>1, <1>10, <2>1 DEF EnterSection
  <2>4. QED
    BY <1>6, <2>2, <2>3 DEF Closing
<1>11. CASE FreshRead(w)
  <2>1. PICK r : r = [e EXCEPT !.task = vaultTaskId,
                               !.at = IF vaultTaskId = None THEN "lock" ELSE "release"]
    OBVIOUS
  <2>2. r.at \in {"lock", "release"} /\ r.step = e.step
    BY <2>1 DEF Execution
  <2>3. run' = [run EXCEPT ![w] = r]
    BY <1>0, <1>1, <1>11, <2>1 DEF FreshRead
  <2>4. QED
    BY <1>6, <2>2, <2>3 DEF Closing
<1>12. CASE LockLands(w)
  <2>1. PICK r : r = [e EXCEPT !.task = Len(vault) + 1, !.at = "save"]
    OBVIOUS
  <2>2. r.at = "save" /\ r.step = e.step
    BY <2>1 DEF Execution
  <2>3. run' = [run EXCEPT ![w] = r]
    BY <1>0, <1>1, <1>12, <2>1 DEF LockLands
  <2>4. QED
    BY <1>6, <2>2, <2>3 DEF Closing
<1>13. QED
  BY <1>7, <1>8, <1>9, <1>10, <1>11, <1>12 DEF Settle, SubmitLock, SaveLock, SubmitRelease,
     ReleaseLands, Record, RejectedByVault, FailCheck, FailTask

\* As many payments as what was owed when the steps were read, or more: settled,
\* although some of the payments may be of steps that were passed over.
LEMMA CountSettles ==
    ASSUME TypeInv, Ended, NEW owed \in SUBSET Steps, Owed \subseteq owed,
           recorded \subseteq Released, ~(Cardinality(recorded) < Cardinality(owed))
    PROVE  Settled
<1>1. IsFiniteSet(owed) /\ IsFiniteSet(Released)
  BY SettlementAssumption, FS_Subset DEF Released
<1>2. /\ IsFiniteSet(Owed) /\ Cardinality(Owed) <= Cardinality(owed)
      /\ IsFiniteSet(recorded)
  BY <1>1, FS_Subset
<1>3. Cardinality(owed) \in Nat /\ Cardinality(Owed) \in Nat /\ Cardinality(recorded) \in Nat
  BY <1>1, <1>2, FS_CardinalityType
<1>4. QED
  BY <1>2, <1>3 DEF Settled

\* What is settled leaves no more released steps without a payment than were passed
\* over.
LEMMA SettledMeans ==
    ASSUME TypeInv, recorded \subseteq Released, Settled
    PROVE  Cardinality(Released \ recorded) <= Cardinality(passed)
<1>1. /\ IsFiniteSet(Released) /\ IsFiniteSet(passed) /\ IsFiniteSet(recorded)
      /\ IsFiniteSet(Owed) /\ IsFiniteSet(Released \ recorded)
  <2>1. IsFiniteSet(Released) /\ IsFiniteSet(passed)
    BY SettlementAssumption, FS_Subset DEF Released, TypeInv, DbOK
  <2>2. QED
    BY <2>1, FS_Subset DEF Owed
<1>2. /\ Cardinality(Released \ recorded) \in Nat /\ Cardinality(recorded) \in Nat
      /\ Cardinality(Released) \in Nat /\ Cardinality(Owed) \in Nat
      /\ Cardinality(passed) \in Nat /\ Cardinality(Owed \cap passed) \in Nat
      /\ Cardinality(Owed \cup passed) \in Nat
  <2>1. IsFiniteSet(Owed \cup passed) /\ IsFiniteSet(Owed \cap passed)
    BY <1>1, FS_Union, FS_Intersection
  <2>2. QED
    BY <1>1, <2>1, FS_CardinalityType
<1>3. Cardinality(Released) <= Cardinality(Owed) + Cardinality(passed)
  <2>1. Released \subseteq Owed \cup passed /\ IsFiniteSet(Owed \cup passed)
    BY <1>1, FS_Union DEF Owed
  <2>2. Cardinality(Released) <= Cardinality(Owed \cup passed)
    BY <2>1, FS_Subset
  <2>3. Cardinality(Owed \cup passed)
          = Cardinality(Owed) + Cardinality(passed) - Cardinality(Owed \cap passed)
    BY <1>1, FS_Union
  <2>4. QED
    BY <1>2, <2>2, <2>3
<1>4. Cardinality(Released \ recorded) = Cardinality(Released) - Cardinality(recorded)
  <2>1. Released \cap recorded = recorded
    OBVIOUS
  <2>2. Cardinality(Released \ recorded)
          = Cardinality(Released) - Cardinality(Released \cap recorded)
    BY <1>1, FS_Difference
  <2>3. QED
    BY <2>1, <2>2
<1>5. QED
  BY <1>2, <1>3, <1>4 DEF Settled

LEMMA FinalizeFinal ==
    ASSUME TypeInv, FinalInv, NEW w \in Signers, Finalize(w)
    PROVE  FinalInv'
<1>0. RunsOK /\ run \in [Signers -> Execution] /\ JobsReleased
  BY DEF TypeInv, RunsOK, FinalInv
<1>1. PICK e \in Execution : e = run[w] /\ ExecOK(w, e) /\ ExecFinal(w, e)
  BY <1>0 DEF RunsOK, FinalInv
<1>2. /\ UNCHANGED <<stepStatus, recorded>>
      /\ e.at # "idle"
  BY <1>1 DEF Finalize, FinRead, FinCount, EnterFinal, SubmitComplete, CompleteLands,
     AlreadyComplete, FinUpdate, End, At
<1>3. ASSUME NEW place \in Places, Goto(w, place), UNCHANGED <<job, finalized, passed>>,
             place # "finCount", place \in Closing => e.at \in Closing, place # "idle"
      PROVE  FinalInv'
  <2>1. PICK r : run' = [run EXCEPT ![w] = r] /\ r.at = place /\ r.step = e.step
    BY <1>0, <1>1, <1>3, GotoRun DEF Becomes
  <2>2. JobsReleased'
    BY <1>0, <1>2, <1>3, JobsStay
  <2>3. QED
    BY <1>1, <1>2, <1>3, <2>1, <2>2, FinalPlain
<1>4. CASE FinRead(w)
  <2>1. e.at = "finRead" /\ UNCHANGED <<job, finalized>>
    BY <1>1, <1>4 DEF FinRead, At
  <2>2. CASE ~Due
    <3>1. Goto(w, "end") /\ UNCHANGED passed
      BY <1>0, <1>1, <1>4, <2>2 DEF Goto, FinRead
    <3>2. QED
      BY <1>3, <2>1, <3>1 DEF Places, Closing
  <2>3. CASE Due
    <3>1. PICK r : r = [e EXCEPT !.at = "finCount", !.task = vaultTaskId,
                                 !.owed = Released, !.status = taskStatus]
      OBVIOUS
    <3>2. r.at = "finCount" /\ r.step = e.step /\ r.owed = Released
      BY <3>1 DEF Execution
    <3>3. run' = [run EXCEPT ![w] = r] /\ passed' = passed \cup Asking
      BY <1>1, <1>4, <2>3, <3>1 DEF FinRead
    <3>4. Ended'
      BY <1>2, <2>3, <3>3 DEF Due, Asking, TypeInv, DbOK, Ended, NonTerminalStep
    <3>5. Owed' \subseteq Released /\ Released' = Released /\ Released \subseteq Steps
      BY <1>2 DEF Owed, Released
    <3>6. ExecFinal(w, r)'
      BY <1>1, <1>2, <3>2, <3>4, <3>5 DEF ExecFinal, Closing
    <3>7. JobsReleased'
      BY <1>0, <1>2, <2>1, JobsStay
    <3>8. recorded \subseteq Released
      BY DEF FinalInv
    <3>9. QED
      BY <1>2, <2>1, <3>3, <3>6, <3>7, <3>8, FinalMove
  <2>4. QED
    BY <2>2, <2>3
<1>5. CASE FinCount(w)
  <2>1. /\ e.at = "finCount" /\ UNCHANGED <<job, finalized, passed>>
        /\ Goto(w, IF Cardinality(recorded) < Cardinality(e.owed) THEN "end" ELSE "finAcquire")
    BY <1>1, <1>5 DEF FinCount, At, taskVars
  <2>2. w \notin Sweepers /\ Ended /\ Owed \subseteq e.owed /\ e.owed \in SUBSET Steps
    BY <1>1, <2>1 DEF ExecOK, Sweeping, ExecFinal
  <2>3. CASE Cardinality(recorded) < Cardinality(e.owed)
    <3>1. Goto(w, "end")
      BY <2>1, <2>3
    <3>2. QED
      BY <1>3, <2>1, <3>1 DEF Places, Closing
  <2>4. CASE ~(Cardinality(recorded) < Cardinality(e.owed))
    <3>1. Settled /\ recorded \subseteq Released
      BY <2>2, <2>4, CountSettles DEF FinalInv
    <3>2. PICK r : run' = [run EXCEPT ![w] = r] /\ r.at = "finAcquire" /\ r.step = e.step
      BY <1>0, <1>1, <2>1, <2>4, GotoRun DEF Becomes, Places
    <3>3. Settled'
      BY <1>2, <2>1, <3>1, SettledStays
    <3>4. ExecFinal(w, r)'
      BY <1>1, <1>2, <2>2, <3>2, <3>3 DEF ExecFinal
    <3>5. JobsReleased'
      BY <1>0, <1>2, <2>1, JobsStay
    <3>6. QED
      BY <1>2, <2>1, <3>1, <3>2, <3>4, <3>5, FinalMove
  <2>5. QED
    BY <2>3, <2>4
<1>6. CASE EnterFinal(w) \/ SubmitComplete(w) \/ CompleteLands(w) \/ AlreadyComplete(w)
  <2>1. PICK place \in {"complete", "completing", "finUpdate", "end"} : Goto(w, place)
    BY <1>6 DEF EnterFinal, SubmitComplete, CompleteLands, AlreadyComplete, AfterComplete
  <2>2. e.at \in Closing /\ UNCHANGED <<job, finalized, passed>>
    BY <1>1, <1>6 DEF EnterFinal, SubmitComplete, CompleteLands, AlreadyComplete, At, Closing,
       taskVars
  <2>3. QED
    BY <1>3, <2>1, <2>2 DEF Places
<1>7. CASE FinUpdate(w)
  <2>1. e.at = "finUpdate" /\ Goto(w, "end") /\ UNCHANGED <<job, passed>>
    BY <1>1, <1>7 DEF FinUpdate, At
  <2>2. Settled /\ stepStatus[e.step] = "RELEASED"
    BY <1>1, <2>1 DEF ExecOK, Sweeping, ExecFinal, Closing
  <2>3. PICK r : run' = [run EXCEPT ![w] = r] /\ r.at = "end" /\ r.step = e.step
    BY <1>0, <1>1, <2>1, GotoRun DEF Becomes, Places
  <2>4. ExecFinal(w, r)'
    BY <1>2, <2>2, <2>3 DEF ExecFinal, Closing
  <2>5. JobsReleased' /\ recorded \subseteq Released
    BY <1>0, <1>2, <2>1, JobsStay DEF FinalInv
  <2>6. QED
    BY <1>2, <2>1, <2>2, <2>3, <2>4, <2>5, FinalMove
<1>8. CASE End(w)
  <2>1. run' = [run EXCEPT ![w] = Idle] /\ UNCHANGED <<finalized, passed>>
    BY <1>8 DEF End, Stop, taskVars
  <2>2. JobsReleased'
    BY <1>0, <1>1, <1>2, <1>8, SetJobFinal, JobsStay DEF End, JobDone
  <2>3. Idle.at = "idle"
    BY DEF Idle
  <2>4. QED
    BY <1>2, <2>1, <2>2, <2>3, FinalPlain DEF Closing
<1>9. QED
  BY <1>4, <1>5, <1>6, <1>7, <1>8 DEF Finalize

LEMMA FailureFinal ==
    ASSUME TypeInv, FinalInv, NEW w \in Signers, Throws(w) \/ Crash(w) \/ CompleteFails(w)
    PROVE  FinalInv'
<1>0. RunsOK /\ JobsReleased
  BY DEF TypeInv, FinalInv
<1>1. CASE Throws(w) \/ Crash(w)
  <2>1. /\ run' = [run EXCEPT ![w] = Idle] /\ UNCHANGED <<stepStatus, recorded, finalized, passed>>
        /\ run[w].at # "idle"
    BY <1>1 DEF Throws, Abort, Crash, Stop, taskVars, At, Breakable
  <2>2. JobsReleased'
    <3>1. CASE Throws(w)
      <4>1. w \notin Sweepers
        BY <1>0, <3>1 DEF RunsOK, ExecOK, Throws, Breakable, Sweeping
      <4>2. QED
        BY <2>1, <3>1, <4>1, SetJobFinal DEF Throws, Abort, JobThrows
    <3>2. CASE Crash(w)
      BY <1>0, <2>1, <3>2, SetJobFinal, JobsStay DEF Crash
    <3>3. QED
      BY <1>1, <3>1, <3>2
  <2>3. Idle.at = "idle"
    BY DEF Idle
  <2>4. QED
    BY <2>1, <2>2, <2>3, FinalPlain DEF Closing
<1>2. CASE CompleteFails(w)
  <2>1. /\ Goto(w, "end") /\ UNCHANGED <<stepStatus, recorded, finalized, passed, job>>
        /\ run[w].at # "idle"
    BY <1>2 DEF CompleteFails, taskVars, At
  <2>2. PICK r : run' = [run EXCEPT ![w] = r] /\ r.at = "end" /\ r.step = run[w].step
    BY <1>0, <2>1, GotoRun DEF Becomes, Places
  <2>3. JobsReleased'
    BY <1>0, <2>1, JobsStay
  <2>4. QED
    BY <2>1, <2>2, <2>3, FinalPlain DEF Closing
<1>3. QED
  BY <1>1, <1>2

LEMMA TakeFinal ==
    ASSUME TypeInv, FinalInv, NEW w \in Workers, NEW s \in Steps, Take(w, s)
    PROVE  FinalInv'
<1>0. /\ w \in Signers /\ w \notin Sweepers /\ JobsReleased /\ job \in [Steps -> Job]
      /\ recorded \subseteq Released
  BY DEF TypeInv, FinalInv, Workers, QueueOK
<1>1. /\ job[s].state = "waiting" /\ UNCHANGED <<stepStatus, recorded, finalized, passed>>
      /\ job' = [job EXCEPT ![s].state = "active", ![s].by = w]
      /\ run' = [run EXCEPT ![w] = [Idle EXCEPT !.at = "read", !.step = s]]
  BY DEF Take, taskVars
<1>2. stepStatus[s] = "RELEASED"
  BY <1>0, <1>1 DEF JobsReleased
<1>3. JobsReleased'
  BY <1>0, <1>1, <1>2 DEF JobsReleased
<1>4. PICK r : r = [Idle EXCEPT !.at = "read", !.step = s]
  OBVIOUS
<1>5. r.at = "read" /\ r.step = s
  BY <1>4 DEF Idle
<1>6. ExecFinal(w, r)'
  BY <1>1, <1>2, <1>5 DEF ExecFinal, Closing
<1>7. QED
  BY <1>0, <1>1, <1>3, <1>4, <1>6, FinalMove

LEMMA SweepPickFinal ==
    ASSUME TypeInv, FinalInv, NEW w \in Sweepers, NEW v \in 1..Len(vault), SweepPick(w, v)
    PROVE  FinalInv'
<1>0. w \in Signers /\ JobsReleased /\ recorded \subseteq Released
  BY SettlementAssumption DEF FinalInv
<1>1. /\ UNCHANGED <<stepStatus, recorded, finalized, passed, job>>
      /\ run' = [run EXCEPT ![w] = [Idle EXCEPT !.at = "finAcquire", !.task = v]]
  BY DEF SweepPick, taskVars
<1>2. JobsReleased'
  BY <1>0, <1>1, JobsStay
<1>3. PICK r : r = [Idle EXCEPT !.at = "finAcquire", !.task = v]
  OBVIOUS
<1>4. ExecFinal(w, r)'
  BY DEF ExecFinal
<1>5. QED
  BY <1>0, <1>1, <1>2, <1>3, <1>4, FinalMove

\* Nothing moves but a job of a released step.
LEMMA QueueFinal ==
    ASSUME TypeInv, FinalInv, UNCHANGED <<stepStatus, recorded, finalized, passed, run>>,
           \/ UNCHANGED job
           \/ \E s \in Steps : Queue(s) \/ Stall(s)
    PROVE  FinalInv'
<1>1. JobsReleased /\ job \in [Steps -> Job]
  BY DEF TypeInv, FinalInv, QueueOK
<1>2. JobsReleased'
  <2>1. ASSUME NEW s \in Steps, Queue(s) \/ Stall(s) PROVE JobsReleased'
    <3>1. stepStatus[s] = "RELEASED"
      BY <1>1, <2>1 DEF JobsReleased, Queue, ExhaustedRead, ExhaustedMark, Stall
    <3>2. \A x \in Steps : x # s => job'[x] = job[x]
      BY <1>1, <2>1 DEF Queue, ExhaustedRead, ExhaustedMark, Stall
    <3>3. QED
      BY <1>1, <3>1, <3>2 DEF JobsReleased
  <2>2. QED
    BY <1>1, <2>1, JobsStay
<1>3. /\ Released' = Released /\ Owed' = Owed /\ Ended' = Ended /\ Settled' = Settled
  BY DEF Released, Owed, Ended, Settled
<1>4. \A w \in Signers : ExecFinal(w, run[w])'
  BY <1>3 DEF FinalInv, ExecFinal
<1>5. QED
  BY <1>2, <1>3, <1>4 DEF FinalInv

\* A step that is accepted, parked or rejected was open: where everything that was
\* not passed over has ended, it is one that was.
LEMMA AcceptFinal ==
    ASSUME TypeInv, FinalInv, NEW s \in Steps, Accept(s) \/ Park(s) \/ Reject(s)
    PROVE  FinalInv'
<1>0. /\ JobsReleased /\ job \in [Steps -> Job]
      /\ \A w \in Signers : ExecFinal(w, run[w])
      /\ stepStatus \in [Steps -> NonTerminalStep \cup {"INPUT_REQUIRED", "RELEASED", "FAILED"}]
      /\ \A w \in Signers : w \notin Sweepers /\ run[w].at # "idle" => run[w].step \in Steps
  BY DEF TypeInv, FinalInv, QueueOK, DbOK, RunsOK, ExecOK
<1>1. PICK status \in {"RELEASED", "FAILED", "RUNNING", "INPUT_REQUIRED"} :
        /\ stepStatus' = [stepStatus EXCEPT ![s] = status]
        /\ job' # job => status = "RELEASED"
  BY DEF Accept, Park, Reject
<1>2. /\ UNCHANGED <<recorded, finalized, passed, run>>
      /\ stepStatus[s] \notin {"RELEASED", "FAILED"}
      /\ job' = job \/ job' = [job EXCEPT ![s] = Queued]
  BY DEF Accept, Park, Reject, NonTerminalStep, taskVars
<1>3. \A x \in Steps : stepStatus[x] = "RELEASED" => stepStatus'[x] = "RELEASED"
  BY <1>0, <1>1, <1>2
<1>4. Ended => s \in passed
  BY <1>2 DEF Ended
<1>5. Ended => Ended' /\ Owed' = Owed
  BY <1>0, <1>1, <1>2, <1>4 DEF Ended, Owed, Released
<1>6. JobsReleased'
  BY <1>0, <1>1, <1>2, <1>3 DEF JobsReleased
<1>7. recorded' \subseteq Released'
  BY <1>2, <1>3 DEF FinalInv, Released
<1>8. \A w \in Signers : ExecFinal(w, run[w])'
  BY <1>0, <1>2, <1>3, <1>5 DEF ExecFinal, Settled
<1>9. finalized' => Settled'
  BY <1>2, <1>5 DEF FinalInv, Settled
<1>10. QED
  BY <1>6, <1>7, <1>8, <1>9 DEF FinalInv

LEMMA FinalInit == Init => FinalInv
  BY DEF Init, FinalInv, JobsReleased, NoJob, ExecFinal, Idle, Closing

LEMMA FinalNext == TypeInv /\ FinalInv /\ [Next]_vars => FinalInv'
<1> SUFFICES ASSUME TypeInv, FinalInv, [Next]_vars PROVE FinalInv'
  OBVIOUS
<1>1. ASSUME NEW w \in Signers, Execute(w) \/ Crash(w) PROVE FinalInv'
  BY <1>1, SettleFinal, FinalizeFinal, FailureFinal DEF Execute
<1>2. CASE UNCHANGED <<stepStatus, recorded, finalized, passed, run, job>>
  BY <1>2, QueueFinal
<1>3. ASSUME NEW s \in Steps, Queue(s) \/ Stall(s) PROVE FinalInv'
  <2>1. UNCHANGED <<stepStatus, recorded, finalized, passed, run>>
    BY <1>3 DEF Queue, ExhaustedRead, ExhaustedMark, Stall, taskVars
  <2>2. QED
    BY <1>3, <2>1, QueueFinal
<1>4. CASE UNCHANGED vars
  BY <1>2, <1>4 DEF vars, taskVars
<1>5. CASE Signer /\ UNCHANGED restVars
  BY <1>2, <1>5 DEF restVars, taskVars
<1>6. ASSUME NEW v \in 1..Len(vault), NEW state \in {"closed", "disputed"}, Intervene(v, state)
      PROVE  FinalInv'
  BY <1>2, <1>6 DEF Intervene, taskVars
<1>7. QED
  BY <1>1, <1>3, <1>4, <1>5, <1>6, TakeFinal, SweepPickFinal, AcceptFinal DEF Next

\* Counting payment rows against released steps, which are read at different
\* times, is enough for every step that no finalization passed over: all of them
\* have ended when the task is finalized, and no more released steps are left
\* without a payment than were passed over while they waited for their buyer.
THEOREM FinalizationIsSound == Spec => []FinalizedMeansSettled
<1>1. Init => TypeInv /\ FinalInv
  BY TypeInit, FinalInit
<1>2. TypeInv /\ FinalInv /\ [Next]_vars => (TypeInv /\ FinalInv)'
  BY TypeNext, FinalNext
<1>3. TypeInv /\ FinalInv => FinalizedMeansSettled
  BY SettledMeans DEF FinalInv, FinalizedMeansSettled, Settled, Ended
<1>4. QED
  BY <1>1, <1>2, <1>3, PTL DEF Spec
=============================================================================
