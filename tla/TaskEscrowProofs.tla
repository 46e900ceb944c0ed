-------------------------- MODULE TaskEscrowProofs ---------------------------
(***************************************************************************)
(* Proofs about the task lane of the vault for every value of its          *)
(* constants: type correctness, no account or task is ever overdrawn, the  *)
(* reverse lookup is sound, proof-gated tasks pay only with a proof, and   *)
(* the contract's books implement FundsEscrow.                             *)
(***************************************************************************)
EXTENDS TaskEscrow, TLAPS

\* floor(amount * bps / denominator) lies between nothing and the amount, so
\* neither the payee nor the fee recipient is ever charged.
LEMMA FeeBounds ==
    ASSUME NEW amount \in Nat, fee \in FeeConfig
    PROVE  ComputeFee(amount) \in 0..amount
<1> USE LedgerAssumption
<1>1. CASE fee.recipient = NoAddress
  BY <1>1 DEF ComputeFee
<1>2. CASE fee.recipient # NoAddress
  <2>1. fee.bps \in Nat /\ fee.bps <= FeeDenominator
    BY DEF FeeConfig
  <2>2. DEFINE p == amount * fee.bps
  <2>3. p \in Nat /\ p <= amount * FeeDenominator
    BY <2>1, SMTT(30)
  <2>4. (p \div FeeDenominator) \in Nat
    BY <2>3, SMTT(30)
  <2>5. p \div FeeDenominator <= amount
    BY <2>3, SMTT(30)
  <2>6. QED
    BY <1>2, <2>4, <2>5 DEF ComputeFee
<1>3. QED
  BY <1>1, <1>2

-----------------------------------------------------------------------------
\* Type correctness.

LEMMA InitTypeOK == Init => TypeOK
<1> SUFFICES ASSUME Init PROVE TypeOK
  OBVIOUS
<1> USE LedgerAssumption, EscrowAssumption
<1>1. account \in [Users -> [Assets -> Account]]
  <2>1. NewAccount \in Account
    BY DEF NewAccount, Account
  <2>2. QED
    BY <2>1 DEF Init, LedgerInit
<1>2. fee \in FeeConfig
  BY DEF Init, LedgerInit, FeeConfig
<1>3. now \in 0..MaxTime
  BY DEF Init, LedgerInit
<1>4. LedgerTypeOK
  <2>1. supported \in SUBSET Assets /\ paused \in BOOLEAN
    BY DEF Init, LedgerInit
  <2>2. accruedFees \in [Assets -> Nat] /\ held \in [Assets -> Int]
    BY DEF Init, LedgerInit
  <2>3. QED
    BY <1>1, <1>2, <1>3, <2>1, <2>2 DEF LedgerTypeOK
<1>5. tasks \in [Created -> TaskInfo] /\ taskCounter \in 0..MaxTasks
  <2>1. Created = {} /\ tasks = <<>>
    BY DEF Init, EscrowInit, Created
  <2>2. QED
    BY <2>1 DEF Init, EscrowInit
<1>6. EscrowTypeOK
  BY <1>5 DEF Init, EscrowInit, EscrowTypeOK
<1>7. QED
  BY <1>4, <1>6 DEF TypeOK

\* What the account updates do to the fields of an entry.
LEMMA DepositedEntry ==
    ASSUME NEW acc \in Account, NEW x \in Nat
    PROVE  /\ Deposited(acc, x) \in Account
           /\ Deposited(acc, x).balance = acc.balance + x
           /\ Deposited(acc, x).locked = acc.locked
           /\ Deposited(acc, x).totalDeposited = acc.totalDeposited + x
           /\ Deposited(acc, x).totalSpent = acc.totalSpent
<1> DEFINE b == acc.balance + x
           d == acc.totalDeposited + x
<1>1. b \in Int /\ d \in Nat
  BY DEF Account
<1>2. Deposited(acc, x) = [acc EXCEPT !.balance = b, !.totalDeposited = d]
  BY DEF Deposited
<1> HIDE DEF b, d
<1>3. Deposited(acc, x) \in Account
  BY <1>1, <1>2 DEF Account
<1>4. /\ Deposited(acc, x).balance = b
      /\ Deposited(acc, x).locked = acc.locked
      /\ Deposited(acc, x).totalDeposited = d
      /\ Deposited(acc, x).totalSpent = acc.totalSpent
  BY <1>2 DEF Account
<1>5. QED
  BY <1>3, <1>4 DEF b, d

LEMMA WithdrawnEntry ==
    ASSUME NEW acc \in Account, NEW x \in Nat
    PROVE  /\ Withdrawn(acc, x) \in Account
           /\ Withdrawn(acc, x).balance = acc.balance - x
           /\ Withdrawn(acc, x).locked = acc.locked
           /\ Withdrawn(acc, x).totalDeposited = acc.totalDeposited
           /\ Withdrawn(acc, x).totalSpent = acc.totalSpent
  BY DEF Withdrawn, Account

LEMMA ReservedEntry ==
    ASSUME NEW acc \in Account, NEW x \in Nat
    PROVE  /\ Reserved(acc, x) \in Account
           /\ Reserved(acc, x).balance = acc.balance
           /\ Reserved(acc, x).locked = acc.locked + x
           /\ Reserved(acc, x).totalDeposited = acc.totalDeposited
           /\ Reserved(acc, x).totalSpent = acc.totalSpent
  BY DEF Reserved, Account

LEMMA ChargedEntry ==
    ASSUME NEW acc \in Account, NEW x \in Nat, NEW y \in Nat, NEW z \in Nat
    PROVE  /\ Charged(acc, x, y, z) \in Account
           /\ Charged(acc, x, y, z).balance = acc.balance - y
           /\ Charged(acc, x, y, z).locked = acc.locked - x
           /\ Charged(acc, x, y, z).totalDeposited = acc.totalDeposited
           /\ Charged(acc, x, y, z).totalSpent = acc.totalSpent + z
<1> DEFINE l == acc.locked - x
           b == acc.balance - y
           s == acc.totalSpent + z
<1>1. l \in Int /\ b \in Int /\ s \in Int
  BY DEF Account
<1>2. Charged(acc, x, y, z) =
         [acc EXCEPT !.locked = l, !.balance = b, !.totalSpent = s]
  BY DEF Charged
<1> HIDE DEF l, b, s
<1>3. Charged(acc, x, y, z) \in Account
  BY <1>1, <1>2 DEF Account
<1>4. /\ Charged(acc, x, y, z).balance = b
      /\ Charged(acc, x, y, z).locked = l
      /\ Charged(acc, x, y, z).totalDeposited = acc.totalDeposited
      /\ Charged(acc, x, y, z).totalSpent = s
  BY <1>2 DEF Account
<1>5. QED
  BY <1>3, <1>4 DEF l, b, s

\* A payment keeps the ledger's types.
LEMMA PayOutType ==
    ASSUME TypeOK, NEW a \in Assets, NEW amount \in Amounts, PayOut(a, amount)
    PROVE  /\ held' \in [Assets -> Int]
           /\ accruedFees' \in [Assets -> Nat]
<1>1. ComputeFee(amount) \in 0..amount
  BY FeeBounds, LedgerAssumption DEF TypeOK, LedgerTypeOK
<1> DEFINE f == ComputeFee(amount)
<1>2. f \in Nat /\ amount - f \in Int
  BY <1>1, LedgerAssumption
<1> HIDE DEF f
<1>3. /\ held' = [held EXCEPT ![a] = @ - (amount - f)]
      /\ accruedFees' = [accruedFees EXCEPT ![a] = @ + f]
  BY DEF PayOut, f
<1>4. QED
  BY <1>2, <1>3 DEF TypeOK, LedgerTypeOK

\* What one account write does.
LEMMA AccountWrite ==
    ASSUME TypeOK, NEW u \in Users, NEW a \in Assets, NEW acc \in Account,
           SetAccount(u, a, acc)
    PROVE  /\ account' \in [Users -> [Assets -> Account]]
           /\ account'[u][a] = acc
           /\ \A v \in Users, b \in Assets :
                 v # u \/ b # a => account'[v][b] = account[v][b]
  BY DEF TypeOK, LedgerTypeOK, SetAccount

LEMMA LedgerTypeStep ==
    ASSUME TypeOK, LedgerNext
    PROVE  LedgerTypeOK'
<1> USE LedgerAssumption DEF LedgerTypeOK
<1>1. ASSUME NEW u \in Users, NEW a \in Assets, NEW amount \in Amounts,
             Deposit(u, a, amount)
      PROVE  LedgerTypeOK'
  <2>1. Deposited(account[u][a], amount) \in Account
    BY DepositedEntry DEF TypeOK
  <2>2. account' \in [Users -> [Assets -> Account]]
    BY <1>1, <2>1, AccountWrite DEF Deposit
  <2>3. QED
    BY <1>1, <2>2 DEF Deposit, TypeOK
<1>2. ASSUME NEW u \in Users, NEW a \in Assets, NEW amount \in Amounts,
             Withdraw(u, a, amount)
      PROVE  LedgerTypeOK'
  <2>1. Withdrawn(account[u][a], amount) \in Account
    BY WithdrawnEntry DEF TypeOK
  <2>2. account' \in [Users -> [Assets -> Account]]
    BY <1>2, <2>1, AccountWrite DEF Withdraw
  <2>3. QED
    BY <1>2, <2>2 DEF Withdraw, TypeOK
<1>3. CASE Pause \/ Unpause
  BY <1>3 DEF Pause, Unpause, TypeOK
<1>4. ASSUME NEW a \in Assets, AddAsset(a) \/ RemoveAsset(a)
      PROVE  LedgerTypeOK'
  BY <1>4 DEF AddAsset, RemoveAsset, TypeOK
<1>5. ASSUME NEW a \in Assets, ClaimFees(a)
      PROVE  LedgerTypeOK'
  BY <1>5 DEF ClaimFees, TypeOK
<1>6. ASSUME NEW bps \in FeeRates, NEW r \in Recipients \cup {NoAddress},
             SetFee(bps, r)
      PROVE  LedgerTypeOK'
  BY <1>6 DEF SetFee, FeeConfig, TypeOK
<1>7. CASE Tick
  BY <1>7 DEF Tick, TypeOK
<1>8. QED
  BY <1>1, <1>2, <1>3, <1>4, <1>5, <1>6, <1>7 DEF LedgerNext

\* What the task updates do to the fields of a record.
LEMMA ReleasedTask ==
    ASSUME NEW task \in TaskInfo, NEW s \in StepIds, NEW x \in Nat
    PROVE  LET new == Released(task, s, x)
           IN  /\ new \in TaskInfo
               /\ new.spent = task.spent + x
               /\ new.planCost = task.planCost
               /\ new.user = task.user
               /\ new.asset = task.asset
               /\ new.commitment = task.commitment
               /\ new.completed = task.completed
               /\ new.disputed = task.disputed
               /\ new.nullifiers = task.nullifiers
<1> DEFINE st == [task.steps EXCEPT ![s] = x]
           sp == task.spent + x
<1>1. st \in [StepIds -> Nat] /\ sp \in Nat
  BY DEF TaskInfo
<1>2. Released(task, s, x) = [task EXCEPT !.steps = st, !.spent = sp]
  BY DEF Released
<1> HIDE DEF st, sp
<1>3. Released(task, s, x) \in TaskInfo
  BY <1>1, <1>2 DEF TaskInfo
<1>4. Released(task, s, x).spent = sp
  BY <1>2 DEF TaskInfo
<1>5. QED
  BY <1>2, <1>3, <1>4 DEF TaskInfo, sp

LEMMA ConsumingTask ==
    ASSUME NEW task \in TaskInfo, NEW n \in Nullifiers
    PROVE  LET new == Consuming(task, n)
           IN  /\ new \in TaskInfo
               /\ new.spent = task.spent
               /\ new.planCost = task.planCost
               /\ new.user = task.user
               /\ new.asset = task.asset
               /\ new.commitment = task.commitment
               /\ new.completed = task.completed
               /\ new.disputed = task.disputed
               /\ new.nullifiers = task.nullifiers \cup {n}
<1> DEFINE ns == task.nullifiers \cup {n}
<1>1. ns \in SUBSET Nullifiers
  BY DEF TaskInfo
<1>2. Consuming(task, n) = [task EXCEPT !.nullifiers = ns]
  BY DEF Consuming
<1> HIDE DEF ns
<1>3. Consuming(task, n) \in TaskInfo
  BY <1>1, <1>2 DEF TaskInfo
<1>4. QED
  BY <1>2, <1>3 DEF TaskInfo, ns

LEMMA ClosedTask ==
    ASSUME NEW task \in TaskInfo
    PROVE  LET new == Closed(task)
           IN  /\ new \in TaskInfo
               /\ new.spent = task.spent
               /\ new.planCost = task.planCost
               /\ new.user = task.user
               /\ new.asset = task.asset
               /\ new.commitment = task.commitment
               /\ new.completed
<1>1. NoSteps \in [StepIds -> Nat]
  BY DEF NoSteps
<1>2. QED
  BY <1>1 DEF Closed, TaskInfo

LEMMA DisputedTask ==
    ASSUME NEW task \in TaskInfo
    PROVE  LET new == Disputed(task)
           IN  /\ new \in TaskInfo
               /\ new.spent = task.spent
               /\ new.planCost = task.planCost
               /\ new.user = task.user
               /\ new.asset = task.asset
               /\ new.commitment = task.commitment
               /\ new.completed = task.completed
               /\ new.disputed
  BY DEF Disputed, TaskInfo

\* What one task write does.
LEMMA TaskWrite ==
    ASSUME TypeOK, NEW t \in Created, NEW task \in TaskInfo, SetTask(t, task),
           taskCounter' = taskCounter
    PROVE  /\ tasks' \in [Created' -> TaskInfo]
           /\ tasks'[t] = task
           /\ \A r \in Created : r # t => tasks'[r] = tasks[r]
  BY DEF TypeOK, EscrowTypeOK, SetTask, Created

\* The record a new task starts from.
LEMMA NewTaskRecord ==
    ASSUME TypeOK, NEW u \in Users, NEW o \in Orchestrators, NEW a \in Assets,
           NEW x \in Nat, NEW c \in Commitments \cup {NoCommitment}
    PROVE  NewTask(u, o, a, x, c) \in TaskInfo
<1>1. now \in Nat
  BY LedgerAssumption DEF TypeOK, LedgerTypeOK
<1>2. NoSteps \in [StepIds -> Nat]
  BY DEF NoSteps
<1>3. QED
  BY <1>1, <1>2 DEF NewTask, TaskInfo

LEMMA RegistryType ==
    ASSUME TypeOK, RegistryNext
    PROVE  TypeOK'
<1>1. PICK u \in Users, o \in Orchestrators :
          RegisterOrchestrator(u, o) \/ UpdateOrchestrator(u, o)
  BY DEF RegistryNext
<1>2. LedgerTypeOK'
  BY <1>1 DEF RegisterOrchestrator, UpdateOrchestrator, TypeOK, LedgerTypeOK, ledgerVars
<1>3. UNCHANGED <<configVars, taskVars>>
  BY <1>1 DEF RegisterOrchestrator, UpdateOrchestrator
<1>4. /\ orchestrator' \in [Users -> Orchestrators \cup {NoAddress}]
      /\ orchestratorOwner' \in [Orchestrators -> Users \cup {NoAddress}]
  BY <1>1 DEF RegisterOrchestrator, UpdateOrchestrator, TypeOK, EscrowTypeOK
<1>5. QED
  BY <1>2, <1>3, <1>4 DEF TypeOK, EscrowTypeOK, configVars, taskVars, Created

\* Opening a task: who pays, and what the three writes leave behind.
LEMMA LockNewTaskStep ==
    ASSUME TypeOK, NEW o \in Orchestrators, NEW a \in Assets, NEW x \in Amounts,
           NEW c \in Commitments \cup {NoCommitment}, LockNewTask(o, a, x, c)
    PROVE  LET u == orchestratorOwner[o]
               t == taskCounter + 1
           IN  /\ u \in Users
               /\ x <= Available(u, a)
               /\ account' \in [Users -> [Assets -> Account]]
               /\ account'[u][a] = Reserved(account[u][a], x)
               /\ \A v \in Users, b \in Assets :
                    v # u \/ b # a => account'[v][b] = account[v][b]
               /\ t \in TaskIds
               /\ taskCounter' = t
               /\ tasks' \in [Created' -> TaskInfo]
               /\ tasks'[t] = NewTask(u, o, a, x, c)
               /\ \A r \in Created : tasks'[r] = tasks[r]
<1> DEFINE u == orchestratorOwner[o]
<1> USE LedgerAssumption, EscrowAssumption
<1>1. u \in Users
  BY DEF LockNewTask, TypeOK, EscrowTypeOK
<1>2. account[u][a] \in Account /\ x \in Nat
  BY <1>1 DEF TypeOK, LedgerTypeOK
<1>3. Reserved(account[u][a], x) \in Account
  BY <1>2, ReservedEntry
<1>4. NewTask(u, o, a, x, c) \in TaskInfo
  BY <1>1, <1>2, NewTaskRecord
<1>5. SetAccount(u, a, Reserved(account[u][a], x)) /\ x <= Available(u, a)
  <2>1. SetAccount(u, a, Reserved(account[u][a], x)) /\ Available(u, a) >= x
    BY DEF LockNewTask
  <2>2. Available(u, a) \in Int
    BY <1>2 DEF Available, Account
  <2>3. QED
    BY <1>2, <2>1, <2>2
<1>6. /\ account' \in [Users -> [Assets -> Account]]
      /\ account'[u][a] = Reserved(account[u][a], x)
      /\ \A v \in Users, b \in Assets :
           v # u \/ b # a => account'[v][b] = account[v][b]
  BY <1>1, <1>3, <1>5, AccountWrite
<1>7. taskCounter + 1 \in TaskIds /\ taskCounter' = taskCounter + 1
  BY DEF LockNewTask, TypeOK, EscrowTypeOK, TaskIds
<1>8. tasks' = [t \in 1..(taskCounter + 1) |->
                   IF t = taskCounter + 1 THEN NewTask(u, o, a, x, c) ELSE tasks[t]]
  BY DEF LockNewTask
<1>9. /\ taskCounter \in Nat
      /\ tasks \in [1..taskCounter -> TaskInfo]
  BY DEF TypeOK, EscrowTypeOK, Created
<1>10. tasks' \in [Created' -> TaskInfo]
  <2>1. Created' = 1..(taskCounter + 1)
    BY <1>7 DEF Created
  <2>2. \A t \in 1..(taskCounter + 1) : t # taskCounter + 1 => t \in 1..taskCounter
    BY <1>9
  <2>3. QED
    BY <1>4, <1>8, <1>9, <2>1, <2>2
<1>11. /\ tasks'[taskCounter + 1] = NewTask(u, o, a, x, c)
       /\ \A r \in Created : tasks'[r] = tasks[r]
  BY <1>8, <1>9 DEF Created
<1>12. QED
  BY <1>1, <1>5, <1>6, <1>7, <1>10, <1>11

LEMMA CreateType ==
    ASSUME TypeOK, CreateNext
    PROVE  TypeOK'
<1>1. PICK o \in Orchestrators, a \in Assets, x \in Amounts,
           c \in Commitments \cup {NoCommitment} : LockNewTask(o, a, x, c)
  BY DEF CreateNext, CreateTask, CreateTaskWithPolicy
<1>2. /\ account' \in [Users -> [Assets -> Account]]
      /\ tasks' \in [Created' -> TaskInfo]
      /\ taskCounter' \in 0..MaxTasks
      /\ orchestratorOwner[o] \in Users
  BY <1>1, LockNewTaskStep, EscrowAssumption DEF TaskIds
<1>3. activeTasks' \in [Users -> Int]
  <2>1. activeTasks' = [activeTasks EXCEPT ![orchestratorOwner[o]] = @ + 1]
    BY <1>1 DEF LockNewTask
  <2>2. QED
    BY <1>2, <2>1 DEF TypeOK, EscrowTypeOK
<1>4. UNCHANGED <<paused, supported, fee, accruedFees, held, now, registryVars,
                  configVars>>
  BY <1>1 DEF LockNewTask
<1>5. LedgerTypeOK'
  BY <1>2, <1>4 DEF TypeOK, LedgerTypeOK
<1>6. EscrowTypeOK'
  BY <1>2, <1>3, <1>4 DEF TypeOK, EscrowTypeOK, registryVars, configVars
<1>7. QED
  BY <1>5, <1>6 DEF TypeOK

\* The two release paths have the same effect on the books.
LEMMA ReleaseStep ==
    ASSUME TypeOK, NEW t \in Created, NEW s \in StepIds, NEW x \in Amounts,
           \/ ReleasePayment(t, s, x)
           \/ \E n \in Nullifiers : ReleasePaymentProved(t, s, x, n)
    PROVE  /\ tasks[t] \in TaskInfo
           /\ ~paused /\ ~tasks[t].completed /\ ~tasks[t].disputed
           /\ tasks[t].spent + x <= tasks[t].planCost
           /\ PayOut(tasks[t].asset, x)
           /\ tasks' \in [Created' -> TaskInfo]
           /\ tasks'[t].spent = tasks[t].spent + x
           /\ tasks'[t].planCost = tasks[t].planCost
           /\ tasks'[t].user = tasks[t].user
           /\ tasks'[t].asset = tasks[t].asset
           /\ tasks'[t].commitment = tasks[t].commitment
           /\ tasks'[t].completed = tasks[t].completed
           /\ tasks'[t].disputed = tasks[t].disputed
           /\ \A r \in Created : r # t => tasks'[r] = tasks[r]
           /\ UNCHANGED <<paused, supported, fee, account, now, registryVars,
                          configVars, activeTasks, taskCounter>>
<1>1. tasks[t] \in TaskInfo /\ x \in Nat
  BY LedgerAssumption DEF TypeOK, EscrowTypeOK
<1>2. Released(tasks[t], s, x) \in TaskInfo
  BY <1>1, ReleasedTask
<1>3. PICK new \in TaskInfo :
        /\ SetTask(t, new)
        /\ new.spent = tasks[t].spent + x
        /\ new.planCost = tasks[t].planCost
        /\ new.user = tasks[t].user
        /\ new.asset = tasks[t].asset
        /\ new.commitment = tasks[t].commitment
        /\ new.completed = tasks[t].completed
        /\ new.disputed = tasks[t].disputed
  <2>1. CASE ReleasePayment(t, s, x)
    <3>1. SetTask(t, Released(tasks[t], s, x))
      BY <2>1 DEF ReleasePayment
    <3>2. QED
      BY <1>1, <1>2, <3>1, ReleasedTask
  <2>2. CASE \E n \in Nullifiers : ReleasePaymentProved(t, s, x, n)
    <3>1. PICK n \in Nullifiers : ReleasePaymentProved(t, s, x, n)
      BY <2>2
    <3> DEFINE mid == Released(tasks[t], s, x)
    <3>2. SetTask(t, Consuming(mid, n))
      BY <3>1 DEF ReleasePaymentProved
    <3>3. /\ mid \in TaskInfo
          /\ mid.spent = tasks[t].spent + x
          /\ mid.planCost = tasks[t].planCost
          /\ mid.user = tasks[t].user
          /\ mid.asset = tasks[t].asset
          /\ mid.commitment = tasks[t].commitment
          /\ mid.completed = tasks[t].completed
          /\ mid.disputed = tasks[t].disputed
      BY <1>1, ReleasedTask
    <3> HIDE DEF mid
    <3>4. QED
      BY <3>2, <3>3, ConsumingTask
  <2>3. QED
    BY <2>1, <2>2
<1>4. /\ MayRelease(t, s, x)
      /\ PayOut(tasks[t].asset, x)
      /\ UNCHANGED <<paused, supported, fee, account, now, registryVars,
                     configVars, activeTasks, taskCounter>>
  BY DEF ReleasePayment, ReleasePaymentProved
<1>5. /\ tasks' \in [Created' -> TaskInfo]
      /\ tasks'[t] = new
      /\ \A r \in Created : r # t => tasks'[r] = tasks[r]
  BY <1>3, <1>4, TaskWrite
<1>6. /\ ~paused /\ ~tasks[t].completed /\ ~tasks[t].disputed
      /\ tasks[t].spent + x <= tasks[t].planCost
  BY <1>4 DEF MayRelease
<1>7. QED
  BY <1>1, <1>3, <1>4, <1>5, <1>6

LEMMA ReleaseType ==
    ASSUME TypeOK, ReleaseNext
    PROVE  TypeOK'
<1>1. PICK t \in Created, s \in StepIds, x \in Amounts :
        \/ ReleasePayment(t, s, x)
        \/ \E n \in Nullifiers : ReleasePaymentProved(t, s, x, n)
  BY DEF ReleaseNext
<1>2. /\ tasks[t].asset \in Assets
      /\ PayOut(tasks[t].asset, x)
      /\ tasks' \in [Created' -> TaskInfo]
      /\ UNCHANGED <<paused, supported, fee, account, now, registryVars,
                     configVars, activeTasks, taskCounter>>
  <2>1. tasks[t] \in TaskInfo
    BY DEF TypeOK, EscrowTypeOK
  <2>2. QED
    BY <1>1, <2>1, ReleaseStep DEF TaskInfo
<1>3. held' \in [Assets -> Int] /\ accruedFees' \in [Assets -> Nat]
  BY <1>2, PayOutType
<1>4. LedgerTypeOK'
  BY <1>2, <1>3 DEF TypeOK, LedgerTypeOK
<1>5. EscrowTypeOK'
  BY <1>2 DEF TypeOK, EscrowTypeOK, registryVars, configVars
<1>6. QED
  BY <1>4, <1>5 DEF TypeOK

\* What finalize_task does to the account and to the task.
LEMMA FinalizeStep ==
    ASSUME TypeOK, NEW t \in Created, NEW debit \in Nat, NEW charged \in Nat,
           Finalize(t, debit, charged)
    PROVE  LET u == tasks[t].user
               a == tasks[t].asset
           IN  /\ tasks[t] \in TaskInfo
               /\ u \in Users /\ a \in Assets
               /\ ~tasks[t].completed
               /\ account' \in [Users -> [Assets -> Account]]
               /\ account'[u][a] = Charged(account[u][a], tasks[t].planCost, debit, charged)
               /\ \A v \in Users, b \in Assets :
                    v # u \/ b # a => account'[v][b] = account[v][b]
               /\ activeTasks' \in [Users -> Int]
               /\ tasks' \in [Created' -> TaskInfo]
               /\ tasks'[t] = Closed(tasks[t])
               /\ \A r \in Created : r # t => tasks'[r] = tasks[r]
               /\ UNCHANGED <<paused, supported, fee, accruedFees, now, registryVars,
                              configVars, taskCounter>>
<1> DEFINE u == tasks[t].user
           a == tasks[t].asset
           p == tasks[t].planCost
<1>1. tasks[t] \in TaskInfo
  BY DEF TypeOK, EscrowTypeOK
<1>2. u \in Users /\ a \in Assets /\ p \in Nat
  BY <1>1 DEF TaskInfo
<1>3. /\ ~tasks[t].completed
      /\ SetAccount(u, a, Charged(account[u][a], p, debit, charged))
      /\ activeTasks' = [activeTasks EXCEPT ![u] = @ - 1]
      /\ SetTask(t, Closed(tasks[t]))
      /\ UNCHANGED <<paused, supported, fee, accruedFees, now, registryVars,
                     configVars, taskCounter>>
  BY DEF Finalize
<1> HIDE DEF u, a, p
<1>4. Charged(account[u][a], p, debit, charged) \in Account
  <2>1. account[u][a] \in Account
    BY <1>2 DEF TypeOK, LedgerTypeOK
  <2>2. QED
    BY <1>2, <2>1, ChargedEntry
<1>5. /\ account' \in [Users -> [Assets -> Account]]
      /\ account'[u][a] = Charged(account[u][a], p, debit, charged)
      /\ \A v \in Users, b \in Assets :
           v # u \/ b # a => account'[v][b] = account[v][b]
  BY <1>2, <1>3, <1>4, AccountWrite
<1>6. activeTasks' \in [Users -> Int]
  BY <1>2, <1>3 DEF TypeOK, EscrowTypeOK
<1>7. Closed(tasks[t]) \in TaskInfo
  BY <1>1, ClosedTask
<1>8. /\ tasks' \in [Created' -> TaskInfo]
      /\ tasks'[t] = Closed(tasks[t])
      /\ \A r \in Created : r # t => tasks'[r] = tasks[r]
  BY <1>3, <1>7, TaskWrite
<1>9. QED
  BY <1>1, <1>2, <1>3, <1>5, <1>6, <1>8 DEF u, a, p

LEMMA FinalizeType ==
    ASSUME TypeOK, NEW t \in Created, NEW debit \in Nat, NEW charged \in Nat,
           Finalize(t, debit, charged), held' \in [Assets -> Int]
    PROVE  TypeOK'
<1>1. /\ account' \in [Users -> [Assets -> Account]]
      /\ activeTasks' \in [Users -> Int]
      /\ tasks' \in [Created' -> TaskInfo]
      /\ UNCHANGED <<paused, supported, fee, accruedFees, now, registryVars,
                     configVars, taskCounter>>
  BY FinalizeStep
<1>2. LedgerTypeOK'
  BY <1>1 DEF TypeOK, LedgerTypeOK
<1>3. EscrowTypeOK'
  BY <1>1 DEF TypeOK, EscrowTypeOK, registryVars, configVars
<1>4. QED
  BY <1>2, <1>3 DEF TypeOK

\* The ways a task ends: what is debited, what is charged, what leaves the vault.
LEMMA EndSteps ==
    ASSUME TypeOK, EndNext
    PROVE  \E t \in Created :
              \/ RaiseDispute(t)
              \/ FinalizeUndisputed(t)
              \/ \E refund, payout \in Nat : ResolveDispute(t, refund, payout)
<1>1. PICK t \in Created :
        \/ CompleteTask(t)
        \/ CancelTask(t)
        \/ ForceCompleteStaleTask(t)
        \/ RaiseDispute(t)
        \/ \E refund, payout \in 0..tasks[t].planCost : ResolveDispute(t, refund, payout)
  BY DEF EndNext
<1>2. tasks[t].planCost \in Nat
  BY DEF TypeOK, EscrowTypeOK, TaskInfo
<1>3. 0..tasks[t].planCost \subseteq Nat
  BY <1>2
<1>4. QED
  BY <1>1, <1>3 DEF CompleteTask, CancelTask, ForceCompleteStaleTask

\* A dispute only marks the task.
LEMMA RaiseDisputeStep ==
    ASSUME TypeOK, NEW t \in Created, RaiseDispute(t)
    PROVE  /\ tasks[t] \in TaskInfo
           /\ ~tasks[t].completed /\ ~tasks[t].disputed
           /\ tasks' \in [Created' -> TaskInfo]
           /\ tasks'[t] = Disputed(tasks[t])
           /\ \A r \in Created : r # t => tasks'[r] = tasks[r]
           /\ UNCHANGED <<ledgerVars, registryVars, configVars, activeTasks, taskCounter>>
<1>1. tasks[t] \in TaskInfo
  BY DEF TypeOK, EscrowTypeOK
<1>2. Disputed(tasks[t]) \in TaskInfo
  BY <1>1, DisputedTask
<1>3. /\ ~tasks[t].completed /\ ~tasks[t].disputed
      /\ SetTask(t, Disputed(tasks[t]))
      /\ UNCHANGED <<ledgerVars, registryVars, configVars, activeTasks, taskCounter>>
  BY DEF RaiseDispute
<1>4. QED
  BY <1>1, <1>2, <1>3, TaskWrite

LEMMA EndType ==
    ASSUME TypeOK, EndNext
    PROVE  TypeOK'
<1>1. PICK t \in Created :
        \/ RaiseDispute(t)
        \/ FinalizeUndisputed(t)
        \/ \E refund, payout \in Nat : ResolveDispute(t, refund, payout)
  BY EndSteps
<1>2. tasks[t] \in TaskInfo /\ tasks[t].spent \in Nat /\ tasks[t].planCost \in Nat
  BY DEF TypeOK, EscrowTypeOK, TaskInfo
<1>3. CASE RaiseDispute(t)
  BY <1>3, RaiseDisputeStep
     DEF TypeOK, LedgerTypeOK, EscrowTypeOK, ledgerVars, registryVars, configVars
<1>4. CASE FinalizeUndisputed(t)
  <2>1. Finalize(t, tasks[t].spent, tasks[t].spent) /\ held' = held
    BY <1>4 DEF FinalizeUndisputed
  <2>2. held' \in [Assets -> Int]
    BY <2>1 DEF TypeOK, LedgerTypeOK
  <2>3. QED
    BY <1>2, <2>1, <2>2, FinalizeType
<1>5. ASSUME NEW refund \in Nat, NEW payout \in Nat, ResolveDispute(t, refund, payout)
      PROVE  TypeOK'
  <2>1. /\ Finalize(t, tasks[t].planCost, tasks[t].spent + payout)
        /\ held' = [held EXCEPT ![tasks[t].asset] = @ - (refund + payout)]
    BY <1>5 DEF ResolveDispute
  <2>2. held' \in [Assets -> Int]
    <3> DEFINE out == refund + payout
    <3>1. out \in Int /\ held \in [Assets -> Int] /\ tasks[t].asset \in Assets
      BY <1>2 DEF TypeOK, LedgerTypeOK, TaskInfo
    <3>2. held' = [held EXCEPT ![tasks[t].asset] = @ - out]
      BY <2>1
    <3> HIDE DEF out
    <3>3. QED
      BY <3>1, <3>2
  <2>3. tasks[t].spent + payout \in Nat
    BY <1>2
  <2>4. QED
    BY <1>2, <2>1, <2>2, <2>3, FinalizeType
<1>6. QED
  BY <1>1, <1>3, <1>4, <1>5

LEMMA ConfigType ==
    ASSUME TypeOK, ConfigNext
    PROVE  TypeOK'
<1>1. UNCHANGED <<ledgerVars, registryVars, taskVars>>
  BY DEF ConfigNext, SetPolicyCommitment, UnpinPolicyCommitment, SetPolicyVerifier,
         SetDisputeResolver, SetMaxActiveTasks, SetStaleThreshold
<1>2. LedgerTypeOK'
  BY <1>1 DEF TypeOK, LedgerTypeOK, ledgerVars
<1>3. /\ pinned' \in [Users -> SUBSET Commitments]
      /\ policyVerifier' \in Verifiers \cup {NoAddress}
      /\ disputeResolver' \in Resolvers \cup {NoAddress}
      /\ maxActiveTasks' \in ActiveTaskLimits
      /\ staleThreshold' \in StaleThresholds
  BY DEF ConfigNext, SetPolicyCommitment, UnpinPolicyCommitment, SetPolicyVerifier,
         SetDisputeResolver, SetMaxActiveTasks, SetStaleThreshold, TypeOK, EscrowTypeOK
<1>4. EscrowTypeOK'
  BY <1>1, <1>3 DEF TypeOK, EscrowTypeOK, registryVars, taskVars, Created
<1>5. QED
  BY <1>2, <1>4 DEF TypeOK

LEMMA NextTypeOK ==
    ASSUME TypeOK, [Next]_vars
    PROVE  TypeOK'
<1>1. CASE LedgerNext /\ UNCHANGED escrowVars
  BY <1>1, LedgerTypeStep
     DEF TypeOK, EscrowTypeOK, escrowVars, registryVars, configVars, taskVars, Created
<1>2. CASE UNCHANGED vars
  BY <1>2 DEF TypeOK, LedgerTypeOK, EscrowTypeOK, vars, ledgerVars, escrowVars,
              registryVars, configVars, taskVars, Created
<1>3. QED
  BY <1>1, <1>2, RegistryType, CreateType, ReleaseType, EndType, ConfigType DEF Next

\* Every storage entry keeps its type after any sequence of contract calls:
\* fees never exceed the cap, accrued fees are never negative, and a task
\* keeps the owner, the agent and the asset it was created with in range.
THEOREM TypeCorrect == Spec => []TypeOK
<1>1. Init => TypeOK
  BY InitTypeOK
<1>2. TypeOK /\ [Next]_vars => TypeOK'
  BY NextTypeOK
<1>3. QED
  BY <1>1, <1>2, PTL DEF Spec

-----------------------------------------------------------------------------
\* The reverse lookup.

LEMMA LookupStep ==
    ASSUME TypeOK, LookupSound, [Next]_vars
    PROVE  LookupSound'
<1> USE LedgerAssumption, EscrowAssumption
<1>1. CASE UNCHANGED registryVars
  BY <1>1 DEF LookupSound, registryVars
<1>2. ASSUME NEW u \in Users, NEW o \in Orchestrators, RegisterOrchestrator(u, o)
      PROVE  LookupSound'
  BY <1>2 DEF RegisterOrchestrator, LookupSound, TypeOK, EscrowTypeOK
<1>3. ASSUME NEW u \in Users, NEW o \in Orchestrators, UpdateOrchestrator(u, o)
      PROVE  LookupSound'
  <2>1. /\ orchestrator[u] # NoAddress
        /\ orchestratorOwner[o] \in {NoAddress, u}
        /\ orchestratorOwner' =
             [[orchestratorOwner EXCEPT ![orchestrator[u]] = NoAddress] EXCEPT ![o] = u]
        /\ orchestrator' = [orchestrator EXCEPT ![u] = o]
    BY <1>3 DEF UpdateOrchestrator
  <2>2. ASSUME NEW p \in Orchestrators, orchestratorOwner'[p] # NoAddress
        PROVE  orchestrator'[orchestratorOwner'[p]] = p
    <3>1. CASE p = o
      BY <2>1, <3>1 DEF TypeOK, EscrowTypeOK
    <3>2. CASE p # o
      <4>1. /\ p # orchestrator[u]
            /\ orchestratorOwner'[p] = orchestratorOwner[p]
        BY <2>1, <2>2, <3>2 DEF TypeOK, EscrowTypeOK
      <4>2. orchestrator[orchestratorOwner[p]] = p
        BY <2>2, <4>1 DEF LookupSound
      <4>3. orchestratorOwner[p] # u
        BY <4>1, <4>2
      <4>4. orchestratorOwner[p] \in Users
        BY <2>2, <4>1 DEF TypeOK, EscrowTypeOK
      <4>5. QED
        BY <2>1, <4>1, <4>2, <4>3, <4>4 DEF TypeOK, EscrowTypeOK
    <3>3. QED
      BY <3>1, <3>2
  <2>3. QED
    BY <2>2 DEF LookupSound
<1>4. \/ UNCHANGED registryVars
      \/ \E u \in Users, o \in Orchestrators :
            RegisterOrchestrator(u, o) \/ UpdateOrchestrator(u, o)
  <2>1. CASE (LedgerNext /\ UNCHANGED escrowVars) \/ UNCHANGED vars
    BY <2>1 DEF vars, escrowVars
  <2>2. CASE RegistryNext
    BY <2>2 DEF RegistryNext
  <2>3. CASE CreateNext
    BY <2>3 DEF CreateNext, CreateTask, CreateTaskWithPolicy, LockNewTask
  <2>4. CASE ReleaseNext
    BY <2>4 DEF ReleaseNext, ReleasePayment, ReleasePaymentProved
  <2>5. CASE EndNext
    BY <2>5 DEF EndNext, CompleteTask, CancelTask, ForceCompleteStaleTask,
                FinalizeUndisputed, RaiseDispute, ResolveDispute, Finalize
  <2>6. CASE ConfigNext
    BY <2>6 DEF ConfigNext, SetPolicyCommitment, UnpinPolicyCommitment,
                SetPolicyVerifier, SetDisputeResolver, SetMaxActiveTasks,
                SetStaleThreshold
  <2>7. QED
    BY <2>1, <2>2, <2>3, <2>4, <2>5, <2>6 DEF Next
<1>5. QED
  BY <1>1, <1>2, <1>3, <1>4

\* Whatever registrations and switches overlap, an agent only ever spends for
\* a user who has it registered now.
THEOREM LookupIsSound == Spec => []LookupSound
<1>1. Init => LookupSound
  BY DEF Init, EscrowInit, LookupSound
<1>2. TypeOK /\ LookupSound /\ [Next]_vars => LookupSound'
  BY LookupStep
<1>3. QED
  BY <1>1, <1>2, TypeCorrect, PTL DEF Spec

-----------------------------------------------------------------------------
\* Overdrafts.  NoOverdraft is inductive once the types are known: a lock
\* reserves at most what is available, and closing a task gives back its plan
\* cost less at most its plan cost.

\* The effect of one rewritten entry on its available balance.
LEMMA AvailableElsewhere ==
    ASSUME TypeOK, NEW u \in Users, NEW a \in Assets,
           \A v \in Users, b \in Assets :
              v # u \/ b # a => account'[v][b] = account[v][b],
           Available(u, a)' >= 0, NoOverdraft
    PROVE  \A v \in Users, b \in Assets : Available(v, b)' >= 0
  BY DEF Available, NoOverdraft

LEMMA TasksElsewhere ==
    ASSUME TypeOK, NEW t \in Created, taskCounter' = taskCounter,
           \A r \in Created : r # t => tasks'[r] = tasks[r],
           tasks'[t].spent <= tasks'[t].planCost, NoOverdraft
    PROVE  \A r \in Created' : tasks'[r].spent <= tasks'[r].planCost
  BY DEF NoOverdraft, Created

LEMMA LedgerNoOverdraft ==
    ASSUME TypeOK, NoOverdraft, LedgerNext, UNCHANGED escrowVars
    PROVE  NoOverdraft'
<1>1. \A t \in Created' : tasks'[t].spent <= tasks'[t].planCost
  BY DEF NoOverdraft, escrowVars, taskVars, Created
<1>2. ASSUME NEW u \in Users, NEW a \in Assets, NEW x \in Amounts,
             Deposit(u, a, x) \/ Withdraw(u, a, x)
      PROVE  \A v \in Users, b \in Assets : Available(v, b)' >= 0
  <2>1. x \in Nat /\ account[u][a] \in Account
    BY LedgerAssumption DEF TypeOK, LedgerTypeOK
  <2>2. Available(u, a) >= 0 /\ Available(u, a) \in Int
    BY <2>1 DEF NoOverdraft, Available, Account
  <2>3. CASE Deposit(u, a, x)
    <3> DEFINE new == Deposited(account[u][a], x)
    <3>1. new \in Account /\ new.balance = account[u][a].balance + x
          /\ new.locked = account[u][a].locked
      BY <2>1, DepositedEntry
    <3>2. SetAccount(u, a, new)
      BY <2>3 DEF Deposit
    <3> HIDE DEF new
    <3>3. /\ account'[u][a] = new
          /\ \A v \in Users, b \in Assets :
               v # u \/ b # a => account'[v][b] = account[v][b]
      BY <3>1, <3>2, AccountWrite
    <3>4. Available(u, a)' >= 0
      BY <2>1, <2>2, <3>1, <3>3 DEF Available, Account
    <3>5. QED
      BY <3>3, <3>4, AvailableElsewhere
  <2>4. CASE Withdraw(u, a, x)
    <3> DEFINE new == Withdrawn(account[u][a], x)
    <3>1. new \in Account /\ new.balance = account[u][a].balance - x
          /\ new.locked = account[u][a].locked
      BY <2>1, WithdrawnEntry
    <3>2. SetAccount(u, a, new) /\ x <= Available(u, a)
      BY <2>4 DEF Withdraw
    <3> HIDE DEF new
    <3>3. /\ account'[u][a] = new
          /\ \A v \in Users, b \in Assets :
               v # u \/ b # a => account'[v][b] = account[v][b]
      BY <3>1, <3>2, AccountWrite
    <3>4. Available(u, a)' >= 0
      BY <2>1, <3>1, <3>2, <3>3 DEF Available, Account
    <3>5. QED
      BY <3>3, <3>4, AvailableElsewhere
  <2>5. QED
    BY <1>2, <2>3, <2>4
<1>3. CASE UNCHANGED account
  BY <1>1, <1>3 DEF NoOverdraft, Available
<1>4. \/ UNCHANGED account
      \/ \E u \in Users, a \in Assets, x \in Amounts :
            Deposit(u, a, x) \/ Withdraw(u, a, x)
  BY DEF LedgerNext, Pause, Unpause, AddAsset, RemoveAsset, SetFee, ClaimFees, Tick
<1>5. QED
  BY <1>1, <1>2, <1>3, <1>4 DEF NoOverdraft

LEMMA CreateNoOverdraft ==
    ASSUME TypeOK, NoOverdraft, CreateNext
    PROVE  NoOverdraft'
<1>1. PICK o \in Orchestrators, a \in Assets, x \in Amounts,
           c \in Commitments \cup {NoCommitment} : LockNewTask(o, a, x, c)
  BY DEF CreateNext, CreateTask, CreateTaskWithPolicy
<1>0. PICK u \in Users : u = orchestratorOwner[o]
  BY <1>1, LockNewTaskStep
<1> DEFINE t == taskCounter + 1
           acc == account[u][a]
<1>2. /\ x <= Available(u, a)
      /\ account'[u][a] = Reserved(acc, x)
      /\ \A v \in Users, b \in Assets :
           v # u \/ b # a => account'[v][b] = account[v][b]
      /\ taskCounter' = t
      /\ tasks'[t] = NewTask(u, o, a, x, c)
      /\ \A r \in Created : tasks'[r] = tasks[r]
  BY <1>0, <1>1, LockNewTaskStep
<1>3. x \in Nat /\ acc \in Account
  BY LedgerAssumption DEF TypeOK, LedgerTypeOK
<1>4. Available(u, a)' >= 0
  <2>1. /\ Reserved(acc, x).balance = acc.balance
        /\ Reserved(acc, x).locked = acc.locked + x
    BY <1>3, ReservedEntry
  <2>2. Available(u, a)' = acc.balance - (acc.locked + x)
    BY <1>2, <2>1 DEF Available
  <2>3. Available(u, a) = acc.balance - acc.locked
    BY DEF Available
  <2>4. QED
    BY <1>2, <1>3, <2>2, <2>3 DEF Account
<1>5. \A v \in Users, b \in Assets : Available(v, b)' >= 0
  BY <1>2, <1>4, AvailableElsewhere
<1>6. ASSUME NEW r \in Created' PROVE tasks'[r].spent <= tasks'[r].planCost
  <2>1. CASE r = t
    BY <1>2, <1>3, <2>1 DEF NewTask
  <2>2. CASE r # t
    <3>1. r \in Created
      BY <1>2, <2>2 DEF Created, TypeOK, EscrowTypeOK
    <3>2. QED
      BY <1>2, <3>1 DEF NoOverdraft
  <2>3. QED
    BY <2>1, <2>2
<1>7. QED
  BY <1>5, <1>6 DEF NoOverdraft

LEMMA ReleaseNoOverdraft ==
    ASSUME TypeOK, NoOverdraft, ReleaseNext
    PROVE  NoOverdraft'
<1>1. PICK t \in Created, s \in StepIds, x \in Amounts :
        \/ ReleasePayment(t, s, x)
        \/ \E n \in Nullifiers : ReleasePaymentProved(t, s, x, n)
  BY DEF ReleaseNext
<1>2. /\ account' = account /\ taskCounter' = taskCounter
      /\ tasks'[t].spent <= tasks'[t].planCost
      /\ \A r \in Created : r # t => tasks'[r] = tasks[r]
  BY <1>1, ReleaseStep
<1>3. \A r \in Created' : tasks'[r].spent <= tasks'[r].planCost
  BY <1>2, TasksElsewhere
<1>4. QED
  BY <1>2, <1>3 DEF NoOverdraft, Available

\* Closing a task leaves its owner what was available plus what the plan cost
\* exceeds the debit by.
LEMMA FinalizeAvailable ==
    ASSUME TypeOK, NEW t \in Created, NEW debit \in Nat, NEW charged \in Nat,
           Finalize(t, debit, charged)
    PROVE  LET u == tasks[t].user
               a == tasks[t].asset
           IN  Available(u, a)' = Available(u, a) + (tasks[t].planCost - debit)
<1> DEFINE u == tasks[t].user
           a == tasks[t].asset
           p == tasks[t].planCost
           acc == account[u][a]
<1>1. /\ u \in Users /\ a \in Assets
      /\ account'[u][a] = Charged(acc, p, debit, charged)
      /\ tasks[t] \in TaskInfo
      /\ tasks'[t] = Closed(tasks[t])
  BY FinalizeStep
<1>2. p \in Nat /\ acc \in Account
  BY <1>1 DEF TypeOK, LedgerTypeOK, TaskInfo
<1>3. u' = u /\ a' = a
  BY <1>1, ClosedTask
<1> HIDE DEF p
<1>4. /\ Charged(acc, p, debit, charged).balance = acc.balance - debit
      /\ Charged(acc, p, debit, charged).locked = acc.locked - p
  BY <1>2, ChargedEntry
<1>5. Available(u, a)' = (acc.balance - debit) - (acc.locked - p)
  BY <1>1, <1>3, <1>4 DEF Available
<1>6. Available(u, a) = acc.balance - acc.locked
  BY DEF Available
<1>7. QED
  BY <1>2, <1>5, <1>6 DEF Account, p

LEMMA EndNoOverdraft ==
    ASSUME TypeOK, NoOverdraft, EndNext
    PROVE  NoOverdraft'
<1>1. PICK t \in Created :
        \/ RaiseDispute(t)
        \/ FinalizeUndisputed(t)
        \/ \E refund, payout \in Nat : ResolveDispute(t, refund, payout)
  BY EndSteps
<1>2. /\ tasks[t] \in TaskInfo /\ tasks[t].spent \in Nat /\ tasks[t].planCost \in Nat
      /\ tasks[t].spent <= tasks[t].planCost
  BY DEF TypeOK, EscrowTypeOK, TaskInfo, NoOverdraft
<1>3. CASE RaiseDispute(t)
  <2>1. /\ account' = account /\ taskCounter' = taskCounter
        /\ tasks'[t] = Disputed(tasks[t])
        /\ \A r \in Created : r # t => tasks'[r] = tasks[r]
    BY <1>3, RaiseDisputeStep DEF ledgerVars
  <2>2. tasks'[t].spent <= tasks'[t].planCost
    BY <1>2, <2>1, DisputedTask
  <2>3. \A r \in Created' : tasks'[r].spent <= tasks'[r].planCost
    BY <2>1, <2>2, TasksElsewhere
  <2>4. QED
    BY <2>1, <2>3 DEF NoOverdraft, Available
<1>4. ASSUME NEW debit \in Nat, NEW charged \in Nat, debit <= tasks[t].planCost,
             Finalize(t, debit, charged)
      PROVE  NoOverdraft'
  <2> DEFINE u == tasks[t].user
             a == tasks[t].asset
  <2>1. /\ u \in Users /\ a \in Assets
        /\ tasks'[t] = Closed(tasks[t])
        /\ taskCounter' = taskCounter
        /\ \A r \in Created : r # t => tasks'[r] = tasks[r]
        /\ \A v \in Users, b \in Assets :
             v # u \/ b # a => account'[v][b] = account[v][b]
    BY <1>4, FinalizeStep
  <2>2. u' = u /\ a' = a /\ tasks'[t].spent <= tasks'[t].planCost
    BY <1>2, <2>1, ClosedTask
  <2>3. Available(u, a)' = Available(u, a) + (tasks[t].planCost - debit)
    BY <1>4, FinalizeAvailable
  <2> HIDE DEF u, a
  <2>4. Available(u, a) >= 0 /\ Available(u, a) \in Int
    BY <2>1 DEF NoOverdraft, Available, TypeOK, LedgerTypeOK, Account
  <2>5. (Available(u, a))' >= 0
    BY <1>2, <1>4, <2>3, <2>4
  <2>6. \A v \in Users, b \in Assets : Available(v, b)' >= 0
    BY <2>1, <2>2, <2>5, AvailableElsewhere DEF Available
  <2>7. \A r \in Created' : tasks'[r].spent <= tasks'[r].planCost
    BY <2>1, <2>2, TasksElsewhere
  <2>8. QED
    BY <2>6, <2>7 DEF NoOverdraft
<1>5. CASE FinalizeUndisputed(t)
  BY <1>2, <1>4, <1>5 DEF FinalizeUndisputed
<1>6. ASSUME NEW refund \in Nat, NEW payout \in Nat, ResolveDispute(t, refund, payout)
      PROVE  NoOverdraft'
  <2>1. Finalize(t, tasks[t].planCost, tasks[t].spent + payout)
    BY <1>6 DEF ResolveDispute
  <2>2. tasks[t].spent + payout \in Nat
    BY <1>2
  <2>3. QED
    BY <1>2, <1>4, <2>1, <2>2
<1>7. QED
  BY <1>1, <1>3, <1>5, <1>6

LEMMA NoOverdraftStep ==
    ASSUME TypeOK, NoOverdraft, [Next]_vars
    PROVE  NoOverdraft'
<1>1. CASE UNCHANGED <<account, tasks, taskCounter>>
  BY <1>1 DEF NoOverdraft, Available, Created
<1>2. CASE UNCHANGED vars
  BY <1>1, <1>2 DEF vars, ledgerVars, escrowVars, taskVars
<1>3. CASE RegistryNext
  BY <1>1, <1>3 DEF RegistryNext, RegisterOrchestrator, UpdateOrchestrator,
                    ledgerVars, taskVars
<1>4. CASE ConfigNext
  BY <1>1, <1>4 DEF ConfigNext, SetPolicyCommitment, UnpinPolicyCommitment,
                    SetPolicyVerifier, SetDisputeResolver, SetMaxActiveTasks,
                    SetStaleThreshold, ledgerVars, taskVars
<1>5. QED
  BY <1>2, <1>3, <1>4, LedgerNoOverdraft, CreateNoOverdraft, ReleaseNoOverdraft,
     EndNoOverdraft DEF Next

\* No sequence of deposits, withdrawals, new tasks, releases, disputes and
\* settlements makes an available balance negative or a task spend more than
\* its plan cost.
THEOREM NeverOverdrawn == Spec => []NoOverdraft
<1>1. Init => NoOverdraft
  BY DEF Init, LedgerInit, EscrowInit, NoOverdraft, Available, NewAccount, Created
<1>2. TypeOK /\ NoOverdraft /\ [Next]_vars => NoOverdraft'
  BY NoOverdraftStep
<1>3. QED
  BY <1>1, <1>2, TypeCorrect, PTL DEF Spec

-----------------------------------------------------------------------------
\* Refinement: the contract's books implement FundsEscrow.

LEMMA BooksInit ==
    ASSUME Init
    PROVE  Books!Init
<1>1. /\ account = [u \in Users |-> [a \in Assets |-> NewAccount]]
      /\ accruedFees = [a \in Assets |-> 0]
      /\ held = [a \in Assets |-> 0]
      /\ taskCounter = 0
  BY DEF Init, LedgerInit, EscrowInit
<1>2. Free = [u \in Users |-> [a \in Assets |-> 0]]
  BY <1>1 DEF Free, Available, NewAccount
<1>3. Escrows = [t \in TaskIds |-> [phase |-> "none"]]
  BY <1>1 DEF Escrows, EscrowOf, Created
<1>4. QED
  BY <1>1, <1>2, <1>3 DEF Books!Init, Books!Unopened

\* The abstract variables after one account entry, or one task, was written.
LEMMA FreeWrite ==
    ASSUME NEW u \in Users, NEW a \in Assets, NEW new,
           Available(u, a)' = new,
           \A v \in Users, b \in Assets :
              v # u \/ b # a => account'[v][b] = account[v][b]
    PROVE  Free' = [Free EXCEPT ![u][a] = new]
<1>1. \A v \in Users, b \in Assets :
        v # u \/ b # a => Available(v, b)' = Available(v, b)
  BY DEF Available
<1>2. \A v \in Users, b \in Assets :
        (account'[v][b].balance - account'[v][b].locked)
           = IF v = u /\ b = a THEN new ELSE Available(v, b)
  BY <1>1 DEF Available
<1>3. Free' = [v \in Users |-> [b \in Assets |->
                  account'[v][b].balance - account'[v][b].locked]]
  BY DEF Free, Available
<1>4. Free' = [v \in Users |-> [b \in Assets |->
                  IF v = u /\ b = a THEN new ELSE Free[v][b]]]
  BY <1>2, <1>3 DEF Free
<1>5. QED
  BY <1>4 DEF Free

LEMMA EscrowWrite ==
    ASSUME TypeOK, NEW t \in Created, taskCounter' = taskCounter,
           \A r \in Created : r # t => tasks'[r] = tasks[r],
           NEW new, EscrowOf(t)' = new
    PROVE  /\ t \in TaskIds
           /\ Escrows' = [Escrows EXCEPT ![t] = new]
<1>1. t \in TaskIds
  BY EscrowAssumption DEF TypeOK, EscrowTypeOK, Created, TaskIds
<1>2. \A r \in TaskIds : r # t => EscrowOf(r)' = EscrowOf(r)
  BY DEF EscrowOf, Phase, Created
<1>3. QED
  BY <1>1, <1>2 DEF Escrows

\* The escrow of a task that was not closed yet.
LEMMA LiveEscrow ==
    ASSUME TypeOK, NEW t \in Created, ~tasks[t].completed
    PROVE  /\ t \in TaskIds
           /\ Escrows[t] = [phase |-> IF tasks[t].disputed THEN "frozen" ELSE "open",
                            owner |-> tasks[t].user, asset |-> tasks[t].asset,
                            left |-> tasks[t].planCost - tasks[t].spent]
<1>1. t \in TaskIds
  BY EscrowAssumption DEF TypeOK, EscrowTypeOK, Created, TaskIds
<1>2. QED
  BY <1>1 DEF Escrows, EscrowOf, Phase

LEMMA BooksUnchanged ==
    ASSUME UNCHANGED <<account, accruedFees, held, tasks, taskCounter>>
    PROVE  UNCHANGED Books!vars
<1>1. Free' = Free
  BY DEF Free, Available
<1>2. Escrows' = Escrows
  BY DEF Escrows, EscrowOf, Phase, Created
<1>3. QED
  BY <1>1, <1>2 DEF Books!vars

LEMMA LedgerBooks ==
    ASSUME TypeOK, LedgerNext, UNCHANGED escrowVars
    PROVE  [Books!Next]_(Books!vars)
<1>1. Escrows' = Escrows
  BY DEF Escrows, EscrowOf, Phase, Created, escrowVars, taskVars
<1>2. ASSUME NEW u \in Users, NEW a \in Assets, NEW x \in Amounts, Deposit(u, a, x)
      PROVE  Books!Next
  <2> DEFINE new == Deposited(account[u][a], x)
  <2>1. x \in Nat /\ account[u][a] \in Account
    BY LedgerAssumption DEF TypeOK, LedgerTypeOK
  <2>2. /\ new \in Account /\ new.balance = account[u][a].balance + x
        /\ new.locked = account[u][a].locked
    BY <2>1, DepositedEntry
  <2>3. SetAccount(u, a, new) /\ held' = [held EXCEPT ![a] = @ + x]
        /\ accruedFees' = accruedFees
    BY <1>2 DEF Deposit
  <2> HIDE DEF new
  <2>4. /\ account'[u][a] = new
        /\ \A v \in Users, b \in Assets :
             v # u \/ b # a => account'[v][b] = account[v][b]
    BY <2>2, <2>3, AccountWrite
  <2>5. Available(u, a)' = Available(u, a) + x
    BY <2>1, <2>2, <2>4 DEF Available, Account
  <2>6. Free' = [Free EXCEPT ![u][a] = Available(u, a) + x]
    BY <2>4, <2>5, FreeWrite
  <2>7. Free' = [Free EXCEPT ![u][a] = @ + x]
    BY <2>6 DEF Free
  <2>8. Books!Credit(u, a, x)
    BY <1>1, <2>3, <2>7 DEF Books!Credit
  <2>9. QED
    BY <2>8 DEF Books!Next
<1>3. ASSUME NEW u \in Users, NEW a \in Assets, NEW x \in Amounts, Withdraw(u, a, x)
      PROVE  Books!Next
  <2> DEFINE new == Withdrawn(account[u][a], x)
  <2>1. x \in Nat /\ account[u][a] \in Account
    BY LedgerAssumption DEF TypeOK, LedgerTypeOK
  <2>2. /\ new \in Account /\ new.balance = account[u][a].balance - x
        /\ new.locked = account[u][a].locked
    BY <2>1, WithdrawnEntry
  <2>3. SetAccount(u, a, new) /\ held' = [held EXCEPT ![a] = @ - x]
        /\ accruedFees' = accruedFees /\ x <= Available(u, a)
    BY <1>3 DEF Withdraw
  <2> HIDE DEF new
  <2>4. /\ account'[u][a] = new
        /\ \A v \in Users, b \in Assets :
             v # u \/ b # a => account'[v][b] = account[v][b]
    BY <2>2, <2>3, AccountWrite
  <2>5. Available(u, a)' = Available(u, a) - x
    BY <2>1, <2>2, <2>4 DEF Available, Account
  <2>6. Free' = [Free EXCEPT ![u][a] = Available(u, a) - x]
    BY <2>4, <2>5, FreeWrite
  <2>7. Free' = [Free EXCEPT ![u][a] = @ - x] /\ x <= Free[u][a]
    BY <2>3, <2>6 DEF Free
  <2>8. /\ held' = [held EXCEPT ![a] = @ - (x - 0)]
        /\ accruedFees' = [accruedFees EXCEPT ![a] = @ + 0]
    BY <2>1, <2>3 DEF TypeOK, LedgerTypeOK
  <2>9. Books!Debit(u, a, x, 0)
    BY <1>1, <2>7, <2>8 DEF Books!Debit
  <2>10. 0 \in 0..x
    BY <2>1
  <2>11. QED
    BY <2>9, <2>10 DEF Books!Next
<1>4. ASSUME NEW a \in Assets, ClaimFees(a)
      PROVE  Books!Next
  <2>1. Books!Claim(a)
    BY <1>1, <1>4 DEF ClaimFees, Free, Available, Books!Claim
  <2>2. QED
    BY <2>1 DEF Books!Next
<1>5. CASE UNCHANGED <<account, accruedFees, held>>
  BY <1>5, BooksUnchanged DEF escrowVars, taskVars
<1>6. \/ UNCHANGED <<account, accruedFees, held>>
      \/ \E u \in Users, a \in Assets, x \in Amounts :
            Deposit(u, a, x) \/ Withdraw(u, a, x)
      \/ \E a \in Assets : ClaimFees(a)
  BY DEF LedgerNext, Pause, Unpause, AddAsset, RemoveAsset, SetFee, Tick
<1>7. QED
  BY <1>2, <1>3, <1>4, <1>5, <1>6

LEMMA CreateBooks ==
    ASSUME TypeOK, CreateNext
    PROVE  Books!Next
<1>1. PICK o \in Orchestrators, a \in Assets, x \in Amounts,
           c \in Commitments \cup {NoCommitment} : LockNewTask(o, a, x, c)
  BY DEF CreateNext, CreateTask, CreateTaskWithPolicy
<1>2. PICK u \in Users : u = orchestratorOwner[o]
  BY <1>1, LockNewTaskStep
<1>3. PICK t \in TaskIds : t = taskCounter + 1
  BY <1>1, LockNewTaskStep
<1> DEFINE acc == account[u][a]
<1>4. /\ x <= Available(u, a)
      /\ account'[u][a] = Reserved(acc, x)
      /\ \A v \in Users, b \in Assets :
           v # u \/ b # a => account'[v][b] = account[v][b]
      /\ taskCounter' = t
      /\ tasks'[t] = NewTask(u, o, a, x, c)
      /\ \A r \in Created : tasks'[r] = tasks[r]
  BY <1>1, <1>2, <1>3, LockNewTaskStep
<1>5. x \in Nat /\ acc \in Account
  BY LedgerAssumption DEF TypeOK, LedgerTypeOK
<1>6. Free' = [Free EXCEPT ![u][a] = @ - x] /\ x <= Free[u][a]
  <2>1. /\ Reserved(acc, x).balance = acc.balance
        /\ Reserved(acc, x).locked = acc.locked + x
    BY <1>5, ReservedEntry
  <2>2. Available(u, a)' = acc.balance - (acc.locked + x)
    BY <1>4, <2>1 DEF Available
  <2>3. Available(u, a) = acc.balance - acc.locked
    BY DEF Available
  <2>4. Available(u, a)' = Available(u, a) - x
    BY <1>5, <2>2, <2>3 DEF Account
  <2>5. Free' = [Free EXCEPT ![u][a] = Available(u, a) - x]
    BY <1>4, <2>4, FreeWrite
  <2>6. QED
    BY <1>4, <2>5 DEF Free
<1>7. taskCounter \in Nat
  BY DEF TypeOK, EscrowTypeOK
<1>8. Escrows[t] = [phase |-> "none"]
  BY <1>3, <1>7 DEF Escrows, EscrowOf, Created
<1>9. EscrowOf(t)' = [phase |-> "open", owner |-> u, asset |-> a, left |-> x]
  <2>1. t \in Created'
    BY <1>3, <1>4, <1>7 DEF Created
  <2>2. /\ tasks'[t].user = u /\ tasks'[t].asset = a /\ ~tasks'[t].completed
        /\ ~tasks'[t].disputed /\ tasks'[t].planCost - tasks'[t].spent = x
    BY <1>4, <1>5 DEF NewTask
  <2>3. QED
    BY <2>1, <2>2 DEF EscrowOf, Phase
<1>10. \A r \in TaskIds : r # t => EscrowOf(r)' = EscrowOf(r)
  <2>1. \A r \in TaskIds : r # t => (r \in Created' <=> r \in Created)
    BY <1>3, <1>4, <1>7 DEF Created, TaskIds
  <2>2. QED
    BY <1>4, <2>1 DEF EscrowOf, Phase
<1>11. Escrows' = [Escrows EXCEPT ![t] =
                     [phase |-> "open", owner |-> u, asset |-> a, left |-> x]]
  BY <1>9, <1>10 DEF Escrows
<1>12. UNCHANGED <<accruedFees, held>>
  BY <1>1 DEF LockNewTask
<1>13. Books!Open(t, u, a, x)
  BY <1>6, <1>8, <1>11, <1>12 DEF Books!Open
<1>14. QED
  BY <1>13 DEF Books!Next

LEMMA ReleaseBooks ==
    ASSUME TypeOK, ReleaseNext
    PROVE  Books!Next
<1>1. PICK t \in Created, s \in StepIds, x \in Amounts :
        \/ ReleasePayment(t, s, x)
        \/ \E n \in Nullifiers : ReleasePaymentProved(t, s, x, n)
  BY DEF ReleaseNext
<1> DEFINE f == ComputeFee(x)
           a == tasks[t].asset
           left == tasks[t].planCost - tasks[t].spent
<1>2. /\ tasks[t] \in TaskInfo
      /\ ~tasks[t].completed /\ ~tasks[t].disputed
      /\ tasks[t].spent + x <= tasks[t].planCost
      /\ PayOut(a, x)
      /\ tasks'[t].spent = tasks[t].spent + x
      /\ tasks'[t].planCost = tasks[t].planCost
      /\ tasks'[t].user = tasks[t].user
      /\ tasks'[t].asset = a
      /\ tasks'[t].completed = tasks[t].completed
      /\ tasks'[t].disputed = tasks[t].disputed
      /\ \A r \in Created : r # t => tasks'[r] = tasks[r]
      /\ account' = account /\ taskCounter' = taskCounter
  BY <1>1, ReleaseStep
<1>3. x \in Nat /\ tasks[t].planCost \in Nat /\ tasks[t].spent \in Nat
  BY <1>2, LedgerAssumption DEF TaskInfo
<1>4. f \in 0..x
  BY <1>3, FeeBounds DEF TypeOK, LedgerTypeOK
<1>5. /\ t \in TaskIds
      /\ Escrows[t] = [phase |-> "open", owner |-> tasks[t].user, asset |-> a,
                       left |-> left]
  BY <1>2, LiveEscrow
<1> DEFINE new == [phase |-> "open", owner |-> tasks[t].user, asset |-> a,
                   left |-> left - x]
<1>6. EscrowOf(t)' = new
  <2>1. t \in Created'
    BY <1>2 DEF Created
  <2>2. tasks'[t].planCost - tasks'[t].spent = left - x
    BY <1>2, <1>3
  <2>3. QED
    BY <1>2, <2>1, <2>2 DEF EscrowOf, Phase
<1>7. /\ held' = [held EXCEPT ![a] = @ - (x - f)]
      /\ accruedFees' = [accruedFees EXCEPT ![a] = @ + f]
  BY <1>2 DEF PayOut
<1> HIDE DEF f, left
<1>8. Escrows' = [Escrows EXCEPT ![t] = new]
  BY <1>2, <1>6, EscrowWrite
<1>9. new = [Escrows[t] EXCEPT !.left = Escrows[t].left - x]
  BY <1>5
<1>10. Escrows[t].phase = "open" /\ Escrows[t].asset = a /\ Escrows[t].left = left
  BY <1>5
<1>11. x <= left
  BY <1>2, <1>3 DEF left
<1>12. Free' = Free
  BY <1>2 DEF Free, Available
<1> HIDE DEF a, new
<1>13. Escrows' = [Escrows EXCEPT ![t] = [@ EXCEPT !.left = Escrows[t].left - x]]
  BY <1>8, <1>9
<1>14. Books!Pay(t, x, f)
  BY <1>7, <1>10, <1>11, <1>12, <1>13 DEF Books!Pay
<1>15. QED
  BY <1>4, <1>5, <1>14 DEF Books!Next

LEMMA EndBooks ==
    ASSUME TypeOK, EndNext
    PROVE  Books!Next
<1>1. PICK t \in Created :
        \/ RaiseDispute(t)
        \/ FinalizeUndisputed(t)
        \/ \E refund, payout \in Nat : ResolveDispute(t, refund, payout)
  BY EndSteps
<1>2. PICK u \in Users, a \in Assets, left \in Int :
        u = tasks[t].user /\ a = tasks[t].asset /\ left = tasks[t].planCost - tasks[t].spent
  <2>1. /\ tasks[t].user \in Users /\ tasks[t].asset \in Assets
        /\ tasks[t].planCost \in Nat /\ tasks[t].spent \in Nat
    BY DEF TypeOK, EscrowTypeOK, TaskInfo
  <2>2. QED
    BY <2>1
<1>3. tasks[t] \in TaskInfo
  BY DEF TypeOK, EscrowTypeOK
<1>4. CASE RaiseDispute(t)
  <2>1. /\ ~tasks[t].completed /\ ~tasks[t].disputed
        /\ tasks'[t] = Disputed(tasks[t])
        /\ \A r \in Created : r # t => tasks'[r] = tasks[r]
        /\ UNCHANGED <<ledgerVars, taskCounter>>
    BY <1>4, RaiseDisputeStep
  <2>2. /\ t \in TaskIds
        /\ Escrows[t] = [phase |-> "open", owner |-> u, asset |-> a, left |-> left]
    BY <1>2, <2>1, LiveEscrow
  <2>3. EscrowOf(t)' = [phase |-> "frozen", owner |-> u, asset |-> a, left |-> left]
    <3>1. t \in Created'
      BY <2>1 DEF Created
    <3>2. QED
      BY <1>2, <1>3, <2>1, <3>1, DisputedTask DEF EscrowOf, Phase
  <2>4. Escrows' = [Escrows EXCEPT ![t] =
                      [phase |-> "frozen", owner |-> u, asset |-> a, left |-> left]]
    BY <2>1, <2>3, EscrowWrite
  <2>5. Escrows' = [Escrows EXCEPT ![t] = [@ EXCEPT !.phase = "frozen"]]
    <3>1. [Escrows[t] EXCEPT !.phase = "frozen"] =
             [phase |-> "frozen", owner |-> u, asset |-> a, left |-> left]
      BY <2>2
    <3>2. QED
      BY <2>4, <3>1
  <2>6. Free' = Free /\ accruedFees' = accruedFees /\ held' = held
    BY <2>1 DEF ledgerVars, Free, Available
  <2>7. Books!Freeze(t)
    BY <2>2, <2>5, <2>6 DEF Books!Freeze
  <2>8. QED
    BY <2>2, <2>7 DEF Books!Next
<1>5. ASSUME NEW debit \in Nat, NEW charged \in Nat, Finalize(t, debit, charged)
      PROVE  /\ t \in TaskIds
             /\ Escrows[t] = [phase |-> IF tasks[t].disputed THEN "frozen" ELSE "open",
                              owner |-> u, asset |-> a, left |-> left]
             /\ Escrows' = [Escrows EXCEPT ![t] = [@ EXCEPT !.phase = "closed", !.left = 0]]
             /\ Free' = [Free EXCEPT ![u][a] = Free[u][a] + (tasks[t].planCost - debit)]
             /\ accruedFees' = accruedFees
  <2>1. /\ ~tasks[t].completed
        /\ tasks'[t] = Closed(tasks[t])
        /\ taskCounter' = taskCounter
        /\ accruedFees' = accruedFees
        /\ \A r \in Created : r # t => tasks'[r] = tasks[r]
        /\ \A v \in Users, b \in Assets :
             v # u \/ b # a => account'[v][b] = account[v][b]
    BY <1>2, <1>5, FinalizeStep
  <2>2. /\ t \in TaskIds
        /\ Escrows[t] = [phase |-> IF tasks[t].disputed THEN "frozen" ELSE "open",
                         owner |-> u, asset |-> a, left |-> left]
    BY <1>2, <2>1, LiveEscrow
  <2>3. /\ tasks'[t].completed /\ tasks'[t].user = u /\ tasks'[t].asset = a
    BY <1>2, <1>3, <2>1, ClosedTask
  <2>4. EscrowOf(t)' = [phase |-> "closed", owner |-> u, asset |-> a, left |-> 0]
    <3>1. t \in Created'
      BY <2>1 DEF Created
    <3>2. QED
      BY <2>3, <3>1 DEF EscrowOf, Phase
  <2>5. Escrows' = [Escrows EXCEPT ![t] =
                      [phase |-> "closed", owner |-> u, asset |-> a, left |-> 0]]
    BY <2>1, <2>4, EscrowWrite
  <2>6. Escrows' = [Escrows EXCEPT ![t] = [@ EXCEPT !.phase = "closed", !.left = 0]]
    <3>1. [Escrows[t] EXCEPT !.phase = "closed", !.left = 0] =
             [phase |-> "closed", owner |-> u, asset |-> a, left |-> 0]
      <4> DEFINE e == Escrows[t]
      <4>1. \E p : e = [phase |-> p, owner |-> u, asset |-> a, left |-> left]
        BY <2>2
      <4> HIDE DEF e
      <4>2. PICK p : e = [phase |-> p, owner |-> u, asset |-> a, left |-> left]
        BY <4>1
      <4>3. [e EXCEPT !.phase = "closed", !.left = 0] =
               [phase |-> "closed", owner |-> u, asset |-> a, left |-> 0]
        <5> DEFINE c == [e EXCEPT !.phase = "closed"]
        <5>1. c = [phase |-> "closed", owner |-> u, asset |-> a, left |-> left]
          BY <4>2
        <5>2. [e EXCEPT !.phase = "closed", !.left = 0] = [c EXCEPT !.left = 0]
          BY <4>2
        <5> HIDE DEF c
        <5>3. QED
          BY <5>1, <5>2
      <4>4. QED
        BY <4>3 DEF e
    <3>2. QED
      BY <2>5, <3>1, Zenon
  <2>7. Available(u, a)' = Available(u, a) + (tasks[t].planCost - debit)
    BY <1>2, <1>5, <2>3, FinalizeAvailable DEF Available
  <2>8. Free' = [Free EXCEPT ![u][a] = Available(u, a) + (tasks[t].planCost - debit)]
    BY <2>1, <2>7, FreeWrite
  <2>9. Available(u, a) = Free[u][a]
    BY DEF Free
  <2>10. QED
    BY <2>1, <2>2, <2>6, <2>8, <2>9
<1>6. CASE FinalizeUndisputed(t)
  <2>1. /\ Finalize(t, tasks[t].spent, tasks[t].spent) /\ ~tasks[t].disputed
        /\ tasks[t].spent \in Nat /\ held' = held
    BY <1>3, <1>6 DEF FinalizeUndisputed, TaskInfo
  <2>2. /\ t \in TaskIds
        /\ Escrows[t] = [phase |-> "open", owner |-> u, asset |-> a, left |-> left]
        /\ Escrows' = [Escrows EXCEPT ![t] = [@ EXCEPT !.phase = "closed", !.left = 0]]
        /\ Free' = [Free EXCEPT ![u][a] = Free[u][a] + left]
        /\ accruedFees' = accruedFees
    BY <1>2, <1>5, <2>1
  <2>3. /\ Escrows[t].phase = "open" /\ Escrows[t].owner = u
        /\ Escrows[t].asset = a /\ Escrows[t].left = left
    BY <2>2
  <2>4. Books!Return(t)
    BY <2>1, <2>2, <2>3 DEF Books!Return
  <2>5. QED
    BY <2>2, <2>4 DEF Books!Next
<1>7. ASSUME NEW refund \in Nat, NEW payout \in Nat, ResolveDispute(t, refund, payout)
      PROVE  Books!Next
  <2>1. /\ Finalize(t, tasks[t].planCost, tasks[t].spent + payout) /\ tasks[t].disputed
        /\ held' = [held EXCEPT ![a] = @ - left]
    BY <1>2, <1>7 DEF ResolveDispute
  <2>2. tasks[t].planCost \in Nat /\ tasks[t].spent + payout \in Nat
    BY <1>3 DEF TaskInfo
  <2>3. /\ t \in TaskIds
        /\ Escrows[t] = [phase |-> "frozen", owner |-> u, asset |-> a, left |-> left]
        /\ Escrows' = [Escrows EXCEPT ![t] = [@ EXCEPT !.phase = "closed", !.left = 0]]
        /\ Free' = [Free EXCEPT ![u][a] = Free[u][a] + 0]
        /\ accruedFees' = accruedFees
    BY <1>2, <1>5, <2>1, <2>2
  <2>4. Escrows[t].phase = "frozen" /\ Escrows[t].asset = a /\ Escrows[t].left = left
    BY <2>3
  <2>5. Free' = Free
    <3>1. Free[u][a] \in Int
      BY DEF Free, Available, TypeOK, LedgerTypeOK, Account
    <3>2. Free[u][a] + 0 = Free[u][a]
      BY <3>1
    <3>3. Free' = [Free EXCEPT ![u][a] = Free[u][a]]
      BY <2>3, <3>2, Zenon
    <3>4. QED
      BY <3>3 DEF Free
  <2>6. Books!Arbitrate(t)
    BY <2>1, <2>3, <2>4, <2>5 DEF Books!Arbitrate
  <2>7. QED
    BY <2>3, <2>6 DEF Books!Next
<1>8. QED
  BY <1>1, <1>4, <1>6, <1>7

LEMMA NextBooks ==
    ASSUME TypeOK, [Next]_vars
    PROVE  [Books!Next]_(Books!vars)
<1>1. CASE UNCHANGED <<account, accruedFees, held, tasks, taskCounter>>
  BY <1>1, BooksUnchanged
<1>2. CASE UNCHANGED vars
  BY <1>1, <1>2 DEF vars, ledgerVars, escrowVars, taskVars
<1>3. CASE RegistryNext
  BY <1>1, <1>3 DEF RegistryNext, RegisterOrchestrator, UpdateOrchestrator,
                    ledgerVars, taskVars
<1>4. CASE ConfigNext
  BY <1>1, <1>4 DEF ConfigNext, SetPolicyCommitment, UnpinPolicyCommitment,
                    SetPolicyVerifier, SetDisputeResolver, SetMaxActiveTasks,
                    SetStaleThreshold, ledgerVars, taskVars
<1>5. QED
  BY <1>2, <1>3, <1>4, LedgerBooks, CreateBooks, ReleaseBooks, EndBooks DEF Next

\* Every contract call moves money along one transition of FundsEscrow or
\* none: what is free, in escrow or accrued as a fee never mixes, a frozen
\* escrow pays nothing and a closed one is final.
THEOREM BooksImplemented == Spec => ImplementsBooks
<1>1. Init => Books!Init
  BY BooksInit
<1>2. TypeOK /\ [Next]_vars => [Books!Next]_(Books!vars)
  BY NextBooks
<1>3. QED
  BY <1>1, <1>2, TypeCorrect, PTL DEF Spec, ImplementsBooks, Books!Spec

-----------------------------------------------------------------------------
\* An account's history.

LEMMA HistoryElsewhere ==
    ASSUME TypeOK, HistoryBounded, NEW u \in Users, NEW a \in Assets,
           \A v \in Users, b \in Assets :
              v # u \/ b # a => account'[v][b] = account[v][b],
           account'[u][a].balance + account'[u][a].totalSpent
              <= account'[u][a].totalDeposited
    PROVE  HistoryBounded'
  BY DEF HistoryBounded

LEMMA LedgerHistory ==
    ASSUME TypeOK, HistoryBounded, LedgerNext
    PROVE  HistoryBounded'
<1>1. CASE UNCHANGED account
  BY <1>1 DEF HistoryBounded
<1>2. ASSUME NEW u \in Users, NEW a \in Assets, NEW x \in Amounts,
             Deposit(u, a, x) \/ Withdraw(u, a, x)
      PROVE  HistoryBounded'
  <2> DEFINE acc == account[u][a]
  <2>1. /\ x \in Nat /\ acc \in Account
        /\ acc.balance + acc.totalSpent <= acc.totalDeposited
    BY LedgerAssumption DEF TypeOK, LedgerTypeOK, HistoryBounded
  <2> HIDE DEF acc
  <2>2. PICK new \in Account :
          /\ SetAccount(u, a, new)
          /\ new.balance + new.totalSpent <= new.totalDeposited
    <3>1. CASE Deposit(u, a, x)
      <4>1. SetAccount(u, a, Deposited(acc, x))
        BY <3>1 DEF Deposit, acc
      <4>2. /\ Deposited(acc, x) \in Account
            /\ Deposited(acc, x).balance + Deposited(acc, x).totalSpent
                  <= Deposited(acc, x).totalDeposited
        BY <2>1, DepositedEntry DEF Account
      <4>3. QED
        BY <4>1, <4>2
    <3>2. CASE Withdraw(u, a, x)
      <4>1. SetAccount(u, a, Withdrawn(acc, x))
        BY <3>2 DEF Withdraw, acc
      <4>2. /\ Withdrawn(acc, x) \in Account
            /\ Withdrawn(acc, x).balance + Withdrawn(acc, x).totalSpent
                  <= Withdrawn(acc, x).totalDeposited
        BY <2>1, WithdrawnEntry DEF Account
      <4>3. QED
        BY <4>1, <4>2
    <3>3. QED
      BY <1>2, <3>1, <3>2
  <2>3. /\ account'[u][a] = new
        /\ \A v \in Users, b \in Assets :
             v # u \/ b # a => account'[v][b] = account[v][b]
    BY <2>2, AccountWrite
  <2>4. QED
    BY <2>2, <2>3, HistoryElsewhere
<1>3. \/ UNCHANGED account
      \/ \E u \in Users, a \in Assets, x \in Amounts :
            Deposit(u, a, x) \/ Withdraw(u, a, x)
  BY DEF LedgerNext, Pause, Unpause, AddAsset, RemoveAsset, SetFee, ClaimFees, Tick
<1>4. QED
  BY <1>1, <1>2, <1>3

LEMMA EndHistory ==
    ASSUME TypeOK, HistoryBounded, EndNext
    PROVE  HistoryBounded'
<1>1. PICK t \in Created :
        \/ RaiseDispute(t)
        \/ FinalizeUndisputed(t)
        \/ \E refund, payout \in Nat : ResolveDispute(t, refund, payout)
  BY EndSteps
<1>2. tasks[t].spent \in Nat /\ tasks[t].planCost \in Nat
  BY DEF TypeOK, EscrowTypeOK, TaskInfo
<1>3. CASE RaiseDispute(t)
  BY <1>3 DEF RaiseDispute, ledgerVars, HistoryBounded
<1>4. ASSUME NEW debit \in Nat, NEW charged \in Nat, charged <= debit,
             Finalize(t, debit, charged)
      PROVE  HistoryBounded'
  <2>1. PICK u \in Users, a \in Assets : u = tasks[t].user /\ a = tasks[t].asset
    BY <1>4, FinalizeStep
  <2> DEFINE acc == account[u][a]
             p == tasks[t].planCost
             new == Charged(acc, p, debit, charged)
  <2>2. /\ account'[u][a] = new
        /\ \A v \in Users, b \in Assets :
             v # u \/ b # a => account'[v][b] = account[v][b]
    BY <1>4, <2>1, FinalizeStep
  <2>3. /\ acc \in Account /\ p \in Nat
        /\ acc.balance + acc.totalSpent <= acc.totalDeposited
    BY <1>2 DEF TypeOK, LedgerTypeOK, HistoryBounded
  <2> HIDE DEF acc, p
  <2>4. /\ new.balance = acc.balance - debit
        /\ new.totalSpent = acc.totalSpent + charged
        /\ new.totalDeposited = acc.totalDeposited
    BY <2>3, ChargedEntry
  <2>5. new.balance + new.totalSpent <= new.totalDeposited
    BY <1>4, <2>3, <2>4 DEF Account
  <2>6. QED
    BY <2>2, <2>5, HistoryElsewhere
<1>5. CASE FinalizeUndisputed(t)
  BY <1>2, <1>4, <1>5 DEF FinalizeUndisputed
<1>6. ASSUME NEW refund \in Nat, NEW payout \in Nat, ResolveDispute(t, refund, payout)
      PROVE  HistoryBounded'
  <2>1. /\ Finalize(t, tasks[t].planCost, tasks[t].spent + payout)
        /\ refund + payout = tasks[t].planCost - tasks[t].spent
    BY <1>6 DEF ResolveDispute
  <2>2. tasks[t].spent + payout \in Nat /\ tasks[t].spent + payout <= tasks[t].planCost
    BY <1>2, <2>1
  <2>3. QED
    BY <1>2, <1>4, <2>1, <2>2
<1>7. QED
  BY <1>1, <1>3, <1>5, <1>6

LEMMA CreateHistory ==
    ASSUME TypeOK, HistoryBounded, CreateNext
    PROVE  HistoryBounded'
<1>1. PICK o \in Orchestrators, a \in Assets, x \in Amounts,
           c \in Commitments \cup {NoCommitment} : LockNewTask(o, a, x, c)
  BY DEF CreateNext, CreateTask, CreateTaskWithPolicy
<1>2. PICK u \in Users : u = orchestratorOwner[o]
  BY <1>1, LockNewTaskStep
<1>3. /\ account'[u][a] = Reserved(account[u][a], x)
      /\ \A v \in Users, b \in Assets :
           v # u \/ b # a => account'[v][b] = account[v][b]
  BY <1>1, <1>2, LockNewTaskStep
<1>4. /\ Reserved(account[u][a], x).balance = account[u][a].balance
      /\ Reserved(account[u][a], x).totalSpent = account[u][a].totalSpent
      /\ Reserved(account[u][a], x).totalDeposited = account[u][a].totalDeposited
  BY ReservedEntry, LedgerAssumption DEF TypeOK, LedgerTypeOK
<1>5. account'[u][a].balance + account'[u][a].totalSpent
         <= account'[u][a].totalDeposited
  BY <1>3, <1>4 DEF HistoryBounded
<1>6. QED
  BY <1>3, <1>5, HistoryElsewhere

LEMMA HistoryStep ==
    ASSUME TypeOK, HistoryBounded, [Next]_vars
    PROVE  HistoryBounded'
<1>1. CASE UNCHANGED account
  BY <1>1 DEF HistoryBounded
<1>2. CASE UNCHANGED vars
  BY <1>1, <1>2 DEF vars, ledgerVars
<1>3. CASE RegistryNext
  BY <1>1, <1>3 DEF RegistryNext, RegisterOrchestrator, UpdateOrchestrator, ledgerVars
<1>4. CASE ConfigNext
  BY <1>1, <1>4 DEF ConfigNext, SetPolicyCommitment, UnpinPolicyCommitment,
                    SetPolicyVerifier, SetDisputeResolver, SetMaxActiveTasks,
                    SetStaleThreshold, ledgerVars
<1>5. CASE ReleaseNext
  BY <1>1, <1>5 DEF ReleaseNext, ReleasePayment, ReleasePaymentProved
<1>6. QED
  BY <1>2, <1>3, <1>4, <1>5, LedgerHistory, CreateHistory, EndHistory DEF Next

\* What an account still holds and what its tasks were charged never exceed
\* its deposits, however tasks end.
THEOREM HistoryAlwaysBounded == Spec => []HistoryBounded
<1>1. Init => HistoryBounded
  BY DEF Init, LedgerInit, HistoryBounded, NewAccount
<1>2. TypeOK /\ HistoryBounded /\ [Next]_vars => HistoryBounded'
  BY HistoryStep
<1>3. QED
  BY <1>1, <1>2, TypeCorrect, PTL DEF Spec

-----------------------------------------------------------------------------
\* Proof gating.

LEMMA ReleaseGated ==
    ASSUME TypeOK, ReleaseNext
    PROVE  GatedNext
<1>1. PICK t \in Created, s \in StepIds, x \in Amounts :
        \/ ReleasePayment(t, s, x)
        \/ \E n \in Nullifiers : ReleasePaymentProved(t, s, x, n)
  BY DEF ReleaseNext
<1>2. tasks[t] \in TaskInfo /\ \A r \in Created : r # t => tasks'[r] = tasks[r]
  BY <1>1, ReleaseStep
<1>3. GatedStep(t)
  <2>1. CASE ReleasePayment(t, s, x)
    BY <2>1 DEF ReleasePayment, GatedStep
  <2>2. ASSUME NEW n \in Nullifiers, ReleasePaymentProved(t, s, x, n)
        PROVE  GatedStep(t)
    <3> DEFINE mid == Released(tasks[t], s, x)
    <3>1. mid \in TaskInfo /\ mid.nullifiers = tasks[t].nullifiers
      BY <1>2, ReleasedTask, LedgerAssumption
    <3>2. /\ n \notin tasks[t].nullifiers
          /\ tasks[t].commitment \in pinned[tasks[t].user]
          /\ SetTask(t, Consuming(mid, n))
          /\ taskCounter' = taskCounter
      BY <2>2 DEF ReleasePaymentProved
    <3> HIDE DEF mid
    <3>3. Consuming(mid, n) \in TaskInfo
          /\ Consuming(mid, n).nullifiers = mid.nullifiers \cup {n}
      BY <3>1, ConsumingTask
    <3>4. tasks'[t] = Consuming(mid, n)
      BY <3>2, <3>3, TaskWrite
    <3>5. tasks'[t].nullifiers = tasks[t].nullifiers \cup {n}
      BY <3>1, <3>3, <3>4
    <3>6. QED
      BY <3>2, <3>5 DEF GatedNext, GatedStep
  <2>3. QED
    BY <1>1, <2>1, <2>2
<1>4. QED
  BY <1>2, <1>3 DEF GatedNext, GatedStep

LEMMA EndGated ==
    ASSUME TypeOK, EndNext
    PROVE  GatedNext
<1>1. PICK t \in Created :
        \/ RaiseDispute(t)
        \/ FinalizeUndisputed(t)
        \/ \E refund, payout \in Nat : ResolveDispute(t, refund, payout)
  BY EndSteps
<1>2. tasks[t] \in TaskInfo /\ tasks[t].spent \in Nat /\ tasks[t].planCost \in Nat
  BY DEF TypeOK, EscrowTypeOK, TaskInfo
<1>3. CASE RaiseDispute(t)
  BY <1>2, <1>3, RaiseDisputeStep, DisputedTask DEF GatedNext, GatedStep
<1>4. ASSUME NEW debit \in Nat, NEW charged \in Nat, Finalize(t, debit, charged)
      PROVE  GatedNext
  BY <1>2, <1>4, FinalizeStep, ClosedTask DEF GatedNext, GatedStep
<1>5. CASE FinalizeUndisputed(t)
  BY <1>2, <1>4, <1>5 DEF FinalizeUndisputed
<1>6. ASSUME NEW refund \in Nat, NEW payout \in Nat, ResolveDispute(t, refund, payout)
      PROVE  GatedNext
  <2>1. Finalize(t, tasks[t].planCost, tasks[t].spent + payout)
    BY <1>6 DEF ResolveDispute
  <2>2. tasks[t].spent + payout \in Nat
    BY <1>2
  <2>3. QED
    BY <1>2, <1>4, <2>1, <2>2
<1>7. QED
  BY <1>1, <1>3, <1>5, <1>6

LEMMA NextGated ==
    ASSUME TypeOK, [Next]_vars
    PROVE  GatedNext
<1>1. CASE UNCHANGED tasks
  BY <1>1 DEF GatedNext, GatedStep
<1>2. CASE CreateNext
  <2>1. PICK o \in Orchestrators, a \in Assets, x \in Amounts,
             c \in Commitments \cup {NoCommitment} : LockNewTask(o, a, x, c)
    BY <1>2 DEF CreateNext, CreateTask, CreateTaskWithPolicy
  <2>2. \A r \in Created : tasks'[r] = tasks[r]
    BY <2>1, LockNewTaskStep
  <2>3. QED
    BY <2>2 DEF GatedNext, GatedStep
<1>3. CASE (LedgerNext /\ UNCHANGED escrowVars) \/ UNCHANGED vars
  BY <1>1, <1>3 DEF vars, escrowVars, taskVars
<1>4. CASE RegistryNext
  BY <1>1, <1>4 DEF RegistryNext, RegisterOrchestrator, UpdateOrchestrator, taskVars
<1>5. CASE ConfigNext
  BY <1>1, <1>5 DEF ConfigNext, SetPolicyCommitment, UnpinPolicyCommitment,
                    SetPolicyVerifier, SetDisputeResolver, SetMaxActiveTasks,
                    SetStaleThreshold, taskVars
<1>6. QED
  BY <1>2, <1>3, <1>4, <1>5, ReleaseGated, EndGated DEF Next

\* A task created with a policy commitment never pays without consuming a
\* fresh nullifier under a commitment its owner has pinned at that moment.
THEOREM AlwaysProofGated == Spec => ProofGated
<1>1. TypeOK /\ [Next]_vars => [GatedNext]_vars
  BY NextGated
<1>2. QED
  BY <1>1, TypeCorrect, PTL DEF Spec, ProofGated
=============================================================================
