----------------------------- MODULE IndexerProofs -----------------------------
(***************************************************************************)
(* Proofs about the chain indexer for any number of processes, any page    *)
(* limit and any amounts: type correctness, no gap in what is stored, and  *)
(* a mirror that is exact up to what is not projected and never shows less *)
(* than the account holds.                                                 *)
(***************************************************************************)
EXTENDS Indexer, TLAPS

-----------------------------------------------------------------------------
\* The vault and its log.

\* The account and what was not projected of it, after the first i events.
AfterAt(i) == IF i = 0 THEN Zero ELSE log[i].after
UnseenAt(i) == IF i = 0 THEN Zero ELSE log[i].unseen

\* What an event says of the account it found and the one it left.
Deposited(e, p, u) ==
    e.after = Plus(p, e.amount, 0, e.amount, 0) /\ e.unseen = u
Withdrawn(e, p, u) ==
    /\ e.after = Plus(p, -e.amount, 0, 0, 0) /\ e.unseen = u
    /\ 0 <= e.amount /\ e.amount <= p.balance - p.locked
Opened(e, p, u) ==
    e.after = Plus(p, 0, e.amount, 0, 1) /\ e.unseen = u
Closed(e, p, u) ==
    /\ e.after = Plus(p, -e.amount, -(e.amount + e.refund), 0, -1) /\ e.unseen = u
    /\ p.active # 0
\* An event of another type moves account and unseen alike, and nothing if there
\* is nothing.
Passed(e, p, u) ==
    /\ e.after.balance - e.unseen.balance = p.balance - u.balance
    /\ e.after.locked - e.unseen.locked = p.locked - u.locked
    /\ e.after.deposited - e.unseen.deposited = p.deposited - u.deposited
    /\ e.after.active - e.unseen.active = p.active - u.active
    /\ p = Zero => e.after = Zero /\ e.unseen = u

Follows(e, p, u) ==
    /\ e.type = "deposit" => Deposited(e, p, u)
    /\ e.type = "withdraw" => Withdrawn(e, p, u)
    /\ e.type = "task_new" => Opened(e, p, u)
    /\ e.type = "task_done" => Closed(e, p, u)
    /\ e.type = "other" => Passed(e, p, u)

VaultOK ==
    /\ account \in Row
    /\ account.balance >= account.locked /\ account.locked >= 0
    /\ open = None \/ open \in [plan : Nat, spent : Nat]
    /\ open = None => account.locked = 0 /\ account.active = 0
    /\ open # None => /\ account.locked = open.plan /\ account.active = 1
                      /\ open.spent <= open.plan
    /\ log \in Seq(Event)

LogOK ==
    /\ account = AfterAt(Len(log)) /\ Unseen = UnseenAt(Len(log))
    /\ \A i \in 1..Len(log) : Follows(log[i], AfterAt(i - 1), UnseenAt(i - 1))

LEMMA ZeroType ==
    /\ Zero \in Row /\ Zero.balance = 0 /\ Zero.locked = 0
    /\ Zero.deposited = 0 /\ Zero.active = 0
  BY DEF Zero, Row

LEMMA RowEqual ==
    ASSUME NEW r \in Row, NEW s \in Row,
           r.balance = s.balance, r.locked = s.locked,
           r.deposited = s.deposited, r.active = s.active
    PROVE  r = s
  BY DEF Row

LEMMA LogType ==
    ASSUME VaultOK
    PROVE  /\ Len(log) \in Nat
           /\ \A i \in 1..Len(log) : log[i] \in Event
           /\ \A i \in 0..Len(log) : AfterAt(i) \in Row /\ UnseenAt(i) \in Row
           /\ Unseen = UnseenAt(Len(log))
<1>1. Len(log) \in Nat /\ \A i \in 1..Len(log) : log[i] \in Event
  BY DEF VaultOK
<1>2. \A i \in 0..Len(log) : AfterAt(i) \in Row /\ UnseenAt(i) \in Row
  BY <1>1, ZeroType DEF AfterAt, UnseenAt, Event
<1>3. Unseen = UnseenAt(Len(log))
  BY <1>1 DEF VaultOK, Unseen, UnseenAt
<1>4. QED
  BY <1>1, <1>2, <1>3

\* Emitting an event that follows from the account extends the log.
LEMMA EmitKeepsLog ==
    ASSUME VaultOK, LogOK, NEW e \in Event,
           Emit(e.type, e.amount, e.refund, e.after, e.unseen),
           Follows(e, account, Unseen)
    PROVE  /\ LogOK' /\ log' \in Seq(Event) /\ account' = e.after
           /\ Len(log') = Len(log) + 1
           /\ \A i \in 1..Len(log) : log'[i] = log[i]
<1>1. log \in Seq(Event)
  BY DEF VaultOK
<1>2. PICK n \in Nat : n = Len(log)
  BY <1>1
<1>3. log' = Append(log, e) /\ account' = e.after
  <2>1. e = [type |-> e.type, amount |-> e.amount, refund |-> e.refund,
             after |-> e.after, unseen |-> e.unseen]
    BY DEF Event
  <2>2. QED
    BY <2>1 DEF Emit
<1>4. /\ log' \in Seq(Event) /\ Len(log') = n + 1 /\ log'[n + 1] = e
      /\ \A i \in 1..n : log'[i] = log[i]
  BY <1>1, <1>2, <1>3
<1>5. \A i \in 0..n : AfterAt(i)' = AfterAt(i) /\ UnseenAt(i)' = UnseenAt(i)
  BY <1>4 DEF AfterAt, UnseenAt
<1>6. AfterAt(n + 1)' = e.after /\ UnseenAt(n + 1)' = e.unseen
  BY <1>4 DEF AfterAt, UnseenAt
<1>7. Unseen' = e.unseen
  BY <1>4 DEF Unseen
<1>8. Follows(e, AfterAt(n), UnseenAt(n))
  BY <1>2 DEF LogOK
<1>9. ASSUME NEW i \in 1..(n + 1)
      PROVE  Follows(log'[i], AfterAt(i - 1)', UnseenAt(i - 1)')
  <2>1. CASE i = n + 1
    BY <1>4, <1>5, <1>8, <2>1
  <2>2. CASE i # n + 1
    <3>1. i \in 1..n /\ i - 1 \in 0..n
      BY <2>2
    <3>2. QED
      BY <1>2, <1>4, <1>5, <3>1 DEF LogOK
  <2>3. QED
    BY <2>1, <2>2
<1>10. LogOK'
  BY <1>3, <1>4, <1>6, <1>7, <1>9 DEF LogOK
<1>11. QED
  BY <1>2, <1>3, <1>4, <1>10

\* What every step of the vault does to the log: it grows by one event or not at
\* all, and what is in it stays.
LogGrows ==
    /\ Len(log) <= Len(log')
    /\ \A i \in 1..Len(log) : log'[i] = log[i]

\* A step that emits e, and leaves the account and the open task in order.
LEMMA VaultEmits ==
    ASSUME VaultOK, LogOK, NEW e \in Event,
           Emit(e.type, e.amount, e.refund, e.after, e.unseen),
           Follows(e, account, Unseen),
           e.after.balance >= e.after.locked, e.after.locked >= 0,
           open' = None \/ open' \in [plan : Nat, spent : Nat],
           open' = None => e.after.locked = 0 /\ e.after.active = 0,
           open' # None => /\ e.after.locked = open'.plan /\ e.after.active = 1
                           /\ open'.spent <= open'.plan
    PROVE  VaultOK' /\ LogOK' /\ LogGrows /\ UNCHANGED <<configured, dbVars, run, faults>>
<1>1. /\ LogOK' /\ log' \in Seq(Event) /\ account' = e.after
      /\ Len(log') = Len(log) + 1
      /\ \A i \in 1..Len(log) : log'[i] = log[i]
  BY EmitKeepsLog
<1>2. e.after \in Row
  BY DEF Event
<1>3. VaultOK'
  BY <1>1, <1>2 DEF VaultOK
<1>4. Len(log) \in Nat
  BY LogType
<1>5. UNCHANGED <<configured, dbVars, run, faults>>
  BY DEF Emit
<1>6. QED
  BY <1>1, <1>3, <1>4, <1>5 DEF LogGrows

LEMMA VaultSteps ==
    ASSUME VaultOK, LogOK, VaultStep
    PROVE  VaultOK' /\ LogOK' /\ LogGrows /\ UNCHANGED <<configured, dbVars, run, faults>>
<1> USE IndexerAssumption
<1>0. /\ account \in Row /\ Unseen \in Row /\ Amounts \subseteq Nat
      /\ account.balance \in Int /\ account.locked \in Int
      /\ account.deposited \in Int /\ account.active \in Int
      /\ account.balance >= account.locked /\ account.locked >= 0
      /\ open = None \/ open \in [plan : Nat, spent : Nat]
      /\ open = None => account.locked = 0 /\ account.active = 0
      /\ open # None => /\ account.locked = open.plan /\ account.active = 1
                        /\ open.spent <= open.plan
  <2>1. account \in Row /\ Amounts \subseteq Nat
    BY DEF VaultOK
  <2>2. Len(log) \in Nat /\ Unseen \in Row
    BY LogType
  <2>3. QED
    BY <2>1, <2>2 DEF Row, VaultOK
<1>t. {"deposit", "withdraw", "task_new", "task_done", "other"} \subseteq Types
  BY DEF Types
<1>1. ASSUME NEW a \in Amounts, Deposit(a)
      PROVE  VaultOK' /\ LogOK' /\ LogGrows /\ UNCHANGED <<configured, dbVars, run, faults>>
  <2>0. a \in Nat
    BY <1>0
  <2>1. PICK r \in Row : r = Plus(account, a, 0, a, 0)
    <3>1. Plus(account, a, 0, a, 0) \in Row
      BY <1>0, <2>0 DEF Plus, Row
    <3>2. QED
      BY <3>1
  <2>2. PICK v \in Row : v = Unseen
    BY <1>0
  <2>3. /\ r.balance = account.balance + a /\ r.locked = account.locked
        /\ r.deposited = account.deposited + a /\ r.active = account.active
    BY <1>0, <2>0, <2>1 DEF Plus, Row
  <2>4. /\ v.balance = Unseen.balance /\ v.locked = Unseen.locked
        /\ v.deposited = Unseen.deposited /\ v.active = Unseen.active
    BY <1>0, <2>0, <2>2 DEF Plus, Row
  <2>5. PICK e \in Event : e = [type |-> "deposit", amount |-> a, refund |-> 0,
                                after |-> r, unseen |-> v]
    <3>1. [type |-> "deposit", amount |-> a, refund |-> 0,
           after |-> r, unseen |-> v] \in Event
      BY <1>t, <2>0 DEF Event
    <3>2. QED
      BY <3>1, Zenon
  <2>6. /\ e.type = "deposit" /\ e.amount = a /\ e.refund = 0
        /\ e.after = r /\ e.unseen = v
    BY <2>5
  <2>7. /\ Emit(e.type, e.amount, e.refund, e.after, e.unseen)
        /\ open' = open
    BY <1>1, <2>0, <2>1, <2>2, <2>6 DEF Deposit
  <2>8. Follows(e, account, Unseen)
    BY <1>0, <2>0, <2>1, <2>2, <2>3, <2>4, <2>6, <2>7 DEF Follows, Deposited
  <2>9. QED
    BY <1>0, <2>0, <2>3, <2>6, <2>7, <2>8, VaultEmits
<1>2. ASSUME NEW a \in Amounts, Withdraw(a)
      PROVE  VaultOK' /\ LogOK' /\ LogGrows /\ UNCHANGED <<configured, dbVars, run, faults>>
  <2>0. a \in Nat
    BY <1>0
  <2>1. PICK r \in Row : r = Plus(account, -a, 0, 0, 0)
    <3>1. Plus(account, -a, 0, 0, 0) \in Row
      BY <1>0, <2>0 DEF Plus, Row
    <3>2. QED
      BY <3>1
  <2>2. PICK v \in Row : v = Unseen
    BY <1>0
  <2>3. /\ r.balance = account.balance - a /\ r.locked = account.locked
        /\ r.deposited = account.deposited /\ r.active = account.active
    BY <1>0, <2>0, <2>1 DEF Plus, Row
  <2>4. /\ v.balance = Unseen.balance /\ v.locked = Unseen.locked
        /\ v.deposited = Unseen.deposited /\ v.active = Unseen.active
    BY <1>0, <2>0, <2>2 DEF Plus, Row
  <2>5. PICK e \in Event : e = [type |-> "withdraw", amount |-> a, refund |-> 0,
                                after |-> r, unseen |-> v]
    <3>1. [type |-> "withdraw", amount |-> a, refund |-> 0,
           after |-> r, unseen |-> v] \in Event
      BY <1>t, <2>0 DEF Event
    <3>2. QED
      BY <3>1, Zenon
  <2>6. /\ e.type = "withdraw" /\ e.amount = a /\ e.refund = 0
        /\ e.after = r /\ e.unseen = v
    BY <2>5
  <2>7. /\ Emit(e.type, e.amount, e.refund, e.after, e.unseen)
        /\ open' = open /\ a <= account.balance - account.locked
    BY <1>2, <2>0, <2>1, <2>2, <2>6 DEF Withdraw, Available
  <2>8. Follows(e, account, Unseen)
    BY <1>0, <2>0, <2>1, <2>2, <2>3, <2>4, <2>6, <2>7 DEF Follows, Withdrawn
  <2>9. QED
    BY <1>0, <2>0, <2>3, <2>6, <2>7, <2>8, VaultEmits
<1>3. ASSUME NEW plan \in Amounts, NewTask(plan)
      PROVE  VaultOK' /\ LogOK' /\ LogGrows /\ UNCHANGED <<configured, dbVars, run, faults>>
  <2>0. plan \in Nat
    BY <1>0
  <2>1. PICK r \in Row : r = Plus(account, 0, plan, 0, 1)
    <3>1. Plus(account, 0, plan, 0, 1) \in Row
      BY <1>0, <2>0 DEF Plus, Row
    <3>2. QED
      BY <3>1
  <2>2. PICK v \in Row : v = Unseen
    BY <1>0
  <2>3. /\ r.balance = account.balance /\ r.locked = account.locked + plan
        /\ r.deposited = account.deposited /\ r.active = account.active + 1
    BY <1>0, <2>0, <2>1 DEF Plus, Row
  <2>4. /\ v.balance = Unseen.balance /\ v.locked = Unseen.locked
        /\ v.deposited = Unseen.deposited /\ v.active = Unseen.active
    BY <1>0, <2>0, <2>2 DEF Plus, Row
  <2>5. PICK e \in Event : e = [type |-> "task_new", amount |-> plan, refund |-> 0,
                                after |-> r, unseen |-> v]
    <3>1. [type |-> "task_new", amount |-> plan, refund |-> 0,
           after |-> r, unseen |-> v] \in Event
      BY <1>t, <2>0 DEF Event
    <3>2. QED
      BY <3>1, Zenon
  <2>6. /\ e.type = "task_new" /\ e.amount = plan /\ e.refund = 0
        /\ e.after = r /\ e.unseen = v
    BY <2>5
  <2>7. /\ Emit(e.type, e.amount, e.refund, e.after, e.unseen)
        /\ open' = [plan |-> plan, spent |-> 0] /\ open = None
        /\ plan <= account.balance - account.locked
    BY <1>3, <2>0, <2>1, <2>2, <2>6 DEF NewTask, Available
  <2>8. Follows(e, account, Unseen)
    BY <1>0, <2>0, <2>1, <2>2, <2>3, <2>4, <2>6, <2>7 DEF Follows, Opened
  <2>9. QED
    BY <1>0, <2>0, <2>3, <2>6, <2>7, <2>8, VaultEmits
<1>4. ASSUME NEW a \in Amounts, Release(a)
      PROVE  VaultOK' /\ LogOK' /\ LogGrows /\ UNCHANGED <<configured, dbVars, run, faults>>
  <2>0. a \in Nat
    BY <1>0
  <2>1. PICK r \in Row : r = account
    BY <1>0
  <2>2. PICK v \in Row : v = Unseen
    BY <1>0
  <2>3. /\ r.balance = account.balance /\ r.locked = account.locked
        /\ r.deposited = account.deposited /\ r.active = account.active
    BY <1>0, <2>0, <2>1 DEF Plus, Row
  <2>4. /\ v.balance = Unseen.balance /\ v.locked = Unseen.locked
        /\ v.deposited = Unseen.deposited /\ v.active = Unseen.active
    BY <1>0, <2>0, <2>2 DEF Plus, Row
  <2>5. PICK e \in Event : e = [type |-> "other", amount |-> a, refund |-> 0,
                                after |-> r, unseen |-> v]
    <3>1. [type |-> "other", amount |-> a, refund |-> 0,
           after |-> r, unseen |-> v] \in Event
      BY <1>t, <2>0 DEF Event
    <3>2. QED
      BY <3>1, Zenon
  <2>6. /\ e.type = "other" /\ e.amount = a /\ e.refund = 0
        /\ e.after = r /\ e.unseen = v
    BY <2>5
  <2>7. /\ Emit(e.type, e.amount, e.refund, e.after, e.unseen)
        /\ open' = [open EXCEPT !.spent = @ + a] /\ open # None
        /\ a <= open.plan - open.spent
    BY <1>4, <2>0, <2>1, <2>2, <2>6 DEF Release
  <2>8. Follows(e, account, Unseen)
    BY <1>0, <2>0, <2>1, <2>2, <2>3, <2>4, <2>6, <2>7 DEF Follows, Passed
  <2>9. QED
    BY <1>0, <2>0, <2>3, <2>6, <2>7, <2>8, VaultEmits
<1>5. CASE FinalizeTask
  <2>n. open # None /\ open.plan \in Nat /\ open.spent \in Nat
    BY <1>0, <1>5 DEF FinalizeTask
  <2>0. PICK plan \in Nat, spent \in Nat : /\ plan = open.plan /\ spent = open.spent
                                           /\ account.active = 1 /\ account.locked = plan
                                           /\ spent <= plan
    BY <1>0, <2>n
  <2>1. PICK r \in Row : r = Plus(account, -spent, -plan, 0, -1)
    <3>1. Plus(account, -spent, -plan, 0, -1) \in Row
      BY <1>0, <2>0 DEF Plus, Row
    <3>2. QED
      BY <3>1
  <2>2. PICK v \in Row : v = Unseen
    BY <1>0
  <2>3. /\ r.balance = account.balance - spent /\ r.locked = account.locked - plan
        /\ r.deposited = account.deposited /\ r.active = account.active - 1
    BY <1>0, <2>0, <2>1 DEF Plus, Row
  <2>4. /\ v.balance = Unseen.balance /\ v.locked = Unseen.locked
        /\ v.deposited = Unseen.deposited /\ v.active = Unseen.active
    BY <1>0, <2>0, <2>2 DEF Plus, Row
  <2>5. PICK e \in Event : e = [type |-> "task_done", amount |-> spent, refund |-> plan - spent,
                                after |-> r, unseen |-> v]
    <3>1. [type |-> "task_done", amount |-> spent, refund |-> plan - spent,
           after |-> r, unseen |-> v] \in Event
      BY <1>t, <2>0 DEF Event
    <3>2. QED
      BY <3>1, Zenon
  <2>6. /\ e.type = "task_done" /\ e.amount = spent /\ e.refund = plan - spent
        /\ e.after = r /\ e.unseen = v
    BY <2>5
  <2>7. /\ Emit(e.type, e.amount, e.refund, e.after, e.unseen)
        /\ open' = None
    BY <1>5, <2>0, <2>1, <2>2, <2>6 DEF FinalizeTask
  <2>8. Follows(e, account, Unseen)
    BY <1>0, <2>0, <2>1, <2>2, <2>3, <2>4, <2>6, <2>7 DEF Follows, Closed
  <2>9. QED
    BY <1>0, <2>0, <2>3, <2>6, <2>7, <2>8, VaultEmits
<1>6. CASE ResolveDispute
  <2>n. open # None /\ open.plan \in Nat
    BY <1>0, <1>6 DEF ResolveDispute
  <2>0. PICK plan \in Nat : /\ plan = open.plan
                             /\ account.active = 1 /\ account.locked = plan
    BY <1>0, <2>n
  <2>1. PICK r \in Row : r = Plus(account, -plan, -plan, 0, -1)
    <3>1. Plus(account, -plan, -plan, 0, -1) \in Row
      BY <1>0, <2>0 DEF Plus, Row
    <3>2. QED
      BY <3>1
  <2>2. PICK v \in Row : v = Plus(Unseen, -plan, -plan, 0, -1)
    <3>1. Plus(Unseen, -plan, -plan, 0, -1) \in Row
      BY <1>0, <2>0 DEF Plus, Row
    <3>2. QED
      BY <3>1
  <2>3. /\ r.balance = account.balance - plan /\ r.locked = account.locked - plan
        /\ r.deposited = account.deposited /\ r.active = account.active - 1
    BY <1>0, <2>0, <2>1 DEF Plus, Row
  <2>4. /\ v.balance = Unseen.balance - plan /\ v.locked = Unseen.locked - plan
        /\ v.deposited = Unseen.deposited /\ v.active = Unseen.active - 1
    BY <1>0, <2>0, <2>2 DEF Plus, Row
  <2>5. PICK e \in Event : e = [type |-> "other", amount |-> plan, refund |-> 0,
                                after |-> r, unseen |-> v]
    <3>1. [type |-> "other", amount |-> plan, refund |-> 0,
           after |-> r, unseen |-> v] \in Event
      BY <1>t, <2>0 DEF Event
    <3>2. QED
      BY <3>1, Zenon
  <2>6. /\ e.type = "other" /\ e.amount = plan /\ e.refund = 0
        /\ e.after = r /\ e.unseen = v
    BY <2>5
  <2>7. /\ Emit(e.type, e.amount, e.refund, e.after, e.unseen)
        /\ open' = None
    BY <1>6, <2>0, <2>1, <2>2, <2>6 DEF ResolveDispute
  <2>a. account # Zero
    BY <2>0, ZeroType
  <2>b. /\ Unseen.balance \in Int /\ Unseen.locked \in Int
        /\ Unseen.deposited \in Int /\ Unseen.active \in Int
    BY <1>0 DEF Row
  <2>8. Follows(e, account, Unseen)
    BY <1>0, <2>0, <2>1, <2>2, <2>3, <2>4, <2>6, <2>7, <2>a, <2>b DEF Follows, Passed
  <2>9. QED
    BY <1>0, <2>0, <2>3, <2>6, <2>7, <2>8, VaultEmits
<1>7. ASSUME NEW a \in Amounts, DirectRelease(a)
      PROVE  VaultOK' /\ LogOK' /\ LogGrows /\ UNCHANGED <<configured, dbVars, run, faults>>
  <2>0. a \in Nat
    BY <1>0
  <2>1. PICK r \in Row : r = Plus(account, -a, 0, 0, 0)
    <3>1. Plus(account, -a, 0, 0, 0) \in Row
      BY <1>0, <2>0 DEF Plus, Row
    <3>2. QED
      BY <3>1
  <2>2. PICK v \in Row : v = Plus(Unseen, -a, 0, 0, 0)
    <3>1. Plus(Unseen, -a, 0, 0, 0) \in Row
      BY <1>0, <2>0 DEF Plus, Row
    <3>2. QED
      BY <3>1
  <2>3. /\ r.balance = account.balance - a /\ r.locked = account.locked
        /\ r.deposited = account.deposited /\ r.active = account.active
    BY <1>0, <2>0, <2>1 DEF Plus, Row
  <2>4. /\ v.balance = Unseen.balance - a /\ v.locked = Unseen.locked
        /\ v.deposited = Unseen.deposited /\ v.active = Unseen.active
    BY <1>0, <2>0, <2>2 DEF Plus, Row
  <2>5. PICK e \in Event : e = [type |-> "other", amount |-> a, refund |-> 0,
                                after |-> r, unseen |-> v]
    <3>1. [type |-> "other", amount |-> a, refund |-> 0,
           after |-> r, unseen |-> v] \in Event
      BY <1>t, <2>0 DEF Event
    <3>2. QED
      BY <3>1, Zenon
  <2>6. /\ e.type = "other" /\ e.amount = a /\ e.refund = 0
        /\ e.after = r /\ e.unseen = v
    BY <2>5
  <2>7. /\ Emit(e.type, e.amount, e.refund, e.after, e.unseen)
        /\ open' = open /\ a <= account.balance - account.locked
    BY <1>7, <2>0, <2>1, <2>2, <2>6 DEF DirectRelease, Available
  <2>a. account = Zero => a = 0
    BY <2>0, <2>7, ZeroType
  <2>b. /\ Unseen.balance \in Int /\ Unseen.locked \in Int
        /\ Unseen.deposited \in Int /\ Unseen.active \in Int
    BY <1>0 DEF Row
  <2>c. a = 0 => r = account /\ v = Unseen
    BY <1>0, <2>3, <2>4, <2>b, RowEqual
  <2>8. Follows(e, account, Unseen)
    BY <1>0, <2>0, <2>1, <2>2, <2>3, <2>4, <2>6, <2>7, <2>a, <2>b, <2>c DEF Follows, Passed
  <2>9. QED
    BY <1>0, <2>0, <2>3, <2>6, <2>7, <2>8, VaultEmits
<1>8. QED
  BY <1>1, <1>2, <1>3, <1>4, <1>5, <1>6, <1>7 DEF VaultStep

-----------------------------------------------------------------------------
\* The indexer's database and processes.

DbOK ==
    /\ configured \in BOOLEAN
    /\ cursor \in Nat \cup {None} /\ stored \in SUBSET Nat
    /\ mirror = None \/ mirror \in Row
    /\ run \in [Instances -> Process]
    /\ faults \in 0..MaxFaults

\* A process that polls knows where to begin, and its page lies in the log.
RunOK ==
    \A x \in Instances :
        /\ run[x].at # "boot" => /\ cursor = None => run[x].start \in Nat
                                 /\ configured => run[x].start = 0
        /\ run[x].at = "persist" => run[x].to <= Len(log) /\ run[x].next >= 1

TypeInv == VaultOK /\ LogOK /\ DbOK /\ RunOK

\* What is stored has no gap, and neither cursor nor page runs ahead of it.
PrefixInv ==
    configured =>
        /\ \A i \in stored : i \in 1..Len(log) /\ \A j \in 1..i : j \in stored
        /\ cursor # None => \A j \in 1..cursor : j \in stored
        /\ \A x \in Instances :
             /\ run[x].at = "fetch" => \A j \in 1..run[x].from : j \in stored
             /\ run[x].at = "persist" => \A j \in 1..(run[x].next - 1) : j \in stored

\* The mirror shows the account after k events, less what was not projected; and
\* there is a row as soon as there is anything to show.
Mirrored == IF mirror = None THEN Zero ELSE mirror
Matches(k) ==
    /\ Mirrored.balance = AfterAt(k).balance - UnseenAt(k).balance
    /\ Mirrored.locked = AfterAt(k).locked - UnseenAt(k).locked
    /\ Mirrored.deposited = AfterAt(k).deposited - UnseenAt(k).deposited
    /\ Mirrored.active = AfterAt(k).active - UnseenAt(k).active
    /\ mirror = None => AfterAt(k) = Zero /\ UnseenAt(k) = Zero

MirrorInv ==
    configured => \A k \in 0..Len(log) : stored = 1..k => Matches(k)

LEMMA InitTypeOK == Init => TypeInv
<1> SUFFICES ASSUME Init PROVE TypeInv
  OBVIOUS
<1> USE IndexerAssumption
<1>1. VaultOK
  <2>1. account \in Row /\ account.balance = 0 /\ account.locked = 0 /\ account.active = 0
    BY ZeroType DEF Init
  <2>2. open = None /\ log \in Seq(Event)
    BY DEF Init
  <2>3. QED
    BY <2>1, <2>2 DEF VaultOK
<1>2. LogOK
  BY DEF Init, LogOK, AfterAt, UnseenAt, Unseen
<1>3. DbOK
  <2>1. Booting \in Process
    BY DEF Booting, Process
  <2>2. QED
    BY <2>1 DEF Init, DbOK
<1>4. RunOK
  BY DEF Init, RunOK, Booting
<1>5. QED
  BY <1>1, <1>2, <1>3, <1>4 DEF TypeInv

LEMMA ProcessType ==
    ASSUME DbOK, NEW x \in Instances
    PROVE  /\ run[x] \in Process /\ Polling(x) \in Process
           /\ Polling(x).at = "poll" /\ Polling(x).start = run[x].start
           /\ Booting \in Process /\ Booting.at = "boot"
  BY DEF DbOK, Polling, Booting, Process

LEMMA ProjectedType ==
    ASSUME DbOK, NEW e \in Event
    PROVE  Projected(e) = None \/ Projected(e) \in Row
<1>1. e.amount \in Int /\ e.refund \in Int /\ Zero \in Row
  BY ZeroType DEF Event
<1>2. ASSUME NEW r \in Row, NEW b \in Int, NEW l \in Int, NEW d \in Int, NEW n \in Int
      PROVE  Plus(r, b, l, d, n) \in Row
  BY DEF Plus, Row
<1>3. mirror = None \/ mirror \in Row
  BY DEF DbOK
<1>4. CASE mirror = None
  <2>1. Plus(Zero, e.amount, 0, e.amount, 0) \in Row /\ Plus(Zero, 0, e.amount, 0, 1) \in Row
    BY <1>1, <1>2
  <2>2. QED
    BY <1>1, <1>4, <2>1 DEF Projected
<1>5. CASE mirror # None
  <2>1. mirror \in Row /\ -e.amount \in Int /\ -(e.amount + e.refund) \in Int
    BY <1>1, <1>3, <1>5
  <2>2. /\ Plus(mirror, e.amount, 0, e.amount, 0) \in Row
        /\ Plus(mirror, -e.amount, 0, 0, 0) \in Row
        /\ Plus(mirror, 0, e.amount, 0, 1) \in Row
    BY <1>1, <1>2, <2>1
  <2>3. Plus(mirror, -e.amount, -(e.amount + e.refund), 0, -1) \in Row
    BY <1>1, <1>2, <2>1
  <2>4. QED
    BY <1>5, <2>1, <2>2, <2>3 DEF Projected
<1>6. QED
  BY <1>4, <1>5

\* What the indexer's steps do to the types: each moves one process, and leaves
\* the vault alone.
LEMMA IndexerSteps ==
    ASSUME TypeInv, NEW x \in Instances, IndexerStep(x) \/ PollError(x) \/ Crash(x)
    PROVE  TypeInv'
<1> USE IndexerAssumption
<1>1. UNCHANGED <<chainVars, configured>>
  BY DEF IndexerStep, Boot, ReadCursor, FetchPage, Persist, SaveCursor, PollError, Crash
<1>2. VaultOK' /\ LogOK'
  BY <1>1 DEF TypeInv, VaultOK, LogOK, AfterAt, UnseenAt, Unseen, chainVars
<1>3. /\ run \in [Instances -> Process] /\ run[x] \in Process
      /\ Polling(x) \in Process /\ Polling(x).at = "poll" /\ Polling(x).start = run[x].start
      /\ Booting \in Process /\ Booting.at = "boot"
      /\ configured \in BOOLEAN /\ cursor \in Nat \cup {None} /\ stored \in SUBSET Nat
      /\ mirror = None \/ mirror \in Row
      /\ faults \in 0..MaxFaults
      /\ Len(log) \in Nat /\ \A i \in 1..Len(log) : log[i] \in Event
  BY ProcessType, LogType DEF TypeInv, DbOK
\* It is enough that the process is well formed after the step.
<1>4. ASSUME NEW new \in Process, run' = [run EXCEPT ![x] = new],
             cursor' \in Nat \cup {None}, cursor' = None => cursor = None,
             stored' \in SUBSET Nat, mirror' = None \/ mirror' \in Row,
             faults' \in 0..MaxFaults,
             new.at # "boot" => /\ cursor' = None => new.start \in Nat
                                /\ configured => new.start = 0,
             new.at = "persist" => new.to <= Len(log) /\ new.next >= 1
      PROVE  TypeInv'
  <2>1. DbOK'
    BY <1>1, <1>3, <1>4 DEF DbOK
  <2>2. \A y \in Instances : run'[y] = IF y = x THEN new ELSE run[y]
    BY <1>3, <1>4
  <2>3. RunOK'
    BY <1>1, <1>4, <2>2 DEF TypeInv, RunOK, chainVars
  <2>4. QED
    BY <1>2, <2>1, <2>3 DEF TypeInv
<1>5. CASE Boot(x)
  <2> DEFINE start == IF configured THEN 0 ELSE IF cursor = None THEN Len(log) ELSE None
             new == [run[x] EXCEPT !.at = "poll", !.start = start]
  <2>1. run' = [run EXCEPT ![x] = new] /\ UNCHANGED <<dbVars, faults>>
    BY <1>3, <1>5 DEF Boot
  <2>2. new \in Process /\ new.at = "poll" /\ new.start = start
    BY <1>3 DEF Process
  <2>3. /\ cursor = None => start \in Nat
        /\ configured => start = 0
    BY <1>3
  <2> HIDE DEF new, start
  <2>4. QED
    BY <1>3, <1>4, <2>1, <2>2, <2>3 DEF dbVars
<1>6. CASE ReadCursor(x)
  <2> DEFINE from == IF cursor = None THEN run[x].start ELSE cursor
             new == [run[x] EXCEPT !.at = "fetch", !.from = from]
  <2>1. run' = [run EXCEPT ![x] = new] /\ UNCHANGED <<dbVars, faults>> /\ run[x].at = "poll"
    BY <1>3, <1>6 DEF ReadCursor
  <2>2. /\ cursor = None => run[x].start \in Nat
        /\ configured => run[x].start = 0
    BY <2>1 DEF TypeInv, RunOK
  <2>3. new \in Process /\ new.at = "fetch" /\ new.start = run[x].start
    BY <1>3, <2>2 DEF Process
  <2> HIDE DEF new, from
  <2>4. QED
    BY <1>3, <1>4, <2>1, <2>2, <2>3 DEF dbVars
<1>7. CASE FetchPage(x)
  <2> DEFINE from == run[x].from
             end == IF Len(log) < from + Limit THEN Len(log) ELSE from + Limit
             new == [run[x] EXCEPT !.at = "persist", !.to = end, !.next = from + 1]
  <2>1. run' = [run EXCEPT ![x] = new] /\ UNCHANGED <<dbVars, faults>> /\ run[x].at = "fetch"
    BY <1>3, <1>7 DEF FetchPage
  <2>2. from \in Nat /\ end \in Nat /\ end <= Len(log)
    BY <1>3 DEF Process
  <2> HIDE DEF end, from
  <2>3. new \in Process /\ new.start = run[x].start /\ new.to = end /\ new.next = from + 1
    <3>1. from + 1 \in Nat
      BY <2>2
    <3>2. QED
      BY <1>3, <2>2, <3>1 DEF Process
  <2>4. /\ cursor = None => run[x].start \in Nat
        /\ configured => run[x].start = 0
    BY <2>1 DEF TypeInv, RunOK
  <2>5. from + 1 >= 1
    BY <2>2
  <2> HIDE DEF new
  <2>6. QED
    BY <1>3, <1>4, <2>1, <2>2, <2>3, <2>4, <2>5 DEF dbVars
<1>8. CASE Persist(x)
  <2> DEFINE new == [run[x] EXCEPT !.next = run[x].next + 1]
  <2>1. /\ run' = [run EXCEPT ![x] = new] /\ UNCHANGED <<cursor, faults>>
        /\ run[x].at = "persist" /\ run[x].next <= run[x].to
    BY <1>3, <1>8 DEF Persist
  <2>2. /\ run[x].to <= Len(log) /\ run[x].next >= 1
        /\ cursor = None => run[x].start \in Nat
        /\ configured => run[x].start = 0
    BY <2>1 DEF TypeInv, RunOK
  <2>3. /\ new \in Process /\ new.start = run[x].start /\ new.to = run[x].to
        /\ new.next = run[x].next + 1 /\ run[x].next \in 1..Len(log)
    <3>1. run[x].next \in Nat /\ run[x].to \in Nat
      BY <1>3 DEF Process
    <3>2. run[x].next + 1 \in Nat /\ run[x].next \in 1..Len(log)
      BY <1>3, <2>1, <2>2, <3>1
    <3>3. QED
      BY <1>3, <3>2 DEF Process
  <2>4. UNCHANGED <<stored, mirror>>
          \/ (stored' = stored \cup {run[x].next} /\ mirror' = Projected(log[run[x].next]))
    BY <1>8 DEF Persist
  <2>5. Projected(log[run[x].next]) = None \/ Projected(log[run[x].next]) \in Row
    BY <1>3, <2>3, ProjectedType DEF TypeInv
  <2>6. stored' \in SUBSET Nat /\ (mirror' = None \/ mirror' \in Row)
    BY <1>3, <2>3, <2>4, <2>5
  <2>7. new.next >= 1
    BY <2>3
  <2> HIDE DEF new
  <2>8. QED
    BY <1>3, <1>4, <2>1, <2>2, <2>3, <2>6, <2>7
<1>9. CASE SaveCursor(x)
  <2>1. /\ run' = [run EXCEPT ![x] = Polling(x)] /\ UNCHANGED <<stored, mirror, faults>>
        /\ run[x].at = "persist" /\ (cursor' = run[x].to \/ cursor' = cursor)
    BY <1>9 DEF SaveCursor
  <2>2. /\ cursor = None => run[x].start \in Nat
        /\ configured => run[x].start = 0
    BY <2>1 DEF TypeInv, RunOK
  <2>3. run[x].to \in Nat
    BY <1>3 DEF Process
  <2>4. cursor' \in Nat \cup {None} /\ (cursor' = None => cursor = None)
    BY <1>3, <2>1, <2>3
  <2>5. QED
    BY <1>3, <1>4, <2>1, <2>2, <2>4
<1>10. CASE PollError(x)
  <2>1. /\ run' = [run EXCEPT ![x] = Polling(x)] /\ UNCHANGED dbVars
        /\ run[x].at \in {"fetch", "persist"} /\ faults' \in 0..MaxFaults
    BY <1>3, <1>10 DEF PollError
  <2>2. /\ cursor = None => run[x].start \in Nat
        /\ configured => run[x].start = 0
    BY <2>1 DEF TypeInv, RunOK
  <2>3. QED
    BY <1>3, <1>4, <2>1, <2>2 DEF dbVars
<1>11. CASE Crash(x)
  <2>1. /\ run' = [run EXCEPT ![x] = Booting] /\ UNCHANGED dbVars
        /\ faults' \in 0..MaxFaults
    BY <1>3, <1>11 DEF Crash
  <2>2. QED
    BY <1>3, <1>4, <2>1 DEF dbVars
<1>12. QED
  BY <1>5, <1>6, <1>7, <1>8, <1>9, <1>10, <1>11 DEF IndexerStep

LEMMA VaultKeepsTypes ==
    ASSUME TypeInv, VaultStep
    PROVE  TypeInv'
<1>1. VaultOK' /\ LogOK' /\ LogGrows /\ UNCHANGED <<configured, dbVars, run, faults>>
  BY VaultSteps DEF TypeInv
<1>2. DbOK'
  BY <1>1 DEF TypeInv, DbOK, dbVars
<1>3. /\ run \in [Instances -> Process] /\ Len(log) \in Nat /\ Len(log') \in Nat
  BY <1>1, LogType DEF TypeInv, DbOK, VaultOK
<1>4. \A y \in Instances : run[y].to \in Nat
  BY <1>3 DEF Process
<1>5. RunOK'
  BY <1>1, <1>3, <1>4 DEF TypeInv, RunOK, LogGrows, dbVars
<1>6. QED
  BY <1>1, <1>2, <1>5 DEF TypeInv

LEMMA TypeStep == TypeInv /\ [Next]_vars => TypeInv'
<1> SUFFICES ASSUME TypeInv, [Next]_vars PROVE TypeInv'
  OBVIOUS
<1>1. CASE UNCHANGED vars
  BY <1>1 DEF vars, chainVars, dbVars, TypeInv, VaultOK, LogOK, DbOK, RunOK, AfterAt,
       UnseenAt, Unseen
<1>2. QED
  BY <1>1, VaultKeepsTypes, IndexerSteps DEF Next

LEMMA TypeInvariant == Spec => []TypeInv
  BY InitTypeOK, TypeStep, PTL DEF Spec

\* Every reachable state is well typed: in particular the vault never has more
\* locked than it holds (lib.rs 1115-1118), and no process polls from nowhere.
THEOREM TypeCorrect == Spec => []TypeOK
<1>1. TypeInv => TypeOK
  BY DEF TypeInv, VaultOK, DbOK, TypeOK
<1>2. QED
  BY <1>1, TypeInvariant, PTL

-----------------------------------------------------------------------------
\* No gap.

\* Processes only move; what they stored and what the vault logged stays.
LEMMA PrefixStep == TypeInv /\ PrefixInv /\ [Next]_vars => PrefixInv'
<1> SUFFICES ASSUME TypeInv, PrefixInv, [Next]_vars, configured' PROVE PrefixInv'
  BY DEF PrefixInv
<1> USE IndexerAssumption
<1>1. /\ run \in [Instances -> Process] /\ cursor \in Nat \cup {None} /\ stored \in SUBSET Nat
      /\ Len(log) \in Nat
  BY LogType DEF TypeInv, DbOK
\* The general case: the log grows, nothing is taken back.
<1>2. ASSUME configured, Len(log') \in Nat, Len(log) <= Len(log'), stored \subseteq stored',
             \A i \in stored' : i \in 1..Len(log') /\ \A j \in 1..i : j \in stored',
             cursor' # None => \A j \in 1..cursor' : j \in stored',
             \A x \in Instances :
               \/ run'[x] = run[x]
               \/ run'[x].at = "fetch" /\ \A j \in 1..run'[x].from : j \in stored'
               \/ run'[x].at = "persist" /\ \A j \in 1..(run'[x].next - 1) : j \in stored'
               \/ run'[x].at \in {"boot", "poll"}
      PROVE  PrefixInv'
  <2>1. ASSUME NEW x \in Instances
        PROVE  /\ run'[x].at = "fetch" => \A j \in 1..run'[x].from : j \in stored'
               /\ run'[x].at = "persist" => \A j \in 1..(run'[x].next - 1) : j \in stored'
    <3>1. CASE run'[x] = run[x]
      BY <1>2, <3>1 DEF PrefixInv
    <3>2. CASE run'[x] # run[x]
      BY <1>2, <3>2
    <3>3. QED
      BY <3>1, <3>2
  <2>2. QED
    BY <1>2, <2>1 DEF PrefixInv
<1>3. CASE VaultStep
  <2>1. LogGrows /\ VaultOK' /\ UNCHANGED <<configured, dbVars, run, faults>>
    BY <1>3, VaultSteps DEF TypeInv
  <2>2. Len(log') \in Nat /\ Len(log) <= Len(log')
    BY <2>1 DEF VaultOK, LogGrows
  <2>3. /\ \A i \in stored : i \in 1..Len(log) /\ \A j \in 1..i : j \in stored
        /\ cursor # None => \A j \in 1..cursor : j \in stored
    BY <2>1 DEF PrefixInv
  <2>4. 1..Len(log) \subseteq 1..Len(log')
    BY <1>1, <2>2
  <2>5. QED
    BY <1>2, <2>1, <2>2, <2>3, <2>4 DEF dbVars
<1>4. ASSUME NEW x \in Instances, IndexerStep(x) \/ PollError(x) \/ Crash(x)
      PROVE  PrefixInv'
  <2>0. UNCHANGED <<chainVars, configured>>
    BY <1>4 DEF IndexerStep, Boot, ReadCursor, FetchPage, Persist, SaveCursor, PollError, Crash
  <2>1. /\ \A i \in stored : i \in 1..Len(log) /\ \A j \in 1..i : j \in stored
        /\ cursor # None => \A j \in 1..cursor : j \in stored
        /\ log' = log /\ Len(log') \in Nat /\ Len(log) <= Len(log')
        /\ run[x] \in Process /\ configured
    BY <1>1, <2>0 DEF PrefixInv, chainVars
  <2>2. CASE Boot(x) \/ PollError(x) \/ Crash(x)
    <3>1. \A y \in Instances : run'[y] = run[y] \/ run'[y].at \in {"boot", "poll"}
      <4>1. CASE Boot(x)
        BY <1>1, <2>1, <4>1 DEF Boot, Process
      <4>2. CASE PollError(x) \/ Crash(x)
        <5>1. run' = [run EXCEPT ![x] = Polling(x)] \/ run' = [run EXCEPT ![x] = Booting]
          BY <4>2 DEF PollError, Crash
        <5>2. Polling(x).at = "poll" /\ Booting.at = "boot"
          BY DEF Polling, Booting
        <5>3. QED
          BY <1>1, <5>1, <5>2
      <4>3. QED
        BY <2>2, <4>1, <4>2
    <3>2. UNCHANGED dbVars
      BY <2>2 DEF Boot, PollError, Crash
    <3>3. QED
      BY <1>2, <2>1, <3>1, <3>2 DEF dbVars
  <2>3. CASE ReadCursor(x)
    <3>1. /\ \A y \in Instances : y # x => run'[y] = run[y]
          /\ run'[x].at = "fetch"
          /\ run'[x].from = IF cursor = None THEN run[x].start ELSE cursor
          /\ run[x].at = "poll" /\ UNCHANGED dbVars
      BY <1>1, <2>1, <2>3 DEF ReadCursor, Process
    <3>2. run[x].start = 0
      BY <2>1, <3>1 DEF TypeInv, RunOK
    <3>3. \A j \in 1..run'[x].from : j \in stored'
      BY <2>1, <3>1, <3>2 DEF dbVars
    <3>4. QED
      BY <1>2, <2>1, <3>1, <3>3 DEF dbVars
  <2>4. CASE FetchPage(x)
    <3>1. /\ \A y \in Instances : y # x => run'[y] = run[y]
          /\ run'[x].at = "persist" /\ run'[x].next = run[x].from + 1
          /\ run[x].at = "fetch" /\ UNCHANGED dbVars
      BY <1>1, <2>1, <2>4 DEF FetchPage, Process
    <3>2. run[x].from \in Nat
      BY <2>1 DEF Process
    <3>3. \A j \in 1..(run'[x].next - 1) : j \in stored'
      BY <2>1, <3>1, <3>2 DEF PrefixInv, dbVars
    <3>4. QED
      BY <1>2, <2>1, <3>1, <3>3 DEF dbVars
  <2>5. CASE Persist(x)
    <3>1. /\ \A y \in Instances : y # x => run'[y] = run[y]
          /\ run'[x].at = "persist" /\ run'[x].next = run[x].next + 1
          /\ run[x].at = "persist" /\ run[x].next <= run[x].to /\ cursor' = cursor
      BY <1>1, <2>1, <2>5 DEF Persist, Process
    <3>2. /\ run[x].next \in Nat /\ run[x].to \in Nat
          /\ run[x].to <= Len(log) /\ run[x].next >= 1
      BY <2>1, <3>1 DEF Process, TypeInv, RunOK
    <3>3. \A j \in 1..(run[x].next - 1) : j \in stored
      BY <2>1, <3>1 DEF PrefixInv
    <3>4. stored' = stored \cup {run[x].next}
      BY <2>5 DEF Persist
    <3>5. \A j \in 1..run[x].next : j \in stored'
      BY <3>2, <3>3, <3>4
    <3>6. \A i \in stored' : i \in 1..Len(log') /\ \A j \in 1..i : j \in stored'
      <4>1. SUFFICES ASSUME NEW i \in stored'
                     PROVE  i \in 1..Len(log') /\ \A j \in 1..i : j \in stored'
        OBVIOUS
      <4>2. CASE i \in stored
        BY <2>1, <3>4, <4>2
      <4>3. CASE i = run[x].next
        <5>1. run[x].next \in 1..Len(log)
          <6>1. Len(log) \in Nat
            BY LogType, <2>1 DEF TypeInv
          <6>2. QED
            BY <3>1, <3>2, <6>1
        <5>2. log' = log
          BY <1>1, <2>1, <2>5 DEF Persist, chainVars
        <5>3. QED
          BY <3>5, <4>3, <5>1, <5>2
      <4>4. QED
        BY <3>4, <4>2, <4>3
    <3>7. \A j \in 1..(run'[x].next - 1) : j \in stored'
      BY <3>1, <3>2, <3>5
    <3>8. cursor' # None => \A j \in 1..cursor' : j \in stored'
      BY <2>1, <3>1, <3>4
    <3>9. QED
      BY <1>2, <2>1, <3>1, <3>4, <3>6, <3>7, <3>8
  <2>6. CASE SaveCursor(x)
    <3>1. /\ \A y \in Instances : run'[y] = run[y] \/ run'[y].at = "poll"
          /\ run[x].at = "persist" /\ run[x].next > run[x].to
          /\ cursor' = run[x].to \/ cursor' = cursor
          /\ UNCHANGED <<stored, mirror>>
      BY <1>1, <2>1, <2>6 DEF SaveCursor, Polling, Booting, Process
    <3>2. run[x].next \in Nat /\ run[x].to \in Nat
      BY <2>1 DEF Process
    <3>3. \A j \in 1..(run[x].next - 1) : j \in stored
      BY <2>1, <3>1 DEF PrefixInv
    <3>4. \A j \in 1..run[x].to : j \in stored
      BY <3>1, <3>2, <3>3
    <3>5. cursor' # None => \A j \in 1..cursor' : j \in stored'
      BY <2>1, <3>1, <3>4
    <3>6. QED
      BY <1>2, <2>1, <3>1, <3>5
  <2>7. QED
    BY <1>4, <2>2, <2>3, <2>4, <2>5, <2>6 DEF IndexerStep
<1>5. CASE UNCHANGED vars
  BY <1>5 DEF PrefixInv, vars, chainVars, dbVars
<1>6. QED
  BY <1>3, <1>4, <1>5 DEF Next

\* With a start configured, no event is skipped: neither a page limit, a crash, an
\* error nor another process that moves the cursor leaves a gap, and the cursor
\* never passes an event that nobody stored (indexer.ts 44-71, 142-153).
THEOREM NothingSkipped == Spec => []StoredIsPrefix
<1>1. Init => PrefixInv
  BY DEF Init, PrefixInv, Booting
<1>2. PrefixInv => StoredIsPrefix
  BY DEF PrefixInv, StoredIsPrefix
<1>3. QED
  BY <1>1, <1>2, PrefixStep, TypeInvariant, PTL DEF Spec

-----------------------------------------------------------------------------
\* The mirror.

\* What Plus does to the figures of a row.
LEMMA PlusFields ==
    \A r \in Row : \A b, l, d, n \in Int :
        /\ Plus(r, b, l, d, n) \in Row
        /\ Plus(r, b, l, d, n).balance = r.balance + b
        /\ Plus(r, b, l, d, n).locked = r.locked + l
        /\ Plus(r, b, l, d, n).deposited = r.deposited + d
        /\ Plus(r, b, l, d, n).active = r.active + n
<1> SUFFICES ASSUME NEW r \in Row, NEW b \in Int, NEW l \in Int, NEW d \in Int, NEW n \in Int
             PROVE  /\ Plus(r, b, l, d, n) \in Row
                    /\ Plus(r, b, l, d, n).balance = r.balance + b
                    /\ Plus(r, b, l, d, n).locked = r.locked + l
                    /\ Plus(r, b, l, d, n).deposited = r.deposited + d
                    /\ Plus(r, b, l, d, n).active = r.active + n
  OBVIOUS
<1>1. Plus(r, b, l, d, n) \in Row
  BY DEF Plus, Row
<1>2. QED
  BY <1>1 DEF Plus

\* The mirrored row m stands to the account p and the unseen amounts u as Matches says.
Reflects(m, p, u) ==
    /\ m.balance = p.balance - u.balance /\ m.locked = p.locked - u.locked
    /\ m.deposited = p.deposited - u.deposited /\ m.active = p.active - u.active

\* Adding the same amounts to the mirror and to the account keeps them in step.
LEMMA PlusReflects ==
    ASSUME NEW m \in Row, NEW p \in Row, NEW u \in Row, Reflects(m, p, u),
           NEW b \in Int, NEW l \in Int, NEW d \in Int, NEW n \in Int
    PROVE  /\ Plus(m, b, l, d, n) \in Row
           /\ Reflects(Plus(m, b, l, d, n), Plus(p, b, l, d, n), u)
<1>1. PICK r \in Row : r = Plus(m, b, l, d, n)
  BY PlusFields
<1>2. PICK a \in Row : a = Plus(p, b, l, d, n)
  BY PlusFields
<1>3. /\ r.balance = m.balance + b /\ r.locked = m.locked + l
      /\ r.deposited = m.deposited + d /\ r.active = m.active + n
  BY <1>1, PlusFields
<1>4. /\ a.balance = p.balance + b /\ a.locked = p.locked + l
      /\ a.deposited = p.deposited + d /\ a.active = p.active + n
  BY <1>2, PlusFields
<1>5. Reflects(r, a, u)
  BY <1>3, <1>4 DEF Reflects, Row
<1>6. QED
  BY <1>1, <1>2, <1>5

\* Projecting the next event keeps the mirror in step with the account.
LEMMA ProjectionKeepsMatch ==
    ASSUME VaultOK, DbOK, LogOK, NEW k \in Nat, k + 1 \in 1..Len(log), Matches(k),
           mirror' = Projected(log[k + 1]), UNCHANGED log
    PROVE  Matches(k + 1)'
<1> USE IndexerAssumption
<1>1. PICK e \in Event, p \in Row, u \in Row :
        e = log[k + 1] /\ p = AfterAt(k) /\ u = UnseenAt(k)
  <2>1. k \in 0..Len(log)
    BY LogType
  <2>2. QED
    BY <2>1, LogType
<1>2. Follows(e, p, u)
  BY <1>1 DEF LogOK
<1>3. AfterAt(k + 1)' = e.after /\ UnseenAt(k + 1)' = e.unseen
  BY <1>1 DEF AfterAt, UnseenAt
<1>4. PICK m \in Row : m = Mirrored
  BY ZeroType DEF Mirrored, DbOK
<1>5. Reflects(m, p, u) /\ (mirror = None => m = Zero /\ p = Zero /\ u = Zero)
  BY <1>1, <1>4 DEF Matches, Mirrored, Reflects
<1>6. PICK amt \in Int, ref \in Int : amt = e.amount /\ ref = e.refund
  BY DEF Event
<1>7. -amt \in Int /\ -(amt + ref) \in Int
  BY <1>6
\* It is enough to find the row after the event.
<1>8. ASSUME NEW r \in Row, mirror' = r, Reflects(r, e.after, e.unseen)
      PROVE  Matches(k + 1)'
  <2>1. mirror' # None
    BY <1>8 DEF Row
  <2>2. Mirrored' = r
    BY <1>8, <2>1 DEF Mirrored
  <2>3. QED
    BY <1>3, <1>8, <2>1, <2>2 DEF Matches, Reflects
<1>9. CASE e.type = "deposit"
  <2>1. mirror' = Plus(m, amt, 0, amt, 0) /\ e.after = Plus(p, amt, 0, amt, 0)
        /\ e.unseen = u
    BY <1>1, <1>2, <1>4, <1>6, <1>9 DEF Projected, Mirrored, Follows, Deposited
  <2>2. Plus(m, amt, 0, amt, 0) \in Row /\ Reflects(Plus(m, amt, 0, amt, 0), Plus(p, amt, 0, amt, 0), u)
    BY <1>5, PlusReflects
  <2>3. QED
    BY <1>8, <2>1, <2>2
<1>10. CASE e.type = "withdraw"
  <2>1. /\ e.after = Plus(p, -amt, 0, 0, 0) /\ e.unseen = u
        /\ 0 <= amt /\ amt <= p.balance - p.locked
    BY <1>2, <1>6, <1>10 DEF Follows, Withdrawn
  <2>2. Plus(m, -amt, 0, 0, 0) \in Row /\ Reflects(Plus(m, -amt, 0, 0, 0), Plus(p, -amt, 0, 0, 0), u)
    BY <1>5, <1>7, PlusReflects
  <2>3. CASE mirror = None
    <3>1. amt = 0
      <4>1. p.balance = 0 /\ p.locked = 0
        BY <1>5, <2>3 DEF Zero
      <4>2. QED
        BY <2>1, <4>1
    <3>2. mirror' = Zero
      BY <1>1, <1>10, <2>3 DEF Projected
    <3>3. Plus(Zero, -amt, 0, 0, 0) = Zero
      BY <3>1 DEF Plus, Zero
    <3>4. QED
      BY <1>5, <1>8, <2>1, <2>2, <2>3, <3>2, <3>3
  <2>4. CASE mirror # None
    <3>1. mirror' = Plus(m, -amt, 0, 0, 0)
      BY <1>1, <1>4, <1>6, <1>10, <2>4 DEF Projected, Mirrored
    <3>2. QED
      BY <1>8, <2>1, <2>2, <3>1
  <2>5. QED
    BY <2>3, <2>4
<1>11. CASE e.type = "task_new"
  <2>1. mirror' = Plus(m, 0, amt, 0, 1) /\ e.after = Plus(p, 0, amt, 0, 1)
        /\ e.unseen = u
    BY <1>1, <1>2, <1>4, <1>6, <1>11 DEF Projected, Mirrored, Follows, Opened
  <2>2. Plus(m, 0, amt, 0, 1) \in Row /\ Reflects(Plus(m, 0, amt, 0, 1), Plus(p, 0, amt, 0, 1), u)
    BY <1>5, PlusReflects
  <2>3. QED
    BY <1>8, <2>1, <2>2
<1>12. CASE e.type = "task_done"
  <2>1. PICK b \in Int, l \in Int : b = -amt /\ l = -(amt + ref)
    BY <1>7
  <2>2. e.after = Plus(p, b, l, 0, -1) /\ e.unseen = u /\ p.active # 0
    BY <1>2, <1>6, <1>12, <2>1 DEF Follows, Closed
  <2>3. mirror # None
    BY <1>5, <2>2 DEF Zero
  <2>4. mirror' = Plus(m, b, l, 0, -1)
    BY <1>1, <1>4, <1>6, <1>12, <2>1, <2>3 DEF Projected, Mirrored
  <2>5. Plus(m, b, l, 0, -1) \in Row /\ Reflects(Plus(m, b, l, 0, -1), Plus(p, b, l, 0, -1), u)
    BY <1>5, PlusReflects
  <2>6. QED
    BY <1>8, <2>2, <2>4, <2>5
<1>13. CASE e.type = "other"
  <2>1. Passed(e, p, u) /\ mirror' = mirror
    BY <1>1, <1>2, <1>13 DEF Projected, Follows
  <2>2. CASE mirror = None
    <3>1. e.after = Zero /\ e.unseen = Zero
      BY <1>5, <2>1, <2>2 DEF Passed
    <3>2. Mirrored' = Zero /\ mirror' = None
      BY <2>1, <2>2 DEF Mirrored
    <3>3. QED
      BY <1>3, <3>1, <3>2, ZeroType DEF Matches
  <2>3. CASE mirror # None
    <3>1. mirror' = m
      BY <1>4, <2>1, <2>3 DEF Mirrored
    <3>2. QED
      BY <1>5, <1>8, <2>1, <3>1 DEF Passed, Reflects
  <2>4. QED
    BY <2>2, <2>3
<1>14. e.type \in Types
  BY DEF Event
<1>15. QED
  BY <1>9, <1>10, <1>11, <1>12, <1>13, <1>14 DEF Types

LEMMA IntervalsDiffer ==
    ASSUME NEW k \in Nat, NEW n \in Nat, 1..k = 1..n
    PROVE  k = n
<1>1. \A i \in Int : i \in 1..k <=> i \in 1..n
  OBVIOUS
<1>2. k > 0 => k <= n
  BY <1>1
<1>3. n > 0 => n <= k
  BY <1>1
<1>4. QED
  BY <1>2, <1>3

LEMMA IntervalGrows == \A n \in Nat : (1..n) \cup {n + 1} = 1..(n + 1)
  OBVIOUS

LEMMA MirrorStep == TypeInv /\ PrefixInv /\ MirrorInv /\ [Next]_vars => MirrorInv'
<1> SUFFICES ASSUME TypeInv, PrefixInv, MirrorInv, [Next]_vars, configured',
                    NEW k \in 0..Len(log'), stored' = 1..k
             PROVE  Matches(k)'
  BY DEF MirrorInv
<1>1. k \in Nat /\ Len(log) \in Nat
  BY LogType DEF TypeInv
\* Nothing is stored and nothing projected.
<1>2. ASSUME configured, UNCHANGED <<stored, mirror>>,
             \A i \in 1..Len(log) : log'[i] = log[i]
      PROVE  Matches(k)'
  <2>1. k \in 0..Len(log)
    <3>1. k > 0 => k \in stored
      BY <1>1, <1>2
    <3>2. QED
      BY <1>1, <1>2, <3>1 DEF PrefixInv
  <2>2. Matches(k)
    BY <1>2, <2>1 DEF MirrorInv
  <2>3. AfterAt(k)' = AfterAt(k) /\ UnseenAt(k)' = UnseenAt(k)
    BY <1>1, <1>2, <2>1 DEF AfterAt, UnseenAt
  <2>4. QED
    BY <1>2, <2>2, <2>3 DEF Matches, Mirrored
<1>3. CASE VaultStep
  <2>1. LogGrows /\ UNCHANGED <<configured, dbVars>>
    BY <1>3, VaultSteps DEF TypeInv
  <2>2. QED
    BY <1>2, <2>1 DEF LogGrows, dbVars
<1>4. ASSUME NEW x \in Instances, IndexerStep(x) \/ PollError(x) \/ Crash(x)
      PROVE  Matches(k)'
  <2>1. UNCHANGED <<chainVars, configured>>
    BY <1>4 DEF IndexerStep, Boot, ReadCursor, FetchPage, Persist, SaveCursor, PollError, Crash
  <2>2. configured /\ log' = log
    BY <2>1 DEF chainVars
  <2>3. CASE UNCHANGED <<stored, mirror>>
    BY <1>2, <2>2, <2>3
  <2>4. CASE ~UNCHANGED <<stored, mirror>>
    <3>1. /\ run[x].at = "persist" /\ run[x].next <= run[x].to
          /\ run[x].next \notin stored
          /\ stored' = stored \cup {run[x].next} /\ mirror' = Projected(log[run[x].next])
      BY <1>4, <2>4 DEF IndexerStep, Boot, ReadCursor, FetchPage, Persist, SaveCursor,
           PollError, Crash, dbVars
    <3>2. /\ run[x].next \in Nat /\ run[x].to \in Nat
          /\ run[x].to <= Len(log) /\ run[x].next >= 1
      BY <3>1 DEF TypeInv, DbOK, Process, RunOK
    <3>3. PICK n \in Nat : n + 1 = run[x].next
      BY <3>2
    <3>4. \A j \in 1..n : j \in stored
      BY <2>2, <3>1, <3>3 DEF PrefixInv
    <3>5. \A j \in stored : j \in 1..n
      <4>1. SUFFICES ASSUME NEW j \in stored PROVE j \in 1..n
        OBVIOUS
      <4>2. j \in 1..Len(log) /\ \A i \in 1..j : i \in stored
        BY <2>2 DEF PrefixInv
      <4>3. ~(n + 1 <= j)
        BY <1>1, <3>1, <3>3, <4>2
      <4>4. QED
        BY <1>1, <4>2, <4>3
    <3>6. stored = 1..n /\ n \in 0..Len(log) /\ n + 1 \in 1..Len(log)
      <4>1. stored = 1..n
        BY <3>4, <3>5
      <4>2. n + 1 <= Len(log)
        BY <3>1, <3>2, <3>3, <1>1
      <4>3. QED
        BY <1>1, <3>3, <4>1, <4>2
    <3>7. Matches(n)
      BY <2>2, <3>6 DEF MirrorInv
    <3>8. Matches(n + 1)'
      BY <2>2, <3>1, <3>3, <3>6, <3>7, ProjectionKeepsMatch DEF TypeInv
    <3>9. k = n + 1
      <4>1. 1..k = (1..n) \cup {n + 1}
        BY <3>1, <3>3, <3>6
      <4>2. 1..k = 1..(n + 1)
        BY <3>3, <4>1, IntervalGrows
      <4>3. k \in Nat /\ n + 1 \in Nat
        BY <1>1, <3>3
      <4>4. QED
        BY <4>2, <4>3, IntervalsDiffer
    <3>10. QED
      BY <3>8, <3>9
  <2>5. QED
    BY <2>3, <2>4
<1>5. CASE UNCHANGED vars
  BY <1>2, <1>5 DEF vars, chainVars, dbVars
<1>6. QED
  BY <1>3, <1>4, <1>5 DEF Next

LEMMA MirrorFollows == TypeInv /\ PrefixInv /\ MirrorInv => MirrorExact
<1> SUFFICES ASSUME TypeInv, PrefixInv, MirrorInv, configured,
                    NEW i \in stored, i + 1 \notin stored
             PROVE  Mirrored = Plus(log[i].after, -log[i].unseen.balance,
                                    -log[i].unseen.locked, -log[i].unseen.deposited,
                                    -log[i].unseen.active)
  BY DEF MirrorExact, Mirrored
<1>1. /\ i \in 1..Len(log) /\ \A j \in 1..i : j \in stored
      /\ \A j \in stored : j \in 1..Len(log) /\ \A l \in 1..j : l \in stored
      /\ Len(log) \in Nat
  BY LogType DEF PrefixInv, TypeInv
<1>2. stored = 1..i
  <2>1. ASSUME NEW j \in stored PROVE j \in 1..i
    <3>1. ~(i + 1 <= j)
      BY <1>1
    <3>2. QED
      BY <1>1, <3>1
  <2>2. QED
    BY <1>1, <2>1
<1>3. Matches(i) /\ AfterAt(i) = log[i].after /\ UnseenAt(i) = log[i].unseen
  BY <1>1, <1>2 DEF MirrorInv, AfterAt, UnseenAt
<1>4. PICK a \in Row, u \in Row, m \in Row :
        a = log[i].after /\ u = log[i].unseen /\ m = Mirrored
  <2>1. log[i] \in Event
    BY <1>1, LogType DEF TypeInv
  <2>2. log[i].after \in Row /\ log[i].unseen \in Row /\ Mirrored \in Row
    BY <2>1, ZeroType DEF Event, Mirrored, TypeInv, DbOK
  <2>3. QED
    BY <2>2
<1>5. /\ m.balance = a.balance - u.balance /\ m.locked = a.locked - u.locked
      /\ m.deposited = a.deposited - u.deposited /\ m.active = a.active - u.active
  BY <1>3, <1>4 DEF Matches
<1>6. m = Plus(a, -u.balance, -u.locked, -u.deposited, -u.active)
  <2>1. m = [balance |-> m.balance, locked |-> m.locked,
             deposited |-> m.deposited, active |-> m.active]
    BY DEF Row
  <2>2. /\ m.balance = a.balance + (-u.balance) /\ m.locked = a.locked + (-u.locked)
        /\ m.deposited = a.deposited + (-u.deposited) /\ m.active = a.active + (-u.active)
    BY <1>5 DEF Row
  <2>3. QED
    BY <2>1, <2>2 DEF Plus
<1>7. QED
  BY <1>4, <1>6

LEMMA MirrorInvariant == Spec => [](TypeInv /\ PrefixInv /\ MirrorInv)
<1>1. Init => PrefixInv
  BY DEF Init, PrefixInv, Booting
<1>2. Init => MirrorInv
  <2>1. Init => Matches(0) /\ Len(log) = 0
    BY ZeroType DEF Init, Matches, Mirrored, AfterAt, UnseenAt
  <2>2. QED
    BY <2>1 DEF MirrorInv
<1>3. QED
  BY <1>1, <1>2, PrefixStep, MirrorStep, TypeInvariant, PTL DEF Spec

\* Whatever order the processes store and crash in, the mirror is the account as
\* of the last stored event, each event counted once, less exactly what direct
\* releases and resolved disputes moved without a projected event (indexer.ts
\* 44-140).
THEOREM MirrorAlwaysExact == Spec => []MirrorExact
  BY MirrorInvariant, MirrorFollows, PTL

-----------------------------------------------------------------------------
\* Which way the mirror errs.

\* What moved without a projected event only took from the account, and took at
\* least as much of its balance as of what it has locked.
DriftInv ==
    /\ Unseen.balance <= Unseen.locked /\ Unseen.locked <= 0
    /\ Unseen.deposited = 0 /\ Unseen.active <= 0

\* The history kept with an event is the one the step computed.
LEMMA UnseenWritten ==
    ASSUME TypeInv, NEW type, NEW amount, NEW refund, NEW a, NEW u,
           Emit(type, amount, refund, a, u)
    PROVE  Unseen' = u
<1>1. PICK n \in Nat : n = Len(log)
  BY LogType DEF TypeInv
<1>2. log \in Seq(Event)
  BY DEF TypeInv, VaultOK
<1>3. PICK e : e = [type |-> type, amount |-> amount, refund |-> refund, after |-> a, unseen |-> u]
  OBVIOUS
<1>4. log' = Append(log, e) /\ e.unseen = u
  BY <1>3 DEF Emit
<1>5. Len(log') = n + 1 /\ log'[n + 1] = e /\ log' # <<>>
  BY <1>1, <1>2, <1>4
<1>6. QED
  BY <1>4, <1>5 DEF Unseen

LEMMA DriftInit == Init => DriftInv
  BY ZeroType DEF Init, DriftInv, Unseen

LEMMA DriftStep == TypeInv /\ DriftInv /\ [Next]_vars => DriftInv'
<1> SUFFICES ASSUME TypeInv, DriftInv, [Next]_vars PROVE DriftInv'
  OBVIOUS
<1> USE IndexerAssumption
<1>1. PICK v \in Row : v = Unseen
  BY LogType DEF TypeInv
<1>2. /\ v.balance \in Int /\ v.locked \in Int /\ v.deposited \in Int /\ v.active \in Int
      /\ v.balance <= v.locked /\ v.locked <= 0 /\ v.deposited = 0 /\ v.active <= 0
  BY <1>1 DEF Row, DriftInv
\* An event leaves what is unseen as it was, or takes from it.
<1>3. ASSUME NEW type, NEW amount, NEW refund, NEW r, NEW b \in Nat, NEW l \in Nat, NEW n \in Nat,
             NEW u, Emit(type, amount, refund, r, u), l <= b, u = Plus(v, -b, -l, 0, -n)
      PROVE  DriftInv'
  <2>1. Unseen' = u
    BY <1>3, UnseenWritten
  <2>2. u.balance = v.balance - b /\ u.locked = v.locked - l /\ u.deposited = 0
        /\ u.active = v.active - n
    BY <1>2, <1>3 DEF Plus
  <2>3. QED
    BY <1>2, <1>3, <2>1, <2>2 DEF DriftInv
<1>4. ASSUME NEW type, NEW amount, NEW refund, NEW r, Emit(type, amount, refund, r, Unseen)
      PROVE  DriftInv'
  BY <1>4, UnseenWritten DEF DriftInv
<1>5. ASSUME NEW a \in Amounts, Deposit(a) \/ Withdraw(a) \/ NewTask(a) \/ Release(a)
      PROVE  DriftInv'
  BY <1>4, <1>5 DEF Deposit, Withdraw, NewTask, Release
<1>6. ASSUME NEW a \in Amounts, DirectRelease(a) PROVE DriftInv'
  <2>1. a \in Nat /\ Plus(v, -a, 0, 0, 0) = Plus(v, -a, -0, 0, -0)
    OBVIOUS
  <2>2. Emit("other", a, 0, Plus(account, -a, 0, 0, 0), Plus(v, -a, 0, 0, 0))
    BY <1>1, <1>6 DEF DirectRelease
  <2>3. QED
    BY <1>3, <2>1, <2>2
<1>7. CASE FinalizeTask
  BY <1>4, <1>7 DEF FinalizeTask
<1>8. CASE ResolveDispute
  <2>1. PICK p \in Nat : p = open.plan
    BY <1>8 DEF ResolveDispute, TypeInv, VaultOK
  <2>2. Emit("other", p, 0, Plus(account, -p, -p, 0, -1), Plus(v, -p, -p, 0, -1))
    BY <1>1, <1>8, <2>1 DEF ResolveDispute
  <2>3. QED
    BY <1>3, <2>2
<1>9. CASE VaultStep
  BY <1>5, <1>6, <1>7, <1>8, <1>9 DEF VaultStep
<1>10. CASE UNCHANGED chainVars
  BY <1>10 DEF chainVars, DriftInv, Unseen
<1>11. ASSUME NEW x \in Instances, IndexerStep(x) \/ PollError(x) \/ Crash(x)
       PROVE  UNCHANGED chainVars
  BY <1>11 DEF IndexerStep, Boot, ReadCursor, FetchPage, Persist, SaveCursor, PollError, Crash
<1>12. QED
  BY <1>9, <1>10, <1>11 DEF Next, vars

\* A mirror that has caught up never shows less than the account holds, has locked or
\* could withdraw, nor fewer active tasks, and what was deposited exactly: the calls
\* whose events it does not project, direct releases and resolved disputes, all take
\* from the account.  Whoever trusts the mirror may promise what the vault will refuse,
\* and never refuses what the vault would accept (indexer.ts 44-140).
NeverUnderstates ==
    configured /\ stored = 1..Len(log) =>
        LET m == IF mirror = None THEN Zero ELSE mirror IN
        /\ m.balance >= account.balance /\ m.locked >= account.locked
        /\ m.balance - m.locked >= account.balance - account.locked
        /\ m.deposited = account.deposited /\ m.active >= account.active

LEMMA DriftShown == TypeInv /\ MirrorInv /\ DriftInv => NeverUnderstates
<1> SUFFICES ASSUME TypeInv, MirrorInv, DriftInv, configured, stored = 1..Len(log)
             PROVE  /\ Mirrored.balance >= account.balance /\ Mirrored.locked >= account.locked
                    /\ Mirrored.balance - Mirrored.locked >= account.balance - account.locked
                    /\ Mirrored.deposited = account.deposited /\ Mirrored.active >= account.active
  BY DEF NeverUnderstates, Mirrored
<1>1. PICK k \in Nat : k = Len(log)
  BY LogType DEF TypeInv
<1>2. Matches(k) /\ account = AfterAt(k) /\ Unseen = UnseenAt(k)
  BY <1>1 DEF MirrorInv, TypeInv, LogOK
<1>3. PICK a \in Row, u \in Row : a = account /\ u = Unseen
  BY LogType DEF TypeInv, VaultOK
<1>4. /\ a.balance \in Int /\ a.locked \in Int /\ a.deposited \in Int /\ a.active \in Int
      /\ u.balance \in Int /\ u.locked \in Int /\ u.deposited \in Int /\ u.active \in Int
      /\ u.balance <= u.locked /\ u.locked <= 0 /\ u.deposited = 0 /\ u.active <= 0
  BY <1>3 DEF Row, DriftInv
<1>5. /\ Mirrored.balance = a.balance - u.balance /\ Mirrored.locked = a.locked - u.locked
      /\ Mirrored.deposited = a.deposited - u.deposited /\ Mirrored.active = a.active - u.active
  BY <1>2, <1>3 DEF Matches
<1>6. /\ Mirrored.balance >= a.balance /\ Mirrored.locked >= a.locked
      /\ Mirrored.deposited = a.deposited /\ Mirrored.active >= a.active
  BY <1>4, <1>5
<1>7. Mirrored.balance - Mirrored.locked >= a.balance - a.locked
  BY <1>4, <1>5
<1>8. QED
  BY <1>3, <1>6, <1>7

THEOREM MirrorNeverUnderstates == Spec => []NeverUnderstates
  BY MirrorInvariant, DriftInit, DriftStep, DriftShown, PTL DEF Spec

=============================================================================
