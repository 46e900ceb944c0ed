--------------------------- MODULE SolvencyProofs ----------------------------
(***************************************************************************)
(* Proofs about the sums in the books of the task lane: the contract can   *)
(* always pay everyone, what is locked is what active tasks reserve, their *)
(* counter is their number, a task's step records account for what it      *)
(* spent, and no active task is stranded on an orchestrator its owner has  *)
(* replaced.  Each step of the contract changes one account and one task,  *)
(* so it changes one term of each sum, adds one or removes one.            *)
(***************************************************************************)
EXTENDS TaskEscrowProofs, SumProofs

\* The facts about a state that the sums rest on.
LEMMA TasksFinite ==
    ASSUME TypeOK
    PROVE  /\ taskCounter \in Nat
           /\ IsFiniteSet(Created) /\ IsFiniteSet(Users)
           /\ \A S \in SUBSET Created : IsFiniteSet(S)
<1>1. taskCounter \in Nat
  BY EscrowAssumption DEF TypeOK, EscrowTypeOK
<1>2. IsFiniteSet(Created)
  BY <1>1, FS_Interval DEF Created
<1>3. QED
  BY <1>1, <1>2, FS_Subset, FiniteAssumption

LEMMA Terms ==
    ASSUME TypeOK
    PROVE  /\ \A a \in Assets, u \in Users :
                 Balances(a)[u] = account[u][a].balance /\ Balances(a)[u] \in Int
           /\ \A t \in Created : Spent[t] = tasks[t].spent /\ Spent[t] \in Int
           /\ \A t \in Created : PlanCosts[t] = tasks[t].planCost /\ PlanCosts[t] \in Int
           /\ \A t \in Created : tasks[t] \in TaskInfo
  BY DEF TypeOK, LedgerTypeOK, EscrowTypeOK, Balances, Spent, PlanCosts, TaskInfo, Account

\* The three sums are numbers.
LEMMA SumsAreNumbers ==
    ASSUME TypeOK
    PROVE  /\ \A a \in Assets :
                 /\ SumFunctionOnSet(Balances(a), Users) \in Int
                 /\ SumFunctionOnSet(Spent, ActiveIn(a)) \in Int
                 /\ held[a] \in Int /\ accruedFees[a] \in Int
           /\ \A u \in Users, a \in Assets :
                 SumFunctionOnSet(PlanCosts, ActiveTasks(u, a)) \in Int
<1>1. \A a \in Assets : ActiveIn(a) \subseteq Created
  BY DEF ActiveIn
<1>2. \A u \in Users, a \in Assets : ActiveTasks(u, a) \subseteq Created
  BY <1>1 DEF ActiveTasks
<1>3. \A a \in Assets : SumFunctionOnSet(Balances(a), Users) \in Int
  BY TasksFinite, Terms, SumType
<1>4. \A a \in Assets : SumFunctionOnSet(Spent, ActiveIn(a)) \in Int
  BY <1>1, TasksFinite, Terms, SumType
<1>5. \A u \in Users, a \in Assets : SumFunctionOnSet(PlanCosts, ActiveTasks(u, a)) \in Int
  BY <1>2, TasksFinite, Terms, SumType
<1>6. QED
  BY <1>3, <1>4, <1>5 DEF TypeOK, LedgerTypeOK

-----------------------------------------------------------------------------
\* The balances.

\* One account written, by nothing else.
Writes(u, a) ==
    \A v \in Users, b \in Assets : v # u \/ b # a => account'[v][b] = account[v][b]

LEMMA BalancesChange ==
    ASSUME TypeOK, TypeOK', NEW u \in Users, NEW a \in Assets, Writes(u, a)
    PROVE  /\ SumFunctionOnSet(Balances(a)', Users) =
                SumFunctionOnSet(Balances(a), Users)
                - account[u][a].balance + account'[u][a].balance
           /\ \A b \in Assets : b # a =>
                SumFunctionOnSet(Balances(b)', Users) = SumFunctionOnSet(Balances(b), Users)
<1>1. \A b \in Assets, v \in Users :
        /\ Balances(b)'[v] = account'[v][b].balance
        /\ Balances(b)'[v] \in Int
  BY DEF TypeOK, LedgerTypeOK, Balances, Account
<1>2. \A b \in Assets, v \in Users :
        /\ Balances(b)[v] = account[v][b].balance
        /\ Balances(b)[v] \in Int
  BY Terms
<1>3. \A v \in Users : v # u => Balances(a)'[v] = Balances(a)[v]
  BY <1>1, <1>2 DEF Writes
<1>4. SumFunctionOnSet(Balances(a)', Users) =
        SumFunctionOnSet(Balances(a), Users) - Balances(a)[u] + Balances(a)'[u]
  BY <1>1, <1>2, <1>3, FiniteAssumption, SumChange
<1>5. ASSUME NEW b \in Assets, b # a
      PROVE  SumFunctionOnSet(Balances(b)', Users) = SumFunctionOnSet(Balances(b), Users)
  <2>1. \A v \in Users : Balances(b)'[v] = Balances(b)[v]
    BY <1>1, <1>2, <1>5 DEF Writes
  <2>2. QED
    BY <2>1, FiniteAssumption, SumSame
<1>6. QED
  BY <1>1, <1>2, <1>4, <1>5

LEMMA BalancesSame ==
    ASSUME TypeOK, UNCHANGED account
    PROVE  \A a \in Assets :
              SumFunctionOnSet(Balances(a)', Users) = SumFunctionOnSet(Balances(a), Users)
<1>1. \A a \in Assets : Balances(a)' = Balances(a)
  BY DEF Balances
<1>2. QED
  BY <1>1

-----------------------------------------------------------------------------
\* The tasks.

\* The tasks of user u that are active, in whatever asset.
ActiveOf(u) == {t \in Created : Active(t) /\ tasks[t].user = u}

LEMMA ActiveOfAll ==
    ASSUME TypeOK, NEW u \in Users
    PROVE  ActiveOf(u) = UNION {ActiveTasks(u, a) : a \in Assets}
<1>1. \A t \in Created : tasks[t].asset \in Assets
  BY Terms DEF TaskInfo
<1>2. QED
  BY <1>1 DEF ActiveOf, ActiveTasks, ActiveIn

\* All other tasks stay as they are.
Elsewhere(t) == \A r \in Created : r # t => tasks'[r] = tasks[r]

\* The sums a step may change.
SpentIn(a) == SumFunctionOnSet(Spent, ActiveIn(a))
LockedFor(u, a) == SumFunctionOnSet(PlanCosts, ActiveTasks(u, a))

LEMMA TasksSame ==
    ASSUME UNCHANGED <<tasks, taskCounter>>
    PROVE  /\ \A a : SpentIn(a)' = SpentIn(a)
           /\ \A u, a : LockedFor(u, a)' = LockedFor(u, a)
           /\ \A u : ActiveOf(u)' = ActiveOf(u)
<1>1. /\ Created' = Created /\ Spent' = Spent /\ PlanCosts' = PlanCosts
      /\ \A t : Active(t)' <=> Active(t)
  BY DEF Created, Spent, PlanCosts, Active
<1>2. \A a : ActiveIn(a)' = ActiveIn(a)
  BY <1>1 DEF ActiveIn
<1>3. \A u, a : ActiveTasks(u, a)' = ActiveTasks(u, a)
  BY <1>2 DEF ActiveTasks
<1>4. QED
  BY <1>1, <1>2, <1>3 DEF SpentIn, LockedFor, ActiveOf

\* A task that stays open, or closed, may have spent more.
LEMMA TaskKept ==
    ASSUME TypeOK, TypeOK', taskCounter' = taskCounter, NEW t \in Created, Elsewhere(t),
           tasks'[t].user = tasks[t].user, tasks'[t].asset = tasks[t].asset,
           tasks'[t].planCost = tasks[t].planCost, ~tasks[t].completed, ~tasks'[t].completed
    PROVE  /\ SpentIn(tasks[t].asset)' =
                SpentIn(tasks[t].asset) - tasks[t].spent + tasks'[t].spent
           /\ \A a \in Assets : a # tasks[t].asset => SpentIn(a)' = SpentIn(a)
           /\ \A u \in Users, a \in Assets : LockedFor(u, a)' = LockedFor(u, a)
           /\ \A u \in Users : ActiveOf(u)' = ActiveOf(u)
<1>1. Created' = Created
  BY DEF Created
<1>2. \A r \in Created :
        /\ tasks'[r].user = tasks[r].user /\ tasks'[r].asset = tasks[r].asset
        /\ tasks'[r].planCost = tasks[r].planCost
        /\ Active(r)' <=> Active(r)
        /\ r # t => tasks'[r].spent = tasks[r].spent
  BY DEF Elsewhere, Active
<1>3. \A a : ActiveIn(a)' = ActiveIn(a) /\ ActiveIn(a) \subseteq Created
  BY <1>1, <1>2 DEF ActiveIn
<1>4. \A u, a : ActiveTasks(u, a)' = ActiveTasks(u, a) /\ ActiveTasks(u, a) \subseteq Created
  BY <1>2, <1>3 DEF ActiveTasks
<1>5. \A r \in Created :
        /\ Spent'[r] = tasks'[r].spent /\ Spent'[r] \in Int
        /\ PlanCosts'[r] = PlanCosts[r] /\ PlanCosts[r] \in Int
        /\ Spent[r] = tasks[r].spent /\ Spent[r] \in Int
  BY <1>1, <1>2, Terms, TypeOK' DEF Spent, PlanCosts, TypeOK, EscrowTypeOK, TaskInfo
<1>6. t \in ActiveIn(tasks[t].asset)
  BY DEF ActiveIn, Active
<1>7. SpentIn(tasks[t].asset)' =
         SpentIn(tasks[t].asset) - tasks[t].spent + tasks'[t].spent
  <2> DEFINE A == ActiveIn(tasks[t].asset)
  <2>1. A \subseteq Created /\ IsFiniteSet(A)
    BY <1>3, TasksFinite
  <2>2. /\ \A r \in A : Spent[r] \in Int
        /\ Spent'[t] \in Int
        /\ \A r \in A : r # t => Spent'[r] = Spent[r]
    BY <1>2, <1>5, <2>1
  <2> HIDE DEF A
  <2>3. SumFunctionOnSet(Spent', A) = SumFunctionOnSet(Spent, A) - Spent[t] + Spent'[t]
    BY <1>6, <2>1, <2>2, SumChange DEF A
  <2>4. ActiveIn(tasks[t].asset)' = A
    BY <1>2, <1>3 DEF A
  <2>5. QED
    BY <1>5, <2>3, <2>4 DEF SpentIn, A
<1>8. ASSUME NEW a \in Assets, a # tasks[t].asset
      PROVE  SpentIn(a)' = SpentIn(a)
  <2>1. ActiveIn(a) \subseteq Created /\ IsFiniteSet(ActiveIn(a)) /\ ActiveIn(a)' = ActiveIn(a)
    BY <1>3, TasksFinite
  <2>2. \A r \in ActiveIn(a) : Spent'[r] = Spent[r]
    BY <1>2, <1>5, <1>8, <2>1 DEF ActiveIn
  <2>3. SumFunctionOnSet(Spent', ActiveIn(a)) = SumFunctionOnSet(Spent, ActiveIn(a))
    BY <2>1, <2>2, SumSame
  <2>4. QED
    BY <2>1, <2>3 DEF SpentIn
<1>9. ASSUME NEW u \in Users, NEW a \in Assets
      PROVE  LockedFor(u, a)' = LockedFor(u, a)
  <2>1. /\ ActiveTasks(u, a) \subseteq Created /\ IsFiniteSet(ActiveTasks(u, a))
        /\ ActiveTasks(u, a)' = ActiveTasks(u, a)
    BY <1>4, TasksFinite
  <2>2. \A r \in ActiveTasks(u, a) : PlanCosts'[r] = PlanCosts[r]
    BY <1>5, <2>1
  <2>3. SumFunctionOnSet(PlanCosts', ActiveTasks(u, a)) =
           SumFunctionOnSet(PlanCosts, ActiveTasks(u, a))
    BY <2>1, <2>2, SumSame
  <2>4. QED
    BY <2>1, <2>3 DEF LockedFor
<1>10. \A u \in Users : ActiveOf(u)' = ActiveOf(u)
  BY <1>1, <1>2 DEF ActiveOf
<1>11. QED
  BY <1>7, <1>8, <1>9, <1>10

\* A new task has spent nothing and reserves its plan cost.
LEMMA TaskOpened ==
    ASSUME TypeOK, TypeOK', NEW t, t = taskCounter + 1, taskCounter' = t,
           \A r \in Created : tasks'[r] = tasks[r],
           NEW u \in Users, NEW a \in Assets, tasks'[t].user = u, tasks'[t].asset = a,
           tasks'[t].spent = 0, ~tasks'[t].completed
    PROVE  /\ \A b \in Assets : SpentIn(b)' = SpentIn(b)
           /\ LockedFor(u, a)' = LockedFor(u, a) + tasks'[t].planCost
           /\ \A v \in Users, b \in Assets :
                 v # u \/ b # a => LockedFor(v, b)' = LockedFor(v, b)
           /\ ActiveOf(u)' = ActiveOf(u) \cup {t} /\ t \notin ActiveOf(u)
           /\ \A v \in Users : v # u => ActiveOf(v)' = ActiveOf(v)
<1>1. Created' = Created \cup {t} /\ t \notin Created
  BY TasksFinite DEF Created
<1>2. \A r \in Created : tasks'[r] = tasks[r] /\ (Active(r)' <=> Active(r))
  BY DEF Active
<1>3. /\ ActiveIn(a)' = ActiveIn(a) \cup {t} /\ t \notin ActiveIn(a)
      /\ \A b \in Assets : b # a => ActiveIn(b)' = ActiveIn(b)
      /\ \A b : ActiveIn(b) \subseteq Created
  BY <1>1, <1>2 DEF ActiveIn, Active
<1>4. /\ ActiveTasks(u, a)' = ActiveTasks(u, a) \cup {t} /\ t \notin ActiveTasks(u, a)
      /\ \A v \in Users, b \in Assets :
            v # u \/ b # a => ActiveTasks(v, b)' = ActiveTasks(v, b)
      /\ \A v, b : ActiveTasks(v, b) \subseteq Created
  BY <1>1, <1>2, <1>3 DEF ActiveTasks
<1>5. \A r \in Created :
        /\ Spent'[r] = Spent[r] /\ Spent[r] \in Int
        /\ PlanCosts'[r] = PlanCosts[r] /\ PlanCosts[r] \in Int
  BY <1>1, <1>2, Terms DEF Spent, PlanCosts
<1>6. /\ Spent'[t] = 0
      /\ PlanCosts'[t] = tasks'[t].planCost /\ PlanCosts'[t] \in Int
  BY <1>1, TypeOK' DEF Spent, PlanCosts, TypeOK, EscrowTypeOK, TaskInfo
<1>7. /\ \A b : IsFiniteSet(ActiveIn(b))
      /\ \A v, b : IsFiniteSet(ActiveTasks(v, b))
  BY <1>3, <1>4, TasksFinite
<1>8. ASSUME NEW b \in Assets PROVE SpentIn(b)' = SpentIn(b)
  <2>1. \A r \in ActiveIn(b) : Spent[r] \in Int /\ Spent'[r] = Spent[r]
    BY <1>3, <1>5
  <2>2. CASE b = a
    <3>1. SumFunctionOnSet(Spent', ActiveIn(b) \cup {t}) =
             SumFunctionOnSet(Spent, ActiveIn(b)) + Spent'[t]
      BY <1>3, <1>6, <1>7, <2>1, <2>2, SumGain
    <3>2. SumFunctionOnSet(Spent, ActiveIn(b)) \in Int
      BY <1>7, <2>1, SumType
    <3>3. ActiveIn(b)' = ActiveIn(b) \cup {t}
      BY <1>3, <2>2
    <3>4. SpentIn(b)' = SpentIn(b) + 0 /\ SpentIn(b) \in Int
      BY <1>6, <3>1, <3>2, <3>3 DEF SpentIn
    <3>5. QED
      BY <3>4
  <2>3. CASE b # a
    <3>1. SumFunctionOnSet(Spent', ActiveIn(b)) = SumFunctionOnSet(Spent, ActiveIn(b))
      BY <1>7, <2>1, SumSame
    <3>2. QED
      BY <1>3, <2>3, <3>1 DEF SpentIn
  <2>4. QED
    BY <2>2, <2>3
<1>9. LockedFor(u, a)' = LockedFor(u, a) + tasks'[t].planCost
  <2>1. \A r \in ActiveTasks(u, a) : PlanCosts[r] \in Int /\ PlanCosts'[r] = PlanCosts[r]
    BY <1>4, <1>5
  <2>2. SumFunctionOnSet(PlanCosts', ActiveTasks(u, a) \cup {t}) =
           SumFunctionOnSet(PlanCosts, ActiveTasks(u, a)) + PlanCosts'[t]
    BY <1>4, <1>6, <1>7, <2>1, SumGain
  <2>3. QED
    BY <1>4, <1>6, <2>2 DEF LockedFor
<1>10. ASSUME NEW v \in Users, NEW b \in Assets, v # u \/ b # a
       PROVE  LockedFor(v, b)' = LockedFor(v, b)
  <2>1. \A r \in ActiveTasks(v, b) : PlanCosts'[r] = PlanCosts[r]
    BY <1>4, <1>5
  <2>2. SumFunctionOnSet(PlanCosts', ActiveTasks(v, b)) =
           SumFunctionOnSet(PlanCosts, ActiveTasks(v, b))
    BY <1>7, <2>1, SumSame
  <2>3. QED
    BY <1>4, <1>10, <2>2 DEF LockedFor
<1>11. /\ ActiveOf(u)' = ActiveOf(u) \cup {t} /\ t \notin ActiveOf(u)
       /\ \A v \in Users : v # u => ActiveOf(v)' = ActiveOf(v)
  BY <1>1, <1>2 DEF ActiveOf, Active
<1>12. QED
  BY <1>8, <1>9, <1>10, <1>11

\* A task that ends takes its terms with it.
LEMMA TaskEnded ==
    ASSUME TypeOK, taskCounter' = taskCounter, NEW t \in Created, Elsewhere(t),
           ~tasks[t].completed, tasks'[t].completed,
           NEW u \in Users, NEW a \in Assets, tasks[t].user = u, tasks[t].asset = a
    PROVE  /\ SpentIn(a)' = SpentIn(a) - tasks[t].spent
           /\ \A b \in Assets : b # a => SpentIn(b)' = SpentIn(b)
           /\ LockedFor(u, a)' = LockedFor(u, a) - tasks[t].planCost
           /\ \A v \in Users, b \in Assets :
                 v # u \/ b # a => LockedFor(v, b)' = LockedFor(v, b)
           /\ ActiveOf(u)' = ActiveOf(u) \ {t} /\ t \in ActiveOf(u)
           /\ \A v \in Users : v # u => ActiveOf(v)' = ActiveOf(v)
<1>1. Created' = Created
  BY DEF Created
<1>2. \A r \in Created : r # t => tasks'[r] = tasks[r] /\ (Active(r)' <=> Active(r))
  BY DEF Elsewhere, Active
<1>3. Active(t) /\ ~Active(t)'
  BY DEF Active
<1>4. /\ ActiveIn(a)' = ActiveIn(a) \ {t} /\ t \in ActiveIn(a)
      /\ \A b \in Assets : b # a => ActiveIn(b)' = ActiveIn(b) /\ t \notin ActiveIn(b)
      /\ \A b : ActiveIn(b) \subseteq Created
  BY <1>1, <1>2, <1>3 DEF ActiveIn
<1>5. /\ ActiveTasks(u, a)' = ActiveTasks(u, a) \ {t} /\ t \in ActiveTasks(u, a)
      /\ \A v \in Users, b \in Assets :
            v # u \/ b # a => /\ ActiveTasks(v, b)' = ActiveTasks(v, b)
                              /\ t \notin ActiveTasks(v, b)
      /\ \A v, b : ActiveTasks(v, b) \subseteq Created
  <2>1. \A v, b : ActiveTasks(v, b) \subseteq Created
    BY <1>4 DEF ActiveTasks
  <2>2. ActiveTasks(u, a)' = ActiveTasks(u, a) \ {t} /\ t \in ActiveTasks(u, a)
    BY <1>2, <1>4 DEF ActiveTasks
  <2>3. ASSUME NEW v \in Users, NEW b \in Assets, v # u \/ b # a
        PROVE  ActiveTasks(v, b)' = ActiveTasks(v, b) /\ t \notin ActiveTasks(v, b)
    <3>1. t \notin ActiveTasks(v, b)
      BY <2>3 DEF ActiveTasks, ActiveIn
    <3>2. \A r \in Created : r \in ActiveTasks(v, b)' <=> r \in ActiveTasks(v, b)
      <4>1. \A r \in Created : r # t =>
              (r \in ActiveTasks(v, b)' <=> r \in ActiveTasks(v, b))
        BY <1>1, <1>2 DEF ActiveTasks, ActiveIn
      <4>2. t \notin ActiveTasks(v, b)'
        BY <1>3 DEF ActiveTasks, ActiveIn
      <4>3. QED
        BY <3>1, <4>1, <4>2
    <3>3. ActiveTasks(v, b)' \subseteq Created
      BY <1>1 DEF ActiveTasks, ActiveIn
    <3>4. QED
      BY <2>1, <3>1, <3>2, <3>3
  <2>4. QED
    BY <2>1, <2>2, <2>3
<1>6. \A r \in Created :
        /\ Spent[r] \in Int /\ PlanCosts[r] \in Int
        /\ r # t => Spent'[r] = Spent[r] /\ PlanCosts'[r] = PlanCosts[r]
  BY <1>1, <1>2, Terms DEF Spent, PlanCosts
<1>7. Spent[t] = tasks[t].spent /\ PlanCosts[t] = tasks[t].planCost
  BY DEF Spent, PlanCosts
<1>8. /\ \A b : IsFiniteSet(ActiveIn(b))
      /\ \A v, b : IsFiniteSet(ActiveTasks(v, b))
  BY <1>4, <1>5, TasksFinite
<1>9. SpentIn(a)' = SpentIn(a) - tasks[t].spent
  <2>1. /\ \A r \in ActiveIn(a) : Spent[r] \in Int
        /\ \A r \in ActiveIn(a) : r # t => Spent'[r] = Spent[r]
    BY <1>4, <1>6
  <2>2. SumFunctionOnSet(Spent', ActiveIn(a) \ {t}) =
           SumFunctionOnSet(Spent, ActiveIn(a)) - Spent[t]
    <3>1. PICK A : A = ActiveIn(a)
      OBVIOUS
    <3>2. /\ IsFiniteSet(A) /\ t \in A
          /\ \A r \in A : Spent[r] \in Int
          /\ \A r \in A : r # t => Spent'[r] = Spent[r]
      BY <1>4, <1>8, <2>1, <3>1
    <3>3. PICK B : B = A \ {t}
      OBVIOUS
    <3>4. SumFunctionOnSet(Spent', B) = SumFunctionOnSet(Spent, A) - Spent[t]
      BY <3>2, <3>3, SumLose
    <3>5. QED
      BY <3>1, <3>3, <3>4
  <2>3. SpentIn(a)' = SumFunctionOnSet(Spent', ActiveIn(a) \ {t})
    BY <1>4 DEF SpentIn
  <2>4. QED
    BY <1>7, <2>2, <2>3 DEF SpentIn
<1>10. ASSUME NEW b \in Assets, b # a PROVE SpentIn(b)' = SpentIn(b)
  <2>1. \A r \in ActiveIn(b) : Spent'[r] = Spent[r]
    BY <1>4, <1>6, <1>10
  <2>2. SumFunctionOnSet(Spent', ActiveIn(b)) = SumFunctionOnSet(Spent, ActiveIn(b))
    BY <1>8, <2>1, SumSame
  <2>3. QED
    BY <1>4, <1>10, <2>2 DEF SpentIn
<1>11. LockedFor(u, a)' = LockedFor(u, a) - tasks[t].planCost
  <2>1. /\ \A r \in ActiveTasks(u, a) : PlanCosts[r] \in Int
        /\ \A r \in ActiveTasks(u, a) : r # t => PlanCosts'[r] = PlanCosts[r]
    BY <1>5, <1>6
  <2>2. SumFunctionOnSet(PlanCosts', ActiveTasks(u, a) \ {t}) =
           SumFunctionOnSet(PlanCosts, ActiveTasks(u, a)) - PlanCosts[t]
    <3>1. PICK A : A = ActiveTasks(u, a)
      OBVIOUS
    <3>2. /\ IsFiniteSet(A) /\ t \in A
          /\ \A r \in A : PlanCosts[r] \in Int
          /\ \A r \in A : r # t => PlanCosts'[r] = PlanCosts[r]
      BY <1>5, <1>8, <2>1, <3>1
    <3>3. PICK B : B = A \ {t}
      OBVIOUS
    <3>4. SumFunctionOnSet(PlanCosts', B) = SumFunctionOnSet(PlanCosts, A) - PlanCosts[t]
      BY <3>2, <3>3, SumLose
    <3>5. QED
      BY <3>1, <3>3, <3>4
  <2>3. LockedFor(u, a)' = SumFunctionOnSet(PlanCosts', ActiveTasks(u, a) \ {t})
    BY <1>5 DEF LockedFor
  <2>4. QED
    BY <1>7, <2>2, <2>3 DEF LockedFor
<1>12. ASSUME NEW v \in Users, NEW b \in Assets, v # u \/ b # a
       PROVE  LockedFor(v, b)' = LockedFor(v, b)
  <2>1. \A r \in ActiveTasks(v, b) : PlanCosts'[r] = PlanCosts[r]
    BY <1>5, <1>6, <1>12
  <2>2. SumFunctionOnSet(PlanCosts', ActiveTasks(v, b)) =
           SumFunctionOnSet(PlanCosts, ActiveTasks(v, b))
    BY <1>8, <2>1, SumSame
  <2>3. QED
    BY <1>5, <1>12, <2>2 DEF LockedFor
<1>13. /\ ActiveOf(u)' = ActiveOf(u) \ {t} /\ t \in ActiveOf(u)
       /\ \A v \in Users : v # u => ActiveOf(v)' = ActiveOf(v)
  BY <1>1, <1>2, <1>3 DEF ActiveOf
<1>14. QED
  BY <1>9, <1>10, <1>11, <1>12, <1>13

-----------------------------------------------------------------------------
\* The contract can pay everyone.

BalanceIn(a) == SumFunctionOnSet(Balances(a), Users)

\* One asset's figures change: what is held, owed to the accounts, already
\* paid out for tasks, and owed as fees.
Moves(a, h, b, s, f) ==
    /\ held'[a] = held[a] + h
    /\ BalanceIn(a)' = BalanceIn(a) + b
    /\ SpentIn(a)' = SpentIn(a) + s
    /\ accruedFees'[a] = accruedFees[a] + f

Rests(a) ==
    \A c \in Assets : c # a =>
       /\ held'[c] = held[c] /\ BalanceIn(c)' = BalanceIn(c)
       /\ SpentIn(c)' = SpentIn(c) /\ accruedFees'[c] = accruedFees[c]

LEMMA SolvencyMoves ==
    ASSUME TypeOK, Solvency, NEW a \in Assets,
           NEW h \in Int, NEW b \in Int, NEW s \in Int, NEW f \in Int,
           Moves(a, h, b, s, f), h = b - s + f, Rests(a)
    PROVE  Solvency'
<1>1. \A c \in Assets :
        /\ held[c] = BalanceIn(c) - SpentIn(c) + accruedFees[c]
        /\ held[c] \in Int /\ BalanceIn(c) \in Int /\ SpentIn(c) \in Int
        /\ accruedFees[c] \in Int
  BY SumsAreNumbers DEF Solvency, BalanceIn, SpentIn
<1>2. held'[a] = BalanceIn(a)' - SpentIn(a)' + accruedFees'[a]
  BY <1>1 DEF Moves
<1>3. \A c \in Assets : c # a => held'[c] = BalanceIn(c)' - SpentIn(c)' + accruedFees'[c]
  BY <1>1 DEF Rests
<1>4. \A c \in Assets : held'[c] = BalanceIn(c)' - SpentIn(c)' + accruedFees'[c]
  BY <1>2, <1>3
<1>5. QED
  BY <1>4 DEF Solvency, BalanceIn, SpentIn

\* Nothing that the books consist of moves.
LEMMA SolvencySame ==
    ASSUME TypeOK, Solvency, UNCHANGED <<account, held, accruedFees, tasks, taskCounter>>
    PROVE  Solvency'
<1>1. \A a \in Assets : SpentIn(a)' = SpentIn(a) /\ BalanceIn(a)' = BalanceIn(a)
  BY TasksSame, BalancesSame DEF BalanceIn
<1>2. QED
  BY <1>1 DEF Solvency, BalanceIn, SpentIn

LEMMA LedgerSolvency ==
    ASSUME TypeOK, TypeOK', Solvency, LedgerNext, UNCHANGED escrowVars
    PROVE  Solvency'
<1>1. UNCHANGED <<tasks, taskCounter>> /\ \A a \in Assets : SpentIn(a)' = SpentIn(a)
  BY TasksSame DEF escrowVars, taskVars
<1>2. \A c \in Assets : held[c] \in Int /\ BalanceIn(c) \in Int /\ SpentIn(c) \in Int
                        /\ accruedFees[c] \in Int
  BY SumsAreNumbers DEF BalanceIn, SpentIn
<1>3. ASSUME NEW u \in Users, NEW a \in Assets, NEW x \in Int, NEW acc \in Account,
             SetAccount(u, a, acc), acc.balance = account[u][a].balance + x,
             held' = [held EXCEPT ![a] = @ + x], accruedFees' = accruedFees
      PROVE  Solvency'
  <2>1. account'[u][a] = acc /\ Writes(u, a)
    BY <1>3, AccountWrite DEF Writes
  <2>2. account[u][a].balance \in Int
    BY DEF TypeOK, LedgerTypeOK, Account
  <2>3. /\ BalanceIn(a)' = BalanceIn(a) - account[u][a].balance + account'[u][a].balance
        /\ \A c \in Assets : c # a => BalanceIn(c)' = BalanceIn(c)
    BY <2>1, BalancesChange DEF BalanceIn
  <2>4. BalanceIn(a)' = BalanceIn(a) + x
    BY <1>2, <1>3, <2>1, <2>2, <2>3
  <2>5. /\ held'[a] = held[a] + x
        /\ \A c \in Assets : c # a => held'[c] = held[c]
    BY <1>3 DEF TypeOK, LedgerTypeOK
  <2>6. SpentIn(a)' = SpentIn(a) + 0 /\ accruedFees'[a] = accruedFees[a] + 0
    BY <1>1, <1>2, <1>3
  <2>7. x = x - 0 + 0
    OBVIOUS
  <2>8. Moves(a, x, x, 0, 0) /\ Rests(a)
    BY <1>1, <1>3, <2>3, <2>4, <2>5, <2>6 DEF Moves, Rests
  <2>9. QED
    BY <2>7, <2>8, SolvencyMoves
<1>4. ASSUME NEW u \in Users, NEW a \in Assets, NEW x \in Amounts, Deposit(u, a, x)
      PROVE  Solvency'
  <2>1. x \in Nat /\ account[u][a] \in Account
    BY LedgerAssumption DEF TypeOK, LedgerTypeOK
  <2>2. /\ SetAccount(u, a, Deposited(account[u][a], x))
        /\ held' = [held EXCEPT ![a] = @ + x]
        /\ accruedFees' = accruedFees
    BY <1>4 DEF Deposit
  <2>3. PICK acc \in Account :
          /\ acc = Deposited(account[u][a], x)
          /\ acc.balance = account[u][a].balance + x
    BY <2>1, DepositedEntry
  <2>4. x \in Int /\ SetAccount(u, a, acc)
    BY <2>1, <2>2, <2>3
  <2>5. QED
    BY <1>3, <2>2, <2>3, <2>4
<1>5. ASSUME NEW u \in Users, NEW a \in Assets, NEW x \in Amounts, Withdraw(u, a, x)
      PROVE  Solvency'
  <2>1. x \in Nat /\ account[u][a] \in Account /\ account[u][a].balance \in Int
    BY LedgerAssumption DEF TypeOK, LedgerTypeOK, Account
  <2>2. /\ SetAccount(u, a, Withdrawn(account[u][a], x))
        /\ held' = [held EXCEPT ![a] = @ - x]
        /\ accruedFees' = accruedFees
    BY <1>5 DEF Withdraw
  <2>3. /\ Withdrawn(account[u][a], x) \in Account
        /\ Withdrawn(account[u][a], x).balance = account[u][a].balance - x
    BY <2>1, WithdrawnEntry
  <2>4. PICK y \in Int : y = -x
    BY <2>1
  <2>5. Withdrawn(account[u][a], x).balance = account[u][a].balance + y
    BY <2>1, <2>3, <2>4
  <2>6. held[a] - x = held[a] + y
    BY <1>2, <2>1, <2>4
  <2>7. held' = [held EXCEPT ![a] = @ + y]
    BY <2>2, <2>6
  <2>8. QED
    BY <1>3, <2>2, <2>3, <2>5, <2>7
<1>6. ASSUME NEW a \in Assets, ClaimFees(a)
      PROVE  Solvency'
  <2>1. /\ accruedFees' = [accruedFees EXCEPT ![a] = 0]
        /\ held' = [held EXCEPT ![a] = @ - accruedFees[a]]
        /\ UNCHANGED account
    BY <1>6 DEF ClaimFees
  <2>2. \A c \in Assets : BalanceIn(c)' = BalanceIn(c)
    BY <2>1, BalancesSame DEF BalanceIn
  <2>3. PICK y \in Int : y = -accruedFees[a]
    BY <1>2
  <2>4. /\ held'[a] = held[a] + y /\ accruedFees'[a] = accruedFees[a] + y
        /\ \A c \in Assets : c # a => held'[c] = held[c] /\ accruedFees'[c] = accruedFees[c]
    BY <1>2, <2>1, <2>3 DEF TypeOK, LedgerTypeOK
  <2>5. /\ SpentIn(a)' = SpentIn(a) + 0 /\ BalanceIn(a)' = BalanceIn(a) + 0
        /\ y = 0 - 0 + y
    BY <1>1, <1>2, <2>2
  <2>6. Moves(a, y, 0, 0, y) /\ Rests(a)
    BY <1>1, <2>2, <2>4, <2>5 DEF Moves, Rests
  <2>7. QED
    BY <2>5, <2>6, SolvencyMoves
<1>7. CASE UNCHANGED <<account, held, accruedFees>>
  BY <1>1, <1>7, SolvencySame
<1>8. \/ UNCHANGED <<account, held, accruedFees>>
      \/ \E a \in Assets : ClaimFees(a)
      \/ \E u \in Users, a \in Assets, x \in Amounts : Deposit(u, a, x) \/ Withdraw(u, a, x)
  BY DEF LedgerNext, Pause, Unpause, AddAsset, RemoveAsset, SetFee, Tick
<1>9. QED
  BY <1>4, <1>5, <1>6, <1>7, <1>8

LEMMA CreateSolvency ==
    ASSUME TypeOK, TypeOK', Solvency, CreateNext
    PROVE  Solvency'
<1>1. PICK o \in Orchestrators, a \in Assets, x \in Amounts,
           c \in Commitments \cup {NoCommitment} : LockNewTask(o, a, x, c)
  BY DEF CreateNext, CreateTask, CreateTaskWithPolicy
<1>2. PICK u \in Users : u = orchestratorOwner[o]
  BY <1>1, LockNewTaskStep
<1>3. PICK t : t = taskCounter + 1
  OBVIOUS
<1>4. /\ account'[u][a] = Reserved(account[u][a], x) /\ Writes(u, a)
      /\ taskCounter' = t /\ tasks'[t] = NewTask(u, o, a, x, c)
      /\ \A r \in Created : tasks'[r] = tasks[r]
  BY <1>1, <1>2, <1>3, LockNewTaskStep DEF Writes
<1>5. /\ tasks'[t].user = u /\ tasks'[t].asset = a /\ tasks'[t].spent = 0
      /\ ~tasks'[t].completed
  BY <1>4 DEF NewTask
<1>6. \A b \in Assets : SpentIn(b)' = SpentIn(b)
  BY <1>3, <1>4, <1>5, TaskOpened
<1>7. account'[u][a].balance = account[u][a].balance /\ account[u][a].balance \in Int
  BY <1>4, ReservedEntry, LedgerAssumption DEF TypeOK, LedgerTypeOK, Account
<1>8. \A b \in Assets : BalanceIn(b)' = BalanceIn(b)
  <2>1. \A b \in Assets : BalanceIn(b) \in Int
    BY SumsAreNumbers DEF BalanceIn
  <2>2. /\ BalanceIn(a)' = BalanceIn(a) - account[u][a].balance + account'[u][a].balance
        /\ \A b \in Assets : b # a => BalanceIn(b)' = BalanceIn(b)
    BY <1>4, BalancesChange DEF BalanceIn
  <2>3. BalanceIn(a)' = BalanceIn(a)
    BY <1>7, <2>1, <2>2
  <2>4. QED
    BY <2>2, <2>3
<1>9. UNCHANGED <<held, accruedFees>>
  BY <1>1 DEF LockNewTask
<1>10. QED
  BY <1>6, <1>8, <1>9 DEF Solvency, BalanceIn, SpentIn

LEMMA ReleaseSolvency ==
    ASSUME TypeOK, TypeOK', Solvency, ReleaseNext
    PROVE  Solvency'
<1>1. PICK t \in Created, s \in StepIds, x \in Amounts :
        \/ ReleasePayment(t, s, x)
        \/ \E n \in Nullifiers : ReleasePaymentProved(t, s, x, n)
  BY DEF ReleaseNext
<1>2. /\ tasks[t] \in TaskInfo /\ ~tasks[t].completed
      /\ PayOut(tasks[t].asset, x)
      /\ tasks'[t].spent = tasks[t].spent + x /\ tasks'[t].planCost = tasks[t].planCost
      /\ tasks'[t].user = tasks[t].user /\ tasks'[t].asset = tasks[t].asset
      /\ tasks'[t].completed = tasks[t].completed
      /\ Elsewhere(t)
      /\ UNCHANGED <<account, taskCounter>>
  BY <1>1, ReleaseStep DEF Elsewhere
<1>3. PICK a \in Assets : a = tasks[t].asset
  BY <1>2 DEF TaskInfo
<1>4. x \in Nat /\ ComputeFee(x) \in 0..x
  BY FeeBounds, LedgerAssumption DEF TypeOK, LedgerTypeOK
<1>5. PICK f \in Nat : f = ComputeFee(x)
  BY <1>4
<1>6. PICK h \in Int : h = f - x
  BY <1>4
<1>7. /\ SpentIn(a)' = SpentIn(a) - tasks[t].spent + tasks'[t].spent
      /\ \A c \in Assets : c # a => SpentIn(c)' = SpentIn(c)
  BY <1>2, <1>3, TaskKept
<1>8. \A c \in Assets : BalanceIn(c)' = BalanceIn(c)
  BY <1>2, BalancesSame DEF BalanceIn
<1>9. \A c \in Assets : held[c] \in Int /\ BalanceIn(c) \in Int /\ SpentIn(c) \in Int
                        /\ accruedFees[c] \in Int
  BY SumsAreNumbers DEF BalanceIn, SpentIn
<1>10. /\ held' = [held EXCEPT ![a] = @ - (x - f)]
       /\ accruedFees' = [accruedFees EXCEPT ![a] = @ + f]
  BY <1>2, <1>3, <1>5 DEF PayOut
<1>11. held[a] - (x - f) = held[a] + h
  BY <1>4, <1>6, <1>9
<1>12. /\ held'[a] = held[a] + h /\ accruedFees'[a] = accruedFees[a] + f
       /\ \A c \in Assets : c # a => held'[c] = held[c] /\ accruedFees'[c] = accruedFees[c]
  BY <1>10, <1>11 DEF TypeOK, LedgerTypeOK
<1>13. SpentIn(a)' = SpentIn(a) + x
  <2>1. tasks[t].spent \in Int
    BY <1>2 DEF TaskInfo
  <2>2. QED
    BY <1>2, <1>4, <1>7, <1>9, <2>1
<1>14. Moves(a, h, 0, x, f) /\ Rests(a)
  BY <1>7, <1>8, <1>9, <1>12, <1>13 DEF Moves, Rests
<1>15. h = 0 - x + f
  BY <1>4, <1>6
<1>16. QED
  BY <1>4, <1>14, <1>15, SolvencyMoves

\* Finalizing debits the account what the task spent and what leaves the vault
\* with it.
LEMMA FinalizeSolvency ==
    ASSUME TypeOK, TypeOK', Solvency, NEW t \in Created, NEW debit \in Nat,
           NEW charged \in Nat, Finalize(t, debit, charged), NEW a \in Assets,
           a = tasks[t].asset, NEW h \in Int, h = tasks[t].spent - debit,
           held'[a] = held[a] + h, \A c \in Assets : c # a => held'[c] = held[c]
    PROVE  Solvency'
<1>1. /\ tasks[t] \in TaskInfo /\ tasks[t].user \in Users /\ ~tasks[t].completed
      /\ account'[tasks[t].user][a] =
           Charged(account[tasks[t].user][a], tasks[t].planCost, debit, charged)
      /\ Writes(tasks[t].user, a)
      /\ tasks'[t] = Closed(tasks[t]) /\ Elsewhere(t)
      /\ UNCHANGED <<accruedFees, taskCounter>>
  BY FinalizeStep DEF Writes, Elsewhere
<1>2. PICK u \in Users : u = tasks[t].user
  BY <1>1
<1>3. tasks'[t].completed
  BY <1>1, ClosedTask
<1>4. /\ SpentIn(a)' = SpentIn(a) - tasks[t].spent
      /\ \A c \in Assets : c # a => SpentIn(c)' = SpentIn(c)
  BY <1>1, <1>2, <1>3, TaskEnded
<1>5. /\ account[u][a].balance \in Int /\ tasks[t].spent \in Nat
      /\ account'[u][a].balance = account[u][a].balance - debit
  <2>1. account[u][a] \in Account /\ tasks[t].planCost \in Nat /\ tasks[t].spent \in Nat
    BY <1>1 DEF TypeOK, LedgerTypeOK, TaskInfo
  <2>2. PICK acc \in Account, p \in Nat : acc = account[u][a] /\ p = tasks[t].planCost
    BY <2>1
  <2>3. account'[u][a] = Charged(acc, p, debit, charged)
    BY <1>1, <1>2, <2>2
  <2>4. Charged(acc, p, debit, charged).balance = acc.balance - debit
    BY ChargedEntry
  <2>5. QED
    BY <2>1, <2>2, <2>3, <2>4 DEF Account
<1>6. /\ BalanceIn(a)' = BalanceIn(a) - account[u][a].balance + account'[u][a].balance
      /\ \A c \in Assets : c # a => BalanceIn(c)' = BalanceIn(c)
  <2>1. Writes(u, a)
    BY <1>1, <1>2
  <2>2. QED
    BY <2>1, BalancesChange DEF BalanceIn
<1>7. \A c \in Assets : held[c] \in Int /\ BalanceIn(c) \in Int /\ SpentIn(c) \in Int
                        /\ accruedFees[c] \in Int
  BY SumsAreNumbers DEF BalanceIn, SpentIn
<1>8. PICK b \in Int, s \in Int : b = -debit /\ s = -tasks[t].spent
  BY <1>5
<1>9. BalanceIn(a)' = BalanceIn(a) + b /\ SpentIn(a)' = SpentIn(a) + s /\ h = b - s + 0
  BY <1>4, <1>5, <1>6, <1>7, <1>8
<1>10. Moves(a, h, b, s, 0) /\ Rests(a)
  BY <1>1, <1>4, <1>6, <1>7, <1>9 DEF Moves, Rests
<1>11. QED
  BY <1>9, <1>10, SolvencyMoves

LEMMA EndSolvency ==
    ASSUME TypeOK, TypeOK', Solvency, EndNext
    PROVE  Solvency'
<1>1. PICK t \in Created :
        \/ RaiseDispute(t)
        \/ FinalizeUndisputed(t)
        \/ \E refund, payout \in Nat : ResolveDispute(t, refund, payout)
  BY EndSteps
<1>2. /\ tasks[t] \in TaskInfo /\ tasks[t].spent \in Nat /\ tasks[t].planCost \in Nat
      /\ tasks[t].asset \in Assets
      /\ \A c \in Assets : held[c] \in Int
  BY DEF TypeOK, LedgerTypeOK, EscrowTypeOK, TaskInfo
<1>3. CASE RaiseDispute(t)
  <2>1. /\ tasks'[t] = Disputed(tasks[t]) /\ Elsewhere(t) /\ ~tasks[t].completed
        /\ UNCHANGED <<account, held, accruedFees, taskCounter>>
    BY <1>3, RaiseDisputeStep DEF Elsewhere, ledgerVars
  <2>2. /\ tasks'[t].user = tasks[t].user /\ tasks'[t].asset = tasks[t].asset
        /\ tasks'[t].planCost = tasks[t].planCost /\ tasks'[t].spent = tasks[t].spent
        /\ tasks'[t].completed = tasks[t].completed
    BY <1>2, <2>1, DisputedTask
  <2>3. \A a \in Assets : SpentIn(a) \in Int
    BY SumsAreNumbers DEF SpentIn
  <2>4. \A a \in Assets : SpentIn(a)' = SpentIn(a)
    <3>1. /\ SpentIn(tasks[t].asset)' =
                SpentIn(tasks[t].asset) - tasks[t].spent + tasks'[t].spent
          /\ \A a \in Assets : a # tasks[t].asset => SpentIn(a)' = SpentIn(a)
      BY <2>1, <2>2, TaskKept
    <3>2. PICK b \in Assets : b = tasks[t].asset
      BY <1>2
    <3>3. SpentIn(b)' = SpentIn(b)
      BY <1>2, <2>2, <2>3, <3>1, <3>2
    <3>4. QED
      BY <3>1, <3>2, <3>3
  <2>5. \A a \in Assets : BalanceIn(a)' = BalanceIn(a)
    BY <2>1, BalancesSame DEF BalanceIn
  <2>6. QED
    BY <2>1, <2>4, <2>5 DEF Solvency, BalanceIn, SpentIn
<1>4. PICK a \in Assets : a = tasks[t].asset
  BY <1>2
<1>5. CASE FinalizeUndisputed(t)
  <2>1. Finalize(t, tasks[t].spent, tasks[t].spent) /\ held' = held
    BY <1>5 DEF FinalizeUndisputed
  <2>2. /\ 0 = tasks[t].spent - tasks[t].spent /\ held'[a] = held[a] + 0
        /\ \A c \in Assets : c # a => held'[c] = held[c]
    BY <1>2, <2>1
  <2>3. QED
    BY <1>2, <1>4, <2>1, <2>2, FinalizeSolvency
<1>6. ASSUME NEW refund \in Nat, NEW payout \in Nat, ResolveDispute(t, refund, payout)
      PROVE  Solvency'
  <2>1. /\ Finalize(t, tasks[t].planCost, tasks[t].spent + payout)
        /\ held' = [held EXCEPT ![a] = @ - (refund + payout)]
        /\ refund + payout = tasks[t].planCost - tasks[t].spent
    BY <1>4, <1>6 DEF ResolveDispute
  <2>2. PICK h \in Int : h = tasks[t].spent - tasks[t].planCost
    BY <1>2
  <2>3. held[a] - (refund + payout) = held[a] + h
    BY <1>2, <2>1, <2>2
  <2>4. held'[a] = held[a] + h /\ \A c \in Assets : c # a => held'[c] = held[c]
    BY <2>1, <2>3 DEF TypeOK, LedgerTypeOK
  <2>5. PICK charged \in Nat : charged = tasks[t].spent + payout
    BY <1>2
  <2>6. Finalize(t, tasks[t].planCost, charged)
    BY <2>1, <2>5
  <2>7. QED
    BY <1>2, <1>4, <2>2, <2>4, <2>6, FinalizeSolvency
<1>7. QED
  BY <1>1, <1>3, <1>5, <1>6

LEMMA SolvencyStep ==
    ASSUME TypeOK, TypeOK', Solvency, [Next]_vars
    PROVE  Solvency'
<1>1. CASE UNCHANGED <<account, held, accruedFees, tasks, taskCounter>>
  BY <1>1, SolvencySame
<1>2. CASE UNCHANGED vars
  BY <1>1, <1>2 DEF vars, ledgerVars, escrowVars, taskVars
<1>3. CASE RegistryNext
  BY <1>1, <1>3 DEF RegistryNext, RegisterOrchestrator, UpdateOrchestrator,
                    ledgerVars, taskVars
<1>4. CASE ConfigNext
  BY <1>1, <1>4 DEF ConfigNext, SetPolicyCommitment, UnpinPolicyCommitment,
                    SetPolicyVerifier, SetDisputeResolver, SetMaxActiveTasks,
                    SetStaleThreshold, ledgerVars, taskVars
<1>5. QED
  BY <1>2, <1>3, <1>4, LedgerSolvency, CreateSolvency, ReleaseSolvency, EndSolvency
     DEF Next

LEMMA InitSolvency == Init => Solvency
<1> SUFFICES ASSUME Init, NEW a \in Assets
             PROVE  held[a] = BalanceIn(a) - SpentIn(a) + accruedFees[a]
  BY DEF Solvency, BalanceIn, SpentIn
<1>1. held[a] = 0 /\ accruedFees[a] = 0
  BY DEF Init, LedgerInit
<1>2. \A u \in Users : Balances(a)[u] = 0
  BY DEF Init, LedgerInit, Balances, NewAccount
<1>3. BalanceIn(a) = 0
  BY <1>2, FiniteAssumption, SumZero DEF BalanceIn
<1>4. ActiveIn(a) = {}
  BY DEF Init, EscrowInit, ActiveIn, Created
<1>5. SpentIn(a) = 0
  BY <1>4, SumEmpty DEF SpentIn
<1>6. QED
  BY <1>1, <1>3, <1>5

\* The contract holds, of every asset, exactly what it owes to the accounts
\* and the fee recipient, less what active tasks have already paid out, after
\* any sequence of calls.
THEOREM AlwaysSolvent == Spec => []Solvency
<1>1. TypeOK /\ TypeOK' /\ Solvency /\ [Next]_vars => Solvency'
  BY SolvencyStep
<1>2. QED
  BY <1>1, InitSolvency, TypeCorrect, PTL DEF Spec

-----------------------------------------------------------------------------
\* What is locked is what active tasks reserve, and they are counted.

LocksMatch(u) ==
    /\ \A a \in Assets : account[u][a].locked = LockedFor(u, a)
    /\ activeTasks[u] = Cardinality(ActiveOf(u))

LEMMA LocksMeaning ==
    ASSUME TypeOK
    PROVE  LocksMatchTasks <=> \A u \in Users : LocksMatch(u)
BY ActiveOfAll DEF LocksMatchTasks, LocksMatch, LockedFor

LEMMA LocksNumbers ==
    ASSUME TypeOK
    PROVE  \A u \in Users :
              /\ activeTasks[u] \in Int /\ IsFiniteSet(ActiveOf(u))
              /\ Cardinality(ActiveOf(u)) \in Nat
              /\ \A a \in Assets : LockedFor(u, a) \in Int /\ account[u][a].locked \in Int
<1>1. \A u : ActiveOf(u) \subseteq Created
  BY DEF ActiveOf
<1>2. \A u : IsFiniteSet(ActiveOf(u)) /\ Cardinality(ActiveOf(u)) \in Nat
  BY <1>1, TasksFinite, FS_CardinalityType
<1>3. \A u \in Users, a \in Assets : account[u][a].locked \in Int
  BY DEF TypeOK, LedgerTypeOK, Account
<1>4. QED
  BY <1>2, <1>3, SumsAreNumbers DEF LockedFor, TypeOK, EscrowTypeOK

\* No lock and no task changes.
LEMMA LocksSame ==
    ASSUME \A u \in Users : LocksMatch(u), UNCHANGED <<activeTasks, tasks, taskCounter>>,
           \A u \in Users, a \in Assets : account'[u][a].locked = account[u][a].locked
    PROVE  \A u \in Users : LocksMatch(u)'
BY TasksSame DEF LocksMatch

LEMMA LedgerLocks ==
    ASSUME TypeOK, \A u \in Users : LocksMatch(u), LedgerNext, UNCHANGED escrowVars
    PROVE  \A u \in Users : LocksMatch(u)'
<1>1. UNCHANGED <<activeTasks, tasks, taskCounter>>
  BY DEF escrowVars, taskVars
<1>2. ASSUME NEW u \in Users, NEW a \in Assets, NEW acc \in Account,
             SetAccount(u, a, acc), acc.locked = account[u][a].locked
      PROVE  \A v \in Users : LocksMatch(v)'
  <2>1. account'[u][a] = acc /\ Writes(u, a)
    BY <1>2, AccountWrite DEF Writes
  <2>2. \A v \in Users, b \in Assets : account'[v][b].locked = account[v][b].locked
    BY <1>2, <2>1 DEF Writes
  <2>3. QED
    BY <1>1, <2>2, LocksSame
<1>3. ASSUME NEW u \in Users, NEW a \in Assets, NEW x \in Amounts,
             Deposit(u, a, x) \/ Withdraw(u, a, x)
      PROVE  \A v \in Users : LocksMatch(v)'
  <2>1. x \in Nat /\ account[u][a] \in Account
    BY LedgerAssumption DEF TypeOK, LedgerTypeOK
  <2>2. \E acc \in Account : SetAccount(u, a, acc) /\ acc.locked = account[u][a].locked
    BY <1>3, <2>1, DepositedEntry, WithdrawnEntry DEF Deposit, Withdraw
  <2>3. QED
    BY <1>2, <2>2
<1>4. CASE UNCHANGED account
  BY <1>1, <1>4, LocksSame
<1>5. \/ UNCHANGED account
      \/ \E u \in Users, a \in Assets, x \in Amounts : Deposit(u, a, x) \/ Withdraw(u, a, x)
  BY DEF LedgerNext, Pause, Unpause, AddAsset, RemoveAsset, SetFee, ClaimFees, Tick
<1>6. QED
  BY <1>3, <1>4, <1>5

LEMMA CreateLocks ==
    ASSUME TypeOK, TypeOK', \A u \in Users : LocksMatch(u), CreateNext
    PROVE  \A u \in Users : LocksMatch(u)'
<1>1. PICK o \in Orchestrators, a \in Assets, x \in Amounts,
           c \in Commitments \cup {NoCommitment} : LockNewTask(o, a, x, c)
  BY DEF CreateNext, CreateTask, CreateTaskWithPolicy
<1>2. PICK u \in Users : u = orchestratorOwner[o]
  BY <1>1, LockNewTaskStep
<1>3. PICK t : t = taskCounter + 1
  OBVIOUS
<1>4. /\ account'[u][a] = Reserved(account[u][a], x) /\ Writes(u, a)
      /\ taskCounter' = t /\ tasks'[t] = NewTask(u, o, a, x, c)
      /\ \A r \in Created : tasks'[r] = tasks[r]
  BY <1>1, <1>2, <1>3, LockNewTaskStep DEF Writes
<1>5. /\ tasks'[t].user = u /\ tasks'[t].asset = a /\ tasks'[t].spent = 0
      /\ ~tasks'[t].completed /\ tasks'[t].planCost = x
  BY <1>4 DEF NewTask
<1>6. /\ LockedFor(u, a)' = LockedFor(u, a) + x
      /\ \A v \in Users, b \in Assets : v # u \/ b # a => LockedFor(v, b)' = LockedFor(v, b)
      /\ ActiveOf(u)' = ActiveOf(u) \cup {t} /\ t \notin ActiveOf(u)
      /\ \A v \in Users : v # u => ActiveOf(v)' = ActiveOf(v)
  BY <1>3, <1>4, <1>5, TaskOpened
<1>7. account'[u][a].locked = account[u][a].locked + x
  <2>1. PICK acc \in Account, p \in Nat : acc = account[u][a] /\ p = x
    BY LedgerAssumption DEF TypeOK, LedgerTypeOK
  <2>2. account'[u][a] = Reserved(acc, p) /\ Reserved(acc, p).locked = acc.locked + p
    BY <1>4, <2>1, ReservedEntry
  <2>3. QED
    BY <2>1, <2>2
<1>8. \A v \in Users, b \in Assets : account'[v][b].locked = LockedFor(v, b)'
  <2>1. account'[u][a].locked = LockedFor(u, a)'
    BY <1>6, <1>7 DEF LocksMatch
  <2>2. \A v \in Users, b \in Assets :
          v # u \/ b # a => account'[v][b].locked = LockedFor(v, b)'
    BY <1>4, <1>6 DEF LocksMatch, Writes
  <2>3. QED
    BY <2>1, <2>2
<1>9. \A v \in Users : activeTasks'[v] = Cardinality(ActiveOf(v))'
  <2>1. activeTasks' = [activeTasks EXCEPT ![u] = @ + 1]
    BY <1>1, <1>2 DEF LockNewTask
  <2>2. activeTasks'[u] = activeTasks[u] + 1 /\ \A v \in Users : v # u => activeTasks'[v] = activeTasks[v]
    BY <2>1 DEF TypeOK, EscrowTypeOK
  <2>3. Cardinality(ActiveOf(u) \cup {t}) = Cardinality(ActiveOf(u)) + 1
    BY <1>6, LocksNumbers, FS_AddElement
  <2>4. activeTasks'[u] = Cardinality(ActiveOf(u))'
    BY <1>6, <2>2, <2>3 DEF LocksMatch
  <2>5. \A v \in Users : v # u => activeTasks'[v] = Cardinality(ActiveOf(v))'
    BY <1>6, <2>2 DEF LocksMatch
  <2>6. QED
    BY <2>4, <2>5
<1>10. QED
  BY <1>8, <1>9 DEF LocksMatch

LEMMA ReleaseLocks ==
    ASSUME TypeOK, TypeOK', \A u \in Users : LocksMatch(u), ReleaseNext
    PROVE  \A u \in Users : LocksMatch(u)'
<1>1. PICK t \in Created, s \in StepIds, x \in Amounts :
        \/ ReleasePayment(t, s, x)
        \/ \E n \in Nullifiers : ReleasePaymentProved(t, s, x, n)
  BY DEF ReleaseNext
<1>2. /\ ~tasks[t].completed
      /\ tasks'[t].planCost = tasks[t].planCost
      /\ tasks'[t].user = tasks[t].user /\ tasks'[t].asset = tasks[t].asset
      /\ tasks'[t].completed = tasks[t].completed
      /\ Elsewhere(t)
      /\ UNCHANGED <<account, activeTasks, taskCounter>>
  BY <1>1, ReleaseStep DEF Elsewhere
<1>3. /\ \A u \in Users, a \in Assets : LockedFor(u, a)' = LockedFor(u, a)
      /\ \A u \in Users : ActiveOf(u)' = ActiveOf(u)
  BY <1>2, TaskKept
<1>4. QED
  BY <1>2, <1>3 DEF LocksMatch

LEMMA EndLocks ==
    ASSUME TypeOK, TypeOK', \A u \in Users : LocksMatch(u), EndNext
    PROVE  \A u \in Users : LocksMatch(u)'
<1>1. PICK t \in Created :
        \/ RaiseDispute(t)
        \/ FinalizeUndisputed(t)
        \/ \E refund, payout \in Nat : ResolveDispute(t, refund, payout)
  BY EndSteps
<1>2. tasks[t] \in TaskInfo /\ tasks[t].spent \in Nat /\ tasks[t].planCost \in Nat
  BY DEF TypeOK, EscrowTypeOK, TaskInfo
<1>3. CASE RaiseDispute(t)
  <2>1. /\ tasks'[t] = Disputed(tasks[t]) /\ Elsewhere(t) /\ ~tasks[t].completed
        /\ UNCHANGED <<account, activeTasks, taskCounter>>
    BY <1>3, RaiseDisputeStep DEF Elsewhere, ledgerVars
  <2>2. /\ tasks'[t].user = tasks[t].user /\ tasks'[t].asset = tasks[t].asset
        /\ tasks'[t].planCost = tasks[t].planCost
        /\ tasks'[t].completed = tasks[t].completed
    BY <1>2, <2>1, DisputedTask
  <2>3. /\ \A u \in Users, a \in Assets : LockedFor(u, a)' = LockedFor(u, a)
        /\ \A u \in Users : ActiveOf(u)' = ActiveOf(u)
    BY <2>1, <2>2, TaskKept
  <2>4. QED
    BY <2>1, <2>3 DEF LocksMatch
<1>4. ASSUME NEW debit \in Nat, NEW charged \in Nat, Finalize(t, debit, charged)
      PROVE  \A v \in Users : LocksMatch(v)'
  <2>1. PICK u \in Users, a \in Assets : u = tasks[t].user /\ a = tasks[t].asset
    BY <1>4, FinalizeStep
  <2>2. /\ ~tasks[t].completed
        /\ account'[u][a] = Charged(account[u][a], tasks[t].planCost, debit, charged)
        /\ Writes(u, a)
        /\ tasks'[t] = Closed(tasks[t]) /\ Elsewhere(t)
        /\ taskCounter' = taskCounter
    BY <1>4, <2>1, FinalizeStep DEF Writes, Elsewhere
  <2>3. tasks'[t].completed
    BY <1>2, <2>2, ClosedTask
  <2>4. /\ LockedFor(u, a)' = LockedFor(u, a) - tasks[t].planCost
        /\ \A v \in Users, b \in Assets : v # u \/ b # a => LockedFor(v, b)' = LockedFor(v, b)
        /\ ActiveOf(u)' = ActiveOf(u) \ {t} /\ t \in ActiveOf(u)
        /\ \A v \in Users : v # u => ActiveOf(v)' = ActiveOf(v)
    BY <2>1, <2>2, <2>3, TaskEnded
  <2>5. account'[u][a].locked = account[u][a].locked - tasks[t].planCost
    <3>1. PICK acc \in Account, p \in Nat : acc = account[u][a] /\ p = tasks[t].planCost
      BY <1>2 DEF TypeOK, LedgerTypeOK
    <3>2. account'[u][a] = Charged(acc, p, debit, charged)
      BY <2>2, <3>1
    <3>3. Charged(acc, p, debit, charged).locked = acc.locked - p
      BY ChargedEntry
    <3>4. QED
      BY <3>1, <3>2, <3>3
  <2>6. \A v \in Users, b \in Assets : account'[v][b].locked = LockedFor(v, b)'
    <3>1. account'[u][a].locked = LockedFor(u, a)'
      BY <2>4, <2>5 DEF LocksMatch
    <3>2. \A v \in Users, b \in Assets :
            v # u \/ b # a => account'[v][b].locked = LockedFor(v, b)'
      BY <2>2, <2>4 DEF LocksMatch, Writes
    <3>3. QED
      BY <3>1, <3>2
  <2>7. \A v \in Users : activeTasks'[v] = Cardinality(ActiveOf(v))'
    <3>1. activeTasks' = [activeTasks EXCEPT ![u] = @ - 1]
      BY <1>4, <2>1 DEF Finalize
    <3>2. /\ activeTasks'[u] = activeTasks[u] - 1
          /\ \A v \in Users : v # u => activeTasks'[v] = activeTasks[v]
      BY <3>1 DEF TypeOK, EscrowTypeOK
    <3>3. Cardinality(ActiveOf(u) \ {t}) = Cardinality(ActiveOf(u)) - 1
      BY <2>4, LocksNumbers, FS_RemoveElement
    <3>4. activeTasks'[u] = Cardinality(ActiveOf(u))'
      BY <2>4, <3>2, <3>3 DEF LocksMatch
    <3>5. \A v \in Users : v # u => activeTasks'[v] = Cardinality(ActiveOf(v))'
      BY <2>4, <3>2 DEF LocksMatch
    <3>6. QED
      BY <3>4, <3>5
  <2>8. QED
    BY <2>6, <2>7 DEF LocksMatch
<1>5. CASE FinalizeUndisputed(t)
  BY <1>2, <1>4, <1>5 DEF FinalizeUndisputed
<1>6. ASSUME NEW refund \in Nat, NEW payout \in Nat, ResolveDispute(t, refund, payout)
      PROVE  \A v \in Users : LocksMatch(v)'
  <2>1. Finalize(t, tasks[t].planCost, tasks[t].spent + payout)
    BY <1>6 DEF ResolveDispute
  <2>2. tasks[t].spent + payout \in Nat
    BY <1>2
  <2>3. QED
    BY <1>2, <1>4, <2>1, <2>2
<1>7. QED
  BY <1>1, <1>3, <1>5, <1>6

LEMMA LocksStep ==
    ASSUME TypeOK, TypeOK', LocksMatchTasks, [Next]_vars
    PROVE  LocksMatchTasks'
<1>1. \A u \in Users : LocksMatch(u)
  BY LocksMeaning
<1>2. \A u \in Users : LocksMatch(u)'
  <2>1. CASE UNCHANGED <<account, activeTasks, tasks, taskCounter>>
    BY <1>1, <2>1, LocksSame
  <2>2. CASE UNCHANGED vars
    BY <2>1, <2>2 DEF vars, ledgerVars, escrowVars, taskVars
  <2>3. CASE RegistryNext
    BY <2>1, <2>3 DEF RegistryNext, RegisterOrchestrator, UpdateOrchestrator,
                      ledgerVars, taskVars
  <2>4. CASE ConfigNext
    BY <2>1, <2>4 DEF ConfigNext, SetPolicyCommitment, UnpinPolicyCommitment,
                      SetPolicyVerifier, SetDisputeResolver, SetMaxActiveTasks,
                      SetStaleThreshold, ledgerVars, taskVars
  <2>5. QED
    BY <1>1, <2>2, <2>3, <2>4, LedgerLocks, CreateLocks, ReleaseLocks, EndLocks DEF Next
<1>3. (LocksMatchTasks <=> \A u \in Users : LocksMatch(u))'
  BY LocksMeaning, PTL
<1>4. QED
  BY <1>2, <1>3

LEMMA InitLocks == Init => LocksMatchTasks
<1> SUFFICES ASSUME Init PROVE LocksMatchTasks
  OBVIOUS
<1>1. TypeOK
  BY InitTypeOK
<1>2. Created = {}
  BY DEF Init, EscrowInit, Created
<1>3. ASSUME NEW u \in Users PROVE LocksMatch(u)
  <2>1. activeTasks[u] = 0 /\ \A a \in Assets : account[u][a].locked = 0
    BY DEF Init, LedgerInit, EscrowInit, NewAccount
  <2>2. \A a \in Assets : LockedFor(u, a) = 0
    BY <1>2, SumEmpty DEF LockedFor, ActiveTasks, ActiveIn
  <2>3. Cardinality(ActiveOf(u)) = 0
    BY <1>2, FS_EmptySet DEF ActiveOf
  <2>4. QED
    BY <2>1, <2>2, <2>3 DEF LocksMatch
<1>4. QED
  BY <1>1, <1>3, LocksMeaning

\* In every account exactly the plan costs of its active tasks are locked, and
\* the counter that caps them is their number, whichever way tasks end.
THEOREM LocksAlwaysMatch == Spec => []LocksMatchTasks
<1>1. TypeOK /\ TypeOK' /\ LocksMatchTasks /\ [Next]_vars => LocksMatchTasks'
  BY LocksStep
<1>2. QED
  BY <1>1, InitLocks, TypeCorrect, PTL DEF Spec

-----------------------------------------------------------------------------
\* Active tasks belong to the orchestrator their owner has registered.

\* No step gives a task another owner or orchestrator, and none reopens one.
LEMMA OwnersStay ==
    ASSUME TypeOK, [Next]_vars, ~CreateNext
    PROVE  /\ taskCounter' = taskCounter
           /\ \A t \in Created :
                 /\ tasks'[t].user = tasks[t].user
                 /\ tasks'[t].orchestrator = tasks[t].orchestrator
                 /\ tasks[t].completed => tasks'[t].completed
<1>1. ASSUME NEW t \in Created, NEW task, SetTask(t, task), taskCounter' = taskCounter,
             task.user = tasks[t].user, task.orchestrator = tasks[t].orchestrator,
             tasks[t].completed => task.completed
      PROVE  /\ taskCounter' = taskCounter
             /\ \A r \in Created :
                  /\ tasks'[r].user = tasks[r].user
                  /\ tasks'[r].orchestrator = tasks[r].orchestrator
                  /\ tasks[r].completed => tasks'[r].completed
  BY <1>1 DEF SetTask, TypeOK, EscrowTypeOK
<1>2. \A t \in Created : tasks[t] \in TaskInfo
  BY Terms
<1>3. CASE UNCHANGED <<tasks, taskCounter>>
  BY <1>3
<1>4. CASE UNCHANGED vars \/ (LedgerNext /\ UNCHANGED escrowVars)
  BY <1>3, <1>4 DEF vars, escrowVars, taskVars
<1>5. CASE RegistryNext
  BY <1>3, <1>5 DEF RegistryNext, RegisterOrchestrator, UpdateOrchestrator, taskVars
<1>6. CASE ConfigNext
  BY <1>3, <1>6 DEF ConfigNext, SetPolicyCommitment, UnpinPolicyCommitment,
                    SetPolicyVerifier, SetDisputeResolver, SetMaxActiveTasks,
                    SetStaleThreshold, taskVars
<1>7. CASE ReleaseNext
  <2>1. PICK t \in Created, s \in StepIds, x \in Amounts :
          \/ ReleasePayment(t, s, x)
          \/ \E n \in Nullifiers : ReleasePaymentProved(t, s, x, n)
    BY <1>7 DEF ReleaseNext
  <2> DEFINE mid == Released(tasks[t], s, x)
  <2>2. /\ mid.user = tasks[t].user /\ mid.orchestrator = tasks[t].orchestrator
        /\ mid.completed = tasks[t].completed
    BY <1>2 DEF Released, TaskInfo
  <2>3. CASE ReleasePayment(t, s, x)
    <3>1. SetTask(t, mid) /\ taskCounter' = taskCounter
      BY <2>3 DEF ReleasePayment
    <3>2. QED
      BY <1>1, <2>2, <3>1
  <2>4. ASSUME NEW n \in Nullifiers, ReleasePaymentProved(t, s, x, n)
        PROVE  /\ taskCounter' = taskCounter
               /\ \A r \in Created :
                    /\ tasks'[r].user = tasks[r].user
                    /\ tasks'[r].orchestrator = tasks[r].orchestrator
                    /\ tasks[r].completed => tasks'[r].completed
    <3>1. SetTask(t, Consuming(mid, n)) /\ taskCounter' = taskCounter
      BY <2>4 DEF ReleasePaymentProved
    <3>2. /\ Consuming(mid, n).user = tasks[t].user
          /\ Consuming(mid, n).orchestrator = tasks[t].orchestrator
          /\ Consuming(mid, n).completed = tasks[t].completed
      BY <1>2, <2>2 DEF Consuming, Released, TaskInfo
    <3>3. QED
      BY <1>1, <3>1, <3>2
  <2>5. QED
    BY <2>1, <2>3, <2>4
<1>8. CASE EndNext
  <2>1. PICK t \in Created :
          \/ RaiseDispute(t)
          \/ FinalizeUndisputed(t)
          \/ \E refund, payout \in Nat : ResolveDispute(t, refund, payout)
    BY <1>8, EndSteps
  <2>2. CASE RaiseDispute(t)
    <3>1. SetTask(t, Disputed(tasks[t])) /\ taskCounter' = taskCounter
      BY <2>2 DEF RaiseDispute
    <3>2. /\ Disputed(tasks[t]).user = tasks[t].user
          /\ Disputed(tasks[t]).orchestrator = tasks[t].orchestrator
          /\ Disputed(tasks[t]).completed = tasks[t].completed
      BY <1>2 DEF Disputed, TaskInfo
    <3>3. QED
      BY <1>1, <3>1, <3>2
  <2>3. CASE SetTask(t, Closed(tasks[t])) /\ taskCounter' = taskCounter
    <3>1. /\ Closed(tasks[t]).user = tasks[t].user
          /\ Closed(tasks[t]).orchestrator = tasks[t].orchestrator
          /\ Closed(tasks[t]).completed
      BY <1>2 DEF Closed, TaskInfo
    <3>2. QED
      BY <1>1, <2>3, <3>1
  <2>4. QED
    BY <2>1, <2>2, <2>3 DEF FinalizeUndisputed, ResolveDispute, Finalize
<1>9. QED
  BY <1>4, <1>5, <1>6, <1>7, <1>8 DEF Next

LEMMA StrandedStep ==
    ASSUME TypeOK, LocksMatchTasks, LookupSound, NotStranded, [Next]_vars
    PROVE  NotStranded'
<1> USE EscrowAssumption
<1>1. CASE CreateNext
  <2>1. PICK o \in Orchestrators, a \in Assets, x \in Amounts,
             c \in Commitments \cup {NoCommitment} : LockNewTask(o, a, x, c)
    BY <1>1 DEF CreateNext, CreateTask, CreateTaskWithPolicy
  <2>2. PICK u \in Users : u = orchestratorOwner[o]
    BY <2>1, LockNewTaskStep
  <2>3. PICK t : t = taskCounter + 1
    OBVIOUS
  <2>4. /\ taskCounter' = t /\ tasks'[t] = NewTask(u, o, a, x, c)
        /\ \A r \in Created : tasks'[r] = tasks[r]
    BY <2>1, <2>2, <2>3, LockNewTaskStep
  <2>5. Created' = Created \cup {t}
    BY <2>3, <2>4, TasksFinite DEF Created
  <2>6. orchestrator' = orchestrator /\ orchestrator[u] = o
    <3>1. orchestrator' = orchestrator /\ u # NoAddress
      BY <2>1, <2>2 DEF LockNewTask, registryVars
    <3>2. QED
      BY <2>2, <3>1 DEF LookupSound
  <2>7. QED
    BY <2>4, <2>5, <2>6 DEF NotStranded, Active, NewTask
<1>2. CASE ~CreateNext
  <2>1. /\ Created' = Created
        /\ \A t \in Created :
              /\ tasks'[t].user = tasks[t].user
              /\ tasks'[t].orchestrator = tasks[t].orchestrator
              /\ tasks[t].completed => tasks'[t].completed
    BY <1>2, OwnersStay DEF Created
  <2>2. ASSUME NEW t \in Created, ~tasks'[t].completed
        PROVE  orchestrator'[tasks[t].user] = orchestrator[tasks[t].user]
    <3>1. tasks[t] \in TaskInfo /\ ~tasks[t].completed
      BY <2>1, <2>2, Terms
    <3>2. PICK v \in Users : v = tasks[t].user
      BY <3>1 DEF TaskInfo
    <3>3. orchestrator[v] \in Orchestrators
      BY <3>1, <3>2 DEF NotStranded, Active, TaskInfo
    <3>4. CASE UNCHANGED orchestrator
      BY <3>4
    <3>5. ASSUME NEW u \in Users, NEW o \in Orchestrators, RegisterOrchestrator(u, o)
          PROVE  orchestrator'[v] = orchestrator[v]
      <4>1. v # u
        BY <3>3, <3>5 DEF RegisterOrchestrator
      <4>2. QED
        BY <3>5, <4>1 DEF RegisterOrchestrator, TypeOK, EscrowTypeOK
    <3>6. ASSUME NEW u \in Users, NEW o \in Orchestrators, UpdateOrchestrator(u, o)
          PROVE  orchestrator'[v] = orchestrator[v]
      <4>1. activeTasks[u] = 0
        BY <3>6 DEF UpdateOrchestrator
      <4>2. ActiveOf(u) = {}
        <5>1. Cardinality(ActiveOf(u)) = 0 /\ IsFiniteSet(ActiveOf(u))
          BY <4>1, LocksMeaning, LocksNumbers DEF LocksMatch
        <5>2. QED
          BY <5>1, FS_EmptySet
      <4>3. t \in ActiveOf(v)
        BY <3>1, <3>2 DEF ActiveOf, Active
      <4>4. v # u
        BY <4>2, <4>3
      <4>5. QED
        BY <3>6, <4>4 DEF UpdateOrchestrator, TypeOK, EscrowTypeOK
    <3>7. \/ UNCHANGED orchestrator
          \/ \E u \in Users, o \in Orchestrators :
                RegisterOrchestrator(u, o) \/ UpdateOrchestrator(u, o)
      <4>1. CASE (LedgerNext /\ UNCHANGED escrowVars) \/ UNCHANGED vars
        BY <4>1 DEF vars, escrowVars, registryVars
      <4>2. CASE RegistryNext
        BY <4>2 DEF RegistryNext
      <4>3. CASE ReleaseNext
        BY <4>3 DEF ReleaseNext, ReleasePayment, ReleasePaymentProved, registryVars
      <4>4. CASE EndNext
        BY <4>4 DEF EndNext, CompleteTask, CancelTask, ForceCompleteStaleTask,
                    FinalizeUndisputed, RaiseDispute, ResolveDispute, Finalize, registryVars
      <4>5. CASE ConfigNext
        BY <4>5 DEF ConfigNext, SetPolicyCommitment, UnpinPolicyCommitment,
                    SetPolicyVerifier, SetDisputeResolver, SetMaxActiveTasks,
                    SetStaleThreshold, registryVars
      <4>6. QED
        BY <1>2, <4>1, <4>2, <4>3, <4>4, <4>5 DEF Next
    <3>8. QED
      BY <3>2, <3>4, <3>5, <3>6, <3>7
  <2>3. QED
    BY <2>1, <2>2 DEF NotStranded, Active
<1>3. QED
  BY <1>1, <1>2

\* The orchestrator of an active task is the one its owner has registered, so
\* it can still release and complete it: the counter that update_orchestrator
\* consults is exact, and a registration happens once.
THEOREM NeverStranded == Spec => []NotStranded
<1>1. Init => NotStranded
  BY DEF Init, EscrowInit, NotStranded, Created
<1>2. TypeOK /\ LocksMatchTasks /\ LookupSound /\ NotStranded /\ [Next]_vars => NotStranded'
  BY StrandedStep
<1>3. QED
  BY <1>1, <1>2, TypeCorrect, LocksAlwaysMatch, LookupIsSound, PTL DEF Spec

-----------------------------------------------------------------------------
\* A task's records account for what it spent.

Recorded(task) == {s \in StepIds : task.steps[s] # 0}

Accounts(task) ==
    /\ task.spent = SumFunctionOnSet(task.steps, StepIds)
    /\ Cardinality(task.nullifiers) =
          IF task.commitment = NoCommitment THEN 0 ELSE Cardinality(Recorded(task))

AllAccount == \A t \in Created : ~tasks[t].completed => Accounts(tasks[t])

LEMMA StepsMeaning == StepsAccountForSpent <=> AllAccount
BY DEF StepsAccountForSpent, AllAccount, Accounts, Recorded, ReleasedSteps, Active

\* A step with no record yet gets one, and with it its term and its place.
LEMMA StepRecorded ==
    ASSUME NEW task \in TaskInfo, Accounts(task), NEW s \in StepIds, task.steps[s] = 0,
           NEW x \in Nat \ {0}
    PROVE  LET new == Released(task, s, x)
           IN  /\ new.spent = SumFunctionOnSet(new.steps, StepIds)
               /\ Cardinality(Recorded(new)) = Cardinality(Recorded(task)) + 1
               /\ new.nullifiers = task.nullifiers
               /\ new.commitment = task.commitment
<1>1. PICK st : st = [task.steps EXCEPT ![s] = x]
  OBVIOUS
<1>2. /\ task.steps \in [StepIds -> Nat] /\ task.spent \in Nat
      /\ st \in [StepIds -> Nat]
      /\ st[s] = x /\ \A r \in StepIds : r # s => st[r] = task.steps[r]
  BY <1>1 DEF TaskInfo
<1>3. PICK new : new = Released(task, s, x)
  OBVIOUS
<1>4. /\ new.spent = task.spent + x /\ new.steps = st
      /\ new.nullifiers = task.nullifiers /\ new.commitment = task.commitment
  <2>1. PICK sp : sp = task.spent + x
    OBVIOUS
  <2>2. new = [task EXCEPT !.steps = st, !.spent = sp]
    BY <1>1, <1>3, <2>1 DEF Released
  <2>3. QED
    BY <2>1, <2>2 DEF TaskInfo
<1>5. new.spent = SumFunctionOnSet(new.steps, StepIds)
  <2>1. PICK f : f = task.steps
    OBVIOUS
  <2>2. /\ \A r \in StepIds : f[r] \in Int /\ st[s] \in Int
        /\ \A r \in StepIds : r # s => st[r] = f[r]
    BY <1>2, <2>1
  <2>3. SumFunctionOnSet(st, StepIds) = SumFunctionOnSet(f, StepIds) - f[s] + st[s]
    BY <2>2, FiniteAssumption, SumChange
  <2>4. SumFunctionOnSet(f, StepIds) = task.spent
    BY <2>1 DEF Accounts
  <2>5. QED
    BY <1>2, <1>4, <2>1, <2>3, <2>4
<1>6. Cardinality(Recorded(new)) = Cardinality(Recorded(task)) + 1
  <2>1. Recorded(new) = Recorded(task) \cup {s} /\ s \notin Recorded(task)
    BY <1>2, <1>4 DEF Recorded
  <2>2. IsFiniteSet(Recorded(task))
    <3>1. Recorded(task) \subseteq StepIds
      BY DEF Recorded
    <3>2. QED
      BY <3>1, FiniteAssumption, FS_Subset
  <2>3. QED
    BY <2>1, <2>2, FS_AddElement
<1>7. QED
  BY <1>3, <1>4, <1>5, <1>6

LEMMA PlainAccounts ==
    ASSUME NEW task \in TaskInfo, Accounts(task), NEW s \in StepIds, task.steps[s] = 0,
           NEW x \in Nat \ {0}, task.commitment = NoCommitment
    PROVE  Accounts(Released(task, s, x))
BY StepRecorded DEF Accounts

LEMMA ProvedAccounts ==
    ASSUME NEW task \in TaskInfo, Accounts(task), NEW s \in StepIds, task.steps[s] = 0,
           NEW x \in Nat \ {0}, task.commitment # NoCommitment,
           NEW n \in Nullifiers, n \notin task.nullifiers
    PROVE  Accounts(Consuming(Released(task, s, x), n))
<1>1. PICK mid \in TaskInfo :
        /\ mid = Released(task, s, x)
        /\ mid.spent = SumFunctionOnSet(mid.steps, StepIds)
        /\ Cardinality(Recorded(mid)) = Cardinality(Recorded(task)) + 1
        /\ mid.nullifiers = task.nullifiers
        /\ mid.commitment = task.commitment
  BY StepRecorded, ReleasedTask
<1>2. PICK new : new = Consuming(mid, n)
  OBVIOUS
<1>3. /\ new.spent = mid.spent /\ new.steps = mid.steps /\ new.commitment = mid.commitment
      /\ new.nullifiers = mid.nullifiers \cup {n}
  BY <1>2 DEF Consuming, TaskInfo
<1>4. Cardinality(new.nullifiers) = Cardinality(task.nullifiers) + 1
  <2>1. task.nullifiers \subseteq Nullifiers
    BY DEF TaskInfo
  <2>2. IsFiniteSet(task.nullifiers)
    BY <2>1, FiniteAssumption, FS_Subset
  <2>3. QED
    BY <1>1, <1>3, <2>2, FS_AddElement, ZenonT(40)
<1>5. Recorded(new) = Recorded(mid)
  BY <1>3 DEF Recorded
<1>6. Accounts(new)
  BY <1>1, <1>3, <1>4, <1>5 DEF Accounts
<1>7. QED
  BY <1>1, <1>2, <1>6

LEMMA NewAccounts ==
    ASSUME NEW u, NEW o, NEW a, NEW x, NEW c
    PROVE  Accounts(NewTask(u, o, a, x, c))
<1>1. PICK new : new = NewTask(u, o, a, x, c)
  OBVIOUS
<1>2. /\ new.spent = 0 /\ new.steps = NoSteps /\ new.nullifiers = {}
  BY <1>1 DEF NewTask
<1>3. \A s \in StepIds : NoSteps[s] = 0
  BY DEF NoSteps
<1>4. SumFunctionOnSet(NoSteps, StepIds) = 0
  BY <1>3, FiniteAssumption, SumZero
<1>5. Recorded(new) = {}
  BY <1>2, <1>3 DEF Recorded
<1>6. QED
  BY <1>1, <1>2, <1>4, <1>5, FS_EmptySet DEF Accounts

LEMMA StepsStep ==
    ASSUME TypeOK, StepsAccountForSpent, [Next]_vars
    PROVE  StepsAccountForSpent'
<1>1. AllAccount /\ \A t \in Created : tasks[t] \in TaskInfo
  BY StepsMeaning, Terms
<1>2. SUFFICES AllAccount'
  BY StepsMeaning, PTL
<1>3. ASSUME NEW t \in Created, NEW task, SetTask(t, task), taskCounter' = taskCounter,
             ~task.completed => Accounts(task)
      PROVE  AllAccount'
  <2>1. Created' = Created
    BY <1>3 DEF Created
  <2>2. tasks'[t] = task /\ \A r \in Created : r # t => tasks'[r] = tasks[r]
    BY <1>3 DEF SetTask, TypeOK, EscrowTypeOK
  <2>3. ASSUME NEW r \in Created, ~tasks'[r].completed PROVE Accounts(tasks'[r])
    BY <1>1, <1>3, <2>2, <2>3 DEF AllAccount
  <2>4. QED
    BY <2>1, <2>3 DEF AllAccount
<1>4. CASE UNCHANGED <<tasks, taskCounter>>
  <2>1. Created' = Created /\ tasks' = tasks
    BY <1>4 DEF Created
  <2>2. QED
    BY <1>1, <2>1 DEF AllAccount
<1>5. CASE UNCHANGED vars \/ (LedgerNext /\ UNCHANGED escrowVars)
  BY <1>4, <1>5 DEF vars, escrowVars, taskVars
<1>6. CASE RegistryNext
  BY <1>4, <1>6 DEF RegistryNext, RegisterOrchestrator, UpdateOrchestrator, taskVars
<1>7. CASE ConfigNext
  BY <1>4, <1>7 DEF ConfigNext, SetPolicyCommitment, UnpinPolicyCommitment,
                    SetPolicyVerifier, SetDisputeResolver, SetMaxActiveTasks,
                    SetStaleThreshold, taskVars
<1>8. CASE CreateNext
  <2>1. PICK o \in Orchestrators, a \in Assets, x \in Amounts,
             c \in Commitments \cup {NoCommitment} : LockNewTask(o, a, x, c)
    BY <1>8 DEF CreateNext, CreateTask, CreateTaskWithPolicy
  <2>2. PICK t : t = taskCounter + 1
    OBVIOUS
  <2>3. /\ taskCounter' = t /\ tasks'[t] = NewTask(orchestratorOwner[o], o, a, x, c)
        /\ \A r \in Created : tasks'[r] = tasks[r]
    BY <2>1, <2>2, LockNewTaskStep
  <2>4. Created' = Created \cup {t}
    BY <2>2, <2>3, TasksFinite DEF Created
  <2>5. Accounts(tasks'[t])
    BY <2>3, NewAccounts
  <2>6. QED
    BY <1>1, <2>3, <2>4, <2>5 DEF AllAccount
<1>9. CASE ReleaseNext
  <2>1. PICK t \in Created, s \in StepIds, x \in Amounts :
          \/ ReleasePayment(t, s, x)
          \/ \E n \in Nullifiers : ReleasePaymentProved(t, s, x, n)
    BY <1>9 DEF ReleaseNext
  <2>2. x \in Nat \ {0}
    BY LedgerAssumption
  <2>3. PICK task \in TaskInfo : task = tasks[t]
    BY <1>1
  <2>4. MayRelease(t, s, x) /\ taskCounter' = taskCounter
    BY <2>1 DEF ReleasePayment, ReleasePaymentProved
  <2>5. task.steps[s] = 0 /\ Accounts(task)
    BY <1>1, <2>3, <2>4 DEF AllAccount, MayRelease
  <2>6. CASE ReleasePayment(t, s, x)
    <3>1. SetTask(t, Released(task, s, x)) /\ task.commitment = NoCommitment
      BY <2>3, <2>6 DEF ReleasePayment
    <3>2. Accounts(Released(task, s, x))
      BY <2>2, <2>5, <3>1, PlainAccounts
    <3>3. QED
      BY <1>3, <2>4, <3>1, <3>2
  <2>7. ASSUME NEW n \in Nullifiers, ReleasePaymentProved(t, s, x, n)
        PROVE  AllAccount'
    <3>1. /\ SetTask(t, Consuming(Released(task, s, x), n))
          /\ task.commitment # NoCommitment /\ n \notin task.nullifiers
      BY <2>3, <2>7 DEF ReleasePaymentProved
    <3>2. Accounts(Consuming(Released(task, s, x), n))
      BY <2>2, <2>5, <3>1, ProvedAccounts
    <3>3. QED
      BY <1>3, <2>4, <3>1, <3>2
  <2>8. QED
    BY <2>1, <2>6, <2>7
<1>10. CASE EndNext
  <2>1. PICK t \in Created :
          \/ RaiseDispute(t)
          \/ FinalizeUndisputed(t)
          \/ \E refund, payout \in Nat : ResolveDispute(t, refund, payout)
    BY <1>10, EndSteps
  <2>2. PICK task \in TaskInfo : task = tasks[t]
    BY <1>1
  <2>3. CASE RaiseDispute(t)
    <3>1. SetTask(t, Disputed(task)) /\ taskCounter' = taskCounter /\ Accounts(task)
      BY <1>1, <2>2, <2>3 DEF RaiseDispute, AllAccount
    <3>2. PICK new : new = Disputed(task)
      OBVIOUS
    <3>3. /\ new.spent = task.spent /\ new.steps = task.steps
          /\ new.nullifiers = task.nullifiers /\ new.commitment = task.commitment
      BY <3>2 DEF Disputed, TaskInfo
    <3>4. Accounts(new)
      BY <3>1, <3>3 DEF Accounts, Recorded
    <3>5. QED
      BY <1>3, <3>1, <3>2, <3>4
  <2>4. CASE SetTask(t, Closed(task)) /\ taskCounter' = taskCounter
    <3>1. Closed(task).completed
      BY ClosedTask
    <3>2. QED
      BY <1>3, <2>4, <3>1
  <2>5. QED
    BY <2>1, <2>2, <2>3, <2>4 DEF FinalizeUndisputed, ResolveDispute, Finalize
<1>11. QED
  BY <1>5, <1>6, <1>7, <1>8, <1>9, <1>10 DEF Next

\* As long as a task is active, its step records add up to what it spent; a
\* committed task has consumed one nullifier per record, a plain one none.
THEOREM StepsAlwaysAccount == Spec => []StepsAccountForSpent
<1>1. Init => StepsAccountForSpent
  BY DEF Init, EscrowInit, StepsAccountForSpent, Created
<1>2. TypeOK /\ StepsAccountForSpent /\ [Next]_vars => StepsAccountForSpent'
  BY StepsStep
<1>3. QED
  BY <1>1, <1>2, TypeCorrect, PTL DEF Spec
-----------------------------------------------------------------------------
\* What the books mean for the tokens the contract holds.

Withdrawable(a) == [u \in Users |-> Available(u, a)]
Lockeds(a) == [u \in Users |-> account[u][a].locked]
Unspent == [t \in Created |-> tasks[t].planCost - tasks[t].spent]

\* The tokens held are what the owners can withdraw now, what the active tasks
\* may still release, and the fees; none of these is more than what is held.
Covered ==
    \A a \in Assets :
        /\ held[a] = SumFunctionOnSet(Withdrawable(a), Users)
                     + SumFunctionOnSet(Unspent, ActiveIn(a)) + accruedFees[a]
        /\ \A u \in Users : Available(u, a) <= held[a]
        /\ \A t \in ActiveIn(a) : tasks[t].planCost - tasks[t].spent <= held[a]
        /\ accruedFees[a] <= held[a]

\* What all owners have locked is what all active tasks have reserved.
LEMMA LocksOfAll ==
    ASSUME TypeOK, LocksMatchTasks, NEW a \in Assets
    PROVE  SumFunctionOnSet(Lockeds(a), Users) = SumFunctionOnSet(PlanCosts, ActiveIn(a))
<1>1. PICK P, w, E : /\ P = [u \in Users |-> ActiveTasks(u, a)] /\ w = Lockeds(a)
                     /\ E = ActiveIn(a)
  OBVIOUS
<1>2. \A u \in Users : P[u] \subseteq E /\ w[u] = SumFunctionOnSet(PlanCosts, P[u])
  BY <1>1 DEF LocksMatchTasks, ActiveTasks, Lockeds
<1>3. \A u, v \in Users : u # v => P[u] \cap P[v] = {}
  BY <1>1 DEF ActiveTasks
<1>4. E \subseteq Created
  BY <1>1 DEF ActiveIn
<1>5. IsFiniteSet(E) /\ IsFiniteSet(Users)
  BY <1>4, TasksFinite
<1>6. \A t \in E : PlanCosts[t] \in Int
  BY <1>4, Terms
<1>7. SumFunctionOnSet(w, Users) = SumFunctionOnSet(PlanCosts, UNION {P[u] : u \in Users})
  BY <1>2, <1>3, <1>5, <1>6, SumParts
<1>8. UNION {P[u] : u \in Users} = E
  <2>1. \A t \in E : tasks[t].user \in Users
    BY <1>4, Terms DEF TaskInfo
  <2>2. \A t \in E : t \in P[tasks[t].user]
    BY <1>1, <2>1 DEF ActiveTasks
  <2>3. QED
    BY <1>2, <2>1, <2>2
<1>9. QED
  BY <1>1, <1>7, <1>8

LEMMA BooksCover ==
    ASSUME TypeOK, Solvency, LocksMatchTasks, NoOverdraft
    PROVE  Covered
<1> SUFFICES ASSUME NEW a \in Assets
             PROVE  /\ held[a] = SumFunctionOnSet(Withdrawable(a), Users)
                                 + SumFunctionOnSet(Unspent, ActiveIn(a)) + accruedFees[a]
                    /\ \A u \in Users : Available(u, a) <= held[a]
                    /\ \A t \in ActiveIn(a) : tasks[t].planCost - tasks[t].spent <= held[a]
                    /\ accruedFees[a] <= held[a]
  BY DEF Covered
<1>1. ActiveIn(a) \subseteq Created
  BY DEF ActiveIn
<1>2. IsFiniteSet(Users) /\ IsFiniteSet(ActiveIn(a))
  BY <1>1, TasksFinite
<1>3. accruedFees[a] \in Nat /\ held[a] \in Int
  BY DEF TypeOK, LedgerTypeOK
<1>4. \A u \in Users :
        /\ Balances(a)[u] \in Int /\ Lockeds(a)[u] \in Int
        /\ Withdrawable(a)[u] = Balances(a)[u] - Lockeds(a)[u]
        /\ Withdrawable(a)[u] \in Nat
  <2> SUFFICES ASSUME NEW u \in Users
               PROVE  /\ Balances(a)[u] \in Int /\ Lockeds(a)[u] \in Int
                      /\ Withdrawable(a)[u] = Balances(a)[u] - Lockeds(a)[u]
                      /\ Withdrawable(a)[u] \in Nat
    OBVIOUS
  <2>1. account[u][a].balance \in Int /\ account[u][a].locked \in Int
    BY DEF TypeOK, LedgerTypeOK, Account
  <2>2. Available(u, a) >= 0
    BY DEF NoOverdraft
  <2>3. Available(u, a) = account[u][a].balance - account[u][a].locked
    BY DEF Available
  <2>4. QED
    BY <2>1, <2>2, <2>3 DEF Balances, Lockeds, Withdrawable
<1>5. \A t \in ActiveIn(a) :
        /\ PlanCosts[t] \in Int /\ Spent[t] \in Int
        /\ Unspent[t] = PlanCosts[t] - Spent[t] /\ Unspent[t] \in Nat
  <2> SUFFICES ASSUME NEW t \in ActiveIn(a)
               PROVE  /\ PlanCosts[t] \in Int /\ Spent[t] \in Int
                      /\ Unspent[t] = PlanCosts[t] - Spent[t] /\ Unspent[t] \in Nat
    OBVIOUS
  <2>1. /\ t \in Created /\ Spent[t] = tasks[t].spent /\ PlanCosts[t] = tasks[t].planCost
        /\ Spent[t] \in Int /\ PlanCosts[t] \in Int
    BY <1>1, Terms
  <2>2. tasks[t].spent <= tasks[t].planCost
    BY <2>1 DEF NoOverdraft
  <2>3. Unspent[t] = tasks[t].planCost - tasks[t].spent
    BY <2>1 DEF Unspent
  <2>4. QED
    BY <2>1, <2>2, <2>3
<1>6. PICK B, L, C, S, W, R \in Int :
        /\ B = SumFunctionOnSet(Balances(a), Users)
        /\ L = SumFunctionOnSet(Lockeds(a), Users)
        /\ C = SumFunctionOnSet(PlanCosts, ActiveIn(a))
        /\ S = SumFunctionOnSet(Spent, ActiveIn(a))
        /\ W = SumFunctionOnSet(Withdrawable(a), Users)
        /\ R = SumFunctionOnSet(Unspent, ActiveIn(a))
  <2>1. /\ SumFunctionOnSet(Balances(a), Users) \in Int
        /\ SumFunctionOnSet(Lockeds(a), Users) \in Int
    BY <1>2, <1>4, SumType
  <2>2. /\ SumFunctionOnSet(PlanCosts, ActiveIn(a)) \in Int
        /\ SumFunctionOnSet(Spent, ActiveIn(a)) \in Int
    BY <1>2, <1>5, SumType
  <2>3. SumFunctionOnSet(Withdrawable(a), Users) \in Int
    BY <1>2, <1>4, SumNat
  <2>4. SumFunctionOnSet(Unspent, ActiveIn(a)) \in Int
    BY <1>2, <1>5, SumNat
  <2>5. QED
    BY <2>1, <2>2, <2>3, <2>4
<1>7. W = B - L
  BY <1>2, <1>4, <1>6, SumMinus
<1>8. R = C - S
  BY <1>2, <1>5, <1>6, SumMinus
<1>9. L = C
  BY <1>6, LocksOfAll
<1>10. held[a] = B - S + accruedFees[a]
  BY <1>6 DEF Solvency
<1>11. W \in Nat /\ R \in Nat
  BY <1>2, <1>4, <1>5, <1>6, SumNat
<1>12. held[a] = W + R + accruedFees[a]
  BY <1>3, <1>6, <1>7, <1>8, <1>9, <1>10
<1>13. ASSUME NEW u \in Users PROVE Available(u, a) <= held[a]
  <2>1. Withdrawable(a)[u] <= W /\ Withdrawable(a)[u] \in Nat
    BY <1>2, <1>4, <1>6, SumCovers
  <2>2. Withdrawable(a)[u] = Available(u, a)
    BY DEF Withdrawable
  <2>3. QED
    BY <1>3, <1>11, <1>12, <2>1, <2>2
<1>14. ASSUME NEW t \in ActiveIn(a) PROVE tasks[t].planCost - tasks[t].spent <= held[a]
  <2>1. Unspent[t] <= R /\ Unspent[t] \in Nat
    BY <1>2, <1>5, <1>6, SumCovers
  <2>2. Unspent[t] = tasks[t].planCost - tasks[t].spent
    BY <1>1 DEF Unspent
  <2>3. QED
    BY <1>3, <1>11, <1>12, <2>1, <2>2
<1>15. accruedFees[a] <= held[a]
  BY <1>3, <1>11, <1>12
<1>16. QED
  BY <1>6, <1>12, <1>13, <1>14, <1>15

\* No transfer out of the contract fails for want of tokens: a withdrawal of
\* all that is available, a release of all a task has left, a resolved dispute
\* and a claim of the fees are each covered, and all of them together.
THEOREM AlwaysCovered == Spec => []Covered
<1>1. TypeOK /\ Solvency /\ LocksMatchTasks /\ NoOverdraft => Covered
  BY BooksCover
<1>2. QED
  BY <1>1, TypeCorrect, AlwaysSolvent, LocksAlwaysMatch, NeverOverdrawn, PTL

=============================================================================
