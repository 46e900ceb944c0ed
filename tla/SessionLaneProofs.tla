--------------------------- MODULE SessionLaneProofs ----------------------------
(***************************************************************************)
(* Proofs about the session lane for every set of keys and rules, every    *)
(* window and every amount: no key outruns its cap or loses its bounds,    *)
(* the global rule binds every payment, and a rule's rolling cap holds     *)
(* over all the keys that pay under it.                                    *)
(***************************************************************************)
EXTENDS SessionLane, TLAPS

Rule == {NoRule} \cup [written : {TRUE}, clauses : Clauses]
Usage == [anchor : Nat, spent : Nat, count : Nat]
Session ==
    {NoSession} \cup
    [live : {TRUE}, cap : Nat, expiry : Nat, rule : RuleIds \cup {None},
     held : BOOLEAN, paused : BOOLEAN, spent : Nat]
Tally == [sum : Nat, first : Nat, last : Nat]

\* The shapes TypeOK leaves to the reader, and that usage and tally are of the past.
Shape ==
    /\ rules \in [RuleIds -> Rule]
    /\ globalId \in RuleIds \cup {None}
    /\ usage \in [RuleIds -> Usage]
    /\ \A r \in RuleIds : usage[r].anchor <= now /\ tally[r].last <= now
    /\ sessions \in [Keys -> Session]
    /\ outflow \in [Keys -> Nat]
    /\ tally \in [RuleIds -> Tally]

TypeInv == TypeOK /\ Shape

-----------------------------------------------------------------------------
\* Type correctness, call by call.

LEMMA InitType == Init => TypeInv
<1> SUFFICES ASSUME Init PROVE TypeInv
  OBVIOUS
<1> USE SessionAssumption
<1>1. Shape
  BY DEF Init, Shape, Rule, Usage, Session, Tally, Unused, NoTally
<1>2. \A k \in Keys : ~Live(k)
  BY DEF Init, Live, NoSession
<1>3. \A r \in RuleIds : ~Written(r)
  BY DEF Init, Written, NoRule
<1>4. TypeOK
  BY <1>2, <1>3 DEF Init, TypeOK
<1>5. QED
  BY <1>1, <1>4 DEF TypeInv

LEMMA RequestType ==
    ASSUME TypeInv, NEW k \in Keys, NEW q \in Requests(k)
    PROVE  q \in [key : {k}, cap : Nat, expiry : Nat, rule : RuleIds \cup {None},
                  held : BOOLEAN]
<1> USE SessionAssumption
<1>1. \A l \in Lifetimes : Until(l) \in Nat
  BY DEF TypeInv, TypeOK, Until
<1>2. CASE k \in Managed
  <2>1. q \in ManagedRequests(k)
    BY <1>2 DEF Requests
  <2>2. PICK c \in Caps, l \in Lifetimes, r \in RuleIds \cup {None} :
          q = [key |-> k, cap |-> c, expiry |-> Until(l), rule |-> r, held |-> TRUE]
    BY <2>1 DEF ManagedRequests
  <2>3. QED
    BY <1>1, <2>2
<1>3. CASE k \notin Managed
  <2>1. q \in AgentRequests(k)
    BY <1>3 DEF Requests
  <2>2. PICK c \in Caps, l \in Lifetimes, r \in RuleIds \cup {None} :
          q = [key |-> k, cap |-> c, expiry |-> Until(l), rule |-> r, held |-> FALSE]
    BY <2>1 DEF AgentRequests
  <2>3. QED
    BY <1>1, <2>2
<1>4. QED
  BY <1>2, <1>3

\* What TypeOK asks of one live key.
Bounded(s, out) ==
    /\ s.spent = out
    /\ s.cap > 0 => out <= s.cap
    /\ s.cap > 0 \/ s.rule # None
    /\ s.held => s.cap > 0 /\ s.expiry > 0

\* A call that rewrites one key and nothing else but its history.
LEMMA KeyWrite ==
    ASSUME TypeInv, NEW k \in Keys, NEW s \in Session, NEW out \in Nat,
           s.live => Bounded(s, out),
           sessions' = [sessions EXCEPT ![k] = s],
           outflow' = [outflow EXCEPT ![k] = out],
           edits' \in 0..MaxEdits,
           UNCHANGED <<now, balance, ruleVars>>
    PROVE  TypeInv'
<1> USE SessionAssumption
<1>1. Shape'
  BY DEF TypeInv, Shape, ruleVars
<1>2. \A j \in Keys : Live(j)' => Bounded(sessions'[j], outflow'[j])
  <2>1. TAKE j \in Keys
  <2>2. CASE j = k
    BY <2>2 DEF TypeInv, Shape, Live
  <2>3. CASE j # k
    BY <2>3 DEF TypeInv, TypeOK, Shape, Live, Bounded
  <2>4. QED
    BY <2>2, <2>3
<1>3. TypeOK'
  BY <1>2 DEF TypeInv, TypeOK, Bounded, Live, Written, Clause, ruleVars
<1>4. QED
  BY <1>1, <1>3 DEF TypeInv

LEMMA EditBound ==
    ASSUME TypeInv, Edit
    PROVE  edits' \in 0..MaxEdits
  BY SessionAssumption DEF TypeInv, TypeOK, Edit

LEMMA RegisterType ==
    ASSUME TypeInv, NEW k \in Keys, NEW q \in Requests(k), RegisterSession(q)
    PROVE  TypeInv'
<1> USE SessionAssumption
<1> DEFINE s == [live |-> TRUE, cap |-> q.cap, expiry |-> q.expiry, rule |-> q.rule,
                 held |-> q.held, paused |-> FALSE, spent |-> 0]
<1>1. q \in [key : {k}, cap : Nat, expiry : Nat, rule : RuleIds \cup {None}, held : BOOLEAN]
  BY RequestType
<1>2. s \in Session
  BY <1>1 DEF Session
<1>3. Bounded(s, 0)
  BY <1>1 DEF Bounded, RegisterSession, TypeInv, TypeOK
<1>4. /\ sessions' = [sessions EXCEPT ![k] = s]
      /\ outflow' = [outflow EXCEPT ![k] = 0]
      /\ Edit
      /\ UNCHANGED <<now, balance, ruleVars>>
  BY <1>1 DEF RegisterSession
<1> HIDE DEF s
<1>5. QED
  BY <1>2, <1>3, <1>4, KeyWrite, EditBound

LEMMA LiveSession ==
    ASSUME TypeInv, NEW k \in Keys, Live(k)
    PROVE  /\ sessions[k] \in [live : {TRUE}, cap : Nat, expiry : Nat,
                               rule : RuleIds \cup {None}, held : BOOLEAN,
                               paused : BOOLEAN, spent : Nat]
           /\ Bounded(sessions[k], outflow[k])
<1>1. sessions[k] \in Session
  BY DEF TypeInv, Shape
<1>2. sessions[k] # NoSession
  BY DEF Live, NoSession
<1>3. Bounded(sessions[k], outflow[k])
  BY DEF TypeInv, TypeOK, Bounded
<1>4. QED
  BY <1>1, <1>2, <1>3 DEF Session

LEMMA PauseType ==
    ASSUME TypeInv, NEW k \in Keys, NEW paused \in BOOLEAN, SetSessionPaused(k, paused)
    PROVE  TypeInv'
<1> USE SessionAssumption
<1> DEFINE s == [sessions[k] EXCEPT !.paused = paused]
<1>1. Live(k)
  BY DEF SetSessionPaused
<1>2. s \in Session /\ Bounded(s, outflow[k])
  BY <1>1, LiveSession DEF Session, Bounded
<1>3. /\ sessions' = [sessions EXCEPT ![k] = s]
      /\ outflow' = [outflow EXCEPT ![k] = outflow[k]]
      /\ outflow[k] \in Nat
      /\ Edit
      /\ UNCHANGED <<now, balance, ruleVars>>
  BY DEF SetSessionPaused, TypeInv, Shape
<1> HIDE DEF s
<1>4. QED
  BY <1>2, <1>3, KeyWrite, EditBound

LEMMA UpdateType ==
    ASSUME TypeInv, NEW k \in Keys, NEW lifetime \in Lifetimes, NEW cap \in Caps,
           UpdateSession(k, lifetime, cap)
    PROVE  TypeInv'
<1> USE SessionAssumption
<1> DEFINE e == IF lifetime = 0 THEN sessions[k].expiry ELSE Until(lifetime)
           c == IF cap = 0 THEN sessions[k].cap ELSE cap
           s == [sessions[k] EXCEPT !.expiry = e, !.cap = c]
<1>1. Live(k)
  BY DEF UpdateSession
<1>2. sessions[k] \in [live : {TRUE}, cap : Nat, expiry : Nat, rule : RuleIds \cup {None},
                       held : BOOLEAN, paused : BOOLEAN, spent : Nat]
  BY <1>1, LiveSession
<1>3. e \in Nat /\ c \in Nat
  <2>1. sessions[k].expiry \in Nat /\ sessions[k].cap \in Nat
    BY <1>2
  <2>2. now \in Nat /\ lifetime \in Nat /\ cap \in Nat
    BY DEF TypeInv, TypeOK
  <2>3. QED
    BY <2>1, <2>2 DEF Until
<1>4. s = [sessions[k] EXCEPT !.expiry = IF lifetime = 0 THEN @ ELSE Until(lifetime),
                              !.cap = IF cap = 0 THEN @ ELSE cap]
  BY <1>2
<1>5. /\ cap # 0 => cap >= sessions[k].spent
      /\ s.held => s.cap > 0 /\ s.expiry > now
      /\ sessions' = [sessions EXCEPT ![k] = s]
      /\ outflow' = [outflow EXCEPT ![k] = outflow[k]]
      /\ outflow[k] \in Nat
      /\ Edit
      /\ UNCHANGED <<now, balance, ruleVars>>
  BY <1>4 DEF UpdateSession, TypeInv, Shape
<1>6. s \in Session
  BY <1>2, <1>3 DEF Session
<1>7. /\ s.spent = sessions[k].spent /\ s.rule = sessions[k].rule
      /\ s.held = sessions[k].held /\ s.cap = c /\ s.expiry = e
  BY <1>2
<1>8. Bounded(s, outflow[k])
  BY <1>1, <1>2, <1>3, <1>5, <1>7, LiveSession DEF Bounded, TypeInv, TypeOK
<1> HIDE DEF s, e, c
<1>9. QED
  BY <1>5, <1>6, <1>8, KeyWrite, EditBound

LEMMA RevokeType ==
    ASSUME TypeInv, NEW k \in Keys, RevokeSession(k)
    PROVE  TypeInv'
<1>1. NoSession \in Session /\ ~NoSession.live
  BY DEF Session, NoSession
<1>2. QED
  BY <1>1, KeyWrite, EditBound DEF RevokeSession

\* A call that edits the rules.
LEMMA RuleType ==
    ASSUME TypeInv,
           \/ \E r \in RuleIds :
                \/ \E clauses \in Clauses : SetPublicRule(r, clauses)
                \/ ClearPublicRule(r)
                \/ SetGlobalPublic(r)
           \/ ClearGlobalPublic
    PROVE  TypeInv'
<1> USE SessionAssumption
<1>1. /\ UNCHANGED <<now, balance, usage, sessions, outflow>>
      /\ Edit
  BY DEF SetPublicRule, ClearPublicRule, SetGlobalPublic, ClearGlobalPublic
<1>2. edits' \in 0..MaxEdits
  BY <1>1, EditBound
<1> DEFINE RulesOK ==
             /\ rules' \in [RuleIds -> Rule]
             /\ globalId' \in RuleIds \cup {None}
             /\ tally' \in [RuleIds -> Tally]
             /\ \A i \in RuleIds : tally'[i].last <= now
             /\ globalId' # None => rules'[globalId'].written
<1>3. RulesOK
  <2>1. ASSUME NEW r \in RuleIds, NEW clauses \in Clauses, SetPublicRule(r, clauses)
        PROVE  RulesOK
    <3>1. [written |-> TRUE, clauses |-> clauses] \in Rule /\ NoTally \in Tally /\ NoTally.last <= now
      BY DEF TypeInv, TypeOK, Rule, Tally, NoTally
    <3>2. QED
      BY <2>1, <3>1 DEF SetPublicRule, TypeInv, TypeOK, Shape, Written
  <2>2. ASSUME NEW r \in RuleIds, ClearPublicRule(r)
        PROVE  RulesOK
    <3>1. NoRule \in Rule /\ NoTally \in Tally /\ NoTally.last <= now
      BY DEF TypeInv, TypeOK, Rule, Tally, NoTally
    <3>2. QED
      BY <2>2, <3>1 DEF ClearPublicRule, TypeInv, TypeOK, Shape, Written
  <2>3. ASSUME NEW r \in RuleIds, SetGlobalPublic(r)
        PROVE  RulesOK
    BY <2>3 DEF SetGlobalPublic, TypeInv, TypeOK, Shape, Written
  <2>4. CASE ClearGlobalPublic
    BY <2>4 DEF ClearGlobalPublic, TypeInv, TypeOK, Shape, Written
  <2>5. QED
    BY <2>1, <2>2, <2>3, <2>4
<1>4. Shape'
  BY <1>1, <1>3 DEF TypeInv, Shape
<1>5. ASSUME NEW i \in RuleIds, Written(i)'
      PROVE  Clause(i)' \in Clauses
  <2>1. rules'[i] \in Rule
    BY <1>3
  <2>2. rules'[i] # NoRule
    BY <1>5 DEF Written, NoRule
  <2>3. QED
    BY <2>1, <2>2 DEF Rule, Clause
<1>6. TypeOK'
  BY <1>1, <1>2, <1>3, <1>5 DEF TypeInv, TypeOK, Written, Live
<1>7. QED
  BY <1>4, <1>6 DEF TypeInv

-----------------------------------------------------------------------------
\* Payments.

LEMMA ConsultedRules ==
    ASSUME TypeInv, NEW k \in Keys, Live(k), NEW choice \in Choices
    PROVE  /\ Consulted(k, choice) \subseteq RuleIds
           /\ globalId # None => globalId \in Consulted(k, choice)
<1>1. sessions[k].rule \in RuleIds \cup {None}
  BY LiveSession
<1>2. QED
  BY <1>1 DEF Consulted, Choices, TypeInv, Shape

\* What a rule's usage becomes; under a rolling cap, the window the payment
\* falls into.
LEMMA RolledUsage ==
    ASSUME TypeInv, NEW r \in RuleIds, NEW amount \in Nat
    PROVE  /\ Rolled(r, amount) \in Usage
           /\ Rolled(r, amount).count = usage[r].count + 1
           /\ Rolled(r, amount).anchor <= now
<1> USE SessionAssumption
<1>1. usage[r] \in Usage /\ usage[r].anchor <= now /\ now \in Nat
  BY DEF TypeInv, TypeOK, Shape
<1> DEFINE w == OpenWindow(r, amount)
<1>2. w.anchor \in Nat /\ w.anchor <= now /\ w.spent \in Nat
  BY <1>1 DEF OpenWindow, Usage
<1> HIDE DEF w
<1>3. Rolled(r, amount) =
        IF Clause(r).cap > 0
        THEN [anchor |-> w.anchor, spent |-> w.spent, count |-> usage[r].count + 1]
        ELSE [usage[r] EXCEPT !.count = @ + 1]
  BY DEF Rolled, w
<1>4. QED
  BY <1>1, <1>2, <1>3 DEF Usage

LEMMA ReleaseType ==
    ASSUME TypeInv, NEW k \in Keys, NEW payee \in Payees, NEW amount \in Amounts,
           NEW choice \in Choices, ReleasePaymentSession(k, payee, amount, choice)
    PROVE  TypeInv'
<1> USE SessionAssumption
<1> DEFINE s == [sessions[k] EXCEPT !.spent = @ + amount]
           under == Consulted(k, choice)
<1>1. amount \in Nat /\ amount > 0 /\ Live(k)
  BY DEF ReleasePaymentSession
<1>2. sessions[k] \in [live : {TRUE}, cap : Nat, expiry : Nat, rule : RuleIds \cup {None},
                       held : BOOLEAN, paused : BOOLEAN, spent : Nat]
      /\ Bounded(sessions[k], outflow[k])
  BY <1>1, LiveSession
<1>3. s \in Session /\ s.live
  <2>1. sessions[k].spent \in Nat /\ sessions[k].spent + amount \in Nat
    <3>1. sessions[k].spent \in Nat
      BY <1>2
    <3>2. QED
      BY <1>1, <3>1
  <2>2. s \in [live : {TRUE}, cap : Nat, expiry : Nat, rule : RuleIds \cup {None},
                held : BOOLEAN, paused : BOOLEAN, spent : Nat]
    BY <1>2, <2>1
  <2>3. QED
    BY <2>2 DEF Session
<1>4. Bounded(s, outflow[k] + amount)
  BY <1>1, <1>2 DEF Bounded, ReleasePaymentSession
<1>5. /\ sessions' = [sessions EXCEPT ![k] = s]
      /\ outflow' = [outflow EXCEPT ![k] = outflow[k] + amount]
      /\ balance' = balance - amount /\ amount <= balance
      /\ UNCHANGED <<now, rules, globalId, edits>>
  BY <1>2 DEF ReleasePaymentSession, TypeInv, Shape
<1>6. usage' \in [RuleIds -> Usage] /\ \A r \in RuleIds : usage'[r].anchor <= now
  <2>1. usage' = [r \in RuleIds |-> IF r \in under THEN Rolled(r, amount) ELSE usage[r]]
    BY DEF ReleasePaymentSession
  <2> HIDE DEF under
  <2>2. QED
    BY <2>1, <1>1, RolledUsage DEF TypeInv, Shape
<1>7. tally' \in [RuleIds -> Tally] /\ \A r \in RuleIds : tally'[r].last <= now
  <2>1. tally' = [r \in RuleIds |->
           IF r \notin under THEN tally[r]
           ELSE [sum |-> tally[r].sum + amount, last |-> now,
                 first |-> IF tally[r].sum = 0 THEN now ELSE tally[r].first]]
    BY DEF ReleasePaymentSession
  <2> HIDE DEF under
  <2>2. QED
    BY <2>1, <1>1 DEF TypeInv, TypeOK, Shape, Tally
<1> HIDE DEF s
<1>8. sessions' \in [Keys -> Session] /\ outflow' \in [Keys -> Nat]
  BY <1>1, <1>3, <1>5 DEF TypeInv, Shape
<1>9. Shape'
  BY <1>5, <1>6, <1>7, <1>8 DEF TypeInv, Shape
<1>10. \A j \in Keys : Live(j)' => Bounded(sessions'[j], outflow'[j])
  <2>1. TAKE j \in Keys
  <2>2. CASE j = k
    BY <1>4, <1>5, <2>2 DEF TypeInv, Shape
  <2>3. CASE j # k
    BY <1>5, <2>3 DEF TypeInv, TypeOK, Shape, Live, Bounded
  <2>4. QED
    BY <2>2, <2>3
<1>11. balance' \in 0..Funds
  BY <1>1, <1>5 DEF TypeInv, TypeOK
<1>12. TypeOK'
  BY <1>5, <1>10, <1>11 DEF TypeInv, TypeOK, Bounded, Live, Written, Clause
<1>13. QED
  BY <1>9, <1>12 DEF TypeInv

LEMMA TickType ==
    ASSUME TypeInv, Tick
    PROVE  TypeInv'
<1> USE SessionAssumption
<1>1. now' \in 0..MaxTime /\ now' >= now /\ now \in Nat
  BY DEF Tick, TypeInv, TypeOK
<1>2. UNCHANGED <<balance, ruleVars, sessions, edits, outflow>>
  BY DEF Tick
<1>3. Shape'
  BY <1>1, <1>2 DEF TypeInv, Shape, ruleVars, Usage, Tally
<1>4. TypeOK'
  BY <1>1, <1>2 DEF TypeInv, TypeOK, ruleVars, Live, Written, Clause
<1>5. QED
  BY <1>3, <1>4 DEF TypeInv

LEMMA NextType == TypeInv /\ [Next]_vars => TypeInv'
<1> SUFFICES ASSUME TypeInv, [Next]_vars PROVE TypeInv'
  OBVIOUS
<1>1. CASE UNCHANGED vars
  BY <1>1 DEF TypeInv, TypeOK, Shape, vars, ruleVars, Live, Written, Clause
<1>2. CASE OwnerStep
  BY <1>2, RegisterType, PauseType, UpdateType, RevokeType, RuleType DEF OwnerStep
<1>3. CASE \E k \in Keys, payee \in Payees, amount \in Amounts, choice \in Choices :
              ReleasePaymentSession(k, payee, amount, choice)
  BY <1>3, ReleaseType
<1>4. CASE Tick
  BY <1>4, TickType
<1>5. QED
  BY <1>1, <1>2, <1>3, <1>4 DEF Next

\* Spec => []TypeOK.  The entries keep their types, and through every edit and
\* payment a key keeps a cap above what it has paid, or a rule (lib.rs
\* 1176-1340).
THEOREM TypeCorrect == Spec => []TypeOK
<1>1. Init => TypeInv
  BY InitType
<1>2. TypeInv /\ [Next]_vars => TypeInv'
  BY NextType
<1>3. TypeInv => TypeOK
  BY DEF TypeInv
<1>4. QED
  BY <1>1, <1>2, <1>3, PTL DEF Spec

LEMMA TypeInvariant == Spec => []TypeInv
<1>1. Init => TypeInv
  BY InitType
<1>2. TypeInv /\ [Next]_vars => TypeInv'
  BY NextType
<1>3. QED
  BY <1>1, <1>2, PTL DEF Spec

-----------------------------------------------------------------------------
\* The global rule.

\* Only a payment lowers the balance.
LEMMA OnlyPaymentsPay ==
    ASSUME TypeInv, [Next]_vars, balance' < balance
    PROVE  \E k \in Keys, payee \in Payees, amount \in Amounts, choice \in Choices :
              ReleasePaymentSession(k, payee, amount, choice)
<1> USE SessionAssumption
<1>1. balance' # balance
  BY DEF TypeInv, TypeOK
<1>2. ~UNCHANGED vars
  BY <1>1 DEF vars
<1>3. ~OwnerStep
  BY <1>1 DEF OwnerStep, RegisterSession, SetSessionPaused, UpdateSession, RevokeSession,
              SetPublicRule, ClearPublicRule, SetGlobalPublic, ClearGlobalPublic
<1>4. ~Tick
  BY <1>1 DEF Tick
<1>5. QED
  BY <1>2, <1>3, <1>4 DEF Next

\* Whatever rule a payment names, the account's global rule counts it and bounds
\* it (lib.rs 1412-1428).
THEOREM GlobalAlwaysBinds == Spec => GlobalBinds
<1> USE SessionAssumption
<1>1. ASSUME TypeInv, [Next]_vars, balance' < balance, globalId # None
      PROVE  /\ usage'[globalId].count = usage[globalId].count + 1
             /\ Clause(globalId).max > 0 => balance - balance' <= Clause(globalId).max
  <2>1. PICK k \in Keys, payee \in Payees, amount \in Amounts, choice \in Choices :
          ReleasePaymentSession(k, payee, amount, choice)
    BY <1>1, OnlyPaymentsPay
  <2>2. Live(k) /\ globalId \in RuleIds
    BY <1>1, <2>1 DEF ReleasePaymentSession, TypeInv, Shape
  <2>3. globalId \in Consulted(k, choice)
    BY <1>1, <2>2, ConsultedRules
  <2>4. Permits(globalId, payee, amount)
    BY <2>1, <2>3 DEF ReleasePaymentSession
  <2>5. usage'[globalId] = Rolled(globalId, amount)
    BY <2>1, <2>2, <2>3 DEF ReleasePaymentSession
  <2>6. usage'[globalId].count = usage[globalId].count + 1
    BY <1>1, <2>2, <2>5, RolledUsage
  <2>7. balance' = balance - amount /\ amount \in Nat /\ balance \in Nat
    BY <1>1, <2>1 DEF ReleasePaymentSession, TypeInv, TypeOK
  <2>8. balance - balance' = amount
    BY <2>7
  <2>9. QED
    BY <2>4, <2>6, <2>8 DEF Permits
<1>2. TypeInv /\ [Next]_vars =>
        [balance' < balance /\ globalId # None =>
           /\ usage'[globalId].count = usage[globalId].count + 1
           /\ Clause(globalId).max > 0 => balance - balance' <= Clause(globalId).max]_vars
  BY <1>1
<1>3. QED
  BY <1>2, TypeInvariant, PTL DEF Spec, GlobalBinds

-----------------------------------------------------------------------------
\* The rolling cap.  What a rule let through since it was written is what is in
\* its window now, and at most a cap for each of the n windows that were closed
\* before; the n-th was closed no earlier than n - 1 windows after the first
\* payment.  The first of them may have been open when the rule was written.

Budgeted(r, n) ==
    /\ tally[r].sum <= usage[r].spent + Clause(r).cap * n
    /\ n > 0 => tally[r].first + (n - 1) * Window <= usage[r].anchor

Counting(r) == Written(r) /\ Clause(r).cap > 0 /\ tally[r].sum > 0

BudgetInv ==
    \A r \in RuleIds : Counting(r) =>
        /\ usage[r].count > 0
        /\ usage[r].spent <= Clause(r).cap
        /\ usage[r].anchor <= tally[r].last
        /\ tally[r].first <= tally[r].last
        /\ \E n \in Nat : Budgeted(r, n)

LEMMA ClauseType ==
    ASSUME TypeInv, NEW r \in RuleIds, Written(r)
    PROVE  Clause(r).cap \in Nat
  BY SessionAssumption DEF TypeInv, TypeOK

LEMMA MoreOfIt ==
    ASSUME NEW a \in Nat, NEW m \in Nat, NEW n \in Nat, m <= n
    PROVE  a * m <= a * n /\ a * (m + 1) = a * m + a
  BY SMTT(30)

\* A payment under a rule with a rolling cap.
LEMMA PaymentBudget ==
    ASSUME TypeInv, BudgetInv, NEW r \in RuleIds, NEW payee \in Payees,
           NEW amount \in Nat \ {0}, Permits(r, payee, amount), Clause(r).cap > 0,
           UNCHANGED <<rules, now>>,
           usage'[r] = Rolled(r, amount),
           tally'[r] = [sum |-> tally[r].sum + amount, last |-> now,
                        first |-> IF tally[r].sum = 0 THEN now ELSE tally[r].first]
    PROVE  /\ usage'[r].count > 0
           /\ usage'[r].spent <= Clause(r)'.cap
           /\ usage'[r].anchor <= tally'[r].last
           /\ tally'[r].first <= tally'[r].last
           /\ \E n \in Nat : Budgeted(r, n)'
<1> USE SessionAssumption
<1> DEFINE u == usage[r]
           t == tally[r]
           cap == Clause(r).cap
           w == OpenWindow(r, amount)
<1>1. u \in Usage /\ t \in Tally /\ now \in Nat /\ u.anchor <= now /\ Written(r)
  BY DEF TypeInv, TypeOK, Shape, Permits
<1>2. cap \in Nat /\ cap > 0 /\ Clause(r)' = Clause(r)
  BY <1>1, ClauseType DEF Clause
<1>3. usage'[r] = [anchor |-> w.anchor, spent |-> w.spent, count |-> u.count + 1]
  BY <1>2 DEF Rolled
<1>4. w.spent <= cap
  BY <1>2 DEF Permits
<1>5. w.anchor <= now /\ w.anchor \in Nat /\ w.spent \in Nat /\ amount <= w.spent
  BY <1>1 DEF OpenWindow, Usage
<1>6. CASE t.sum = 0
  <2>1. tally'[r] = [sum |-> amount, last |-> now, first |-> now]
    BY <1>1, <1>6 DEF Tally
  <2>2. Budgeted(r, 0)'
    BY <1>2, <1>3, <1>5, <2>1 DEF Budgeted
  <2>3. QED
    BY <1>1, <1>2, <1>3, <1>4, <1>5, <2>1, <2>2 DEF Usage
<1>7. CASE t.sum # 0
  <2>1. tally'[r] = [sum |-> t.sum + amount, last |-> now, first |-> t.first]
    BY <1>7
  <2>2. Counting(r)
    BY <1>1, <1>2, <1>7 DEF Counting, Tally
  <2>3. u.count > 0 /\ u.spent <= cap /\ t.first <= t.last
    BY <2>2 DEF BudgetInv
  <2>4. PICK n \in Nat : Budgeted(r, n)
    BY <2>2 DEF BudgetInv
  <2>5. t.first \in Nat /\ t.sum \in Nat /\ t.last \in Nat /\ t.last <= now
    BY <1>1 DEF TypeInv, Shape, Tally
  <2>6. cap * n \in Nat /\ cap * (n + 1) = cap * n + cap
    BY <1>2, MoreOfIt, SMTT(30)
  <2>7. t.sum <= u.spent + cap * n
    BY <2>4 DEF Budgeted
  <2>8. CASE now >= u.anchor + Window
    <3>1. w.anchor = now /\ w.spent = amount
      BY <1>1, <2>3, <2>8 DEF OpenWindow, Usage
    <3>2. t.sum + amount <= amount + cap * (n + 1)
      BY <1>1, <1>2, <2>3, <2>5, <2>6, <2>7 DEF Usage
    <3>3. t.first + n * Window <= now
      <4>1. CASE n = 0
        BY <1>1, <4>1, <2>3, <2>5, SMTT(30)
      <4>2. CASE n > 0
        <5>1. t.first + (n - 1) * Window <= u.anchor
          BY <2>4, <4>2 DEF Budgeted
        <5>2. n * Window = (n - 1) * Window + Window /\ (n - 1) * Window \in Nat
          BY <4>2, SMTT(30)
        <5>3. QED
          BY <1>1, <2>5, <2>8, <5>1, <5>2 DEF Usage
      <4>3. QED
        BY <4>1, <4>2
    <3>4. Budgeted(r, n + 1)'
      BY <1>2, <1>3, <2>1, <3>1, <3>2, <3>3 DEF Budgeted
    <3>5. n + 1 \in Nat
      OBVIOUS
    <3>6. QED
      BY <1>1, <1>2, <1>3, <1>4, <2>1, <2>3, <2>5, <3>1, <3>4, <3>5 DEF Usage
  <2>9. CASE ~(now >= u.anchor + Window)
    <3>1. w.anchor = u.anchor /\ w.spent = u.spent + amount
      BY <1>1, <2>3, <2>9 DEF OpenWindow, Usage
    <3>2. t.sum + amount <= u.spent + amount + cap * n
      BY <1>1, <2>5, <2>6, <2>7 DEF Usage
    <3>3. Budgeted(r, n)'
      BY <1>2, <1>3, <2>1, <2>4, <3>1, <3>2 DEF Budgeted
    <3>4. QED
      BY <1>1, <1>2, <1>3, <1>4, <1>5, <2>1, <2>3, <2>5, <3>3 DEF Usage
  <2>10. QED
    BY <2>8, <2>9
<1>8. QED
  BY <1>6, <1>7

LEMMA BudgetStep ==
    ASSUME TypeInv, BudgetInv, [Next]_vars
    PROVE  BudgetInv'
<1> USE SessionAssumption
<1> DEFINE Good(r) ==
        /\ usage[r].count > 0
        /\ usage[r].spent <= Clause(r).cap
        /\ usage[r].anchor <= tally[r].last
        /\ tally[r].first <= tally[r].last
        /\ \E n \in Nat : Budgeted(r, n)
<1>1. SUFFICES ASSUME NEW r \in RuleIds, Counting(r)'
               PROVE  Good(r)'
  BY DEF BudgetInv
<1>2. CASE rules'[r] = rules[r] /\ usage'[r] = usage[r] /\ tally'[r] = tally[r]
  <2>1. Counting(r) /\ Clause(r)' = Clause(r)
    BY <1>1, <1>2 DEF Counting, Written, Clause
  <2>2. Good(r)
    BY <2>1 DEF BudgetInv
  <2>3. QED
    BY <1>2, <2>1, <2>2 DEF Budgeted
<1>3. CASE OwnerStep
  <2>1. CASE tally'[r] = NoTally
    BY <1>1, <2>1 DEF Counting, NoTally
  <2>2. CASE tally'[r] # NoTally
    <3>1. rules'[r] = rules[r] /\ usage'[r] = usage[r] /\ tally'[r] = tally[r]
      BY <1>3, <2>2 DEF OwnerStep, RegisterSession, SetSessionPaused, UpdateSession,
                        RevokeSession, SetPublicRule, ClearPublicRule, SetGlobalPublic,
                        ClearGlobalPublic, ruleVars, TypeInv, Shape
    <3>2. QED
      BY <1>2, <3>1
  <2>3. QED
    BY <2>1, <2>2
<1>4. ASSUME NEW k \in Keys, NEW payee \in Payees, NEW amount \in Amounts,
             NEW choice \in Choices, ReleasePaymentSession(k, payee, amount, choice)
      PROVE  Good(r)'
  <2> DEFINE under == Consulted(k, choice)
  <2>1. /\ \A i \in under : Permits(i, payee, amount)
        /\ usage' = [i \in RuleIds |-> IF i \in under THEN Rolled(i, amount) ELSE usage[i]]
        /\ tally' = [i \in RuleIds |->
             IF i \notin under THEN tally[i]
             ELSE [sum |-> tally[i].sum + amount, last |-> now,
                   first |-> IF tally[i].sum = 0 THEN now ELSE tally[i].first]]
        /\ UNCHANGED <<rules, now>>
    BY <1>4 DEF ReleasePaymentSession
  <2> HIDE DEF under
  <2>2. CASE r \notin under
    BY <1>2, <2>1, <2>2
  <2>3. CASE r \in under
    <3>1. Permits(r, payee, amount) /\ Clause(r).cap > 0
      BY <1>1, <2>1, <2>3 DEF Counting, Clause
    <3>2. /\ usage'[r] = Rolled(r, amount)
          /\ tally'[r] = [sum |-> tally[r].sum + amount, last |-> now,
                          first |-> IF tally[r].sum = 0 THEN now ELSE tally[r].first]
          /\ UNCHANGED <<rules, now>>
      BY <2>1, <2>3
    <3>3. QED
      BY <3>1, <3>2, PaymentBudget
  <2>4. QED
    BY <2>2, <2>3
<1>5. CASE Tick
  BY <1>2, <1>5 DEF Tick, ruleVars
<1>6. CASE UNCHANGED vars
  BY <1>2, <1>6 DEF vars, ruleVars
<1>7. QED
  BY <1>3, <1>4, <1>5, <1>6 DEF Next

\* n caps for closed windows are one per window since the first payment, and
\* one more for the window that was open then.
LEMMA BudgetedIsBounded ==
    ASSUME TypeInv, BudgetInv
    PROVE  RuleBudget
<1> USE SessionAssumption
<1> SUFFICES ASSUME NEW r \in RuleIds, Counting(r)
             PROVE  tally[r].sum <=
                      Clause(r).cap * (2 + (tally[r].last - tally[r].first) \div Window)
  BY DEF RuleBudget, Counting
<1> DEFINE t == tally[r]
           cap == Clause(r).cap
           d == t.last - t.first
           q == d \div Window
<1>1. cap \in Nat /\ t \in Tally /\ usage[r] \in Usage /\ Window \in Nat \ {0}
  BY ClauseType DEF Counting, TypeInv, Shape
<1>2. /\ usage[r].spent <= cap
      /\ usage[r].anchor <= t.last
      /\ t.first <= t.last
  BY DEF BudgetInv
<1>3. PICK n \in Nat : Budgeted(r, n)
  BY DEF BudgetInv
<1>4. d \in Nat
  BY <1>1, <1>2 DEF Tally
<1>5. q \in Nat /\ d < (q + 1) * Window
  BY <1>1, <1>4, SMTT(30)
<1>6. n <= q + 1
  <2>1. CASE n = 0
    BY <1>5, <2>1
  <2>2. CASE n > 0
    <3>1. n - 1 \in Nat /\ (n - 1) * Window <= d
      BY <1>1, <1>2, <1>3, <2>2, SMTT(30) DEF Budgeted, Tally, Usage
    <3>2. (n - 1) * Window < (q + 1) * Window
      BY <1>1, <1>4, <1>5, <3>1, SMTT(30)
    <3>3. n - 1 < q + 1
      <4>1. SUFFICES ASSUME q + 1 <= n - 1 PROVE FALSE
        BY <1>5, <3>1
      <4>2. Window * (q + 1) <= Window * (n - 1)
        BY <1>1, <1>5, <3>1, <4>1, MoreOfIt
      <4>3. QED
        BY <1>1, <1>5, <3>1, <3>2, <4>2, SMTT(30)
    <3>4. QED
      BY <1>5, <3>3
  <2>3. QED
    BY <2>1, <2>2
<1>7. cap * n <= cap * (q + 1) /\ cap * (q + 1 + 1) = cap * (q + 1) + cap
  BY <1>1, <1>5, <1>6, MoreOfIt
<1>8. t.sum <= cap + cap * n /\ cap * n \in Nat /\ cap * (q + 1) \in Nat
  <2>1. cap * n \in Nat /\ cap * (q + 1) \in Nat
    BY <1>1, <1>3, <1>5
  <2>2. t.sum <= usage[r].spent + cap * n
    BY <1>3 DEF Budgeted
  <2>3. usage[r].spent \in Nat /\ t.sum \in Nat
    BY <1>1 DEF Usage, Tally
  <2>4. QED
    BY <1>1, <1>2, <2>1, <2>2, <2>3
<1>9. t.sum <= cap * (q + 1 + 1)
  BY <1>1, <1>7, <1>8 DEF Tally
<1>10. q + 1 + 1 = 2 + q
  BY <1>5
<1>11. QED
  BY <1>9, <1>10

\* A rule's rolling cap holds over everything paid under it, whichever keys pay
\* and whatever is edited in between (lib.rs 1573-1607).
THEOREM BudgetAlwaysKept == Spec => []RuleBudget
<1>1. Init => BudgetInv
  BY DEF Init, BudgetInv, Counting, Written, NoRule
<1>2. TypeInv /\ BudgetInv /\ [Next]_vars => BudgetInv'
  BY BudgetStep
<1>3. TypeInv /\ BudgetInv => RuleBudget
  BY BudgetedIsBounded
<1>4. QED
  BY <1>1, <1>2, <1>3, TypeInvariant, PTL DEF Spec
=============================================================================
