------------------------------ MODULE SessionLane -------------------------------
(***************************************************************************)
(* One account's public spending.  The owner registers keys with the       *)
(* vault; a key pays by its own signature, under a cap of its own, the     *)
(* public rule chosen for the payment (else the one it is bound to) and    *)
(* the account's global rule.  Rules are cleartext, and the vault rolls    *)
(* their windows itself: every key that pays under a rule draws on one     *)
(* usage entry.                                                            *)
(*                                                                         *)
(* A key may be the server-held delegate of a Managed Session or one the   *)
(* agent holds.  Of a rule's clauses three are kept: the payees allowed,   *)
(* the maximum per payment and the rolling cap.  The minimum, the deny     *)
(* list and the calendar are guards like the maximum, and the velocity     *)
(* window is rolled like the spend window.  A call's effects are atomic    *)
(* and its arguments depend on nothing its caller has read, so calls in    *)
(* flight are calls made later.                                            *)
(***************************************************************************)
EXTENDS Naturals, FiniteSets

CONSTANTS
    Keys,          \* session keys
    Managed,       \* those the server holds
    RuleIds, Payees,
    Clauses,       \* rules the owner may write: [payees, max, cap], 0 = no bound
    Window,        \* rolling_window_secs of every rule
    Caps,          \* spend caps the owner picks, 0 = none
    Lifetimes,     \* expiresInSeconds the owner picks, 0 = open-ended
    Amounts,
    Funds,
    MaxTime, MaxEdits,   \* bounds: ticks; calls of the owner
    None

ASSUME SessionAssumption ==
    /\ Managed \subseteq Keys
    /\ Clauses \subseteq [payees : SUBSET Payees, max : Nat, cap : Nat]
    /\ {Window, Funds, MaxTime, MaxEdits} \subseteq Nat /\ Window > 0
    /\ Caps \subseteq Nat /\ Lifetimes \subseteq Nat /\ Amounts \subseteq Nat \ {0}
    /\ None \notin RuleIds

VARIABLES
    now,
    balance,    \* the account's unlocked funds
    rules,      \* DataKey::PublicRule
    globalId,   \* DataKey::PublicGlobalId
    usage,      \* DataKey::PublicAccum
    sessions,   \* DataKey::Session
    edits,
    outflow,    \* history: what each registration has paid
    tally       \* history: what each rule as now written has let through

ruleVars == <<rules, globalId, usage, tally>>
vars == <<now, balance, ruleVars, sessions, edits, outflow>>

NoSession == [live |-> FALSE]
NoRule == [written |-> FALSE]
Unused == [anchor |-> 0, spent |-> 0, count |-> 0]
NoTally == [sum |-> 0, first |-> 0, last |-> 0]

Live(k) == sessions[k].live
Written(r) == rules[r].written

-----------------------------------------------------------------------------
\* The owner's wallet.

Edit == edits < MaxEdits /\ edits' = edits + 1
Until(seconds) == IF seconds = 0 THEN 0 ELSE now + seconds

\* What a caller asks to register.  buildEnableSession wants a cap and an
\* expiry; registerSession and buildRegisterAgentKey a cap or a rule.
ManagedRequests(k) ==
    {[key |-> k, cap |-> c, expiry |-> Until(l), rule |-> r, held |-> TRUE] :
        c \in Caps \ {0}, l \in Lifetimes \ {0}, r \in RuleIds \cup {None}}

AgentRequests(k) ==
    {q \in {[key |-> k, cap |-> c, expiry |-> Until(l), rule |-> r, held |-> FALSE] :
              c \in Caps, l \in Lifetimes, r \in RuleIds \cup {None}} :
        q.cap = 0 => q.rule # None}

Requests(k) == IF k \in Managed THEN ManagedRequests(k) ELSE AgentRequests(k)

RegisterSession(q) ==
    /\ q.cap # 0 \/ q.rule # None
    /\ IF q.held THEN q.expiry > now /\ q.cap > 0 ELSE q.expiry = 0 \/ q.expiry > now
    /\ q.rule # None => Written(q.rule)
    /\ ~Live(q.key)
    /\ Edit
    /\ sessions' = [sessions EXCEPT ![q.key] =
           [live |-> TRUE, cap |-> q.cap, expiry |-> q.expiry, rule |-> q.rule,
            held |-> q.held, paused |-> FALSE, spent |-> 0]]
    /\ outflow' = [outflow EXCEPT ![q.key] = 0]
    /\ UNCHANGED <<now, balance, ruleVars>>

SetSessionPaused(k, paused) ==
    /\ Live(k) /\ sessions[k].paused # paused
    /\ Edit
    /\ sessions' = [sessions EXCEPT ![k].paused = paused]
    /\ UNCHANGED <<now, balance, ruleVars, outflow>>

\* Variant: the new cap is not held against what is spent.
UpdateSessionBlindly(k, lifetime, cap) ==
    LET s == sessions[k]
        new == [s EXCEPT !.expiry = IF lifetime = 0 THEN @ ELSE Until(lifetime),
                         !.cap = IF cap = 0 THEN @ ELSE cap]
    IN
    /\ Live(k)
    /\ s.held => new.cap > 0 /\ new.expiry > now
    /\ Edit
    /\ sessions' = [sessions EXCEPT ![k] = new]
    /\ UNCHANGED <<now, balance, ruleVars, outflow>>

\* 0 leaves a bound unchanged.
UpdateSession(k, lifetime, cap) ==
    LET s == sessions[k]
        new == [s EXCEPT !.expiry = IF lifetime = 0 THEN @ ELSE Until(lifetime),
                         !.cap = IF cap = 0 THEN @ ELSE cap]
    IN
    /\ Live(k)
    /\ cap # 0 => cap >= s.spent
    /\ s.held => new.cap > 0 /\ new.expiry > now
    /\ Edit
    /\ sessions' = [sessions EXCEPT ![k] = new]
    /\ UNCHANGED <<now, balance, ruleVars, outflow>>

RevokeSession(k) ==
    /\ Live(k)
    /\ Edit
    /\ sessions' = [sessions EXCEPT ![k] = NoSession]
    /\ outflow' = [outflow EXCEPT ![k] = 0]
    /\ UNCHANGED <<now, balance, ruleVars>>

\* The usage entry outlives the rule it is for.
SetPublicRule(r, clauses) ==
    /\ Edit
    /\ rules' = [rules EXCEPT ![r] = [written |-> TRUE, clauses |-> clauses]]
    /\ tally' = [tally EXCEPT ![r] = NoTally]
    /\ UNCHANGED <<now, balance, globalId, usage, sessions, outflow>>

ClearPublicRule(r) ==
    /\ Written(r)
    /\ Edit
    /\ rules' = [rules EXCEPT ![r] = NoRule]
    /\ globalId' = IF globalId = r THEN None ELSE globalId
    /\ tally' = [tally EXCEPT ![r] = NoTally]
    /\ UNCHANGED <<now, balance, usage, sessions, outflow>>

SetGlobalPublic(r) ==
    /\ Written(r) /\ globalId # r
    /\ Edit
    /\ globalId' = r
    /\ UNCHANGED <<now, balance, rules, usage, sessions, outflow, tally>>

ClearGlobalPublic ==
    /\ globalId # None
    /\ Edit
    /\ globalId' = None
    /\ UNCHANGED <<now, balance, rules, usage, sessions, outflow, tally>>

-----------------------------------------------------------------------------
\* Payments.

Clause(r) == rules[r].clauses

\* A rule without a rolling cap keeps its window as it is.
OpenWindow(r, amount) ==
    LET u == usage[r]
        resets == u.count # 0 /\ now >= u.anchor + Window
    IN [anchor |-> IF u.count = 0 \/ resets THEN now ELSE u.anchor,
        spent |-> (IF resets THEN 0 ELSE u.spent) + amount]

\* check_public_rule: the clauses, and the rolled usage.
Permits(r, payee, amount) ==
    /\ Written(r)
    /\ Clause(r).payees # {} => payee \in Clause(r).payees
    /\ Clause(r).max > 0 => amount <= Clause(r).max
    /\ Clause(r).cap > 0 => OpenWindow(r, amount).spent <= Clause(r).cap

\* Variant: what is paid never counts in the window.
RolledStuck(r, amount) ==
    [anchor |-> usage[r].anchor, spent |-> usage[r].spent, count |-> usage[r].count + 1]

Rolled(r, amount) ==
    LET w == OpenWindow(r, amount) IN
    IF Clause(r).cap > 0
    THEN [anchor |-> w.anchor, spent |-> w.spent, count |-> usage[r].count + 1]
    ELSE [usage[r] EXCEPT !.count = @ + 1]

\* Variant: the rule the key was registered with stands for the one chosen.
ConsultedBound(k, choice) ==
    (IF choice # None THEN {choice} ELSE {sessions[k].rule} \ {None})
    \cup (IF sessions[k].rule = globalId THEN {} ELSE {globalId} \ {None})

\* The rules a payment is checked against and counted under: the one chosen,
\* else the key's own, and the global one.
Consulted(k, choice) ==
    (IF choice # None THEN {choice} ELSE {sessions[k].rule} \ {None})
    \cup ({globalId} \ {None})

\* The rule is chosen per payment: by the request to sessionPay for a managed
\* key, by the agent for one of its own.
Choices == RuleIds \cup {None}

\* release_payment_session.
ReleasePaymentSession(k, payee, amount, choice) ==
    LET s == sessions[k]
        under == Consulted(k, choice)
    IN
    /\ Live(k) /\ ~s.paused
    /\ s.expiry # 0 => now <= s.expiry
    /\ s.cap > 0 => s.spent + amount <= s.cap
    /\ \A r \in under : Permits(r, payee, amount)
    /\ amount <= balance
    /\ usage' = [r \in RuleIds |-> IF r \in under THEN Rolled(r, amount) ELSE usage[r]]
    /\ sessions' = [sessions EXCEPT ![k].spent = @ + amount]
    /\ balance' = balance - amount
    /\ outflow' = [outflow EXCEPT ![k] = @ + amount]
    /\ tally' = [r \in RuleIds |->
           IF r \notin under THEN tally[r]
           ELSE [sum |-> tally[r].sum + amount, last |-> now,
                 first |-> IF tally[r].sum = 0 THEN now ELSE tally[r].first]]
    /\ UNCHANGED <<now, rules, globalId, edits>>

Tick ==
    /\ now < MaxTime
    /\ now' = now + 1
    /\ UNCHANGED <<balance, ruleVars, sessions, edits, outflow>>

Init ==
    /\ now = 0 /\ balance = Funds /\ edits = 0
    /\ rules = [r \in RuleIds |-> NoRule] /\ globalId = None
    /\ usage = [r \in RuleIds |-> Unused]
    /\ sessions = [k \in Keys |-> NoSession]
    /\ outflow = [k \in Keys |-> 0]
    /\ tally = [r \in RuleIds |-> NoTally]

OwnerStep ==
    \/ \E k \in Keys :
        \/ \E q \in Requests(k) : RegisterSession(q)
        \/ \E paused \in BOOLEAN : SetSessionPaused(k, paused)
        \/ \E lifetime \in Lifetimes, cap \in Caps : UpdateSession(k, lifetime, cap)
        \/ RevokeSession(k)
    \/ \E r \in RuleIds :
        \/ \E clauses \in Clauses : SetPublicRule(r, clauses)
        \/ ClearPublicRule(r) \/ SetGlobalPublic(r)
    \/ ClearGlobalPublic

Next ==
    \/ OwnerStep
    \/ \E k \in Keys, payee \in Payees, amount \in Amounts, choice \in Choices :
          ReleasePaymentSession(k, payee, amount, choice)
    \/ Tick

Spec == Init /\ [][Next]_vars

-----------------------------------------------------------------------------
\* The entries have their types, the global rule is one that is written, and
\* no key is ever without a bound: through every edit it keeps a cap above
\* what it has paid since it was registered, or a rule; and one the server
\* holds always has a cap and an expiry.
TypeOK ==
    /\ now \in 0..MaxTime /\ balance \in 0..Funds /\ edits \in 0..MaxEdits
    /\ globalId # None => Written(globalId)
    /\ \A r \in RuleIds : Written(r) => Clause(r) \in Clauses
    /\ \A k \in Keys : LET s == sessions[k] IN Live(k) =>
          /\ s.spent = outflow[k]
          /\ s.cap > 0 => outflow[k] <= s.cap
          /\ s.cap > 0 \/ s.rule # None
          /\ s.held => s.cap > 0 /\ s.expiry > 0

\* All that a rule has let through since it was written fits its rolling cap
\* once per window begun, whichever keys paid under it and whether it was
\* chosen, bound or global.  One window more may be open from before it was
\* written.
RuleBudget ==
    \A r \in RuleIds : LET t == tally[r] IN
        Written(r) /\ Clause(r).cap > 0 /\ t.sum > 0 =>
            t.sum <= Clause(r).cap * (2 + (t.last - t.first) \div Window)

\* Whichever rule a key chooses, a payment made while the account has a global
\* rule keeps that rule's maximum and counts in its usage.
GlobalBinds ==
    [][balance' < balance /\ globalId # None =>
         /\ usage'[globalId].count = usage[globalId].count + 1
         /\ Clause(globalId).max > 0 => balance - balance' <= Clause(globalId).max]_vars

=============================================================================
