-------------------------------- MODULE Indexer --------------------------------
(***************************************************************************)
(* The chain indexer: instances that poll the vault's events page by page, *)
(* store each event once and project it into the balance mirror the API    *)
(* reads, and then save the cursor of the page.  The vault is one account  *)
(* of one user in one asset, whose operations append to the event log.     *)
(***************************************************************************)
EXTENDS Integers, Sequences, FiniteSets

CONSTANTS
    Instances,   \* indexer processes
    Limit,       \* events per page (100 in the code)
    Amounts,     \* amounts of deposits, withdrawals, plans and payments
    MaxEvents,   \* bound: events the vault emits
    MaxFaults,   \* bound: crashes and database errors
    None

ASSUME IndexerAssumption ==
    /\ Limit \in Nat \ {0}
    /\ Amounts \subseteq Nat
    /\ {MaxEvents, MaxFaults} \subseteq Nat
    /\ None \notin Int \cup [plan : Nat, spent : Nat]
    /\ None \notin [balance : Int, locked : Int, deposited : Int, active : Int]

VARIABLES
    account,     \* the vault's account, as the chain holds it
    open,        \* plan cost and spent amount of the open task, or None
    log,         \* the vault's events, in ledger order
    configured,  \* INDEXER_START_LEDGER is set, before the first event
    cursor,      \* indexer_state.cursor: a position of the log, or None
    stored,      \* chain_events: the positions that were inserted
    mirror,      \* vault_accounts: the mirrored row, or None
    run,         \* the indexer processes
    faults

chainVars == <<account, open, log>>
dbVars == <<cursor, stored, mirror>>
vars == <<chainVars, configured, dbVars, run, faults>>

\* The four figures contract and mirror both keep: balance, locked, and the
\* totals deposited and active.
Row == [balance : Int, locked : Int, deposited : Int, active : Int]
Zero == [balance |-> 0, locked |-> 0, deposited |-> 0, active |-> 0]
Plus(r, b, l, d, n) ==
    [balance |-> r.balance + b, locked |-> r.locked + l,
     deposited |-> r.deposited + d, active |-> r.active + n]

Types == {"deposit", "withdraw", "task_new", "task_done", "other"}

\* An event carries what the contract publishes; after and unseen are history:
\* the account after it, and what events of other types did to the account so far.
Event == [type : Types, amount : Int, refund : Int, after : Row, unseen : Row]

\* A process: where it is, the position it polls from, the page it fetched,
\* (from, to], and the next event of it.
Process == [at : {"boot", "poll", "fetch", "persist", "save"},
            start : Nat \cup {None}, from : Nat, to : Nat, next : Nat]
Booting == [at |-> "boot", start |-> None, from |-> 0, to |-> 0, next |-> 0]
Polling(x) == [Booting EXCEPT !.at = "poll", !.start = run[x].start]

Init ==
    /\ account = Zero /\ open = None /\ log = <<>>
    /\ configured \in BOOLEAN
    /\ cursor = None /\ stored = {} /\ mirror = None
    /\ run = [x \in Instances |-> Booting]
    /\ faults = 0

-----------------------------------------------------------------------------
\* The vault.

Unseen == IF log = <<>> THEN Zero ELSE log[Len(log)].unseen

Emit(type, amount, refund, newAccount, newUnseen) ==
    /\ Len(log) < MaxEvents
    /\ account' = newAccount
    /\ log' = Append(log, [type |-> type, amount |-> amount, refund |-> refund,
                           after |-> newAccount, unseen |-> newUnseen])
    /\ UNCHANGED <<configured, dbVars, run, faults>>

Available == account.balance - account.locked

Deposit(a) ==
    /\ Emit("deposit", a, 0, Plus(account, a, 0, a, 0), Unseen)
    /\ open' = open

\* Variant: a withdrawal may take what an open task has locked.
WithdrawUnlocked(a) ==
    /\ Emit("withdraw", a, 0, Plus(account, -a, 0, 0, 0), Unseen)
    /\ open' = open

Withdraw(a) ==
    /\ a <= Available
    /\ Emit("withdraw", a, 0, Plus(account, -a, 0, 0, 0), Unseen)
    /\ open' = open

NewTask(plan) ==
    /\ open = None /\ plan <= Available
    /\ Emit("task_new", plan, 0, Plus(account, 0, plan, 0, 1), Unseen)
    /\ open' = [plan |-> plan, spent |-> 0]

\* A release, also a batch's, pays and publishes its own event, but moves no
\* figure of the account before the task is finalized.
Release(a) ==
    /\ open # None /\ a <= open.plan - open.spent
    /\ Emit("other", a, 0, account, Unseen)
    /\ open' = [open EXCEPT !.spent = @ + a]

FinalizeTask ==
    /\ open # None
    /\ Emit("task_done", open.spent, open.plan - open.spent,
            Plus(account, -open.spent, -open.plan, 0, -1), Unseen)
    /\ open' = None

\* The resolver's split publishes dispute_resolved, not task_done.  The whole plan
\* leaves the account: what was not spent or paid out goes to the user's wallet.
ResolveDispute ==
    /\ open # None
    /\ Emit("other", open.plan, 0, Plus(account, -open.plan, -open.plan, 0, -1),
            Plus(Unseen, -open.plan, -open.plan, 0, -1))
    /\ open' = None

\* A session or keyless release debits the balance at once.
DirectRelease(a) ==
    /\ a <= Available
    /\ Emit("other", a, 0, Plus(account, -a, 0, 0, 0), Plus(Unseen, -a, 0, 0, 0))
    /\ open' = open

-----------------------------------------------------------------------------
\* The indexer.

\* projectVaultEvent: the mirrored row after an event; an event that would take
\* from a row that does not exist creates an empty one instead.
Projected(e) ==
    CASE e.type = "deposit" ->
           Plus(IF mirror = None THEN Zero ELSE mirror, e.amount, 0, e.amount, 0)
      [] e.type = "withdraw" ->
           IF mirror = None THEN Zero ELSE Plus(mirror, -e.amount, 0, 0, 0)
      [] e.type = "task_new" ->
           Plus(IF mirror = None THEN Zero ELSE mirror, 0, e.amount, 0, 1)
      [] e.type = "task_done" ->
           IF mirror = None THEN Zero
           ELSE Plus(mirror, -e.amount, -(e.amount + e.refund), 0, -1)
      [] OTHER -> mirror

\* The process starts.  Without a cursor or a configured start it begins at the
\* latest ledger.
Boot(x) ==
    /\ run[x].at = "boot"
    /\ run' = [run EXCEPT ![x].at = "poll",
         ![x].start = IF configured THEN 0 ELSE IF cursor = None THEN Len(log) ELSE None]
    /\ UNCHANGED <<chainVars, configured, dbVars, faults>>

ReadCursor(x) ==
    /\ run[x].at = "poll"
    /\ run' = [run EXCEPT ![x].at = "fetch",
                          ![x].from = IF cursor = None THEN run[x].start ELSE cursor]
    /\ UNCHANGED <<chainVars, configured, dbVars, faults>>

FetchPage(x) ==
    /\ run[x].at = "fetch"
    /\ LET from == run[x].from
           end == IF Len(log) < from + Limit THEN Len(log) ELSE from + Limit IN
        run' = [run EXCEPT ![x].at = "persist", ![x].to = end, ![x].next = from + 1]
    /\ UNCHANGED <<chainVars, configured, dbVars, faults>>

\* Variant: the projection is not guarded by the insert.
PersistUnguarded(x) ==
    /\ run[x].at = "persist" /\ run[x].next <= run[x].to
    /\ stored' = stored \cup {run[x].next}
    /\ mirror' = Projected(log[run[x].next])
    /\ run' = [run EXCEPT ![x].next = @ + 1]
    /\ UNCHANGED <<chainVars, configured, cursor, faults>>

\* Variant: a duplicate is an error like any other and ends the poll.
PersistRethrows(x) ==
    /\ run[x].at = "persist" /\ run[x].next <= run[x].to
    /\ IF run[x].next \in stored
       THEN /\ run' = [run EXCEPT ![x] = Polling(x)]
            /\ UNCHANGED <<stored, mirror>>
       ELSE /\ run' = [run EXCEPT ![x].next = @ + 1]
            /\ stored' = stored \cup {run[x].next} /\ mirror' = Projected(log[run[x].next])
    /\ UNCHANGED <<chainVars, configured, cursor, faults>>

\* One transaction per event: its row, unique by cursor, and its projection.  A
\* duplicate is passed over.
Persist(x) ==
    /\ run[x].at = "persist" /\ run[x].next <= run[x].to
    /\ run' = [run EXCEPT ![x].next = @ + 1]
    /\ IF run[x].next \in stored
       THEN UNCHANGED <<stored, mirror>>
       ELSE stored' = stored \cup {run[x].next} /\ mirror' = Projected(log[run[x].next])
    /\ UNCHANGED <<chainVars, configured, cursor, faults>>

\* Variant: the cursor is saved without waiting for the page's events.
SaveCursorEarly(x) ==
    /\ run[x].at = "persist"
    /\ cursor' = run[x].to
    /\ run' = [run EXCEPT ![x] = Polling(x)]
    /\ UNCHANGED <<chainVars, configured, stored, mirror, faults>>

\* The page's cursor is saved, whatever the row holds by now; an empty page may
\* come without one.
SaveCursor(x) ==
    /\ run[x].at = "persist" /\ run[x].next > run[x].to
    /\ \/ cursor' = run[x].to
       \/ run[x].to = run[x].from /\ cursor' = cursor
    /\ run' = [run EXCEPT ![x] = Polling(x)]
    /\ UNCHANGED <<chainVars, configured, stored, mirror, faults>>

\* A database or RPC error ends the poll; the next one starts from the cursor.
PollError(x) ==
    /\ run[x].at \in {"fetch", "persist"}
    /\ faults < MaxFaults /\ faults' = faults + 1
    /\ run' = [run EXCEPT ![x] = Polling(x)]
    /\ UNCHANGED <<chainVars, configured, dbVars>>

Crash(x) ==
    /\ run[x].at # "boot"
    /\ faults < MaxFaults /\ faults' = faults + 1
    /\ run' = [run EXCEPT ![x] = Booting]
    /\ UNCHANGED <<chainVars, configured, dbVars>>

-----------------------------------------------------------------------------
VaultStep ==
    \/ \E a \in Amounts : Deposit(a) \/ Withdraw(a) \/ NewTask(a) \/ Release(a)
                          \/ DirectRelease(a)
    \/ FinalizeTask \/ ResolveDispute

IndexerStep(x) == Boot(x) \/ ReadCursor(x) \/ FetchPage(x) \/ Persist(x) \/ SaveCursor(x)

Next ==
    \/ VaultStep
    \/ \E x \in Instances : IndexerStep(x) \/ PollError(x) \/ Crash(x)

Spec == Init /\ [][Next]_vars

\* The poll loop never stops; nobody is obliged to use the vault.
FairSpec == Spec /\ \A x \in Instances : WF_vars(IndexerStep(x))

-----------------------------------------------------------------------------
\* Every row, event and process is well formed, and the vault's own figures are
\* never negative.
TypeOK ==
    /\ account \in Row
    /\ account.balance >= account.locked /\ account.locked >= 0
    /\ open = None \/ open \in [plan : Nat, spent : Nat]
    /\ log \in Seq(Event)
    /\ configured \in BOOLEAN
    /\ cursor \in Nat \cup {None}
    /\ stored \in SUBSET Nat
    /\ mirror = None \/ mirror \in Row
    /\ run \in [Instances -> Process]
    /\ faults \in 0..MaxFaults

\* Events are stored in the order of the chain and without a gap: with a start
\* configured, what is stored is a prefix of the log, and it covers the cursor.
\* Instances that overtake each other may move the cursor back, never past an
\* event nobody stored.
StoredIsPrefix ==
    configured =>
        /\ \A i \in stored : i \in 1..Len(log) /\ \A j \in 1..i : j \in stored
        /\ cursor # None => \A j \in 1..cursor : j \in stored

\* The mirror is the account as of the last stored event, each event counted
\* once, except for what moved without a projected event: direct releases and
\* resolved disputes leave exactly their own amounts behind (indexer.ts:84-107).
MirrorExact ==
    configured =>
        \A i \in stored :
            (i + 1 \notin stored) =>
                LET m == IF mirror = None THEN Zero ELSE mirror
                    a == log[i].after
                    u == log[i].unseen IN
                m = Plus(a, -u.balance, -u.locked, -u.deposited, -u.active)

\* Every event is stored in the end: neither a page limit, a crash, a failed
\* insert nor a cursor that was moved back leaves one behind.
EventsAreStored ==
    configured => \A i \in 1..MaxEvents : (i <= Len(log)) ~> (i \in stored)

=============================================================================
