----------------------------- MODULE VaultLedger -----------------------------
(***************************************************************************)
(* The part of the AgentVault contract that every spending lane shares:    *)
(* the per-(user, asset) accounts, the token balance the contract holds,   *)
(* the protocol fee and its accrual, the asset whitelist, the emergency    *)
(* pause and the ledger clock.                                             *)
(*                                                                         *)
(* A contract call is atomic: it either returns Ok and all of its writes   *)
(* take effect, or it returns Err (or panics) and none does.  So a handler *)
(* is one action, its error returns are the negations of its guards, and   *)
(* the token transfers inside it are part of the same step.                *)
(***************************************************************************)
EXTENDS Integers

CONSTANTS
    Users,           \* owners of vault accounts
    Assets,          \* token contracts that may be whitelisted
    Recipients,      \* addresses that may be set as fee recipient
    NoAddress,       \* Option::None of an address
    Amounts,         \* the i128 amounts callers pass (all positive)
    FeeRates,        \* the basis points an admin tries to set
    MaxFeeBps,       \* MAX_FEE_BPS (1000 in the code)
    FeeDenominator,  \* 10_000 in the code
    MaxDeposit,      \* bound: total deposits per (user, asset)
    MaxTime          \* bound: last ledger timestamp explored

ASSUME LedgerAssumption ==
    /\ Amounts \subseteq Nat \ {0}
    /\ FeeRates \subseteq Nat
    /\ FeeDenominator \in Nat \ {0}
    /\ MaxFeeBps \in 0..FeeDenominator
    /\ MaxDeposit \in Nat
    /\ MaxTime \in Nat
    /\ NoAddress \notin Users \cup Recipients

VARIABLES
    paused,      \* DataKey::Paused
    supported,   \* DataKey::AssetSupported, the set of whitelisted assets
    fee,         \* DataKey::FeeConfig
    accruedFees, \* DataKey::AccruedFees, per asset
    account,     \* DataKey::UserAsset, per user and asset
    held,        \* the contract's own balance in each token contract
    now          \* env.ledger().timestamp()

ledgerVars == <<paused, supported, fee, accruedFees, account, held, now>>

\* UserAssetAccount.  An account that was never written reads as all zeros.
Account == [balance : Int, locked : Int, totalDeposited : Nat, totalSpent : Int]

NewAccount == [balance |-> 0, locked |-> 0, totalDeposited |-> 0, totalSpent |-> 0]

FeeConfig == [bps : 0..MaxFeeBps, recipient : Recipients \cup {NoAddress}]

LedgerInit ==
    /\ paused = FALSE
    /\ supported = Assets
    /\ fee = [bps |-> 0, recipient |-> NoAddress]
    /\ accruedFees = [a \in Assets |-> 0]
    /\ account = [u \in Users |-> [a \in Assets |-> NewAccount]]
    /\ held = [a \in Assets |-> 0]
    /\ now = 0

-----------------------------------------------------------------------------
\* What the handlers of every lane compute.

\* The unlocked part of an account, the only part that may leave the vault
\* directly or be reserved for a new task.
Available(u, a) == account[u][a].balance - account[u][a].locked

\* A UserAsset entry after a deposit or a withdrawal.
Deposited(acc, amount) ==
    [acc EXCEPT !.balance = @ + amount, !.totalDeposited = @ + amount]

Withdrawn(acc, amount) == [acc EXCEPT !.balance = @ - amount]

\* Writing one UserAsset entry back.
SetAccount(u, a, acc) == account' = [account EXCEPT ![u][a] = acc]

\* compute_fee: floor(amount * bps / 10_000), nothing without a recipient.
ComputeFee(amount) ==
    IF fee.recipient = NoAddress
    THEN 0
    ELSE (amount * fee.bps) \div FeeDenominator

\* Variant: the payee gets the whole amount although the fee is accrued too.
PayOutInFull(a, amount) ==
    /\ held' = [held EXCEPT ![a] = @ - amount]
    /\ accruedFees' = [accruedFees EXCEPT ![a] = @ + ComputeFee(amount)]

\* A payment of amount out of the vault: the fee stays behind as accrued,
\* the remainder is transferred to the payee.
PayOut(a, amount) ==
    /\ held' = [held EXCEPT ![a] = @ - (amount - ComputeFee(amount))]
    /\ accruedFees' = [accruedFees EXCEPT ![a] = @ + ComputeFee(amount)]

-----------------------------------------------------------------------------
\* Deposits and withdrawals.  Withdrawal is deliberately not gated by pause.

Deposit(u, a, amount) ==
    /\ ~paused
    /\ a \in supported
    /\ account[u][a].totalDeposited + amount <= MaxDeposit
    /\ SetAccount(u, a, Deposited(account[u][a], amount))
    /\ held' = [held EXCEPT ![a] = @ + amount]
    /\ UNCHANGED <<paused, supported, fee, accruedFees, now>>

Withdraw(u, a, amount) ==
    /\ account[u][a].balance >= amount
    /\ amount <= Available(u, a)
    /\ SetAccount(u, a, Withdrawn(account[u][a], amount))
    /\ held' = [held EXCEPT ![a] = @ - amount]
    /\ UNCHANGED <<paused, supported, fee, accruedFees, now>>

-----------------------------------------------------------------------------
\* Administration.

Pause ==
    /\ paused' = TRUE
    /\ UNCHANGED <<supported, fee, accruedFees, account, held, now>>

Unpause ==
    /\ paused' = FALSE
    /\ UNCHANGED <<supported, fee, accruedFees, account, held, now>>

AddAsset(a) ==
    /\ supported' = supported \cup {a}
    /\ UNCHANGED <<paused, fee, accruedFees, account, held, now>>

RemoveAsset(a) ==
    /\ supported' = supported \ {a}
    /\ UNCHANGED <<paused, fee, accruedFees, account, held, now>>

\* Variant: without the cap.
SetFeeUncapped(bps, recipient) ==
    /\ fee' = [bps |-> bps, recipient |-> recipient]
    /\ UNCHANGED <<paused, supported, accruedFees, account, held, now>>

SetFee(bps, recipient) ==
    /\ bps <= MaxFeeBps
    /\ fee' = [bps |-> bps, recipient |-> recipient]
    /\ UNCHANGED <<paused, supported, accruedFees, account, held, now>>

\* The configured recipient takes everything accrued in one asset.
ClaimFees(a) ==
    /\ ~paused
    /\ fee.recipient # NoAddress
    /\ accruedFees[a] # 0
    /\ accruedFees' = [accruedFees EXCEPT ![a] = 0]
    /\ held' = [held EXCEPT ![a] = @ - accruedFees[a]]
    /\ UNCHANGED <<paused, supported, fee, account, now>>

\* Ledgers close: time passes between calls.
Tick ==
    /\ now < MaxTime
    /\ now' = now + 1
    /\ UNCHANGED <<paused, supported, fee, accruedFees, account, held>>

LedgerNext ==
    \/ \E u \in Users, a \in Assets, amount \in Amounts :
          Deposit(u, a, amount) \/ Withdraw(u, a, amount)
    \/ Pause
    \/ Unpause
    \/ \E a \in Assets : AddAsset(a) \/ RemoveAsset(a) \/ ClaimFees(a)
    \/ \E bps \in FeeRates, r \in Recipients \cup {NoAddress} : SetFee(bps, r)
    \/ Tick

-----------------------------------------------------------------------------
LedgerTypeOK ==
    /\ paused \in BOOLEAN
    /\ supported \in SUBSET Assets
    /\ fee \in FeeConfig
    /\ accruedFees \in [Assets -> Nat]
    /\ account \in [Users -> [Assets -> Account]]
    /\ held \in [Assets -> Int]
    /\ now \in 0..MaxTime
=============================================================================
