------------------------------ MODULE FeePolicy ------------------------------
(***************************************************************************)
(* The protocol's fee on creator revenue: the fee wallets of the creators   *)
(* (contracts/GatewayFeeWallet.sol), the factory that deploys them          *)
(* (GatewayFeeWalletFactory.sol) and the timelock that holds their          *)
(* feeSetter role (Timelock.sol; wired by script/DeployTimelockedFactory).  *)
(*                                                                          *)
(* The only calls the timelock has power for are setFeeBps on fee wallets,  *)
(* so an operation is a creator and a fee.  A wallet's address is known     *)
(* before it is deployed and may receive money; a call to it then succeeds  *)
(* and does nothing.  Transactions are atomic and revert as a whole.        *)
(***************************************************************************)
EXTENDS Integers

CONSTANTS
    Creators,
    FeeChoices,            \* fees governance may schedule, in basis points
    MaxFeeBps, InitialFeeBps,
    Delay, GracePeriod,
    Receipts,              \* sizes of payments to a wallet
    MaxTime, MaxReceived   \* bounds: the clock, the money a wallet receives

ASSUME FeeAssumption ==
    /\ FeeChoices \subseteq Nat /\ Receipts \subseteq Nat \ {0}
    /\ MaxFeeBps \in 1..5000 /\ InitialFeeBps \in 0..MaxFeeBps
    /\ Delay \in Nat \ {0} /\ GracePeriod \in Nat
    /\ MaxTime \in Nat /\ MaxReceived \in Nat

VARIABLES
    now,
    readyAt, cancelled,    \* the timelock's operations; 0: not scheduled
    deployed, feeBps,      \* the fee wallets
    held,                  \* USDC on each wallet's address
    earned, taken,         \* paid out to the creator, to the treasury
    announcedAt            \* when an operation was last scheduled (history)

feeVars == <<now, readyAt, cancelled, deployed, feeBps, held, earned, taken, announcedAt>>
timelockVars == <<readyAt, cancelled, announcedAt>>
walletVars == <<deployed, feeBps, held, earned, taken>>

Operations == Creators \X FeeChoices

FeeInit ==
    /\ now = 1
    /\ readyAt = [o \in Operations |-> 0] /\ announcedAt = [o \in Operations |-> 0]
    /\ cancelled = [o \in Operations |-> FALSE]
    /\ deployed = [c \in Creators |-> FALSE]
    /\ feeBps = [c \in Creators |-> InitialFeeBps]
    /\ held = [c \in Creators |-> 0]
    /\ earned = [c \in Creators |-> 0] /\ taken = [c \in Creators |-> 0]

-----------------------------------------------------------------------------
Tick == now < MaxTime /\ now' = now + 1 /\ UNCHANGED <<timelockVars, walletVars>>

InGrace(o) == now <= readyAt[o] + GracePeriod

\* Governance schedules an operation that is not live.
Schedule(o) ==
    /\ readyAt[o] = 0 \/ cancelled[o] \/ ~InGrace(o)
    /\ readyAt' = [readyAt EXCEPT ![o] = now + Delay]
    /\ cancelled' = [cancelled EXCEPT ![o] = FALSE]
    /\ announcedAt' = [announcedAt EXCEPT ![o] = now]
    /\ UNCHANGED <<now, walletVars>>

\* Mutant of Executable: the grace period is not looked at.
ExecutableLate(o) == readyAt[o] # 0 /\ ~cancelled[o] /\ now >= readyAt[o]

Executable(o) ==
    /\ readyAt[o] # 0 /\ ~cancelled[o]
    /\ now >= readyAt[o] /\ InGrace(o)

\* setFeeBps called by the feeSetter.
SetFee(c, fee) ==
    /\ deployed[c] /\ fee <= MaxFeeBps
    /\ feeBps' = [feeBps EXCEPT ![c] = fee]

\* Anyone executes a ready operation; without code at the target nothing happens.
Execute(o) ==
    /\ Executable(o)
    /\ readyAt' = [readyAt EXCEPT ![o] = 0]
    /\ \/ SetFee(o[1], o[2])
       \/ ~deployed[o[1]] /\ UNCHANGED feeBps
    /\ UNCHANGED <<now, cancelled, announcedAt, deployed, held, earned, taken>>

Cancel(o) ==
    /\ readyAt[o] # 0 /\ ~cancelled[o]
    /\ cancelled' = [cancelled EXCEPT ![o] = TRUE]
    /\ UNCHANGED <<now, readyAt, announcedAt, walletVars>>

\* Anyone deploys a creator's wallet, once.
Deploy(c) ==
    /\ ~deployed[c]
    /\ deployed' = [deployed EXCEPT ![c] = TRUE]
    /\ UNCHANGED <<now, timelockVars, feeBps, held, earned, taken>>

Receive(c) ==
    /\ \E n \in Receipts :
         /\ held[c] + earned[c] + taken[c] + n <= MaxReceived
         /\ held' = [held EXCEPT ![c] = @ + n]
    /\ UNCHANGED <<now, timelockVars, deployed, feeBps, earned, taken>>

TreasuryShare(c) == (held[c] * feeBps[c]) \div 10000

\* Anyone has the balance split between the creator and the treasury.
Distribute(c) ==
    /\ deployed[c]
    /\ taken' = [taken EXCEPT ![c] = @ + TreasuryShare(c)]
    /\ earned' = [earned EXCEPT ![c] = @ + held[c] - TreasuryShare(c)]
    /\ held' = [held EXCEPT ![c] = 0]
    /\ UNCHANGED <<now, timelockVars, deployed, feeBps>>

FeeNext ==
    \/ Tick
    \/ \E o \in Operations : Schedule(o) \/ Execute(o) \/ Cancel(o)
    \/ \E c \in Creators : Deploy(c) \/ Receive(c) \/ Distribute(c)

FeeSpec == FeeInit /\ [][FeeNext]_feeVars

-----------------------------------------------------------------------------
(* Properties *)

FeeTypeOK ==
    /\ now \in Nat
    /\ readyAt \in [Operations -> Nat] /\ announcedAt \in [Operations -> Nat]
    /\ cancelled \in [Operations -> BOOLEAN] /\ deployed \in [Creators -> BOOLEAN]
    /\ feeBps \in [Creators -> 0..MaxFeeBps] /\ held \in [Creators -> Nat]
    /\ earned \in [Creators -> Nat] /\ taken \in [Creators -> Nat]

\* Whatever governance schedules and whenever balances are split, the treasury
\* never has more than the cap's share of what went through a wallet.
TreasuryWithinCap ==
    \A c \in Creators : 10000 * taken[c] <= MaxFeeBps * (earned[c] + taken[c])

\* A fee moves only to a value that was announced a full delay before, has not been
\* cancelled since, and is not older than the grace period allows.
FeeMoveNoticed ==
    [][\A c \in Creators : feeBps'[c] # feeBps[c] =>
         /\ <<c, feeBps'[c]>> \in Operations
         /\ ~cancelled[<<c, feeBps'[c]>>]
         /\ announcedAt[<<c, feeBps'[c]>>] # 0
         /\ now - announcedAt[<<c, feeBps'[c]>>] \in Delay..(Delay + GracePeriod)]_feeVars
=============================================================================
