---------------------------- MODULE FeeResolver ----------------------------
(***************************************************************************)
(* resolvers/FeeResolver.sol: attesters deposit HBAR, every attestation    *)
(* under a schema that names this resolver costs them the fee.             *)
(***************************************************************************)
EXTENDS Chain

CONSTANTS Fee,          \* the fees the owner may set
          Amount,       \* the amounts deposited or withdrawn
          MaxBalance    \* bound: the largest balance explored, of an account or of the contract

ASSUME FeeAssumption == Fee \subseteq Nat /\ Amount \subseteq Nat /\ MaxBalance \in Nat

VARIABLES fee, balances,
          vault         \* the HBAR the contract holds: address(this).balance

feeVars == <<fee, balances, vault>>

FeeInit == fee \in Fee /\ balances = [a \in Account |-> 0] /\ vault = 0

SetFee(caller, newFee) ==
    caller = Deployer /\ fee' = newFee /\ UNCHANGED <<balances, vault>>

\* deposit, and receive
Deposit(caller, value) ==
    /\ balances[caller] + value <= MaxBalance /\ vault + value <= MaxBalance
    /\ balances' = [balances EXCEPT ![caller] = @ + value]
    /\ vault' = vault + value
    /\ UNCHANGED fee

\* A fault for the runs to find: a second call in one transaction is not covered.
FeeAllows_Once(attester, calls) == balances[attester] >= fee

\* onAttest, called that many times in one transaction, each time deducting the
\* fee, reverts in none of them.
FeeAllows(attester, calls) == balances[attester] >= calls * fee

Charge(attester, calls) ==
    /\ balances' = [balances EXCEPT ![attester] = @ - calls * fee]
    /\ UNCHANGED <<fee, vault>>

\* The whole balance of the contract goes, deposits included.
Withdraw(caller) ==
    caller = Deployer /\ vault # 0 /\ vault' = 0 /\ UNCHANGED <<fee, balances>>

WithdrawAmount(caller, amount) ==
    /\ caller = Deployer
    /\ amount <= vault
    /\ vault' = vault - amount
    /\ UNCHANGED <<fee, balances>>

FeeNext ==
    \E caller \in Account :
        \/ \E newFee \in Fee : SetFee(caller, newFee)
        \/ \E value \in Amount : Deposit(caller, value) \/ WithdrawAmount(caller, value)
        \/ Withdraw(caller)
=============================================================================
