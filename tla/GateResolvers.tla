--------------------------- MODULE GateResolvers ---------------------------
(***************************************************************************)
(* resolvers/WhitelistResolver.sol and resolvers/TokenGatedResolver.sol:   *)
(* whether an attester may attest, asked of a list or of a token's ledger. *)
(***************************************************************************)
EXTENDS Chain

CONSTANTS Candidate,    \* the accounts the owner may list
          Token,        \* HTS tokens
          Minimum,      \* the minimum balances the owner may set
          MaxHolding    \* bound: the largest token balance explored

ASSUME GateAssumption ==
    Candidate \subseteq Account /\ Minimum \subseteq Nat /\ MaxHolding \in Nat

VARIABLES whitelisted,  \* the set of addresses mapped to true
          tokenAddress, minimumBalance,
          holdings      \* the ledger of the Token Service: who holds how much

gateVars == <<whitelisted, tokenAddress, minimumBalance, holdings>>

GateInit == /\ whitelisted = {}
            /\ tokenAddress \in Token
            /\ minimumBalance \in Minimum
            /\ holdings = [t \in Token |-> [a \in Account |-> 0]]

AddAddress(caller, account) ==
    /\ caller = Deployer
    /\ whitelisted' = whitelisted \cup {account}
    /\ UNCHANGED <<tokenAddress, minimumBalance, holdings>>

RemoveAddress(caller, account) ==
    /\ caller = Deployer
    /\ whitelisted' = whitelisted \ {account}
    /\ UNCHANGED <<tokenAddress, minimumBalance, holdings>>

SetTokenConfig(caller, token, minimum) ==
    /\ caller = Deployer
    /\ tokenAddress' = token
    /\ minimumBalance' = minimum
    /\ UNCHANGED <<whitelisted, holdings>>

\* Tokens change hands without the contracts being told.
TokensMove(token, account, amount) ==
    /\ holdings' = [holdings EXCEPT ![token][account] = amount]
    /\ UNCHANGED <<whitelisted, tokenAddress, minimumBalance>>

WhitelistAllows(attester) == attester \in whitelisted

TokenGateAllows(attester) == holdings[tokenAddress][attester] >= minimumBalance

GateNext ==
    \/ \E caller \in Account, account \in Candidate :
          AddAddress(caller, account) \/ RemoveAddress(caller, account)
    \/ \E caller \in Account, token \in Token, minimum \in Minimum :
          SetTokenConfig(caller, token, minimum)
    \/ \E token \in Token, account \in Account, amount \in 0 .. MaxHolding :
          TokensMove(token, account, amount)
=============================================================================
