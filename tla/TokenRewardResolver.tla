------------------------ MODULE TokenRewardResolver ------------------------
(***************************************************************************)
(* resolvers/TokenRewardResolver.sol: the post-hook asks the Token Service *)
(* to transfer a reward to the subject and counts what it was told went    *)
(* through.  The Token Service may refuse any transfer.                    *)
(***************************************************************************)
EXTENDS Chain, Integers

CONSTANTS RewardToken,  \* tokens the owner may reward with
          Reward,       \* the amounts the owner may set, uint256
          Int64Max,     \* 2^63 - 1, scaled down
          InitialPool   \* what the resolver holds of each token at first

ASSUME RewardAssumption ==
    Reward \subseteq Nat /\ Int64Max \in Nat \ {0} /\ InitialPool \in Nat

VARIABLES rewardToken, rewardAmount, rewardsDistributed,
          pool          \* what the Token Service says the resolver holds

rewardVars == <<rewardToken, rewardAmount, rewardsDistributed, pool>>

RewardInit == /\ rewardToken \in RewardToken
              /\ rewardAmount \in Reward
              /\ rewardsDistributed = [s \in Subject |-> 0]
              /\ pool = [t \in RewardToken |-> InitialPool]

SetRewardConfig(caller, token, amount) ==
    /\ caller = Deployer
    /\ rewardToken' = token
    /\ rewardAmount' = amount
    /\ UNCHANGED <<rewardsDistributed, pool>>

\* int64(int256(x)): the low 64 bits, read as a signed number
Int64(x) == LET width == 2 * (Int64Max + 1)
                low   == x % width
            IN  IF low <= Int64Max THEN low ELSE low - width

\* How many of the calls to transferToken in one transaction may succeed: no
\* more than the pool covers, none when the amount is negative.
Affordable(calls) ==
    {n \in 0 .. calls : n = 0 \/ /\ Int64(rewardAmount) >= 0
                                 /\ n * Int64(rewardAmount) <= pool[rewardToken]}

\* A fault for the runs to find: the response code is not looked at.
Counted_Unchecked(calls, paid) == calls

\* Of the transfers asked for, those answered SUCCESS are counted.
Counted(calls, paid) == paid

\* onResolve, called that many times in one transaction
RewardOnResolve(subject, calls) ==
    \E paid \in IF rewardAmount = 0 THEN {0} ELSE Affordable(calls) :
        /\ rewardsDistributed' =
              [rewardsDistributed EXCEPT ![subject] = @ + Counted(calls, paid) * rewardAmount]
        /\ pool' = [pool EXCEPT ![rewardToken] = @ - paid * Int64(rewardAmount)]
        /\ UNCHANGED <<rewardToken, rewardAmount>>

RewardNext ==
    \E caller \in Account, token \in RewardToken, amount \in Reward :
        SetRewardConfig(caller, token, amount)
=============================================================================
