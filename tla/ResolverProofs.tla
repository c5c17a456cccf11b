--------------------------- MODULE ResolverProofs ---------------------------
(***************************************************************************)
(* Theorems about the service together with its resolvers, for every set   *)
(* of accounts, tokens, fees, rewards and pipelines.                       *)
(***************************************************************************)
EXTENDS Resolvers, AttestationServiceProofs, FiniteLemmas

-----------------------------------------------------------------------------
(* The service inside the system *)

\* What a step of the system is to the service.
LEMMA ServiceStep == [SystemNext]_allVars => [Next]_vars
<1> SUFFICES ASSUME [SystemNext]_allVars PROVE [Next]_vars
    OBVIOUS
<1>1. CASE AttestWithHooks
    BY <1>1 DEF AttestWithHooks, AttestNext, Next
<1>2. CASE RevokeWithHooks
    BY <1>2 DEF RevokeWithHooks, RevokeNext, Next
<1>3. CASE ResolversNext /\ UNCHANGED vars
    BY <1>3
<1>4. CASE UNCHANGED allVars
    BY <1>4 DEF allVars
<1>5. CASE AttestRejected
    BY <1>4, <1>5 DEF AttestRejected, Reverts
<1> QED BY <1>1, <1>2, <1>3, <1>4, <1>5 DEF SystemNext, Next

\* The service with its resolvers does nothing the service alone could not: hooks only
\* take transactions away.  Every theorem about Spec holds of SystemSpec too.
THEOREM SystemImplementsService == SystemSpec => Spec
<1>1. SystemInit => Init
    BY DEF SystemInit
<1> QED BY <1>1, ServiceStep, PTL DEF SystemSpec, Spec

\* The one key Issue adds, its schema, and the attester on its record.
LEMMA IssueAdds ==
    ASSUME NEW attester, NEW schemaUid, NEW subject, NEW data, NEW expirationTime,
           Issue(attester, schemaUid, subject, data, expirationTime)
    PROVE  \A u \in NewUIDs : /\ u.schemaUid = schemaUid
                             /\ attestations'[u].attester = attester
<1> DEFINE uid == GenerateAttestationUID(schemaUid, subject, attester, data, nonces[attester])
           rec == [schemaUid |-> schemaUid, attester |-> attester, subject |-> subject,
                   data |-> data, timestamp |-> now, expirationTime |-> expirationTime,
                   revoked |-> FALSE, revocationTime |-> 0, nonce |-> nonces[attester]]
<1>1. uid.schemaUid = schemaUid /\ rec.attester = attester
    BY DEF GenerateAttestationUID
<1>2. attestations' = Put(attestations, uid, rec)
    BY DEF Issue
<1> HIDE DEF uid, rec
<1>3. \A u \in NewUIDs : u = uid /\ attestations'[u] = rec
    BY <1>2 DEF NewUIDs, Put
<1> QED BY <1>1, <1>3

\* Attestations are added by AttestWithHooks only.
LEMMA OnlyAttestAdds ==
    ASSUME [SystemNext]_allVars, ~AttestWithHooks
    PROVE  NewUIDs = {}
<1>1. CASE RevokeWithHooks
    BY <1>1 DEF RevokeWithHooks, Revoke, RevokeOnBehalf, MarkRevoked, NewUIDs
<1>2. CASE attestations' = attestations
    BY <1>2 DEF NewUIDs
<1>3. CASE ~RevokeWithHooks
    BY <1>2, <1>3 DEF SystemNext, AttestRejected, Reverts, allVars, vars, serviceVars, recordVars, AuthorityNext,
        RegisterAuthority, SetAuthorityVerification, DelegateNext, AddDelegate, RemoveDelegate
<1> QED BY <1>1, <1>3

\* An attestation a step adds went through its schema's resolver, which was asked
\* about the attester on the record.
LEMMA ResolverWasAsked ==
    ASSUME [SystemNext]_allVars, NEW u \in NewUIDs
    PROVE  OnAttest(schemas[u.schemaUid].resolver, attestations'[u].attester)
<1>1. AttestWithHooks
    BY OnlyAttestAdds
<1>2. PICK caller \in Account, schemaUid \in DOMAIN schemas, subject \in Subject,
           data \in Payload, expirationTime \in Expiration :
         \/ /\ Attest(caller, schemaUid, subject, data, expirationTime)
            /\ OnAttest(schemas[schemaUid].resolver, caller)
         \/ \E authority \in Account :
               /\ AttestOnBehalf(caller, authority, schemaUid, subject, data, expirationTime)
               /\ OnAttest(schemas[schemaUid].resolver, HookAttester(caller, authority))
    BY <1>1 DEF AttestWithHooks
<1>3. PICK attester : /\ Issue(attester, schemaUid, subject, data, expirationTime)
                      /\ OnAttest(schemas[schemaUid].resolver, attester)
    BY <1>2 DEF Attest, AttestOnBehalf, HookAttester
<1>4. u.schemaUid = schemaUid /\ attestations'[u].attester = attester
    BY <1>3, IssueAdds
<1> QED BY <1>3, <1>4

\* The attester on the record passes the gates, whoever sends the transaction.
THEOREM GatesAreKept == SystemSpec => GatesHold
<1> DEFINE Kept ==
        \A u \in NewUIDs :
           LET c == schemas[u.schemaUid].resolver
               a == attestations'[u].attester
           IN  /\ Calls(c, whitelistResolver) > 0 => a \in whitelisted
               /\ Calls(c, tokenGatedResolver) > 0 =>
                      holdings[tokenAddress][a] >= minimumBalance
<1>1. ASSUME [SystemNext]_allVars PROVE Kept
    BY <1>1, ResolverWasAsked DEF OnAttest, Approves, WhitelistAllows, TokenGateAllows
<1> QED BY <1>1, PTL DEF SystemSpec, GatesHold

-----------------------------------------------------------------------------
(* Types, and the rewards *)

\* The types of the service and of everything the resolvers keep.
ResolversTyped ==
    /\ ResolversTypeOK
    /\ tokenAddress \in Token /\ minimumBalance \in Minimum
    /\ holdings \in [Token -> [Account -> Nat]]
    /\ rewardToken \in RewardToken /\ rewardAmount \in Reward

\* A hook is called a natural number of times, a pipeline being finite.
LEMMA CallsType ==
    ASSUME pipeline \in Seq(Contract), NEW c, NEW k
    PROVE  Calls(c, k) \in Nat
<1> DEFINE places == {i \in DOMAIN pipeline : pipeline[i] = k}
<1>1. DOMAIN pipeline = 1 .. Len(pipeline) /\ Len(pipeline) \in Nat
    OBVIOUS
<1>2. IsFiniteSet(1 .. Len(pipeline)) /\ places \subseteq 1 .. Len(pipeline)
    BY <1>1, FS_Interval
<1>3. Cardinality(places) \in Nat
    BY <1>2, FS_Subset, FS_CardinalityType
<1> QED BY <1>3 DEF Calls

\* The cast to int64: a number that fits is kept, one of 64 bits that does not fit
\* becomes negative, and none becomes larger.
LEMMA Int64Casts ==
    ASSUME NEW x \in Nat
    PROVE  /\ Int64(x) \in Int /\ Int64(x) <= x
           /\ x \in 0 .. 2 * Int64Max + 1 /\ Int64(x) >= 0 => Int64(x) = x
<1> DEFINE width == 2 * (Int64Max + 1)
           low == x % width
<1>1. Int64Max \in Nat /\ width \in Nat \ {0} /\ low \in 0 .. width - 1
    BY RewardAssumption
<1>2. x \in 0 .. 2 * Int64Max + 1 => low = x
    BY <1>1
<1>3. Int64(x) = IF low <= Int64Max THEN low ELSE low - width
    BY DEF Int64
<1>4. low <= x
    BY <1>1
<1> HIDE DEF low
<1> QED BY <1>1, <1>2, <1>3, <1>4

\* What there is to reward with is a number.
LEMMA InitialSupply == InitialPool * Cardinality(RewardToken) \in Nat
<1>1. InitialPool \in Nat /\ Cardinality(RewardToken) \in Nat
    BY ResolversAssumption, RewardAssumption, FS_CardinalityType
<1>2. \A a, b \in Nat : a * b \in Nat
    OBVIOUS
<1> QED BY <1>1, <1>2

\* What the post-hook does: some reward is counted and no more is paid, nor more than
\* the resolver holds.  The two are the same if every amount the owner sets has 64 bits.
LEMMA RewardEffect ==
    ASSUME ResolversTyped, NEW subject \in Subject, NEW calls \in Nat,
           RewardOnResolve(subject, calls)
    PROVE  \E counted, paid \in Nat :
             /\ paid <= pool[rewardToken] /\ paid <= counted
             /\ Reward \subseteq 0 .. 2 * Int64Max + 1 => counted = paid
             /\ rewardsDistributed' = [rewardsDistributed EXCEPT ![subject] = @ + counted]
             /\ pool' = [pool EXCEPT ![rewardToken] = @ - paid]
             /\ UNCHANGED <<rewardToken, rewardAmount>>
<1>1. /\ rewardAmount \in Reward /\ rewardAmount \in Nat
      /\ rewardToken \in RewardToken /\ pool[rewardToken] \in Nat
    BY RewardAssumption DEF ResolversTyped, ResolversTypeOK
<1>2. PICK n \in IF rewardAmount = 0 THEN {0} ELSE Affordable(calls) :
        /\ rewardsDistributed' = [rewardsDistributed EXCEPT ![subject] = @ + n * rewardAmount]
        /\ pool' = [pool EXCEPT ![rewardToken] = @ - n * Int64(rewardAmount)]
        /\ UNCHANGED <<rewardToken, rewardAmount>>
    BY DEF RewardOnResolve, Counted
<1>3. n \in Nat /\ (n = 0 \/ (Int64(rewardAmount) >= 0
                             /\ n * Int64(rewardAmount) <= pool[rewardToken]))
    BY <1>2 DEF Affordable
<1>4. Int64(rewardAmount) \in Int
    BY <1>1, Int64Casts
<1>5. n * rewardAmount \in Nat /\ n * Int64(rewardAmount) \in Nat
      /\ n * Int64(rewardAmount) <= pool[rewardToken]
    <2>1. \A a, b \in Nat : a * b \in Nat
        OBVIOUS
    <2>2. CASE n = 0
        BY <1>1, <1>4, <2>2
    <2>3. CASE n # 0
        BY <1>1, <1>3, <1>4, <2>1, <2>3
    <2> QED BY <2>2, <2>3
<1>6. ASSUME Reward \subseteq 0 .. 2 * Int64Max + 1
      PROVE  n * rewardAmount = n * Int64(rewardAmount)
    <2>1. CASE n = 0
        BY <1>1, <1>4, <2>1
    <2>2. CASE n # 0
        BY <1>1, <1>3, <1>6, <2>2, Int64Casts
    <2> QED BY <2>1, <2>2
<1>7. n * Int64(rewardAmount) <= n * rewardAmount
    <2>1. Int64(rewardAmount) <= rewardAmount
        BY <1>1, Int64Casts
    <2>2. \A m \in Nat : \A a, b \in Int : a <= b => m * a <= m * b
        OBVIOUS
    <2> QED BY <1>1, <1>3, <1>4, <2>1, <2>2
<1> QED BY <1>2, <1>5, <1>6, <1>7

\* The types and the sum are both kept where the post-hook pays.
LEMMA RewardKeeps ==
    ASSUME ResolversTyped, NEW subject \in Subject, NEW calls \in Nat,
           RewardOnResolve(subject, calls)
    PROVE  /\ rewardsDistributed' \in [Subject -> Nat] /\ pool' \in [RewardToken -> Nat]
           /\ UNCHANGED <<rewardToken, rewardAmount>>
           /\ Reward \subseteq 0 .. 2 * Int64Max + 1 /\ RewardsAreConserved => RewardsAreConserved'
           /\ RewardsAreCounted => RewardsAreCounted'
<1>1. PICK counted \in Nat, paid \in Nat :
         /\ paid <= pool[rewardToken] /\ paid <= counted
         /\ Reward \subseteq 0 .. 2 * Int64Max + 1 => counted = paid
         /\ rewardsDistributed' = [rewardsDistributed EXCEPT ![subject] = @ + counted]
         /\ pool' = [pool EXCEPT ![rewardToken] = @ - paid]
         /\ UNCHANGED <<rewardToken, rewardAmount>>
    BY RewardEffect
<1>2. /\ rewardsDistributed \in [Subject -> Nat] /\ pool \in [RewardToken -> Nat]
      /\ rewardToken \in RewardToken /\ pool[rewardToken] \in Nat
    BY DEF ResolversTyped, ResolversTypeOK
<1>3. rewardsDistributed' \in [Subject -> Nat]
    BY <1>1, <1>2
<1>4. pool' \in [RewardToken -> Nat]
    <2>1. pool[rewardToken] - paid \in Nat
        BY <1>1, <1>2
    <2> QED BY <1>1, <1>2, <2>1
<1>5. /\ rewardsDistributed \in [Subject -> Int] /\ pool \in [RewardToken -> Int]
      /\ IsFiniteSet(Subject) /\ IsFiniteSet(RewardToken)
    BY <1>2, ResolversAssumption
<1>6. SumFunction(rewardsDistributed') = SumFunction(rewardsDistributed) + counted
    <2>1. /\ rewardsDistributed' \in [Subject -> Int]
          /\ rewardsDistributed'[subject] = rewardsDistributed[subject] + counted
          /\ \A y \in Subject : y # subject => rewardsDistributed'[y] = rewardsDistributed[y]
        BY <1>1, <1>2, <1>3
    <2> QED BY <1>5, <2>1, SumAdds
<1>7. SumFunction(pool') = SumFunction(pool) + (-paid)
    <2>1. /\ pool' \in [RewardToken -> Int] /\ -paid \in Int
          /\ pool'[rewardToken] = pool[rewardToken] + (-paid)
          /\ \A y \in RewardToken : y # rewardToken => pool'[y] = pool[y]
        BY <1>1, <1>2, <1>4
    <2> QED BY <1>2, <1>5, <2>1, SumAdds
<1>8. /\ SumFunction(rewardsDistributed) \in Int /\ SumFunction(pool) \in Int
      /\ InitialPool * Cardinality(RewardToken) \in Nat
    BY <1>5, SumType, InitialSupply
<1>9. Reward \subseteq 0 .. 2 * Int64Max + 1 /\ RewardsAreConserved => RewardsAreConserved'
    BY <1>1, <1>6, <1>7, <1>8 DEF RewardsAreConserved
<1>10. RewardsAreCounted => RewardsAreCounted'
    BY <1>1, <1>6, <1>7, <1>8 DEF RewardsAreCounted
<1> QED BY <1>1, <1>3, <1>4, <1>9, <1>10

\* What every step keeps: the types, and with amounts of 64 bits the sum.
LEMMA ResolversStep ==
    ASSUME ResolversTyped, [SystemNext]_allVars
    PROVE  /\ ResolversTyped'
           /\ Reward \subseteq 0 .. 2 * Int64Max + 1 /\ RewardsAreConserved => RewardsAreConserved'
           /\ RewardsAreCounted => RewardsAreCounted'
<1> DEFINE Conserved ==
              /\ Reward \subseteq 0 .. 2 * Int64Max + 1 /\ RewardsAreConserved
                     => RewardsAreConserved'
              /\ RewardsAreCounted => RewardsAreCounted'
<1> USE ResolversAssumption, FeeAssumption, GateAssumption, RewardAssumption, ChainAssumption
<1>1. TypeOK'
    BY ServiceStep, TypeStep DEF ResolversTyped, ResolversTypeOK
<1>2. \A c, k : Calls(c, k) \in Nat
    BY CallsType DEF ResolversTyped, ResolversTypeOK
<1>3. ASSUME UNCHANGED rewardVars
      PROVE  /\ rewardsDistributed' \in [Subject -> Nat] /\ pool' \in [RewardToken -> Nat]
             /\ rewardToken' \in RewardToken /\ rewardAmount' \in Reward
             /\ Conserved
    BY <1>3 DEF rewardVars, ResolversTyped, ResolversTypeOK, RewardsAreConserved, RewardsAreCounted
<1>4. ASSUME NEW subject \in Subject, NEW calls \in Nat, RewardOnResolve(subject, calls)
      PROVE  /\ rewardsDistributed' \in [Subject -> Nat] /\ pool' \in [RewardToken -> Nat]
             /\ rewardToken' \in RewardToken /\ rewardAmount' \in Reward
             /\ Conserved
    BY <1>4, RewardKeeps DEF ResolversTyped
<1>5. ASSUME UNCHANGED feeVars
      PROVE  fee' \in Fee /\ balances' \in [Account -> Nat] /\ vault' \in Nat
    BY <1>5 DEF feeVars, ResolversTyped, ResolversTypeOK
<1>6. ASSUME NEW attester \in Account, NEW calls \in Nat,
             FeeAllows(attester, calls), Charge(attester, calls)
      PROVE  fee' \in Fee /\ balances' \in [Account -> Nat] /\ vault' \in Nat
    <2>1. fee \in Nat /\ fee \in Fee /\ vault \in Nat /\ balances \in [Account -> Nat]
        BY DEF ResolversTyped, ResolversTypeOK
    <2>2. calls * fee \in Nat
        <3>1. \A a, b \in Nat : a * b \in Nat
            OBVIOUS
        <3> QED BY <2>1, <3>1
    <2>3. balances[attester] - calls * fee \in Nat
        BY <1>6, <2>1, <2>2 DEF FeeAllows
    <2> QED BY <1>6, <2>1, <2>3 DEF Charge
<1>7. ASSUME UNCHANGED gateVars
      PROVE  /\ whitelisted' \subseteq Account
             /\ tokenAddress' \in Token /\ minimumBalance' \in Minimum
             /\ holdings' \in [Token -> [Account -> Nat]]
    BY <1>7 DEF gateVars, ResolversTyped, ResolversTypeOK
<1>8. ASSUME UNCHANGED pipeline PROVE pipeline' \in Pipeline
    BY <1>8 DEF ResolversTyped, ResolversTypeOK
<1>9. CASE AttestWithHooks
    <2>1. PICK attester \in Account, subject \in Subject :
              \E c : /\ FeeAllows(attester, Calls(c, feeResolver))
                     /\ Charge(attester, Calls(c, feeResolver))
                     /\ RewardOnResolve(subject, Calls(c, tokenRewardResolver))
                     /\ UNCHANGED <<gateVars, pipeline>>
        BY <1>9 DEF AttestWithHooks, OnAttest, Approves, OnResolve, HookAttester
    <2>2. PICK c : /\ FeeAllows(attester, Calls(c, feeResolver))
                   /\ Charge(attester, Calls(c, feeResolver))
                   /\ RewardOnResolve(subject, Calls(c, tokenRewardResolver))
                   /\ UNCHANGED <<gateVars, pipeline>>
        BY <2>1
    <2> QED BY <1>1, <1>2, <1>4, <1>6, <1>7, <1>8, <2>2 DEF ResolversTyped, ResolversTypeOK
<1>10. CASE RevokeWithHooks
    <2>1. PICK uid \in DOMAIN attestations :
            \E c : /\ RewardOnResolve(attestations[uid].subject, Calls(c, tokenRewardResolver))
                   /\ UNCHANGED <<feeVars, gateVars, pipeline>>
        BY <1>10 DEF RevokeWithHooks, OnResolve
    <2>2. attestations[uid].subject \in Subject
        BY DEF ResolversTyped, ResolversTypeOK, TypeOK, AttestationRecord
    <2> QED BY <1>1, <1>2, <1>4, <1>5, <1>7, <1>8, <2>1, <2>2 DEF ResolversTyped, ResolversTypeOK
<1>11. CASE ResolversNext
    <2>1. CASE HookCalled
        BY <1>1, <1>3, <1>4, <1>5, <1>6, <1>7, <1>8, <2>1
            DEF HookCalled, ResolversTyped, ResolversTypeOK
    <2>2. CASE FeeNext /\ UNCHANGED <<gateVars, rewardVars, pipeline>>
        <3>0. fee \in Fee /\ balances \in [Account -> Nat] /\ vault \in Nat
            BY DEF ResolversTyped, ResolversTypeOK
        <3>1. fee' \in Fee /\ balances' \in [Account -> Nat] /\ vault' \in Nat
            <4>1. PICK caller \in Account :
                    \/ \E newFee \in Fee : SetFee(caller, newFee)
                    \/ \E value \in Amount : Deposit(caller, value) \/ WithdrawAmount(caller, value)
                    \/ Withdraw(caller)
                BY <2>2 DEF FeeNext
            <4>2. CASE \E newFee \in Fee : SetFee(caller, newFee)
                BY <3>0, <4>2 DEF SetFee
            <4>3. ASSUME NEW value \in Amount, Deposit(caller, value)
                  PROVE  fee' \in Fee /\ balances' \in [Account -> Nat] /\ vault' \in Nat
                <5>1. value \in Nat /\ balances[caller] + value \in Nat /\ vault + value \in Nat
                    BY <3>0
                <5> QED BY <3>0, <4>3, <5>1 DEF Deposit
            <4>4. ASSUME NEW value \in Amount, WithdrawAmount(caller, value)
                  PROVE  fee' \in Fee /\ balances' \in [Account -> Nat] /\ vault' \in Nat
                BY <3>0, <4>4 DEF WithdrawAmount
            <4>5. CASE Withdraw(caller)
                BY <3>0, <4>5 DEF Withdraw
            <4> QED BY <4>1, <4>2, <4>3, <4>4, <4>5
        <3> QED BY <1>1, <1>3, <1>7, <1>8, <2>2, <3>1 DEF ResolversTyped, ResolversTypeOK
    <2>3. CASE GateNext /\ UNCHANGED <<feeVars, rewardVars, pipeline>>
        <3>1. /\ whitelisted' \subseteq Account
              /\ tokenAddress' \in Token /\ minimumBalance' \in Minimum
              /\ holdings' \in [Token -> [Account -> Nat]]
            <4>0. /\ whitelisted \subseteq Account
                  /\ tokenAddress \in Token /\ minimumBalance \in Minimum
                  /\ holdings \in [Token -> [Account -> Nat]]
                BY DEF ResolversTyped, ResolversTypeOK
            <4>1. CASE \E token \in Token, account \in Account, amount \in 0 .. MaxHolding :
                          TokensMove(token, account, amount)
                <5>1. PICK token \in Token, account \in Account, amount \in 0 .. MaxHolding :
                          TokensMove(token, account, amount)
                    BY <4>1
                <5>2. [holdings[token] EXCEPT ![account] = amount] \in [Account -> Nat]
                    BY <4>0
                <5>3. holdings' = [holdings EXCEPT ![token] =
                                      [holdings[token] EXCEPT ![account] = amount]]
                    BY <4>0, <5>1 DEF TokensMove
                <5>4. holdings' \in [Token -> [Account -> Nat]]
                    BY <4>0, <5>2, <5>3
                <5> QED BY <4>0, <5>1, <5>4 DEF TokensMove
            <4> QED BY <2>3, <4>0, <4>1 DEF GateNext, AddAddress, RemoveAddress, SetTokenConfig
        <3> QED BY <1>1, <1>3, <1>5, <1>8, <2>3, <3>1 DEF ResolversTyped, ResolversTypeOK
    <2>4. CASE RewardNext /\ UNCHANGED <<feeVars, gateVars, pipeline>>
        <3>1. /\ rewardsDistributed' = rewardsDistributed /\ pool' = pool
              /\ rewardToken' \in RewardToken /\ rewardAmount' \in Reward
            BY <2>4 DEF RewardNext, SetRewardConfig
        <3>2. Conserved
            BY <3>1 DEF RewardsAreConserved, RewardsAreCounted
        <3> QED BY <1>1, <1>5, <1>7, <1>8, <2>4, <3>1, <3>2 DEF ResolversTyped, ResolversTypeOK
    <2>5. CASE /\ \E caller \in Account, p \in Pipeline : SetPipeline(caller, p)
               /\ UNCHANGED <<feeVars, gateVars, rewardVars>>
        <3>1. pipeline' \in Pipeline
            BY <2>5 DEF SetPipeline
        <3> QED BY <1>1, <1>3, <1>5, <1>7, <2>5, <3>1 DEF ResolversTyped, ResolversTypeOK
    <2> QED BY <1>11, <2>1, <2>2, <2>3, <2>4, <2>5 DEF ResolversNext
<1>12. CASE UNCHANGED resolverVars
    BY <1>1, <1>3, <1>5, <1>7, <1>8, <1>12 DEF resolverVars, ResolversTyped, ResolversTypeOK
<1> QED BY <1>9, <1>10, <1>11, <1>12 DEF SystemNext, AttestRejected, Reverts, allVars

\* The system starts with its types.
LEMMA ResolversStart == SystemInit => ResolversTyped
<1> SUFFICES ASSUME SystemInit PROVE ResolversTyped
    OBVIOUS
<1> USE ChainAssumption, RewardAssumption
<1>1. TypeOK
    BY DEF SystemInit, Init, ChainInit, RegistryInit, TypeOK
<1> QED BY <1>1 DEF SystemInit, ResolversInit, FeeInit, GateInit, RewardInit,
        ResolversTyped, ResolversTypeOK

\* No balance, pool or counter of a resolver ever falls below zero, where the code
\* would revert, and every other variable keeps its type.
THEOREM ResolversTypeCorrect == SystemSpec => []ResolversTypeOK
<1>1. ResolversTyped => ResolversTypeOK
    BY DEF ResolversTyped
<1> QED BY <1>1, ResolversStart, ResolversStep, PTL DEF SystemSpec

\* At first nothing is distributed and every pool is full.
LEMMA RewardsStart ==
    SystemInit => SumFunction(rewardsDistributed) + SumFunction(pool)
                      = InitialPool * Cardinality(RewardToken)
<1> SUFFICES ASSUME SystemInit
             PROVE  SumFunction(rewardsDistributed) + SumFunction(pool)
                        = InitialPool * Cardinality(RewardToken)
    OBVIOUS
<1> USE ResolversAssumption, RewardAssumption
<1>1. /\ rewardsDistributed = [s \in Subject |-> 0]
      /\ pool = [t \in RewardToken |-> InitialPool]
    BY DEF SystemInit, ResolversInit, RewardInit
<1>2. SumFunction(rewardsDistributed) = 0 * Cardinality(Subject)
    <2>1. /\ rewardsDistributed \in [Subject -> Int]
          /\ \A x \in Subject : rewardsDistributed[x] = 0
        BY <1>1
    <2> QED BY <2>1, SumOfConstant
<1>3. SumFunction(pool) = InitialPool * Cardinality(RewardToken)
    <2>1. /\ pool \in [RewardToken -> Int] /\ InitialPool \in Int
          /\ \A x \in RewardToken : pool[x] = InitialPool
        BY <1>1
    <2> QED BY <2>1, SumOfConstant
<1>4. Cardinality(Subject) \in Nat
    BY FS_CardinalityType
<1> QED BY <1>2, <1>3, <1>4, InitialSupply

\* Every token counted has left the resolver and no other has, as long as the owner
\* sets no amount that takes more than 64 bits.
THEOREM RewardsConserved ==
    ASSUME Reward \subseteq 0 .. 2 * Int64Max + 1
    PROVE  SystemSpec => []RewardsAreConserved
<1>1. SystemInit => RewardsAreConserved
    BY RewardsStart DEF RewardsAreConserved
<1>2. ResolversTyped /\ RewardsAreConserved /\ [SystemNext]_allVars => RewardsAreConserved'
    BY ResolversStep
<1> QED BY <1>1, <1>2, ResolversStart, ResolversStep, PTL DEF SystemSpec

\* No token leaves the reward resolver uncounted, whatever amount the owner sets.
THEOREM NoneLeavesUncounted == SystemSpec => []RewardsAreCounted
<1>1. SystemInit => RewardsAreCounted
    <2>1. InitialPool * Cardinality(RewardToken) \in Nat
        BY InitialSupply
    <2> QED BY <2>1, RewardsStart DEF RewardsAreCounted
<1>2. ResolversTyped /\ RewardsAreCounted /\ [SystemNext]_allVars => RewardsAreCounted'
    BY ResolversStep
<1> QED BY <1>1, <1>2, ResolversStart, ResolversStep, PTL DEF SystemSpec

-----------------------------------------------------------------------------
(* The deposits *)

\* A step that takes nothing out of the fee resolver leaves balances and vault alone,
\* takes some off a balance, or adds the same to a balance and the vault.
LEMMA FeeSteps ==
    ASSUME ResolversTyped, [SystemNext]_allVars, vault' >= vault
    PROVE  \/ balances' = balances
           \/ \E a \in Account, n \in Nat :
                 /\ n <= balances[a]
                 /\ balances' = [balances EXCEPT ![a] = @ - n]
           \/ \E a \in Account, n \in Nat :
                 /\ balances' = [balances EXCEPT ![a] = @ + n]
                 /\ vault' = vault + n
<1> DEFINE Charged == \E a \in Account, n \in Nat :
                         /\ n <= balances[a]
                         /\ balances' = [balances EXCEPT ![a] = @ - n]
<1>1. \A c, k : Calls(c, k) \in Nat
    BY ResolversAssumption, CallsType DEF ResolversTyped, ResolversTypeOK
<1>2. /\ fee \in Nat /\ vault \in Nat /\ balances \in [Account -> Nat]
      /\ \A n \in Nat : n * fee \in Nat
    <2>1. fee \in Nat /\ vault \in Nat /\ balances \in [Account -> Nat]
        BY FeeAssumption DEF ResolversTyped, ResolversTypeOK
    <2>2. \A m, n \in Nat : m * n \in Nat
        OBVIOUS
    <2> QED BY <2>1, <2>2
<1>3. ASSUME NEW a \in Account, NEW calls \in Nat, FeeAllows(a, calls), Charge(a, calls)
      PROVE  Charged
    <2>1. calls * fee \in Nat /\ calls * fee <= balances[a]
        BY <1>2, <1>3 DEF FeeAllows
    <2>2. balances' = [balances EXCEPT ![a] = @ - calls * fee]
        BY <1>3 DEF Charge
    <2> QED BY <2>1, <2>2
<1>4. CASE AttestWithHooks
    <2>1. PICK a \in Account : \E c : /\ FeeAllows(a, Calls(c, feeResolver))
                                      /\ Charge(a, Calls(c, feeResolver))
        BY <1>4 DEF AttestWithHooks, OnAttest, Approves, HookAttester
    <2> QED BY <1>1, <1>3, <2>1
<1>5. CASE RevokeWithHooks
    BY <1>5 DEF RevokeWithHooks, feeVars
<1>6. CASE HookCalled
    BY <1>3, <1>6 DEF HookCalled, feeVars
<1>7. CASE FeeNext
    <2>1. PICK caller \in Account :
            \/ \E newFee \in Fee : SetFee(caller, newFee)
            \/ \E value \in Amount : Deposit(caller, value) \/ WithdrawAmount(caller, value)
            \/ Withdraw(caller)
        BY <1>7 DEF FeeNext
    <2>2. ASSUME NEW value \in Amount, Deposit(caller, value)
          PROVE  \E a \in Account, n \in Nat :
                    /\ balances' = [balances EXCEPT ![a] = @ + n]
                    /\ vault' = vault + n
        BY <2>2, FeeAssumption DEF Deposit
    <2> QED BY <2>1, <2>2 DEF SetFee, WithdrawAmount, Withdraw
<1>8. CASE UNCHANGED feeVars
    BY <1>8 DEF feeVars
<1> QED BY <1>4, <1>5, <1>6, <1>7, <1>8 DEF SystemNext, AttestRejected, Reverts, ResolversNext, resolverVars, allVars

\* A transaction of the service that attests stores one more record.
LEMMA AttestAdds ==
    ASSUME TypeOK, UIDsAreUsedUp, AttestWithHooks
    PROVE  NewUIDs # {}
<1>1. PICK attester \in Account : \E schemaUid, subject, data, expirationTime :
         Issue(attester, schemaUid, subject, data, expirationTime)
    BY DEF AttestWithHooks, Attest, AttestOnBehalf
<1>2. PICK uid : /\ uid.attester = attester /\ uid.nonce = nonces[attester]
                 /\ DOMAIN attestations' = DOMAIN attestations \cup {uid}
    BY <1>1, IssueEffect
<1>3. uid \notin DOMAIN attestations
    BY <1>2, NextUIDIsNew
<1> QED BY <1>2, <1>3 DEF NewUIDs

\* A deposit shrinks in a transaction of the service that attests, and in a call of the
\* hook that does not come from the service.
LEMMA OnlyChargesTake ==
    ASSUME ResolversTyped, [SystemNext]_allVars, ~AttestWithHooks, ~HookCalled
    PROVE  \A a \in Account : ~(balances'[a] < balances[a])
<1>0. balances \in [Account -> Nat] /\ \A a \in Account : ~(balances[a] < balances[a])
    <2>1. balances \in [Account -> Nat]
        BY DEF ResolversTyped, ResolversTypeOK
    <2> QED BY <2>1
<1>1. CASE balances' = balances
    BY <1>0, <1>1
<1>2. CASE FeeNext
    <2>1. PICK caller \in Account :
            \/ \E newFee \in Fee : SetFee(caller, newFee)
            \/ \E value \in Amount : Deposit(caller, value) \/ WithdrawAmount(caller, value)
            \/ Withdraw(caller)
        BY <1>2 DEF FeeNext
    <2>2. ASSUME NEW value \in Amount, Deposit(caller, value)
          PROVE  \A a \in Account : ~(balances'[a] < balances[a])
        <3>1. value \in Nat /\ balances' = [balances EXCEPT ![caller] = @ + value]
            BY <2>2, FeeAssumption DEF Deposit
        <3> QED BY <1>0, <3>1
    <2> QED BY <1>1, <2>1, <2>2 DEF SetFee, WithdrawAmount, Withdraw
<1>3. CASE UNCHANGED feeVars
    BY <1>1, <1>3 DEF feeVars
<1> QED BY <1>2, <1>3 DEF SystemNext, AttestRejected, Reverts, RevokeWithHooks, ResolversNext,
        resolverVars, allVars

\* The attester on the record pays, whoever sends the transaction, and nobody pays in a
\* transaction of the service that attests nothing.
THEOREM FeesArePaid == SystemSpec => AttestersPayTheFee
<1> DEFINE Paid ==
        \A u \in NewUIDs :
           LET calls == Calls(schemas[u.schemaUid].resolver, feeResolver) IN
           balances' = [balances EXCEPT ![attestations'[u].attester] = @ - calls * fee]
           NothingElse == NewUIDs = {} /\ (\E a \in Account : balances'[a] < balances[a])
                              => HookCalled
<1>1. ASSUME [SystemNext]_allVars PROVE Paid
    BY <1>1, ResolverWasAsked DEF OnAttest, Charge
<1>2. ASSUME ResolversTyped, UIDsAreUsedUp, [SystemNext]_allVars PROVE NothingElse
    <2>1. CASE AttestWithHooks
        BY <1>2, <2>1, AttestAdds DEF ResolversTyped, ResolversTypeOK
    <2>2. CASE ~AttestWithHooks
        BY <1>2, <2>2, OnlyChargesTake
    <2> QED BY <2>1, <2>2
<1>3. SystemSpec => []UIDsAreUsedUp
    BY SystemImplementsService, UIDsUsedUp, PTL
<1> QED BY <1>1, <1>2, <1>3, ResolversStart, ResolversStep, PTL DEF SystemSpec, AttestersPayTheFee

\* No charge and no deposit uncovers a deposit, whatever it is part of.
LEMMA DepositsStep ==
    ASSUME ResolversTyped, [SystemNext]_allVars, DepositsAreCovered, vault' >= vault
    PROVE  DepositsAreCovered'
<1>1. /\ IsFiniteSet(Account) /\ vault \in Nat
      /\ balances \in [Account -> Nat] /\ balances \in [Account -> Int]
    BY ResolversAssumption DEF ResolversTyped, ResolversTypeOK
<1>2. balances' \in [Account -> Nat] /\ vault' \in Nat
    BY ResolversStep DEF ResolversTyped, ResolversTypeOK
<1>3. SumFunction(balances) \in Int /\ SumFunction(balances) <= vault
    BY <1>1, SumType DEF DepositsAreCovered
<1>4. ASSUME NEW a \in Account, NEW d \in Int, balances' = [balances EXCEPT ![a] = @ + d]
      PROVE  SumFunction(balances') = SumFunction(balances) + d
    <2>1. /\ balances' \in [Account -> Int]
          /\ balances'[a] = balances[a] + d
          /\ \A y \in Account : y # a => balances'[y] = balances[y]
        BY <1>1, <1>2, <1>4
    <2> QED BY <1>1, <2>1, SumAdds
<1>5. CASE balances' = balances
    BY <1>2, <1>3, <1>1, <1>5 DEF DepositsAreCovered
<1>6. ASSUME NEW a \in Account, NEW n \in Nat, balances' = [balances EXCEPT ![a] = @ - n]
      PROVE  DepositsAreCovered'
    <2>1. -n \in Int /\ balances[a] + (-n) = balances[a] - n
        BY <1>1
    <2>2. SumFunction(balances') = SumFunction(balances) + (-n)
        <3>1. balances' = [balances EXCEPT ![a] = balances[a] + (-n)]
            BY <1>6, <2>1
        <3> QED BY <1>4, <2>1, <3>1
    <2> QED BY <1>1, <1>2, <1>3, <2>2 DEF DepositsAreCovered
<1>7. ASSUME NEW a \in Account, NEW n \in Nat, vault' = vault + n,
             balances' = [balances EXCEPT ![a] = @ + n]
      PROVE  DepositsAreCovered'
    <2>1. SumFunction(balances') = SumFunction(balances) + n
        <3>1. n \in Int /\ balances' = [balances EXCEPT ![a] = balances[a] + n]
            BY <1>7
        <3> QED BY <1>4, <3>1
    <2> QED BY <1>1, <1>3, <1>7, <2>1 DEF DepositsAreCovered
<1> QED BY <1>5, <1>6, <1>7, FeeSteps

\* Nothing but a withdrawal by the owner takes deposits away, and the contract starts
\* with none.
THEOREM DepositsStayCovered == SystemSpec => OnlyWithdrawalsUncover
<1>1. ResolversTyped /\ [SystemNext]_allVars
          => (DepositsAreCovered /\ vault' >= vault => DepositsAreCovered')
    BY DepositsStep
<1> QED BY <1>1, ResolversStart, ResolversStep, PTL DEF SystemSpec, OnlyWithdrawalsUncover
=============================================================================
