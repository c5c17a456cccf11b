----------------------------- MODULE Resolvers -----------------------------
(***************************************************************************)
(* The attestation service together with the resolver contracts of the     *)
(* repository, one deployed instance of each: FeeResolver,                 *)
(* WhitelistResolver, TokenGatedResolver, TokenRewardResolver, and         *)
(* resolvers/CrossContractResolver.sol, which calls a list of others in    *)
(* sequence.  A transaction of the service and the hooks it calls are one  *)
(* step: a hook that answers false or reverts takes everything back.       *)
(***************************************************************************)
EXTENDS AttestationService, FeeResolver, GateResolvers, TokenRewardResolver, Functions

CONSTANTS feeResolver, whitelistResolver, tokenGatedResolver, tokenRewardResolver,
          crossContractResolver,
          Pipeline      \* the lists of contracts the owner may set

Simple == {feeResolver, whitelistResolver, tokenGatedResolver, tokenRewardResolver}

ASSUME ResolversAssumption ==
    /\ Conforming \subseteq Simple \cup {crossContractResolver}
    /\ \A p \in Pipeline : p \in Seq(Contract) /\ p # <<>>
    /\ IsFiniteSet(Account) /\ IsFiniteSet(Subject) /\ IsFiniteSet(RewardToken)  \* 160 bits

VARIABLE pipeline       \* of the CrossContractResolver

resolverVars == <<feeVars, gateVars, rewardVars, pipeline>>
allVars == <<vars, resolverVars>>

ResolversInit == FeeInit /\ GateInit /\ RewardInit /\ pipeline \in Pipeline

\* EmptyPipeline and ZeroAddress are the only checks: any contract may be listed.
SetPipeline(caller, resolvers) == caller = Deployer /\ pipeline' = resolvers

-----------------------------------------------------------------------------
(* Hooks *)

\* How often a hook of k is called when the service calls the same hook of c.
Calls(c, k) == IF c = crossContractResolver
               THEN Cardinality({i \in DOMAIN pipeline : pipeline[i] = k})
               ELSE IF c = k THEN 1 ELSE 0

\* In a pipeline, a contract that has no hooks counts as a rejection.
Answers(c) == c = crossContractResolver => Range(pipeline) \subseteq Simple

\* onAttest of c answers true: all the resolvers it stands for approve.
Approves(c, attester) ==
    /\ Answers(c)
    /\ FeeAllows(attester, Calls(c, feeResolver))
    /\ Calls(c, whitelistResolver) > 0 => WhitelistAllows(attester)
    /\ Calls(c, tokenGatedResolver) > 0 => TokenGateAllows(attester)

OnAttest(c, attester) == Approves(c, attester) /\ Charge(attester, Calls(c, feeResolver))

\* A fault for the runs to find: an address taken off the whitelist cannot revoke.
OnRevoke_Listed(c, attester) ==
    Answers(c) /\ (Calls(c, whitelistResolver) > 0 => WhitelistAllows(attester))

\* onRevoke answers true in every resolver of the repository.
OnRevoke(c, attester) == Answers(c)

\* onResolve: side effects that are kept when they succeed and never stop the
\* transaction; only the reward has any.
OnResolve(c, subject) == RewardOnResolve(subject, Calls(c, tokenRewardResolver))

-----------------------------------------------------------------------------
(* Transactions *)

\* A fault for the runs to find: the hook is asked about the delegate.
HookAttester_Caller(caller, authority) == caller

\* attestOnBehalf calls onAttest with the authority.
HookAttester(caller, authority) == authority

AttestWithHooks ==
    \E caller \in Account, schemaUid \in DOMAIN schemas, subject \in Subject,
       data \in Payload, expirationTime \in Expiration :
        LET resolver == schemas[schemaUid].resolver IN
        /\ \/ /\ Attest(caller, schemaUid, subject, data, expirationTime)
              /\ OnAttest(resolver, caller)
           \/ \E authority \in Account :
                 /\ AttestOnBehalf(caller, authority, schemaUid, subject, data, expirationTime)
                 /\ OnAttest(resolver, HookAttester(caller, authority))
        /\ OnResolve(resolver, subject)
        /\ UNCHANGED <<gateVars, pipeline>>

\* A fault for the runs to find: what was charged before a later resolver rejects stays.
Reverts_Charged(c, attester) ==
    \/ UNCHANGED allVars
    \/ /\ FeeAllows(attester, Calls(c, feeResolver))
       /\ Charge(attester, Calls(c, feeResolver))
       /\ UNCHANGED <<vars, gateVars, rewardVars, pipeline>>

\* ResolverRejected, or the revert of the hook itself, takes back what the hooks of c did.
Reverts(c, attester) == UNCHANGED allVars

AttestRejected ==
    \E attester \in Account, schemaUid \in DOMAIN schemas :
        LET resolver == schemas[schemaUid].resolver IN
        ~Approves(resolver, attester) /\ Reverts(resolver, attester)

RevokeWithHooks ==
    \E caller \in Account, uid \in DOMAIN attestations :
        LET resolver == schemas[attestations[uid].schemaUid].resolver IN
        /\ Revoke(caller, uid) \/ RevokeOnBehalf(caller, uid)
        /\ OnRevoke(resolver, attestations[uid].attester)
        /\ OnResolve(resolver, attestations[uid].subject)
        /\ UNCHANGED <<feeVars, gateVars, pipeline>>

\* The hooks are external functions that do not ask who calls them: a call that does
\* not come from the service.  One through a pipeline amounts to several such calls.
HookCalled ==
    \/ /\ \E attester \in Account : FeeAllows(attester, 1) /\ Charge(attester, 1)
       /\ UNCHANGED <<gateVars, rewardVars, pipeline>>
    \/ /\ \E subject \in Subject : RewardOnResolve(subject, 1)
       /\ UNCHANGED <<feeVars, gateVars, pipeline>>

ResolversNext ==
    \/ HookCalled
    \/ FeeNext /\ UNCHANGED <<gateVars, rewardVars, pipeline>>
    \/ GateNext /\ UNCHANGED <<feeVars, rewardVars, pipeline>>
    \/ RewardNext /\ UNCHANGED <<feeVars, gateVars, pipeline>>
    \/ /\ \E caller \in Account, p \in Pipeline : SetPipeline(caller, p)
       /\ UNCHANGED <<feeVars, gateVars, rewardVars>>

SystemInit == Init /\ ResolversInit

SystemNext ==
    \/ AttestWithHooks
    \/ AttestRejected
    \/ RevokeWithHooks
    \/ ResolversNext /\ UNCHANGED vars
    \/ /\ \/ AdvanceTime /\ UNCHANGED <<schemas, serviceVars>>
          \/ RegistryNext /\ UNCHANGED serviceVars
          \/ AuthorityNext
          \/ DelegateNext
       /\ UNCHANGED resolverVars

SystemSpec == SystemInit /\ [][SystemNext]_allVars

-----------------------------------------------------------------------------
(* Properties *)

\* The attestations a step adds.
NewUIDs == DOMAIN attestations' \ DOMAIN attestations

ResolversTypeOK ==
    /\ TypeOK
    /\ fee \in Fee /\ balances \in [Account -> Nat] /\ vault \in Nat
    /\ whitelisted \subseteq Account
    /\ rewardsDistributed \in [Subject -> Nat] /\ pool \in [RewardToken -> Nat]
    /\ pipeline \in Pipeline

\* Every attestation under a schema with a fee is paid for, by its attester whoever
\* sends the transaction, once for each time the resolver is asked, and by nobody
\* else; and no transaction of the service takes a fee without it, a pipeline that charges
\* before a later resolver rejects included: apart from that, a deposit shrinks only with
\* a call of the hook that does not come from the service (onAttest).
AttestersPayTheFee ==
    [][/\ \A u \in NewUIDs :
             LET calls == Calls(schemas[u.schemaUid].resolver, feeResolver) IN
             balances' = [balances EXCEPT ![attestations'[u].attester] = @ - calls * fee]
       /\ NewUIDs = {} /\ (\E a \in Account : balances'[a] < balances[a]) => HookCalled
      ]_allVars

\* Delegation is no way around a gate: whoever sends the transaction, the attester
\* the record names is on the whitelist, or holds the token, when it is stored.
GatesHold ==
    [][\A u \in NewUIDs :
          LET c == schemas[u.schemaUid].resolver
              a == attestations'[u].attester
          IN  /\ Calls(c, whitelistResolver) > 0 => a \in whitelisted
              /\ Calls(c, tokenGatedResolver) > 0 =>
                     holdings[tokenAddress][a] >= minimumBalance]_allVars

\* No setting of fees, lists, gates and rewards takes revocation away from an attester, and
\* what the owner of a pipeline sets does exactly when it lists a contract that is none of
\* those resolvers, the pipeline itself included: setPipeline takes it, and onRevoke
\* answers false from then on.  MaxEvents bounds the run, not the chain.
OnlyPipelinesBlockRevocation ==
    \A u \in DOMAIN attestations :
        LET schema == schemas[attestations[u].schemaUid] IN
        ~attestations[u].revoked /\ schema.revocable /\ Len(log) < MaxEvents =>
            (ENABLED (RevokeWithHooks /\ attestations'[u].revoked) <=>
                (schema.resolver = crossContractResolver =>
                    \A i \in DOMAIN pipeline : pipeline[i] \in Simple))

\* Every token the counter says was distributed has left the resolver, and no other
\* has (onResolve): failed transfers are not counted.
RewardsAreConserved ==
    SumFunction(rewardsDistributed) + SumFunction(pool)
        = InitialPool * Cardinality(RewardToken)

\* No token leaves the reward resolver uncounted, whatever amount the owner sets, one
\* that does not survive the cast to int64 included (onResolve).
RewardsAreCounted ==
    SumFunction(rewardsDistributed) + SumFunction(pool)
        >= InitialPool * Cardinality(RewardToken)

\* Deposits no attestation has used up are covered by what the fee resolver holds, until
\* the owner withdraws more than the fees collected, which withdraw does (FeeResolver.sol):
\* no charge, no pipeline and no call that does not come from the service uncovers them.
DepositsAreCovered == SumFunction(balances) <= vault
OnlyWithdrawalsUncover ==
    [][DepositsAreCovered /\ vault' >= vault => DepositsAreCovered']_allVars
=============================================================================
