-------------------------- MODULE DeploymentProofs --------------------------
(***************************************************************************)
(* Theorems about the contracts and the indexer together: the surroundings *)
(* IndexerProofs takes for granted are those the contracts provide, so     *)
(* that what it proves of the database and of the topics holds against     *)
(* the storage of the contracts.                                           *)
(***************************************************************************)
EXTENDS Deployment, AttestationServiceProofs

\* The theorems about the indexer, of the indexer that follows the contracts.
Indexing == INSTANCE IndexerProofs
    WITH stream <- log, expired <- Expired, schemas <- schemaRows,
         attestations <- attestationRows, authorities <- authorityRows,
         Schema <- SchemaUID, Event <- ContractEvent, History <- <<>>, Lasting <- {}

-----------------------------------------------------------------------------
(* The two instances of Indexer, and its assumptions *)

\* The indexer of Deployment is the one the theorems are about.
LEMMA SameIndexer ==
    /\ Follower!Init <=> Indexing!Init
    /\ Follower!IndexerNext <=> Indexing!IndexerNext
    /\ Follower!Next <=> Indexing!Next
    /\ Follower!vars = Indexing!vars
<1> USE DEF Follower!MaxRetries, Follower!hcsVars, Follower!Global, Follower!HcsInit,
        Follower!CreateSchemaTopic, Follower!Publish, Follower!Rest, Follower!Deliver, Follower!Attempt,
        Follower!HcsNext, Follower!HcsCrash, Follower!dbVars, Follower!stateVars, Follower!vars,
        Follower!Source, Follower!Decodable, Follower!Emit, Follower!Expire,
        Follower!FetchContractLogs, Follower!Idle, Follower!Init, Follower!StartPoll,
        Follower!Fetch, Follower!GiveUp, Follower!FetchFails, Follower!Current,
        Follower!Processing, Follower!Skipped, Follower!Done, Follower!SkipLog,
        Follower!SkipFailure, Follower!Handling, Follower!CreateTopic, Follower!Upsert,
        Follower!IndexSchema, Follower!TopicOf, Follower!Upserted, Follower!PublishAndFinish,
        Follower!IndexAttestation, Follower!RowsOf, Follower!IndexRevocation,
        Follower!IndexAuthority, Follower!SaveState, Follower!SaveFails, Follower!Crash,
        Follower!LookUp, Follower!Answered,
        Follower!BackfillSchema, Follower!BackfillAttestation, Follower!PollStep,
        Follower!ContractsNext, Follower!IndexerNext, Follower!Next, Follower!Cardinality,
        Follower!Contracts!Legal, Follower!Contracts!Positions,
        Follower!Contracts!SchemasIn, Follower!Contracts!CreatedIn, Follower!Contracts!RevokedIn,
        Follower!Contracts!DelegatesIn, Indexing!MaxRetries, Indexing!hcsVars, Indexing!Global,
        Indexing!HcsInit, Indexing!CreateSchemaTopic, Indexing!Publish, Indexing!Rest,
        Indexing!Deliver, Indexing!Attempt, Indexing!HcsNext, Indexing!HcsCrash, Indexing!dbVars,
        Indexing!stateVars, Indexing!vars, Indexing!Source, Indexing!Decodable, Indexing!Emit,
        Indexing!Expire, Indexing!FetchContractLogs, Indexing!Idle, Indexing!Init,
        Indexing!StartPoll, Indexing!Fetch, Indexing!GiveUp, Indexing!FetchFails,
        Indexing!Current, Indexing!Processing, Indexing!Skipped, Indexing!Done, Indexing!SkipLog,
        Indexing!SkipFailure, Indexing!Handling, Indexing!CreateTopic, Indexing!Upsert,
        Indexing!IndexSchema, Indexing!TopicOf, Indexing!Upserted, Indexing!PublishAndFinish,
        Indexing!IndexAttestation, Indexing!RowsOf, Indexing!IndexRevocation,
        Indexing!IndexAuthority, Indexing!SaveState, Indexing!SaveFails, Indexing!Crash,
        Indexing!LookUp, Indexing!Answered,
        Indexing!BackfillSchema, Indexing!BackfillAttestation, Indexing!PollStep,
        Indexing!ContractsNext, Indexing!IndexerNext, Indexing!Next, Indexing!Cardinality,
        Indexing!Contracts!Legal, Indexing!Contracts!Positions,
        Indexing!Contracts!SchemasIn, Indexing!Contracts!CreatedIn, Indexing!Contracts!RevokedIn,
        Indexing!Contracts!DelegatesIn
<1>1. Follower!Init <=> Indexing!Init
    OBVIOUS
<1>2. Follower!IndexerNext <=> Indexing!IndexerNext
    OBVIOUS
<1>3. Follower!Next <=> Indexing!Next
    OBVIOUS
<1>4. Follower!vars = Indexing!vars
    OBVIOUS
<1> QED BY ONLY <1>1, <1>2, <1>3, <1>4

\* What Indexer assumes of its constants holds of those Deployment gives it.
LEMMA IndexerIsConfigured == Indexing!IndexerAssumption
<1>1. Indexing!Emitted = ContractEvent
    BY DEF Indexing!Emitted
<1>2. \A e \in ContractEvent : e.type = "SchemaRegistered" => e.uid \in SchemaUID
    BY DEF ContractEvent
<1> QED BY <1>1, <1>2, ChainAssumption, DeploymentAssumption DEF Indexing!IndexerAssumption

-----------------------------------------------------------------------------
(* The events of the contracts are the indexer's *)

\* Every nonce used stands for an event, and there is room for the events.
EventsCount ==
    /\ Len(log) <= MaxEvents
    /\ \A a \in Account : nonces[a] <= Len(log)

\* What the contracts keep up that the indexer relies on.
ServiceInv == TypeOK /\ UIDsAreUsedUp /\ LogInv /\ EventsCount

\* A step of the contracts emits one event or none.
LEMMA OneEvent == [Next]_vars => log' = log \/ \E e : Emit(e)
<1> SUFFICES ASSUME [Next]_vars PROVE log' = log \/ \E e : Emit(e)
    OBVIOUS
<1>1. CASE AdvanceTime
    BY <1>1 DEF AdvanceTime
<1>2. CASE RegistryNext
    BY <1>2 DEF RegistryNext, Register
<1>3. CASE AttestNext
    <2>1. PICK attester \in Account, schemaUid \in DOMAIN schemas, subject \in Subject,
               data \in Payload, expirationTime \in Expiration :
               Issue(attester, schemaUid, subject, data, expirationTime)
        BY <1>3 DEF AttestNext, Attest, AttestOnBehalf
    <2> QED BY <2>1 DEF Issue
<1>4. CASE RevokeNext
    BY <1>4 DEF RevokeNext, Revoke, RevokeOnBehalf, MarkRevoked
<1>5. CASE AuthorityNext
    BY <1>5 DEF AuthorityNext, RegisterAuthority, SetAuthorityVerification, chainVars
<1>6. CASE DelegateNext
    BY <1>6 DEF DelegateNext, AddDelegate, RemoveDelegate
<1>7. CASE UNCHANGED vars
    BY <1>7 DEF vars
<1> QED BY <1>1, <1>2, <1>3, <1>4, <1>5, <1>6, <1>7 DEF Next

\* What Emit does to the log, as a sequence.
LEMMA EmitAppends ==
    ASSUME log \in Seq(Event), log' \in Seq(Event), NEW e, Emit(e)
    PROVE  /\ Len(log) \in Nat /\ Len(log) < MaxEvents /\ Len(log') = Len(log) + 1
           /\ log' = Append(log, e) /\ e \in Event /\ log'[Len(log')] = e
           /\ DOMAIN log' = 1 .. Len(log')
<1>1. /\ Len(log) \in Nat /\ Len(log) < MaxEvents /\ log' = Append(log, e)
      /\ Len(log') = Len(log) + 1 /\ DOMAIN log' = 1 .. Len(log')
    BY DEF Emit
<1>2. log'[Len(log')] = e
    BY <1>1
<1>3. log'[Len(log')] \in Event
    BY <1>1
<1> QED BY <1>1, <1>2, <1>3

\* A nonce is used up by an attestation, which is an event.
LEMMA EventsCountStep == TypeOK /\ LogInv /\ LogInv' /\ EventsCount /\ [Next]_vars => EventsCount'
<1> SUFFICES ASSUME TypeOK, LogInv, LogInv', EventsCount, [Next]_vars PROVE EventsCount'
    OBVIOUS
<1>1. /\ Len(log) \in Nat /\ Len(log') \in Nat /\ MaxEvents \in Nat
      /\ \A a \in Account : nonces[a] \in Nat
    BY ChainAssumption DEF LogInv, TypeOK
<1>2. /\ Len(log') <= MaxEvents
      /\ log' = log \/ Len(log') = Len(log) + 1
    BY <1>1, OneEvent, EmitAppends DEF LogInv, EventsCount
<1>3. CASE AttestNext
    <2>1. PICK attester \in Account, schemaUid \in DOMAIN schemas, subject \in Subject,
               data \in Payload, expirationTime \in Expiration :
               Issue(attester, schemaUid, subject, data, expirationTime)
        BY <1>3 DEF AttestNext, Attest, AttestOnBehalf
    <2>2. nonces' = [nonces EXCEPT ![attester] = @ + 1] /\ nonces \in [Account -> Nat]
        BY <2>1, IssueEffect DEF TypeOK
    <2>3. log' # log
        BY <1>1, <2>1, EmitAppends DEF Issue, LogInv
    <2> QED BY <1>1, <1>2, <2>2, <2>3 DEF EventsCount
<1>4. CASE ~AttestNext
    <2>1. nonces' = nonces
        BY <1>4, RecordsUntouched, MarkRevokedEffect DEF RevokeNext, Revoke, RevokeOnBehalf
    <2> QED BY <1>1, <1>2, <2>1 DEF EventsCount
<1> QED BY <1>3, <1>4

\* The contracts always keep it up.
LEMMA ServiceKeeps == Spec => []ServiceInv
<1>1. TypeOK /\ UIDsAreUsedUp /\ LogInv /\ [Next]_vars => LogInv'
    BY LogStep DEF Told
<1>2. Init => EventsCount
    <2> SUFFICES ASSUME Init PROVE EventsCount
        OBVIOUS
    <2>1. Len(log) = 0 /\ \A a \in Account : nonces[a] = 0
        BY DEF Init, ChainInit
    <2> QED BY <2>1, ChainAssumption DEF EventsCount
<1> QED BY <1>1, <1>2, LogStart, EventsCountStep, TypeCorrect, UIDsUsedUp, PTL DEF Spec, ServiceInv

-----------------------------------------------------------------------------
(* A step of the contracts, to the indexer *)

\* A stored UID has a nonce within the bound.
LEMMA UIDsAreBounded == ServiceInv => DOMAIN attestations \subseteq ContractUID
<1> SUFFICES ASSUME ServiceInv, NEW u \in DOMAIN attestations PROVE u \in ContractUID
    OBVIOUS
<1>1. /\ u \in AttestationUID /\ u.attester \in Account
      /\ u.nonce \in Nat /\ u.nonce < nonces[u.attester]
    BY DEF ServiceInv, TypeOK, UIDsAreUsedUp, AttestationUID, AttestationRecord
<1>2. /\ Len(log) \in Nat /\ Len(log) <= MaxEvents /\ MaxEvents \in Nat
      /\ nonces[u.attester] \in Nat /\ nonces[u.attester] <= Len(log)
    BY <1>1, ChainAssumption DEF ServiceInv, EventsCount, TypeOK, LogInv
<1>3. u.nonce \in 0 .. MaxEvents
    BY <1>1, <1>2
<1> QED BY <1>1, <1>3 DEF AttestationUID, ContractUID

\* What the contracts emit is one of the events the indexer knows of.
LEMMA EventsAreContractEvents ==
    ASSUME ServiceInv, ServiceInv', NEW e, Emit(e)
    PROVE  e \in ContractEvent
<1>1. /\ log' \in Seq(Event) /\ log' = Append(log, e) /\ e \in Event /\ log \in Seq(Event)
    BY EmitAppends DEF ServiceInv, LogInv
<1>2. /\ e.type = "AttestationCreated" => e.uid \in DOMAIN attestations'
      /\ e.type = "AttestationRevoked" => e.uid \in DOMAIN attestations'
    BY <1>1, Heard DEF ServiceInv, LogInv, LogReplaysToState
<1>3. e.type \in {"AttestationCreated", "AttestationRevoked"} => e.uid \in ContractUID
    <2>1. (DOMAIN attestations \subseteq ContractUID)'
        BY UIDsAreBounded, PTL
    <2> QED BY <1>2, <2>1
<1> QED BY <1>1, <1>3 DEF Event, ContractEvent

\* What has expired, of what a relying party is told.
LEMMA ExpiredIsSeen == Expired = {u \in DOMAIN View : View[u] = "AttestationExpired"}
BY DEF Expired, View

\* The same after a step.
LEMMA ExpiredIsSeenNext == Expired' = {u \in DOMAIN View' : View'[u] = "AttestationExpired"}
BY DEF Expired, View

\* No transaction makes an attestation expire, or come back: time alone does.
LEMMA TransactionsExpireNothing ==
    ASSUME ServiceInv, [Next]_vars, ~(AdvanceTime /\ UNCHANGED <<schemas, serviceVars>>)
    PROVE  Expired' = Expired
<1>1. CASE View' = View
    BY <1>1, ExpiredIsSeen, ExpiredIsSeenNext
<1>2. CASE Lifecycle!Issue
    <2>1. PICK u \in DOMAIN View' :
              /\ u \notin DOMAIN View
              /\ View' = [x \in DOMAIN View \cup {u} |-> IF x = u THEN "valid" ELSE View[x]]
        BY <1>2 DEF Lifecycle!Issue, View
    <2> QED BY <2>1, ExpiredIsSeen, ExpiredIsSeenNext
<1>3. CASE Lifecycle!Revoke
    <2>1. PICK u \in DOMAIN View :
              View[u] = "valid" /\ View' = [View EXCEPT ![u] = "revoked"]
        BY <1>3 DEF Lifecycle!Revoke, View
    <2> QED BY <2>1, ExpiredIsSeen, ExpiredIsSeenNext
<1>4. CASE RegistryNext /\ UNCHANGED serviceVars
    BY <1>1, <1>4, NothingShows DEF RegistryNext, Register, serviceVars
<1>5. CASE AttestNext
    BY <1>2, <1>5, IssueShows, ServiceAssumption
       DEF AttestNext, Attest, AttestOnBehalf, ServiceInv
<1>6. CASE RevokeNext
    BY <1>1, <1>3, <1>6, RevocationShows DEF RevokeNext, Revoke, RevokeOnBehalf, ServiceInv
<1>7. CASE AuthorityNext
    BY <1>1, <1>7, NothingShows
       DEF AuthorityNext, RegisterAuthority, SetAuthorityVerification, chainVars, recordVars
<1>8. CASE DelegateNext
    BY <1>1, <1>8, NothingShows DEF DelegateNext, AddDelegate, RemoveDelegate, recordVars
<1>9. CASE UNCHANGED vars
    BY <1>1, <1>9, NothingShows DEF vars
<1> QED BY <1>4, <1>5, <1>6, <1>7, <1>8, <1>9 DEF Next

\* A block that goes by only adds stored attestations to those that have expired.
LEMMA TimeExpiresSome ==
    ASSUME ServiceInv, AdvanceTime, UNCHANGED serviceVars
    PROVE  Expired \subseteq Expired' /\ Expired' \subseteq DOMAIN attestations
<1>1. PICK gone \in SUBSET DOMAIN View :
          View' = [u \in DOMAIN View |-> IF u \in gone THEN "AttestationExpired" ELSE View[u]]
    BY TimeExpires DEF ServiceInv, Lifecycle!Expire, View
<1>2. DOMAIN View = DOMAIN attestations
    BY DEF View
<1> QED BY <1>1, <1>2, ExpiredIsSeen, ExpiredIsSeenNext

\* What the contracts say of a log and what the indexer reads in it are the same.
LEMMA SameReading ==
    /\ Follower!Contracts!CreatedIn(log) = Stream!CreatedIn(log)
    /\ \A e : Follower!Contracts!Legal(log, e) <=> Stream!Legal(log, e)
<1> USE DEF Follower!Contracts!Positions, Follower!Contracts!SchemasIn, Follower!Contracts!CreatedIn,
            Follower!Contracts!RevokedIn, Follower!Contracts!DelegatesIn, Follower!Contracts!Legal,
            Stream!Positions, Stream!SchemasIn, Stream!CreatedIn, Stream!RevokedIn,
            Stream!DelegatesIn, Stream!Legal
<1>1. Follower!Contracts!CreatedIn(log) = Stream!CreatedIn(log)
    OBVIOUS
<1>2. ASSUME NEW e PROVE Follower!Contracts!Legal(log, e) <=> Stream!Legal(log, e)
    OBVIOUS
<1> QED BY ONLY <1>1, <1>2

\* To the indexer, a step of the contracts is a legal event, or attestations expiring.
LEMMA ContractStep ==
    ASSUME ServiceInv, ServiceInv', [Next]_vars, UNCHANGED indexerVars
    PROVE  [Follower!Next]_(Follower!vars)
<1>1. UNCHANGED <<Follower!dbVars, Follower!stateVars, poll, lookups, crashes, Follower!hcsVars>>
    BY DEF indexerVars, Follower!dbVars, Follower!stateVars, Follower!hcsVars
<1>2. CASE log' = log /\ Expired' = Expired
    BY <1>1, <1>2 DEF Follower!vars
<1>3. CASE AdvanceTime /\ UNCHANGED <<schemas, serviceVars>>
    <2> DEFINE us == Expired' \ Expired
    <2>1. Expired \subseteq Expired' /\ Expired' \subseteq DOMAIN attestations /\ log' = log
        BY <1>3, TimeExpiresSome DEF AdvanceTime
    <2>2. us \in SUBSET (Follower!Contracts!CreatedIn(log) \ (Expired \cup {}))
        BY <2>1, SameReading DEF ServiceInv, LogInv, LogReplaysToState
    <2>3. Expired' = Expired \cup us
        BY <2>1
    <2>4. CASE us = {}
        BY <1>2, <2>1, <2>3, <2>4
    <2>5. CASE us # {}
        <3>1. Follower!Expire(us)
            BY <1>1, <2>1, <2>3, <2>5 DEF Follower!Expire
        <3> QED BY <2>2, <3>1 DEF Follower!Next, Follower!ContractsNext
    <2> QED BY <2>4, <2>5
<1>4. CASE ~(AdvanceTime /\ UNCHANGED <<schemas, serviceVars>>) /\ log' # log
    <2>1. Expired' = Expired
        BY <1>4, TransactionsExpireNothing
    <2>2. PICK e : Emit(e)
        BY <1>4, OneEvent
    <2>3. /\ Len(log) < MaxEvents /\ log' = Append(log, e) /\ log'[Len(log')] = e
          /\ e \in ContractEvent
        BY <2>2, EmitAppends, EventsAreContractEvents DEF ServiceInv, LogInv
    <2>4. Stream!Legal(log, e)
        BY <1>4, <2>3, LogStep DEF ServiceInv, Told, Stream!Next
    <2>5. Follower!Emit(e)
        BY <1>1, <2>1, <2>3, <2>4, SameReading DEF Follower!Emit
    <2> QED BY <2>3, <2>5 DEF Follower!Next, Follower!ContractsNext
<1>5. CASE ~(AdvanceTime /\ UNCHANGED <<schemas, serviceVars>>) /\ log' = log
    BY <1>2, <1>5, TransactionsExpireNothing
<1> QED BY <1>3, <1>4, <1>5

-----------------------------------------------------------------------------
(* The theorems *)

\* With an indexer beside them, the contracts are the contracts.
THEOREM ContractsUndisturbed == DeployedSpec => Spec
<1>1. [DeployedNext]_deployedVars => [Next]_vars
    BY DEF DeployedNext, deployedVars, vars
<1> QED BY <1>1, PTL DEF DeployedSpec, DeployedInit, Spec

\* With the contracts before it, the indexer is the indexer.
THEOREM IndexerFollows == DeployedSpec => FollowsTheContracts
<1>1. ServiceInv /\ ServiceInv' /\ [DeployedNext]_deployedVars => [Follower!Next]_(Follower!vars)
    <2> SUFFICES ASSUME ServiceInv, ServiceInv', [DeployedNext]_deployedVars
                 PROVE  [Follower!Next]_(Follower!vars)
        OBVIOUS
    <2>1. CASE [Next]_vars /\ UNCHANGED indexerVars
        BY <2>1, ContractStep
    <2>2. CASE Follower!IndexerNext
        BY <2>2 DEF Follower!Next
    <2> QED BY <2>1, <2>2 DEF DeployedNext, deployedVars, vars
<1> QED BY <1>1, ContractsUndisturbed, ServiceKeeps, PTL
        DEF DeployedSpec, DeployedInit, FollowsTheContracts, Follower!Spec

\* What is proved of an indexer is true of this one.
LEMMA TheoremsApply == FollowsTheContracts => Indexing!Spec
<1>1. [Follower!Next]_(Follower!vars) => [Indexing!Next]_(Indexing!vars)
    BY SameIndexer
       DEF Follower!vars, Follower!dbVars, Follower!stateVars, Follower!hcsVars,
           Indexing!vars, Indexing!dbVars, Indexing!stateVars, Indexing!hcsVars
<1> QED BY <1>1, SameIndexer, PTL DEF FollowsTheContracts, Follower!Spec, Indexing!Spec

\* What a row says, the contracts say.
THEOREM RowsStand == DeployedSpec => []RowsAreOnChain
<1>1. LogReplaysToState /\ Indexing!DatabaseSaysWhatHappened => RowsAreOnChain
    <2>1. /\ Indexing!Contracts!SchemasIn(log) = Stream!SchemasIn(log)
          /\ Indexing!Contracts!CreatedIn(log) = Stream!CreatedIn(log)
          /\ Indexing!Contracts!RevokedIn(log) = Stream!RevokedIn(log)
          /\ Indexing!Contracts!AuthoritiesIn(log) = Stream!AuthoritiesIn(log)
        BY DEF Indexing!Contracts!SchemasIn, Indexing!Contracts!CreatedIn,
               Indexing!Contracts!RevokedIn, Indexing!Contracts!AuthoritiesIn,
               Indexing!Contracts!Positions, Stream!SchemasIn, Stream!CreatedIn,
               Stream!RevokedIn, Stream!AuthoritiesIn, Stream!Positions
    <2> QED BY <2>1 DEF LogReplaysToState, Indexing!DatabaseSaysWhatHappened, RowsAreOnChain
<1>2. DeployedSpec => Indexing!Spec
    BY IndexerFollows, TheoremsApply, PTL
<1>3. Indexing!Spec => []Indexing!DatabaseSaysWhatHappened
    BY Indexing!DatabaseIsTrue, IndexerIsConfigured DEF Indexing!IndexerAssumption
<1>4. DeployedSpec => []LogReplaysToState
    BY LogReplays, ContractsUndisturbed, PTL
<1> QED BY <1>1, <1>2, <1>3, <1>4, PTL

\* What the topics tell, the contracts say, and those of a schema of that schema.
THEOREM AuditsStand == DeployedSpec => []AuditIsOnChain
<1>1. ServiceInv /\ Indexing!AuditTrail => AuditIsOnChain
    <2> SUFFICES ASSUME ServiceInv, Indexing!AuditTrail PROVE AuditIsOnChain
        OBVIOUS
    <2>1. ASSUME NEW k \in DOMAIN log, Indexing!Decodable(log[k]) PROVE Stands(log[k])
        <3>1. /\ log[k].type = "SchemaRegistered" => log[k].uid \in Stream!SchemasIn(log)
              /\ log[k].type = "AttestationCreated" => log[k].uid \in Stream!CreatedIn(log)
              /\ log[k].type = "AttestationRevoked" => log[k].uid \in Stream!RevokedIn(log)
              /\ log[k].type = "AuthorityRegistered" => log[k].authority \in Stream!AuthoritiesIn(log)
            BY <2>1 DEF Stream!SchemasIn, Stream!CreatedIn, Stream!RevokedIn, Stream!AuthoritiesIn,
                        Stream!Positions
        <3> QED BY <2>1, <3>1
                DEF ServiceInv, LogInv, LogReplaysToState, Stands, Indexing!Decodable
    <2>2. ASSUME NEW t \in Follower!Global, NEW k \in topicLog[t] PROVE Stands(log[k])
        <3>1. k \in DOMAIN log /\ Indexing!Decodable(log[k])
            BY DEF Indexing!AuditTrail, Indexing!Tellable, Indexing!Shows, Indexing!Global,
                   Follower!Global
        <3> QED BY <2>1, <3>1
    <2>3. ASSUME NEW s \in SchemaUID, NEW n \in DOMAIN schemaTopics[s], NEW k \in schemaTopics[s][n]
          PROVE  Stands(log[k]) /\ Follower!SchemaOf(log[k]) = s
        <3>1. <<s, k>> \in Indexing!Announced
            BY DEF Indexing!AuditTrail, Indexing!TopicsAbout
        <3>2. k \in DOMAIN log /\ Indexing!Decodable(log[k]) /\ Indexing!SchemaOf(log[k]) = s
            BY <3>1 DEF Indexing!Announced
        <3> QED BY <2>1, <3>2 DEF Follower!SchemaOf, Indexing!SchemaOf
    <2> QED BY <2>2, <2>3 DEF AuditIsOnChain
<1>2. DeployedSpec => Indexing!Spec
    BY IndexerFollows, TheoremsApply, PTL
<1>3. Indexing!Spec => []Indexing!AuditTrail
    BY Indexing!AuditTrailKept, IndexerIsConfigured DEF Indexing!IndexerAssumption
<1>4. DeployedSpec => []ServiceInv
    BY ServiceKeeps, ContractsUndisturbed, PTL
<1> QED BY <1>1, <1>2, <1>3, <1>4, PTL
=============================================================================
