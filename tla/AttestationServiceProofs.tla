---------------------- MODULE AttestationServiceProofs ----------------------
(***************************************************************************)
(* Theorems about AttestationService, for every set of accounts, schemas,  *)
(* payloads and every bound.                                               *)
(***************************************************************************)
EXTENDS AttestationService, TLAPS, FiniteSetTheorems

-----------------------------------------------------------------------------
(* The list of delegates *)

\* removeDelegate's loop leaves a list of addresses.
LEMMA RemoveBySwapType ==
    ASSUME NEW list \in Seq(Account), NEW d
    PROVE  RemoveBySwap(list, d) \in Seq(Account)
<1> DEFINE matches == {i \in DOMAIN list : list[i] = d}
           i == CHOOSE m \in matches : \A n \in matches : m <= n
           shorter == [k \in 1 .. Len(list) - 1 |-> IF k = i THEN list[Len(list)] ELSE list[k]]
<1>1. CASE matches = {}
    BY <1>1 DEF RemoveBySwap
<1>2. CASE matches # {}
    <2>1. Len(list) \in Nat \ {0} /\ DOMAIN list = 1 .. Len(list)
        BY <1>2
    <2>2. \A k \in 1 .. Len(list) : list[k] \in Account
        BY <2>1
    <2>3. shorter \in [1 .. Len(list) - 1 -> Account]
        BY <2>1, <2>2
    <2>4. shorter \in Seq(Account)
        BY <2>1, <2>3, SMT
    <2>5. RemoveBySwap(list, d) = shorter
        BY <1>2 DEF RemoveBySwap
    <2> QED BY <2>4, <2>5
<1> QED BY <1>1, <1>2

-----------------------------------------------------------------------------
(* The type invariant *)

\* What Issue does to the records and the nonces keeps their types.
LEMMA IssueType ==
    ASSUME TypeOK, NEW attester \in Account, NEW schemaUid \in DOMAIN schemas,
           NEW subject \in Subject, NEW data \in Payload, NEW expirationTime \in Expiration,
           Issue(attester, schemaUid, subject, data, expirationTime)
    PROVE  TypeOK'
<1> DEFINE nonce == nonces[attester]
           uid   == GenerateAttestationUID(schemaUid, subject, attester, data, nonce)
           rec   == [schemaUid |-> schemaUid, attester |-> attester, subject |-> subject,
                     data |-> data, timestamp |-> now, expirationTime |-> expirationTime,
                     revoked |-> FALSE, revocationTime |-> 0, nonce |-> nonce]
<1>1. nonce \in Nat /\ schemaUid \in SchemaUID /\ now \in Nat \ {0} /\ expirationTime \in Nat
    BY ChainAssumption, ServiceAssumption DEF TypeOK
<1>2. uid \in AttestationUID
    BY <1>1 DEF GenerateAttestationUID, AttestationUID
<1>3. rec \in AttestationRecord
    BY <1>1 DEF AttestationRecord
<1>4. attestations' = Put(attestations, uid, rec)
    BY DEF Issue
<1>5. DOMAIN attestations' = DOMAIN attestations \cup {uid}
      /\ attestations'[uid] = rec
      /\ \A x \in DOMAIN attestations : x # uid => attestations'[x] = attestations[x]
    <2> HIDE DEF uid, rec
    <2> QED BY <1>4 DEF Put
<1>6. /\ DOMAIN attestations' \subseteq AttestationUID
      /\ \A u \in DOMAIN attestations' : attestations'[u] \in AttestationRecord
    <2> HIDE DEF uid, rec
    <2> QED BY <1>2, <1>3, <1>5 DEF TypeOK
<1>7. nonces' \in [Account -> Nat]
    BY <1>1 DEF TypeOK, Issue
<1>8. /\ now' = now /\ schemas' = schemas /\ authorities' = authorities
      /\ delegates' = delegates /\ delegateList' = delegateList
    BY DEF Issue, delegateVars
<1> QED BY <1>6, <1>7, <1>8 DEF TypeOK

\* What MarkRevoked does to one record keeps the types.
LEMMA MarkRevokedType ==
    ASSUME TypeOK, NEW uid, MarkRevoked(uid)
    PROVE  TypeOK'
<1>1. uid \in DOMAIN attestations /\ now \in Nat
    BY ChainAssumption DEF TypeOK, MarkRevoked, Revocable
<1>2. attestations' = [attestations EXCEPT ![uid] = RevokedRecord(@)]
    BY DEF MarkRevoked
<1>3. RevokedRecord(attestations[uid]) \in AttestationRecord
    BY <1>1 DEF TypeOK, AttestationRecord, RevokedRecord
<1>4. /\ DOMAIN attestations' = DOMAIN attestations
      /\ \A u \in DOMAIN attestations' : attestations'[u] \in AttestationRecord
    BY <1>1, <1>2, <1>3 DEF TypeOK
<1>5. /\ now' = now /\ schemas' = schemas /\ nonces' = nonces /\ authorities' = authorities
      /\ delegates' = delegates /\ delegateList' = delegateList
    BY DEF MarkRevoked, delegateVars
<1> QED BY <1>4, <1>5 DEF TypeOK

\* Every step keeps the types.
LEMMA TypeStep == TypeOK /\ [Next]_vars => TypeOK'
<1> SUFFICES ASSUME TypeOK, [Next]_vars PROVE TypeOK'
    OBVIOUS
<1> USE ChainAssumption, RegistryAssumption, ServiceAssumption
<1>1. CASE AdvanceTime /\ UNCHANGED <<schemas, serviceVars>>
    <2>1. now' \in 1 .. MaxTime
        BY <1>1 DEF AdvanceTime, TypeOK
    <2> QED BY <1>1, <2>1 DEF serviceVars, TypeOK
<1>2. CASE RegistryNext /\ UNCHANGED serviceVars
    <2>1. PICK caller \in Account, definition \in Definition,
               resolver \in Contract \cup {NoResolver}, revocable \in BOOLEAN :
                   Register(caller, definition, resolver, revocable)
        BY <1>2 DEF RegistryNext
    <2> DEFINE uid == GenerateSchemaUID(definition, resolver, revocable)
               rec == [definition |-> definition, authority |-> caller, resolver |-> resolver,
                       revocable |-> revocable, timestamp |-> now]
    <2>2. uid \in SchemaUID
        BY DEF GenerateSchemaUID, SchemaUID
    <2>3. rec \in SchemaRecord
        BY DEF SchemaRecord, TypeOK
    <2>4. schemas' = Put(schemas, uid, rec) /\ now' = now
        BY <2>1 DEF Register
    <2>5. DOMAIN schemas' \subseteq SchemaUID /\ \A s \in DOMAIN schemas' : schemas'[s] \in SchemaRecord
        <3> HIDE DEF uid, rec
        <3> QED BY <2>2, <2>3, <2>4 DEF Put, TypeOK
    <2> QED BY <1>2, <2>4, <2>5 DEF serviceVars, TypeOK
<1>3. CASE AttestNext
    BY <1>3, IssueType DEF AttestNext, Attest, AttestOnBehalf
<1>4. CASE RevokeNext
    BY <1>4, MarkRevokedType DEF RevokeNext, Revoke, RevokeOnBehalf
<1>5. CASE AuthorityNext
    <2>1. ASSUME NEW caller \in Account, NEW metadata \in Metadata,
                 RegisterAuthority(caller, metadata)
          PROVE  TypeOK'
        <3>1. NewAuthority(caller, metadata) \in AuthorityRecord
            BY DEF NewAuthority, AuthorityRecord, TypeOK
        <3>2. /\ DOMAIN authorities' \subseteq Account
              /\ \A a \in DOMAIN authorities' : authorities'[a] \in AuthorityRecord
            BY <2>1, <3>1 DEF RegisterAuthority, Put, TypeOK
        <3> QED BY <2>1, <3>2 DEF RegisterAuthority, recordVars, delegateVars, TypeOK
    <2>2. ASSUME NEW caller \in Account, NEW addr \in DOMAIN authorities,
                 NEW verified \in BOOLEAN, SetAuthorityVerification(caller, addr, verified)
          PROVE  TypeOK'
        <3>1. [authorities[addr] EXCEPT !.isVerified = verified] \in AuthorityRecord
            BY DEF AuthorityRecord, TypeOK
        <3>2. /\ DOMAIN authorities' \subseteq Account
              /\ \A a \in DOMAIN authorities' : authorities'[a] \in AuthorityRecord
            BY <2>2, <3>1 DEF SetAuthorityVerification, TypeOK
        <3> QED BY <2>2, <3>2 DEF SetAuthorityVerification, chainVars, recordVars, delegateVars, TypeOK
    <2> QED BY <1>5, <2>1, <2>2 DEF AuthorityNext
<1>6. CASE DelegateNext
    <2>1. PICK caller \in Account, delegate \in Account :
              AddDelegate(caller, delegate) \/ RemoveDelegate(caller, delegate)
        BY <1>6 DEF DelegateNext
    <2>2. delegates' \in [Account -> SUBSET Account]
        <3>1. delegates \in [Account -> SUBSET Account]
            BY DEF TypeOK
        <3>2. /\ delegates[caller] \cup {delegate} \in SUBSET Account
              /\ delegates[caller] \ {delegate} \in SUBSET Account
            BY <3>1
        <3>3. CASE AddDelegate(caller, delegate)
            BY <3>1, <3>2, <3>3 DEF AddDelegate
        <3>4. CASE RemoveDelegate(caller, delegate)
            BY <3>1, <3>2, <3>4 DEF RemoveDelegate
        <3> QED BY <2>1, <3>3, <3>4
    <2>3. delegateList' \in [Account -> Seq(Account)]
        <3>1. delegateList[caller] \in Seq(Account)
            BY DEF TypeOK
        <3>2. /\ Append(delegateList[caller], delegate) \in Seq(Account)
              /\ RemoveBySwap(delegateList[caller], delegate) \in Seq(Account)
            BY <3>1, RemoveBySwapType
        <3> QED BY <2>1, <3>2 DEF AddDelegate, RemoveDelegate, TypeOK
    <2> QED BY <2>1, <2>2, <2>3 DEF AddDelegate, RemoveDelegate, recordVars, TypeOK
<1>7. CASE UNCHANGED vars
    BY <1>7 DEF vars, TypeOK
<1> QED BY <1>1, <1>2, <1>3, <1>4, <1>5, <1>6, <1>7 DEF Next

\* The storage of the two contracts always has the types the code declares.
THEOREM TypeCorrect == Spec => []TypeOK
<1>1. Init => TypeOK
    BY ChainAssumption DEF Init, ChainInit, RegistryInit, TypeOK
<1> QED BY <1>1, TypeStep, PTL DEF Spec

-----------------------------------------------------------------------------
(* UIDs and nonces *)

\* What Issue writes: one new key, the record of the arguments, one nonce more.
LEMMA IssueEffect ==
    ASSUME TypeOK, NEW attester \in Account, NEW schemaUid, NEW subject, NEW data,
           NEW expirationTime,
           Issue(attester, schemaUid, subject, data, expirationTime)
    PROVE  \E uid :
             /\ uid.attester = attester /\ uid.nonce = nonces[attester]
             /\ DOMAIN attestations' = DOMAIN attestations \cup {uid}
             /\ \A u \in DOMAIN attestations : u # uid => attestations'[u] = attestations[u]
             /\ attestations'[uid].attester = attester
             /\ attestations'[uid].nonce = nonces[attester]
             /\ nonces' = [nonces EXCEPT ![attester] = @ + 1]
<1> DEFINE uid == GenerateAttestationUID(schemaUid, subject, attester, data, nonces[attester])
           rec == [schemaUid |-> schemaUid, attester |-> attester, subject |-> subject,
                   data |-> data, timestamp |-> now, expirationTime |-> expirationTime,
                   revoked |-> FALSE, revocationTime |-> 0, nonce |-> nonces[attester]]
<1>1. uid.attester = attester /\ uid.nonce = nonces[attester]
    BY DEF GenerateAttestationUID
<1>2. rec.attester = attester /\ rec.nonce = nonces[attester]
    OBVIOUS
<1>3. attestations' = Put(attestations, uid, rec)
    BY DEF Issue
<1>4. /\ DOMAIN attestations' = DOMAIN attestations \cup {uid}
      /\ attestations'[uid] = rec
      /\ \A u \in DOMAIN attestations : u # uid => attestations'[u] = attestations[u]
    <2> HIDE DEF uid, rec
    <2> QED BY <1>3 DEF Put
<1>5. nonces' = [nonces EXCEPT ![attester] = @ + 1]
    BY DEF Issue
<1> HIDE DEF uid, rec
<1> QED BY <1>1, <1>2, <1>4, <1>5

\* What MarkRevoked writes: the flag and the time, in one record not revoked so far.
LEMMA MarkRevokedEffect ==
    ASSUME TypeOK, NEW uid, MarkRevoked(uid)
    PROVE  /\ uid \in DOMAIN attestations /\ ~attestations[uid].revoked
           /\ attestations[uid] \in AttestationRecord
           /\ attestations' = [attestations EXCEPT ![uid] = RevokedRecord(@)]
           /\ nonces' = nonces
BY DEF TypeOK, MarkRevoked, Revocable

\* No step but an attestation or a revocation touches the records or the nonces.
LEMMA RecordsUntouched ==
    ASSUME [Next]_vars, ~AttestNext, ~RevokeNext
    PROVE  attestations' = attestations /\ nonces' = nonces
<1>1. CASE AdvanceTime /\ UNCHANGED <<schemas, serviceVars>>
    BY <1>1 DEF serviceVars
<1>2. CASE RegistryNext /\ UNCHANGED serviceVars
    BY <1>2 DEF serviceVars
<1>3. CASE AuthorityNext
    BY <1>3 DEF AuthorityNext, RegisterAuthority, SetAuthorityVerification, recordVars
<1>4. CASE DelegateNext
    BY <1>4 DEF DelegateNext, AddDelegate, RemoveDelegate, recordVars
<1>5. CASE UNCHANGED vars
    BY <1>5 DEF vars
<1> QED BY <1>1, <1>2, <1>3, <1>4, <1>5 DEF Next

\* UIDsAreUsedUp is inductive with the types: a new record takes the next nonce,
\* and a revocation leaves the attester and the nonce of a record alone.
LEMMA UsedUpStep == TypeOK /\ UIDsAreUsedUp /\ [Next]_vars => UIDsAreUsedUp'
<1> SUFFICES ASSUME TypeOK, UIDsAreUsedUp, [Next]_vars PROVE UIDsAreUsedUp'
    OBVIOUS
<1>0. /\ nonces \in [Account -> Nat]
      /\ \A u \in DOMAIN attestations :
            attestations[u].attester \in Account /\ attestations[u].nonce \in Nat
    BY DEF TypeOK, AttestationRecord
<1>1. ASSUME NEW attester \in Account, NEW schemaUid, NEW subject, NEW data,
             NEW expirationTime, Issue(attester, schemaUid, subject, data, expirationTime)
      PROVE  UIDsAreUsedUp'
    <2>1. PICK uid :
             /\ uid.attester = attester /\ uid.nonce = nonces[attester]
             /\ DOMAIN attestations' = DOMAIN attestations \cup {uid}
             /\ \A u \in DOMAIN attestations : u # uid => attestations'[u] = attestations[u]
             /\ attestations'[uid].attester = attester
             /\ attestations'[uid].nonce = nonces[attester]
             /\ nonces' = [nonces EXCEPT ![attester] = @ + 1]
        BY <1>1, IssueEffect
    <2> SUFFICES ASSUME NEW u \in DOMAIN attestations'
                 PROVE  /\ u.attester = attestations'[u].attester
                        /\ u.nonce = attestations'[u].nonce
                        /\ attestations'[u].nonce < nonces'[attestations'[u].attester]
        BY DEF UIDsAreUsedUp
    <2>2. CASE u = uid
        BY <1>0, <2>1, <2>2
    <2>3. CASE u # uid
        <3>1. u \in DOMAIN attestations /\ attestations'[u] = attestations[u]
            BY <2>1, <2>3
        <3>2. /\ u.attester = attestations[u].attester /\ u.nonce = attestations[u].nonce
              /\ attestations[u].nonce < nonces[attestations[u].attester]
            BY <3>1 DEF UIDsAreUsedUp
        <3>3. nonces[attestations[u].attester] <= nonces'[attestations[u].attester]
            BY <1>0, <2>1, <3>1
        <3> QED BY <1>0, <2>1, <3>1, <3>2, <3>3
    <2> QED BY <2>2, <2>3
<1>2. ASSUME NEW uid, MarkRevoked(uid) PROVE UIDsAreUsedUp'
    <2>1. /\ uid \in DOMAIN attestations /\ attestations[uid] \in AttestationRecord
          /\ attestations' = [attestations EXCEPT ![uid] = RevokedRecord(@)]
          /\ nonces' = nonces
        BY <1>2, MarkRevokedEffect
    <2>2. /\ RevokedRecord(attestations[uid]).attester = attestations[uid].attester
          /\ RevokedRecord(attestations[uid]).nonce = attestations[uid].nonce
        BY <2>1 DEF RevokedRecord, AttestationRecord
    <2> QED BY <2>1, <2>2 DEF UIDsAreUsedUp
<1>3. CASE AttestNext
    BY <1>1, <1>3 DEF AttestNext, Attest, AttestOnBehalf
<1>4. CASE RevokeNext
    BY <1>2, <1>4 DEF RevokeNext, Revoke, RevokeOnBehalf
<1>5. CASE ~AttestNext /\ ~RevokeNext
    BY <1>5, RecordsUntouched DEF UIDsAreUsedUp
<1> QED BY <1>3, <1>4, <1>5

\* The UID of the next attestation is never in storage.
LEMMA NextUIDIsNew ==
    ASSUME TypeOK, UIDsAreUsedUp, NEW uid,
           uid.attester \in Account, uid.nonce = nonces[uid.attester]
    PROVE  uid \notin DOMAIN attestations
BY DEF TypeOK, UIDsAreUsedUp

\* A UID names its own record, with a nonce that is used up, for ever.
THEOREM UIDsUsedUp == Spec => []UIDsAreUsedUp
<1>1. Init => UIDsAreUsedUp
    BY DEF Init, UIDsAreUsedUp
<1> QED BY <1>1, UsedUpStep, TypeCorrect, PTL DEF Spec

\* An attestation is never overwritten; all it ever sees is one revocation.
THEOREM RecordsAreKept == Spec => RecordsOnlyGetRevoked
<1> DEFINE Kept == \A u \in DOMAIN attestations :
          /\ u \in DOMAIN attestations'
          /\ \/ attestations'[u] = attestations[u]
             \/ /\ ~attestations[u].revoked
                /\ attestations'[u] = [attestations[u] EXCEPT !.revoked = TRUE,
                                                              !.revocationTime = now]
<1>1. ASSUME TypeOK, UIDsAreUsedUp, [Next]_vars PROVE Kept
    <2>1. ASSUME NEW attester \in Account, NEW schemaUid, NEW subject, NEW data,
                 NEW expirationTime, Issue(attester, schemaUid, subject, data, expirationTime)
          PROVE  Kept
        <3>1. PICK uid :
                 /\ uid.attester = attester /\ uid.nonce = nonces[attester]
                 /\ DOMAIN attestations' = DOMAIN attestations \cup {uid}
                 /\ \A u \in DOMAIN attestations : u # uid => attestations'[u] = attestations[u]
            BY <1>1, <2>1, IssueEffect
        <3>2. uid \notin DOMAIN attestations
            BY <1>1, <3>1, NextUIDIsNew
        <3> QED BY <3>1, <3>2
    <2>2. ASSUME NEW uid, MarkRevoked(uid) PROVE Kept
        BY <1>1, <2>2, MarkRevokedEffect DEF RevokedRecord
    <2>3. CASE AttestNext
        BY <2>1, <2>3 DEF AttestNext, Attest, AttestOnBehalf
    <2>4. CASE RevokeNext
        BY <2>2, <2>4 DEF RevokeNext, Revoke, RevokeOnBehalf
    <2>5. CASE ~AttestNext /\ ~RevokeNext
        BY <1>1, <2>5, RecordsUntouched
    <2> QED BY <2>3, <2>4, <2>5
<1> QED BY <1>1, TypeCorrect, UIDsUsedUp, PTL DEF Spec, RecordsOnlyGetRevoked

-----------------------------------------------------------------------------
(* Nonces *)

\* Nonces are handed out in order, one attestation each, delegates or not.
THEOREM NoncesCount == Spec => []NoncesCountAttestations
<1> DEFINE Mine(a) == {u \in DOMAIN attestations : attestations[u].attester = a}
           Used(a) == {attestations[u].nonce : u \in Mine(a)}
           Once(a) == \A u, v \in Mine(a) : attestations[u].nonce = attestations[v].nonce => u = v
<1>1. ASSUME Init PROVE NoncesCountAttestations
    <2> SUFFICES ASSUME NEW a \in Account
                 PROVE  Used(a) = 0 .. nonces[a] - 1 /\ Once(a)
        BY DEF NoncesCountAttestations
    <2>1. DOMAIN attestations = {} /\ nonces[a] = 0
        BY <1>1 DEF Init
    <2>2. Mine(a) = {} /\ Used(a) = {}
        BY <2>1
    <2>3. 0 .. nonces[a] - 1 = {}
        BY <2>1
    <2> QED BY <2>2, <2>3
<1>2. ASSUME TypeOK, UIDsAreUsedUp, NoncesCountAttestations, [Next]_vars
      PROVE  NoncesCountAttestations'
    <2>0. /\ nonces \in [Account -> Nat]
          /\ \A u \in DOMAIN attestations :
                attestations[u].attester \in Account /\ attestations[u].nonce \in Nat
        BY <1>2 DEF TypeOK, AttestationRecord
    <2>1. ASSUME NEW attester \in Account, NEW schemaUid, NEW subject, NEW data,
                 NEW expirationTime, Issue(attester, schemaUid, subject, data, expirationTime)
          PROVE  NoncesCountAttestations'
        <3>1. PICK uid :
                 /\ uid.attester = attester /\ uid.nonce = nonces[attester]
                 /\ DOMAIN attestations' = DOMAIN attestations \cup {uid}
                 /\ \A u \in DOMAIN attestations : u # uid => attestations'[u] = attestations[u]
                 /\ attestations'[uid].attester = attester
                 /\ attestations'[uid].nonce = nonces[attester]
                 /\ nonces' = [nonces EXCEPT ![attester] = @ + 1]
            BY <1>2, <2>1, IssueEffect
        <3>2. uid \notin DOMAIN attestations
            BY <1>2, <3>1, NextUIDIsNew
        <3> SUFFICES ASSUME NEW a \in Account
                     PROVE  Used(a)' = 0 .. nonces'[a] - 1 /\ Once(a)'
            BY DEF NoncesCountAttestations
        <3>3. Used(a) = 0 .. nonces[a] - 1 /\ Once(a)
            BY <1>2 DEF NoncesCountAttestations
        <3>4. \A u \in DOMAIN attestations : attestations'[u] = attestations[u]
            BY <3>1, <3>2
        <3>5. CASE a = attester
            <4>1. Mine(a)' = Mine(a) \cup {uid}
                BY <3>1, <3>4, <3>5
            <4>2. Used(a)' = Used(a) \cup {nonces[a]}
                BY <3>1, <3>2, <3>4, <3>5, <4>1
            <4>3. nonces'[a] = nonces[a] + 1 /\ nonces[a] \in Nat
                BY <2>0, <3>1, <3>5
            <4>4. (0 .. nonces[a] - 1) \cup {nonces[a]} = 0 .. nonces'[a] - 1
                BY <4>3
            <4>5. nonces[a] \notin Used(a)
                BY <3>3, <4>3
            <4>6. Once(a)'
                <5> SUFFICES ASSUME NEW u \in Mine(a)', NEW v \in Mine(a)',
                                    attestations'[u].nonce = attestations'[v].nonce
                             PROVE  u = v
                    OBVIOUS
                <5>1. CASE u \in Mine(a) /\ v \in Mine(a)
                    BY <3>3, <3>4, <5>1
                <5>2. CASE u = uid /\ v \in Mine(a)
                    BY <3>1, <3>4, <3>5, <4>5, <5>2
                <5>3. CASE u \in Mine(a) /\ v = uid
                    BY <3>1, <3>4, <3>5, <4>5, <5>3
                <5>4. CASE u = uid /\ v = uid
                    BY <5>4
                <5> QED BY <4>1, <5>1, <5>2, <5>3, <5>4
            <4> QED BY <3>3, <4>2, <4>4, <4>6
        <3>6. CASE a # attester
            <4>1. Mine(a)' = Mine(a)
                BY <3>1, <3>4, <3>6
            <4>2. Used(a)' = Used(a) /\ Once(a)'
                BY <3>3, <3>4, <4>1
            <4>3. nonces'[a] = nonces[a]
                BY <2>0, <3>1, <3>6
            <4> QED BY <3>3, <4>2, <4>3
        <3> QED BY <3>5, <3>6
    <2>2. ASSUME NEW uid, MarkRevoked(uid) PROVE NoncesCountAttestations'
        <3>1. /\ uid \in DOMAIN attestations /\ attestations[uid] \in AttestationRecord
              /\ attestations' = [attestations EXCEPT ![uid] = RevokedRecord(@)]
              /\ nonces' = nonces
            BY <1>2, <2>2, MarkRevokedEffect
        <3>2. /\ RevokedRecord(attestations[uid]).attester = attestations[uid].attester
              /\ RevokedRecord(attestations[uid]).nonce = attestations[uid].nonce
            BY <3>1 DEF RevokedRecord, AttestationRecord
        <3>3. /\ DOMAIN attestations' = DOMAIN attestations
              /\ \A u \in DOMAIN attestations :
                    /\ attestations'[u].attester = attestations[u].attester
                    /\ attestations'[u].nonce = attestations[u].nonce
            BY <3>1, <3>2
        <3> SUFFICES ASSUME NEW a \in Account
                     PROVE  Used(a)' = 0 .. nonces'[a] - 1 /\ Once(a)'
            BY DEF NoncesCountAttestations
        <3>4. Used(a) = 0 .. nonces[a] - 1 /\ Once(a)
            BY <1>2 DEF NoncesCountAttestations
        <3>5. Mine(a)' = Mine(a)
            BY <3>3
        <3>6. Used(a)' = Used(a) /\ Once(a)'
            BY <3>3, <3>4, <3>5
        <3> QED BY <3>1, <3>4, <3>6
    <2>3. CASE AttestNext
        BY <2>1, <2>3 DEF AttestNext, Attest, AttestOnBehalf
    <2>4. CASE RevokeNext
        BY <2>2, <2>4 DEF RevokeNext, Revoke, RevokeOnBehalf
    <2>5. CASE ~AttestNext /\ ~RevokeNext
        BY <1>2, <2>5, RecordsUntouched DEF NoncesCountAttestations
    <2> QED BY <2>3, <2>4, <2>5
<1> QED BY <1>1, <1>2, TypeCorrect, UIDsUsedUp, PTL DEF Spec

-----------------------------------------------------------------------------
(* Schemas and authorities *)

\* Only a registration touches the schemas.
LEMMA SchemasUntouched ==
    ASSUME [Next]_vars, ~RegistryNext
    PROVE  schemas' = schemas
<1>1. CASE AdvanceTime /\ UNCHANGED <<schemas, serviceVars>>
    BY <1>1
<1>2. CASE AttestNext
    <2>1. ASSUME NEW attester, NEW schemaUid, NEW subject, NEW data, NEW expirationTime,
                 Issue(attester, schemaUid, subject, data, expirationTime)
          PROVE  schemas' = schemas
        BY <2>1 DEF Issue
    <2> QED BY <1>2, <2>1 DEF AttestNext, Attest, AttestOnBehalf
<1>3. CASE RevokeNext
    BY <1>3 DEF RevokeNext, Revoke, RevokeOnBehalf, MarkRevoked
<1>4. CASE AuthorityNext
    BY <1>4 DEF AuthorityNext, RegisterAuthority, SetAuthorityVerification
<1>5. CASE DelegateNext
    BY <1>5 DEF DelegateNext, AddDelegate, RemoveDelegate
<1>6. CASE UNCHANGED vars
    BY <1>6 DEF vars
<1> QED BY <1>1, <1>2, <1>3, <1>4, <1>5, <1>6 DEF Next

\* Only the two functions about authorities touch them.
LEMMA AuthoritiesUntouched ==
    ASSUME [Next]_vars, ~AuthorityNext
    PROVE  authorities' = authorities
<1>1. CASE AdvanceTime /\ UNCHANGED <<schemas, serviceVars>>
    BY <1>1 DEF serviceVars
<1>2. CASE RegistryNext /\ UNCHANGED serviceVars
    BY <1>2 DEF serviceVars
<1>3. CASE AttestNext
    <2>1. ASSUME NEW attester, NEW schemaUid, NEW subject, NEW data, NEW expirationTime,
                 Issue(attester, schemaUid, subject, data, expirationTime)
          PROVE  authorities' = authorities
        BY <2>1 DEF Issue
    <2> QED BY <1>3, <2>1 DEF AttestNext, Attest, AttestOnBehalf
<1>4. CASE RevokeNext
    BY <1>4 DEF RevokeNext, Revoke, RevokeOnBehalf, MarkRevoked
<1>5. CASE DelegateNext
    BY <1>5 DEF DelegateNext, AddDelegate, RemoveDelegate
<1>6. CASE UNCHANGED vars
    BY <1>6 DEF vars
<1> QED BY <1>1, <1>2, <1>3, <1>4, <1>5, <1>6 DEF Next

\* A registered schema is never touched again.
THEOREM SchemasAreKept == Spec => SchemasNeverChange
<1> DEFINE Kept == \A s \in DOMAIN schemas : s \in DOMAIN schemas' /\ schemas'[s] = schemas[s]
<1>1. ASSUME [Next]_vars PROVE Kept
    <2>1. ASSUME NEW caller, NEW definition, NEW resolver, NEW revocable,
                 Register(caller, definition, resolver, revocable)
          PROVE  Kept
        BY <2>1 DEF Register, IsDuplicate, Put
    <2>2. CASE RegistryNext
        BY <2>1, <2>2 DEF RegistryNext
    <2>3. CASE ~RegistryNext
        BY <1>1, <2>3, SchemasUntouched
    <2> QED BY <2>2, <2>3
<1> QED BY <1>1, PTL DEF Spec, SchemasNeverChange

\* An authority that registers again is not verified any more.
THEOREM VerificationIsOfMetadata == Spec => VerificationCoversMetadata
<1> DEFINE Covered == \A a \in DOMAIN authorities :
          authorities[a].isVerified /\ authorities'[a].isVerified
              => authorities'[a] = authorities[a]
<1>1. ASSUME TypeOK, [Next]_vars PROVE Covered
    <2>1. ASSUME NEW caller, NEW metadata, RegisterAuthority(caller, metadata) PROVE Covered
        <3>1. ~NewAuthority(caller, metadata).isVerified
            BY DEF NewAuthority
        <3>2. authorities' = Put(authorities, caller, NewAuthority(caller, metadata))
            BY <2>1 DEF RegisterAuthority
        <3> QED BY <3>1, <3>2 DEF Put
    <2>2. ASSUME NEW caller, NEW addr \in DOMAIN authorities, NEW verified \in BOOLEAN,
                 SetAuthorityVerification(caller, addr, verified)
          PROVE  Covered
        <3>1. authorities' = [authorities EXCEPT ![addr].isVerified = verified]
            BY <2>2 DEF SetAuthorityVerification
        <3>2. authorities[addr] \in AuthorityRecord
            BY <1>1 DEF TypeOK
        <3>3. verified /\ authorities[addr].isVerified => authorities'[addr] = authorities[addr]
            BY <3>1, <3>2 DEF AuthorityRecord
        <3>4. authorities'[addr].isVerified = verified
            BY <3>1, <3>2 DEF AuthorityRecord
        <3>5. \A a \in DOMAIN authorities : a # addr => authorities'[a] = authorities[a]
            BY <3>1
        <3> QED BY <3>3, <3>4, <3>5
    <2>3. CASE AuthorityNext
        BY <2>1, <2>2, <2>3 DEF AuthorityNext
    <2>4. CASE ~AuthorityNext
        BY <1>1, <2>4, AuthoritiesUntouched
    <2> QED BY <2>3, <2>4
<1> QED BY <1>1, TypeCorrect, PTL DEF Spec, VerificationCoversMetadata

-----------------------------------------------------------------------------
(* The contract keeps the delegates of an authority twice, as a mapping and as a *)
(* list.                                                                         *)

\* The strengthening: a list names nobody twice, and names exactly a set.
Lists(list, S) ==
    /\ \A i, j \in 1 .. Len(list) : list[i] = list[j] => i = j
    /\ \A i \in 1 .. Len(list) : list[i] \in S
    /\ \A d \in S : \E i \in 1 .. Len(list) : list[i] = d

ListsDelegates == \A a \in Account : Lists(delegateList[a], delegates[a])

-----------------------------------------------------------------------------
(* Additions and removals *)

\* push of somebody who is not in the list
LEMMA AppendLists ==
    ASSUME NEW list \in Seq(Account), NEW S, Lists(list, S), NEW d \in Account, d \notin S
    PROVE  Lists(Append(list, d), S \cup {d})
<1> DEFINE longer == Append(list, d)
<1>1. /\ Len(list) \in Nat /\ Len(longer) = Len(list) + 1
      /\ longer[Len(list) + 1] = d
      /\ \A i \in 1 .. Len(list) : longer[i] = list[i]
    OBVIOUS
<1>2. \A i \in 1 .. Len(list) : list[i] # d
    BY DEF Lists
<1> HIDE DEF longer
<1>3. \A i, j \in 1 .. Len(longer) : longer[i] = longer[j] => i = j
    <2> SUFFICES ASSUME NEW i \in 1 .. Len(longer), NEW j \in 1 .. Len(longer),
                        longer[i] = longer[j]
                 PROVE  i = j
        OBVIOUS
    <2>1. i \in 1 .. Len(list) \/ i = Len(list) + 1
        BY <1>1
    <2>2. j \in 1 .. Len(list) \/ j = Len(list) + 1
        BY <1>1
    <2> QED BY <1>1, <1>2, <2>1, <2>2 DEF Lists
<1>4. \A i \in 1 .. Len(longer) : longer[i] \in S \cup {d}
    <2> SUFFICES ASSUME NEW i \in 1 .. Len(longer) PROVE longer[i] \in S \cup {d}
        OBVIOUS
    <2>1. i \in 1 .. Len(list) \/ i = Len(list) + 1
        BY <1>1
    <2> QED BY <1>1, <2>1 DEF Lists
<1>5. \A e \in S \cup {d} : \E i \in 1 .. Len(longer) : longer[i] = e
    <2>1. Len(list) + 1 \in 1 .. Len(longer) /\ 1 .. Len(list) \subseteq 1 .. Len(longer)
        BY <1>1
    <2> QED BY <1>1, <2>1 DEF Lists
<1> QED BY <1>3, <1>4, <1>5 DEF Lists, longer

\* The loop of removeDelegate finds the one entry there is: the last entry takes its
\* place, and nobody else is lost or named twice.
LEMMA RemoveBySwapLists ==
    ASSUME NEW list \in Seq(Account), NEW S, Lists(list, S), NEW d \in S
    PROVE  Lists(RemoveBySwap(list, d), S \ {d})
<1> DEFINE n == Len(list)
           matches == {i \in DOMAIN list : list[i] = d}
           k == CHOOSE m \in matches : \A i \in matches : m <= i
           shorter == [i \in 1 .. n - 1 |-> IF i = k THEN list[n] ELSE list[i]]
<1>1. n \in Nat /\ DOMAIN list = 1 .. n
    OBVIOUS
<1>2. PICK at \in 1 .. n : list[at] = d
    BY DEF Lists
<1>3. matches = {at}
    BY <1>1, <1>2 DEF Lists
<1>4. k = at
    BY <1>1, <1>2, <1>3
<1>5. RemoveBySwap(list, d) = shorter
    BY <1>3 DEF RemoveBySwap
<1>6. n \in 1 .. n /\ n - 1 \in Nat
    BY <1>1, <1>2
<1> HIDE DEF k, n, matches
<1>7. Len(shorter) = n - 1
    BY <1>6
<1>8. \A i \in 1 .. n - 1 : shorter[i] = IF i = at THEN list[n] ELSE list[i]
    BY <1>4
<1> HIDE DEF shorter
<1>9. \A i \in 1 .. n - 1 : i \in 1 .. n /\ i # n
    BY <1>6
<1>10. \A i, j \in 1 .. n : list[i] = list[j] => i = j
    BY DEF Lists, n
<1>11. \A i, j \in 1 .. n - 1 : shorter[i] = shorter[j] => i = j
    BY <1>6, <1>8, <1>9, <1>10
<1>12. \A i \in 1 .. n - 1 : shorter[i] \in S \ {d}
    <2> SUFFICES ASSUME NEW i \in 1 .. n - 1 PROVE shorter[i] \in S /\ shorter[i] # d
        OBVIOUS
    <2>1. \A j \in 1 .. n : list[j] \in S
        BY DEF Lists, n
    <2>2. CASE i = at
        BY <1>2, <1>6, <1>8, <1>9, <1>10, <2>1, <2>2
    <2>3. CASE i # at
        BY <1>2, <1>8, <1>9, <1>10, <2>1, <2>3
    <2> QED BY <2>2, <2>3
<1>13. \A e \in S \ {d} : \E i \in 1 .. n - 1 : shorter[i] = e
    <2> SUFFICES ASSUME NEW e \in S, e # d PROVE \E i \in 1 .. n - 1 : shorter[i] = e
        OBVIOUS
    <2>1. PICK j \in 1 .. n : list[j] = e
        BY DEF Lists, n
    <2>2. j # at
        BY <1>2, <2>1
    <2>3. CASE j = n
        <3>1. at \in 1 .. n - 1
            BY <1>2, <1>6, <2>2, <2>3
        <3> QED BY <1>8, <2>1, <2>3, <3>1
    <2>4. CASE j # n
        <3>1. j \in 1 .. n - 1
            BY <1>6, <2>4
        <3> QED BY <1>8, <2>1, <2>2, <3>1
    <2> QED BY <2>3, <2>4
<1> QED BY <1>5, <1>7, <1>11, <1>12, <1>13 DEF Lists

\* No other step touches either copy.
LEMMA DelegatesUntouched ==
    ASSUME [Next]_vars, ~DelegateNext
    PROVE  delegates' = delegates /\ delegateList' = delegateList
<1>1. CASE AdvanceTime /\ UNCHANGED <<schemas, serviceVars>>
    BY <1>1 DEF serviceVars
<1>2. CASE RegistryNext /\ UNCHANGED serviceVars
    BY <1>2 DEF serviceVars
<1>3. CASE AttestNext
    <2>1. ASSUME NEW attester, NEW schemaUid, NEW subject, NEW data, NEW expirationTime,
                 Issue(attester, schemaUid, subject, data, expirationTime)
          PROVE  delegates' = delegates /\ delegateList' = delegateList
        BY <2>1 DEF Issue, delegateVars
    <2> QED BY <1>3, <2>1 DEF AttestNext, Attest, AttestOnBehalf
<1>4. CASE RevokeNext
    BY <1>4 DEF RevokeNext, Revoke, RevokeOnBehalf, MarkRevoked, delegateVars
<1>5. CASE AuthorityNext
    BY <1>5 DEF AuthorityNext, RegisterAuthority, SetAuthorityVerification, delegateVars
<1>6. CASE UNCHANGED vars
    BY <1>6 DEF vars
<1> QED BY <1>1, <1>2, <1>3, <1>4, <1>5, <1>6 DEF Next

\* ListsDelegates is inductive with the types.
LEMMA ListsStep == TypeOK /\ ListsDelegates /\ [Next]_vars => ListsDelegates'
<1> SUFFICES ASSUME TypeOK, ListsDelegates, [Next]_vars PROVE ListsDelegates'
    OBVIOUS
<1>0. delegates \in [Account -> SUBSET Account] /\ delegateList \in [Account -> Seq(Account)]
    BY DEF TypeOK
<1>1. ASSUME NEW caller \in Account, NEW delegate \in Account, AddDelegate(caller, delegate)
      PROVE  ListsDelegates'
    <2>1. Lists(Append(delegateList[caller], delegate), delegates[caller] \cup {delegate})
        BY <1>0, <1>1, AppendLists DEF AddDelegate, ListsDelegates
    <2>2. /\ delegates'[caller] = delegates[caller] \cup {delegate}
          /\ delegateList'[caller] = Append(delegateList[caller], delegate)
          /\ \A a \in Account \ {caller} : /\ delegates'[a] = delegates[a]
                                           /\ delegateList'[a] = delegateList[a]
        BY <1>0, <1>1 DEF AddDelegate
    <2> SUFFICES ASSUME NEW a \in Account PROVE Lists(delegateList'[a], delegates'[a])
        BY DEF ListsDelegates
    <2>3. CASE a = caller
        BY <2>1, <2>2, <2>3
    <2>4. CASE a # caller
        BY <2>2, <2>4 DEF ListsDelegates
    <2> QED BY <2>3, <2>4
<1>2. ASSUME NEW caller \in Account, NEW delegate \in Account, RemoveDelegate(caller, delegate)
      PROVE  ListsDelegates'
    <2>1. Lists(RemoveBySwap(delegateList[caller], delegate), delegates[caller] \ {delegate})
        BY <1>0, <1>2, RemoveBySwapLists DEF RemoveDelegate, ListsDelegates
    <2>2. /\ delegates'[caller] = delegates[caller] \ {delegate}
          /\ delegateList'[caller] = RemoveBySwap(delegateList[caller], delegate)
          /\ \A a \in Account \ {caller} : /\ delegates'[a] = delegates[a]
                                           /\ delegateList'[a] = delegateList[a]
        BY <1>0, <1>2 DEF RemoveDelegate
    <2> SUFFICES ASSUME NEW a \in Account PROVE Lists(delegateList'[a], delegates'[a])
        BY DEF ListsDelegates
    <2>3. CASE a = caller
        BY <2>1, <2>2, <2>3
    <2>4. CASE a # caller
        BY <2>2, <2>4 DEF ListsDelegates
    <2> QED BY <2>3, <2>4
<1>3. CASE DelegateNext
    BY <1>1, <1>2, <1>3 DEF DelegateNext
<1>4. CASE ~DelegateNext
    BY <1>4, DelegatesUntouched DEF ListsDelegates
<1> QED BY <1>3, <1>4

-----------------------------------------------------------------------------
\* A list that names nobody twice is as long as its set.
LEMMA ListsCounts ==
    ASSUME NEW list \in Seq(Account), NEW S, Lists(list, S)
    PROVE  {list[i] : i \in DOMAIN list} = S /\ Len(list) = Cardinality(S)
<1>1. DOMAIN list = 1 .. Len(list) /\ Len(list) \in Nat
    OBVIOUS
<1>2. list \in [1 .. Len(list) -> S]
    BY <1>1 DEF Lists
<1>3. list \in Bijection(1 .. Len(list), S)
    BY <1>2 DEF Lists, Bijection, Injection, Surjection, IsInjective
<1>4. Cardinality(S) = Len(list)
    BY <1>1, <1>3, FS_CountingElements DEF ExistsBijection
<1>5. {list[i] : i \in DOMAIN list} = S
    BY <1>1 DEF Lists
<1> QED BY <1>4, <1>5

\* getDelegates and isDelegate never disagree.
THEOREM DelegatesAgree == Spec => []DelegateListMatchesMap
<1>1. ASSUME Init PROVE ListsDelegates
    <2> SUFFICES ASSUME NEW a \in Account PROVE Lists(delegateList[a], delegates[a])
        BY DEF ListsDelegates
    <2>1. delegateList[a] = <<>> /\ delegates[a] = {}
        BY <1>1 DEF Init
    <2>2. 1 .. Len(<<>>) = {}
        OBVIOUS
    <2> QED BY <2>1, <2>2 DEF Lists
<1>2. TypeOK /\ ListsDelegates => DelegateListMatchesMap
    BY ListsCounts DEF TypeOK, ListsDelegates, DelegateListMatchesMap
<1> QED BY <1>1, <1>2, ListsStep, TypeCorrect, PTL DEF Spec

-----------------------------------------------------------------------------
(* The log and the look-ups: the events tell the whole story, and what a   *)
(* relying party is told follows the life of an attestation.               *)

\* Everything the two contracts emit.
Event ==
    [type : {"SchemaRegistered"}, uid : SchemaUID, authority : Account,
     resolver : Contract \cup {NoResolver}]
    \cup [type : {"AttestationCreated"}, uid : AttestationUID, schemaUid : SchemaUID,
          attester : Account, subject : Subject]
    \cup [type : {"AttestationRevoked"}, uid : AttestationUID, revoker : Account]
    \cup [type : {"AuthorityRegistered"}, authority : Account]
    \cup [type : {"DelegateAdded", "DelegateRemoved"}, authority : Account, delegate : Account]

\* A record is stored under a UID that hashes its own content, and its schema exists.
UIDsNameContents ==
    /\ \A s \in DOMAIN schemas : schemas[s].revocable = s.revocable
    /\ \A u \in DOMAIN attestations :
          /\ attestations[u].schemaUid = u.schemaUid
          /\ u.schemaUid \in DOMAIN schemas

LogInv == log \in Seq(Event) /\ UIDsNameContents /\ LogReplaysToState

-----------------------------------------------------------------------------
(* What one more event tells a reader *)

\* One event more is one position more.
LEMMA AppendPositions ==
    ASSUME NEW S, NEW s \in Seq(S), NEW e \in S
    PROVE  /\ Len(s) \in Nat /\ DOMAIN s = 1 .. Len(s)
           /\ Len(Append(s, e)) = Len(s) + 1
           /\ \A i \in DOMAIN s : Append(s, e)[i] = s[i]
           /\ Append(s, e)[Len(s) + 1] = e
           /\ \A type : Stream!Positions(Append(s, e), type) =
                 Stream!Positions(s, type)
                     \cup IF e.type = type THEN {Len(s) + 1} ELSE {}
<1>1. /\ Len(s) \in Nat /\ DOMAIN s = 1 .. Len(s)
      /\ Append(s, e) \in Seq(S) /\ Len(Append(s, e)) = Len(s) + 1
      /\ DOMAIN Append(s, e) = 1 .. Len(s) + 1
      /\ \A i \in 1 .. Len(s) : Append(s, e)[i] = s[i]
      /\ Append(s, e)[Len(s) + 1] = e
    OBVIOUS
<1>2. 1 .. Len(s) + 1 = (1 .. Len(s)) \cup {Len(s) + 1} /\ Len(s) + 1 \notin 1 .. Len(s)
    BY <1>1
<1>3. ASSUME NEW type
      PROVE  Stream!Positions(Append(s, e), type) =
                 Stream!Positions(s, type) \cup IF e.type = type THEN {Len(s) + 1} ELSE {}
    <2> DEFINE t == Append(s, e)
               n == Len(s) + 1
    <2>1. DOMAIN t = DOMAIN s \cup {n} /\ t[n] = e /\ \A i \in DOMAIN s : t[i] = s[i]
        BY <1>1, <1>2
    <2> HIDE DEF t, n
    <2>2. Stream!Positions(t, type) = Stream!Positions(s, type)
                     \cup IF e.type = type THEN {n} ELSE {}
        BY <2>1 DEF Stream!Positions
    <2> QED BY <2>2 DEF t, n
<1> QED BY <1>1, <1>3

\* What the four kinds of events that only add to a set add to it.
LEMMA AppendReplays ==
    ASSUME NEW S, NEW s \in Seq(S), NEW e \in S
    PROVE  /\ Stream!SchemasIn(Append(s, e)) = Stream!SchemasIn(s)
                  \cup IF e.type = "SchemaRegistered" THEN {e.uid} ELSE {}
           /\ Stream!CreatedIn(Append(s, e)) = Stream!CreatedIn(s)
                  \cup IF e.type = "AttestationCreated" THEN {e.uid} ELSE {}
           /\ Stream!RevokedIn(Append(s, e)) = Stream!RevokedIn(s)
                  \cup IF e.type = "AttestationRevoked" THEN {e.uid} ELSE {}
           /\ Stream!AuthoritiesIn(Append(s, e)) = Stream!AuthoritiesIn(s)
                  \cup IF e.type = "AuthorityRegistered" THEN {e.authority} ELSE {}
<1> DEFINE t == Append(s, e)
           n == Len(s) + 1
<1>1. /\ \A i \in DOMAIN s : t[i] = s[i]
      /\ t[n] = e
      /\ \A type : Stream!Positions(t, type) =
             Stream!Positions(s, type) \cup IF e.type = type THEN {n} ELSE {}
    BY AppendPositions
<1>2. \A type : Stream!Positions(s, type) \subseteq DOMAIN s
    BY DEF Stream!Positions
<1> HIDE DEF t, n
<1>3. Stream!SchemasIn(t) = Stream!SchemasIn(s)
          \cup IF e.type = "SchemaRegistered" THEN {e.uid} ELSE {}
    BY <1>1, <1>2 DEF Stream!SchemasIn
<1>4. Stream!CreatedIn(t) = Stream!CreatedIn(s)
          \cup IF e.type = "AttestationCreated" THEN {e.uid} ELSE {}
    BY <1>1, <1>2 DEF Stream!CreatedIn
<1>5. Stream!RevokedIn(t) = Stream!RevokedIn(s)
          \cup IF e.type = "AttestationRevoked" THEN {e.uid} ELSE {}
    BY <1>1, <1>2 DEF Stream!RevokedIn
<1>6. Stream!AuthoritiesIn(t) = Stream!AuthoritiesIn(s)
          \cup IF e.type = "AuthorityRegistered" THEN {e.authority} ELSE {}
    BY <1>1, <1>2 DEF Stream!AuthoritiesIn
<1> QED BY <1>3, <1>4, <1>5, <1>6 DEF t

\* A delegate is one that was added and not removed since.
LEMMA AppendDelegates ==
    ASSUME NEW S, NEW s \in Seq(S), NEW e \in S, NEW a
    PROVE  Stream!DelegatesIn(Append(s, e), a) =
               IF e.type = "DelegateAdded" /\ e.authority = a
               THEN Stream!DelegatesIn(s, a) \cup {e.delegate}
               ELSE IF e.type = "DelegateRemoved" /\ e.authority = a
               THEN Stream!DelegatesIn(s, a) \ {e.delegate}
               ELSE Stream!DelegatesIn(s, a)
<1> DEFINE t == Append(s, e)
           n == Len(s) + 1
           Added == Stream!Positions(s, "DelegateAdded")
           Removed == Stream!Positions(s, "DelegateRemoved")
           Standing(q, j, ks) == /\ q[j].authority = a
                                 /\ \A k \in ks : q[k].authority = a /\ q[k].delegate = q[j].delegate
                                                      => k < j
<1>1. /\ \A i \in DOMAIN s : t[i] = s[i]
      /\ t[n] = e
      /\ \A type : Stream!Positions(t, type) =
             Stream!Positions(s, type) \cup IF e.type = type THEN {n} ELSE {}
    BY AppendPositions
<1>2. /\ Added \subseteq DOMAIN s /\ Removed \subseteq DOMAIN s
    BY DEF Stream!Positions
<1>3. \A i \in DOMAIN s : i \in Nat /\ i < n /\ ~(n < i)
    OBVIOUS
<1>4. \A d : d \in Stream!DelegatesIn(s, a)
                  <=> \E j \in Added : Standing(s, j, Removed) /\ s[j].delegate = d
    BY DEF Stream!DelegatesIn
<1>5. \A d : d \in Stream!DelegatesIn(t, a)
                  <=> \E j \in Stream!Positions(t, "DelegateAdded") :
                         /\ Standing(t, j, Stream!Positions(t, "DelegateRemoved"))
                         /\ t[j].delegate = d
    BY DEF Stream!DelegatesIn
<1> HIDE DEF t, n, Added, Removed
<1>0. \A j \in Added : t[j].delegate = s[j].delegate
    BY <1>1, <1>2
<1>6. CASE e.type = "DelegateAdded"
    <2>1. /\ Stream!Positions(t, "DelegateAdded") = Added \cup {n}
          /\ Stream!Positions(t, "DelegateRemoved") = Removed
        BY <1>1, <1>6 DEF Added, Removed
    <2>2. \A j \in Added : Standing(t, j, Removed) <=> Standing(s, j, Removed)
        BY <1>1, <1>2
    <2>3. Standing(t, n, Removed) <=> e.authority = a
        BY <1>1, <1>2, <1>3
    <2> HIDE DEF Standing
    <2>4. \A d : d \in Stream!DelegatesIn(t, a)
                  <=> d \in Stream!DelegatesIn(s, a) \/ (e.authority = a /\ d = e.delegate)
        BY <1>0, <1>1, <1>4, <1>5, <2>1, <2>2, <2>3
    <2> QED BY <1>6, <2>4 DEF t
<1>7. CASE e.type = "DelegateRemoved"
    <2>1. /\ Stream!Positions(t, "DelegateAdded") = Added
          /\ Stream!Positions(t, "DelegateRemoved") = Removed \cup {n}
        BY <1>1, <1>7 DEF Added, Removed
    <2>2. \A j \in Added : Standing(t, j, Removed \cup {n})
              <=> Standing(s, j, Removed) /\ ~(e.authority = a /\ e.delegate = s[j].delegate)
        BY <1>1, <1>2, <1>3
    <2> HIDE DEF Standing
    <2>3. \A d : d \in Stream!DelegatesIn(t, a)
                  <=> \E j \in Added : Standing(t, j, Removed \cup {n}) /\ t[j].delegate = d
        BY <1>5, <2>1
    <2>4. \A d : d \in Stream!DelegatesIn(t, a)
                  <=> \E j \in Added : /\ Standing(s, j, Removed) /\ s[j].delegate = d
                                      /\ ~(e.authority = a /\ d = e.delegate)
        BY <1>0, <2>2, <2>3
    <2>5. \A d : d \in Stream!DelegatesIn(t, a)
                  <=> d \in Stream!DelegatesIn(s, a) /\ ~(e.authority = a /\ d = e.delegate)
        BY <1>4, <2>4
    <2> QED BY <1>7, <2>5 DEF t
<1>8. CASE e.type \notin {"DelegateAdded", "DelegateRemoved"}
    <2>1. /\ Stream!Positions(t, "DelegateAdded") = Added
          /\ Stream!Positions(t, "DelegateRemoved") = Removed
        BY <1>1, <1>8 DEF Added, Removed
    <2>2. \A j \in Added : Standing(t, j, Removed) <=> Standing(s, j, Removed)
        BY <1>1, <1>2
    <2> HIDE DEF Standing
    <2>3. \A d : d \in Stream!DelegatesIn(t, a) <=> d \in Stream!DelegatesIn(s, a)
        BY <1>0, <1>4, <1>5, <2>1, <2>2
    <2> QED BY <1>8, <2>3 DEF t
<1> QED BY <1>6, <1>7, <1>8

-----------------------------------------------------------------------------
(* LogInv is inductive, and every event is legal *)

\* What LogInv says after a step, and EventStream of the step.
Told == LogInv' /\ [Stream!Next]_log

\* An event that may follow the log is a step of EventStream.
LEMMA LegalStep ==
    ASSUME NEW e \in Event, log \in Seq(Event), log' = Append(log, e), Stream!Legal(log, e)
    PROVE  log' \in Seq(Event) /\ [Stream!Next]_log
<1>1. /\ log' \in Seq(Event) /\ Len(log) \in Nat /\ Len(log') = Len(log) + 1
      /\ log'[Len(log')] = e
    OBVIOUS
<1>2. SubSeq(log', 1, Len(log)) = log
    OBVIOUS
<1> QED BY <1>1, <1>2 DEF Stream!Next

\* What readers conclude after one event more.
LEMMA Heard ==
    ASSUME log \in Seq(Event), NEW e \in Event, log' = Append(log, e)
    PROVE  /\ Stream!SchemasIn(log') = Stream!SchemasIn(log)
                  \cup IF e.type = "SchemaRegistered" THEN {e.uid} ELSE {}
           /\ Stream!CreatedIn(log') = Stream!CreatedIn(log)
                  \cup IF e.type = "AttestationCreated" THEN {e.uid} ELSE {}
           /\ Stream!RevokedIn(log') = Stream!RevokedIn(log)
                  \cup IF e.type = "AttestationRevoked" THEN {e.uid} ELSE {}
           /\ Stream!AuthoritiesIn(log') = Stream!AuthoritiesIn(log)
                  \cup IF e.type = "AuthorityRegistered" THEN {e.authority} ELSE {}
           /\ e.type \notin {"DelegateAdded", "DelegateRemoved"} =>
                  \A a : Stream!DelegatesIn(log', a) = Stream!DelegatesIn(log, a)
BY AppendReplays, AppendDelegates

\* A step that emits nothing and adds no key to any mapping.
LEMMA SilentStep ==
    ASSUME LogInv,
           UNCHANGED <<log, schemas, attestations, delegates>>,
           DOMAIN authorities' = DOMAIN authorities
    PROVE  Told
BY DEF LogInv, UIDsNameContents, LogReplaysToState, Told

\* register
LEMMA RegisterTold ==
    ASSUME TypeOK, LogInv, NEW caller \in Account, NEW definition \in Definition,
           NEW resolver \in Contract \cup {NoResolver}, NEW revocable \in BOOLEAN,
           Register(caller, definition, resolver, revocable), UNCHANGED serviceVars
    PROVE  Told
<1> DEFINE uid == GenerateSchemaUID(definition, resolver, revocable)
           rec == [definition |-> definition, authority |-> caller, resolver |-> resolver,
                   revocable |-> revocable, timestamp |-> now]
           e == [type |-> "SchemaRegistered", uid |-> uid, authority |-> caller,
                 resolver |-> resolver]
<1>1. /\ uid \notin DOMAIN schemas /\ schemas' = Put(schemas, uid, rec)
      /\ log' = Append(log, e)
    BY DEF Register, IsDuplicate, Emit
<1>2. uid \in SchemaUID /\ uid.revocable = revocable /\ rec.revocable = revocable
    BY DEF GenerateSchemaUID, SchemaUID
<1>3. e \in Event /\ e.type = "SchemaRegistered" /\ e.uid = uid
    BY <1>2 DEF Event
<1> HIDE DEF uid, rec, e
<1>4. /\ DOMAIN schemas' = DOMAIN schemas \cup {uid} /\ schemas'[uid] = rec
      /\ \A s \in DOMAIN schemas : schemas'[s] = schemas[s]
    BY <1>1 DEF Put
<1>5. UNCHANGED <<attestations, authorities, delegates>>
    BY DEF serviceVars
<1>6. UIDsNameContents'
    BY <1>2, <1>4, <1>5 DEF LogInv, UIDsNameContents
<1>7. LogReplaysToState'
    BY <1>1, <1>3, <1>4, <1>5, Heard DEF LogInv, LogReplaysToState
<1>8. Stream!Legal(log, e)
    BY <1>1, <1>3 DEF LogInv, LogReplaysToState, Stream!Legal
<1> QED BY <1>1, <1>3, <1>6, <1>7, <1>8, LegalStep DEF LogInv, Told

\* attest and attestOnBehalf: the UID is new, so that nothing stored is told of twice.
LEMMA IssueTold ==
    ASSUME TypeOK, UIDsAreUsedUp, LogInv, NEW attester \in Account,
           NEW schemaUid \in DOMAIN schemas, NEW subject \in Subject, NEW data \in Payload,
           NEW expirationTime, Issue(attester, schemaUid, subject, data, expirationTime)
    PROVE  Told
<1> DEFINE uid == GenerateAttestationUID(schemaUid, subject, attester, data, nonces[attester])
           rec == [schemaUid |-> schemaUid, attester |-> attester, subject |-> subject,
                   data |-> data, timestamp |-> now, expirationTime |-> expirationTime,
                   revoked |-> FALSE, revocationTime |-> 0, nonce |-> nonces[attester]]
           e == [type |-> "AttestationCreated", uid |-> uid, schemaUid |-> schemaUid,
                 attester |-> attester, subject |-> subject]
<1>1. attestations' = Put(attestations, uid, rec) /\ log' = Append(log, e)
    BY DEF Issue, Emit
<1>2. /\ uid \in AttestationUID /\ uid.schemaUid = schemaUid /\ uid.attester = attester
      /\ uid.nonce = nonces[attester]
      /\ rec.schemaUid = schemaUid /\ rec.revoked = FALSE
    BY DEF GenerateAttestationUID, AttestationUID, TypeOK
<1>3. e \in Event /\ e.type = "AttestationCreated" /\ e.uid = uid /\ e.schemaUid = schemaUid
    BY <1>2 DEF Event, TypeOK
<1> HIDE DEF uid, rec, e
<1>4. uid \notin DOMAIN attestations
    BY <1>2, NextUIDIsNew
<1>5. /\ DOMAIN attestations' = DOMAIN attestations \cup {uid} /\ attestations'[uid] = rec
      /\ \A u \in DOMAIN attestations : attestations'[u] = attestations[u]
    BY <1>1, <1>4 DEF Put
<1>6. UNCHANGED <<schemas, authorities, delegates>>
    BY DEF Issue, delegateVars
<1>7. UIDsNameContents'
    BY <1>2, <1>5, <1>6 DEF LogInv, UIDsNameContents
<1>8. {u \in DOMAIN attestations' : attestations'[u].revoked} =
          {u \in DOMAIN attestations : attestations[u].revoked}
    BY <1>2, <1>5
<1>9. LogReplaysToState'
    BY <1>1, <1>3, <1>5, <1>6, <1>8, Heard DEF LogInv, LogReplaysToState
<1>10. Stream!Legal(log, e)
    BY <1>3, <1>4 DEF LogInv, LogReplaysToState, Stream!Legal
<1> QED BY <1>1, <1>3, <1>7, <1>9, <1>10, LegalStep DEF LogInv, Told

\* revoke and revokeOnBehalf: what the schema's record says of revocation is what its
\* UID says.
LEMMA MarkRevokedTold ==
    ASSUME TypeOK, LogInv, NEW uid, MarkRevoked(uid)
    PROVE  Told
<1> DEFINE e == [type |-> "AttestationRevoked", uid |-> uid,
                 revoker |-> attestations[uid].attester]
<1>1. /\ uid \in DOMAIN attestations /\ ~attestations[uid].revoked
      /\ attestations[uid] \in AttestationRecord
      /\ attestations' = [attestations EXCEPT ![uid] = RevokedRecord(@)]
    BY MarkRevokedEffect
<1>2. log' = Append(log, e) /\ UNCHANGED <<schemas, authorities, delegates>>
    BY DEF MarkRevoked, Emit, delegateVars
<1>3. e \in Event /\ e.type = "AttestationRevoked" /\ e.uid = uid
    BY <1>1 DEF Event, TypeOK, AttestationRecord
<1> HIDE DEF e
<1>4. RevokedRecord(attestations[uid]).schemaUid = attestations[uid].schemaUid
      /\ RevokedRecord(attestations[uid]).revoked = TRUE
    BY <1>1 DEF RevokedRecord, AttestationRecord
<1>5. UIDsNameContents'
    BY <1>1, <1>2, <1>4 DEF LogInv, UIDsNameContents
<1>6. {u \in DOMAIN attestations' : attestations'[u].revoked} =
          {u \in DOMAIN attestations : attestations[u].revoked} \cup {uid}
    BY <1>1, <1>4
<1>7. LogReplaysToState'
    BY <1>1, <1>2, <1>3, <1>6, Heard DEF LogInv, LogReplaysToState
<1>8. Stream!Legal(log, e)
    <2>1. uid.schemaUid.revocable
        BY <1>1 DEF MarkRevoked, Revocable, LogInv, UIDsNameContents
    <2>2. uid \in Stream!CreatedIn(log) \ Stream!RevokedIn(log)
        BY <1>1 DEF LogInv, LogReplaysToState
    <2> QED BY <1>3, <2>1, <2>2 DEF Stream!Legal
<1> QED BY <1>2, <1>3, <1>5, <1>7, <1>8, LegalStep DEF LogInv, Told

\* registerAuthority; the admin's verification is not told.
LEMMA AuthorityTold ==
    ASSUME LogInv, NEW caller \in Account, NEW metadata, RegisterAuthority(caller, metadata)
    PROVE  Told
<1> DEFINE e == [type |-> "AuthorityRegistered", authority |-> caller]
<1>1. /\ log' = Append(log, e) /\ DOMAIN authorities' = DOMAIN authorities \cup {caller}
      /\ UNCHANGED <<schemas, attestations, delegates>>
    BY DEF RegisterAuthority, Emit, Put, recordVars, delegateVars
<1>2. e \in Event /\ e.type = "AuthorityRegistered" /\ e.authority = caller
    BY DEF Event
<1> HIDE DEF e
<1>3. LogReplaysToState'
    BY <1>1, <1>2, Heard DEF LogInv, LogReplaysToState
<1>4. UIDsNameContents'
    BY <1>1 DEF LogInv, UIDsNameContents
<1>5. Stream!Legal(log, e)
    BY <1>2 DEF Stream!Legal
<1> QED BY <1>1, <1>2, <1>3, <1>4, <1>5, LegalStep DEF LogInv, Told

\* addDelegate and removeDelegate: who stands last in the log is a delegate.
LEMMA DelegateTold ==
    ASSUME TypeOK, LogInv, NEW caller \in Account, NEW delegate \in Account,
           AddDelegate(caller, delegate) \/ RemoveDelegate(caller, delegate)
    PROVE  Told
<1> DEFINE type == IF AddDelegate(caller, delegate) THEN "DelegateAdded" ELSE "DelegateRemoved"
           e == [type |-> type, authority |-> caller, delegate |-> delegate]
<1>1. log' = Append(log, e) /\ UNCHANGED <<schemas, attestations, authorities>>
    BY DEF AddDelegate, RemoveDelegate, Emit, recordVars
<1>2. /\ e \in Event /\ e.authority = caller /\ e.delegate = delegate
      /\ e.type \in {"DelegateAdded", "DelegateRemoved"}
      /\ e.type = "DelegateAdded" <=> AddDelegate(caller, delegate)
    BY DEF Event
<1> HIDE DEF e, type
<1>3. delegates \in [Account -> SUBSET Account]
    BY DEF TypeOK
<1>4. ASSUME NEW a \in Account PROVE delegates'[a] = Stream!DelegatesIn(log', a)
    <2>1. delegates[a] = Stream!DelegatesIn(log, a)
        BY DEF LogInv, LogReplaysToState
    <2>2. CASE AddDelegate(caller, delegate)
        <3>1. delegates'[a] = IF a = caller THEN delegates[a] \cup {delegate} ELSE delegates[a]
            BY <1>3, <2>2 DEF AddDelegate
        <3> QED BY <1>1, <1>2, <2>1, <2>2, <3>1, AppendDelegates DEF LogInv
    <2>3. CASE ~AddDelegate(caller, delegate)
        <3>1. delegates'[a] = IF a = caller THEN delegates[a] \ {delegate} ELSE delegates[a]
            BY <1>3, <2>3 DEF RemoveDelegate
        <3> QED BY <1>1, <1>2, <2>1, <2>3, <3>1, AppendDelegates DEF LogInv
    <2> QED BY <2>2, <2>3
<1>5. LogReplaysToState'
    BY <1>1, <1>2, <1>4, Heard DEF LogInv, LogReplaysToState
<1>6. UIDsNameContents'
    BY <1>1 DEF LogInv, UIDsNameContents
<1>7. Stream!Legal(log, e)
    BY <1>2 DEF LogInv, LogReplaysToState, AddDelegate, RemoveDelegate, Stream!Legal
<1> QED BY <1>1, <1>2, <1>5, <1>6, <1>7, LegalStep DEF LogInv, Told

\* Every step of the contracts.
LEMMA LogStep == TypeOK /\ UIDsAreUsedUp /\ LogInv /\ [Next]_vars => Told
<1> SUFFICES ASSUME TypeOK, UIDsAreUsedUp, LogInv, [Next]_vars PROVE Told
    OBVIOUS
<1>1. CASE AdvanceTime /\ UNCHANGED <<schemas, serviceVars>>
    BY <1>1, SilentStep DEF AdvanceTime, serviceVars
<1>2. CASE RegistryNext /\ UNCHANGED serviceVars
    BY <1>2, RegisterTold DEF RegistryNext
<1>3. CASE AttestNext
    BY <1>3, IssueTold DEF AttestNext, Attest, AttestOnBehalf
<1>4. CASE RevokeNext
    BY <1>4, MarkRevokedTold DEF RevokeNext, Revoke, RevokeOnBehalf
<1>5. CASE AuthorityNext
    <2>1. ASSUME NEW caller, NEW addr \in DOMAIN authorities, NEW verified \in BOOLEAN,
                 SetAuthorityVerification(caller, addr, verified)
          PROVE  Told
        BY <2>1, SilentStep DEF SetAuthorityVerification, chainVars, recordVars, delegateVars
    <2> QED BY <1>5, <2>1, AuthorityTold DEF AuthorityNext
<1>6. CASE DelegateNext
    BY <1>6, DelegateTold DEF DelegateNext
<1>7. CASE UNCHANGED vars
    BY <1>7, SilentStep DEF vars
<1> QED BY <1>1, <1>2, <1>3, <1>4, <1>5, <1>6, <1>7 DEF Next

\* Nothing is stored and nothing was told.
LEMMA LogStart == Init => LogInv
<1> SUFFICES ASSUME Init PROVE LogInv
    OBVIOUS
<1>1. log = <<>> /\ DOMAIN schemas = {} /\ DOMAIN attestations = {} /\ DOMAIN authorities = {}
      /\ \A a \in Account : delegates[a] = {}
    BY DEF Init, ChainInit, RegistryInit
<1>2. log \in Seq(Event) /\ \A type : Stream!Positions(log, type) = {}
    BY <1>1 DEF Stream!Positions
<1> QED BY <1>1, <1>2 DEF LogInv, UIDsNameContents, LogReplaysToState, Stream!SchemasIn,
           Stream!CreatedIn, Stream!RevokedIn, Stream!AuthoritiesIn, Stream!DelegatesIn

-----------------------------------------------------------------------------
\* Replaying the events gives what is stored.
THEOREM LogReplays == Spec => []LogReplaysToState
<1>1. TypeOK /\ UIDsAreUsedUp /\ LogInv /\ [Next]_vars => LogInv'
    BY LogStep DEF Told
<1>2. LogInv => LogReplaysToState
    BY DEF LogInv
<1> QED BY <1>1, <1>2, LogStart, TypeCorrect, UIDsUsedUp, PTL DEF Spec

\* The contracts implement EventStream.
THEOREM LogStreams == Spec => LogIsEventStream
<1>1. TypeOK /\ UIDsAreUsedUp /\ LogInv /\ [Next]_vars => LogInv' /\ [Stream!Next]_log
    BY LogStep DEF Told
<1>2. Init => Stream!Init
    BY DEF Init, ChainInit, Stream!Init
<1> QED BY <1>1, <1>2, LogStart, TypeCorrect, UIDsUsedUp, PTL
        DEF Spec, LogIsEventStream, Stream!Spec

-----------------------------------------------------------------------------
(* What a relying party is told *)

View == [u \in DOMAIN attestations |-> GetAttestation(u)]
Gone(u) == attestations[u].expirationTime # 0 /\ now > attestations[u].expirationTime

\* Of a stored attestation: whether it has expired is looked at before anything else.
LEMMA LookUp ==
    ASSUME NEW u \in DOMAIN attestations
    PROVE  GetAttestation(u) = IF Gone(u) THEN "AttestationExpired"
                               ELSE IF attestations[u].revoked THEN "revoked" ELSE "valid"
BY DEF GetAttestation, Gone

\* The same after a step.
LEMMA LookUpNext ==
    ASSUME NEW u \in DOMAIN attestations'
    PROVE  GetAttestation(u)' = IF Gone(u)' THEN "AttestationExpired"
                                ELSE IF attestations'[u].revoked THEN "revoked" ELSE "valid"
BY DEF GetAttestation, Gone

\* A block goes by, and some attestations expire.
LEMMA TimeExpires ==
    ASSUME TypeOK, AdvanceTime, UNCHANGED serviceVars
    PROVE  Lifecycle!Expire
<1>1. now \in Nat /\ now' \in Nat /\ now <= now' /\ attestations' = attestations
    BY ChainAssumption DEF TypeOK, AdvanceTime, serviceVars
<1>2. \A u \in DOMAIN attestations : attestations[u].expirationTime \in Nat
    BY DEF TypeOK, AttestationRecord
<1>3. \A u \in DOMAIN attestations : Gone(u) => Gone(u)'
    BY <1>1, <1>2 DEF Gone
<1> DEFINE gone == {u \in DOMAIN attestations : Gone(u)'}
<1>4. \A u \in DOMAIN attestations :
          GetAttestation(u)' = IF u \in gone THEN "AttestationExpired" ELSE GetAttestation(u)
    BY <1>1, <1>3, LookUp, LookUpNext
<1>5. View' = [u \in DOMAIN View |-> IF u \in gone THEN "AttestationExpired" ELSE View[u]]
    BY <1>1, <1>4 DEF View
<1>6. gone \in SUBSET DOMAIN View
    BY DEF View
<1> QED BY <1>5, <1>6 DEF Lifecycle!Expire, View

\* A new attestation is valid: it does not expire in the past.
LEMMA IssueShows ==
    ASSUME TypeOK, UIDsAreUsedUp, NEW attester \in Account, NEW schemaUid, NEW subject,
           NEW data, NEW expirationTime \in Nat,
           Issue(attester, schemaUid, subject, data, expirationTime)
    PROVE  Lifecycle!Issue
<1> DEFINE new == GenerateAttestationUID(schemaUid, subject, attester, data, nonces[attester])
           rec == [schemaUid |-> schemaUid, attester |-> attester, subject |-> subject,
                   data |-> data, timestamp |-> now, expirationTime |-> expirationTime,
                   revoked |-> FALSE, revocationTime |-> 0, nonce |-> nonces[attester]]
<1>1. /\ attestations' = Put(attestations, new, rec) /\ now' = now /\ now \in Nat
      /\ expirationTime = 0 \/ expirationTime > now
    BY ChainAssumption DEF Issue, TypeOK
<1>0. PICK uid : uid = new
    OBVIOUS
<1>2. /\ uid.attester = attester /\ uid.nonce = nonces[attester]
      /\ rec.expirationTime = expirationTime /\ rec.revoked = FALSE
    BY <1>0 DEF GenerateAttestationUID
<1> HIDE DEF new, rec
<1>3. uid \notin DOMAIN attestations
    BY <1>2, NextUIDIsNew
<1>4. /\ DOMAIN attestations' = DOMAIN attestations \cup {uid} /\ attestations'[uid] = rec
      /\ \A u \in DOMAIN attestations : attestations'[u] = attestations[u]
    BY <1>0, <1>1, <1>3 DEF Put
<1>5. ~Gone(uid)' /\ GetAttestation(uid)' = "valid"
    <2>1. uid \in DOMAIN attestations' /\ attestations'[uid].revoked = FALSE
        BY <1>2, <1>4
    <2>2. ~Gone(uid)'
        BY <1>1, <1>2, <1>4 DEF Gone
    <2> QED BY <2>1, <2>2, LookUpNext
<1>6. ASSUME NEW u \in DOMAIN attestations PROVE GetAttestation(u)' = GetAttestation(u)
    BY <1>1, <1>4, LookUp, LookUpNext DEF Gone
<1>7. View' = [x \in DOMAIN View \cup {uid} |-> IF x = uid THEN "valid" ELSE View[x]]
    <2>1. DOMAIN View = DOMAIN attestations /\ \A u \in DOMAIN attestations : View[u] = GetAttestation(u)
        BY DEF View
    <2>2. View' = [x \in DOMAIN attestations \cup {uid} |-> GetAttestation(x)']
        BY <1>4 DEF View
    <2>3. \A x \in DOMAIN attestations \cup {uid} :
              GetAttestation(x)' = IF x = uid THEN "valid" ELSE View[x]
        BY <1>3, <1>5, <1>6, <2>1
    <2> QED BY <2>1, <2>2, <2>3
<1>8. uid \in DOMAIN View' /\ uid \notin DOMAIN View
    BY <1>3, <1>7 DEF View
<1> QED BY <1>7, <1>8 DEF Lifecycle!Issue, View

\* A revocation shows unless the attestation has expired.
LEMMA RevocationShows ==
    ASSUME TypeOK, NEW uid, MarkRevoked(uid)
    PROVE  Lifecycle!Revoke \/ View' = View
<1>1. /\ uid \in DOMAIN attestations /\ ~attestations[uid].revoked
      /\ attestations[uid] \in AttestationRecord
      /\ attestations' = [attestations EXCEPT ![uid] = RevokedRecord(@)]
      /\ now' = now
    BY MarkRevokedEffect DEF MarkRevoked
<1>2. /\ RevokedRecord(attestations[uid]).expirationTime = attestations[uid].expirationTime
      /\ RevokedRecord(attestations[uid]).revoked = TRUE
    BY <1>1 DEF RevokedRecord, AttestationRecord
<1>3. \A u \in DOMAIN attestations : Gone(u)' <=> Gone(u)
    BY <1>1, <1>2 DEF Gone
<1>4. ASSUME NEW u \in DOMAIN attestations, u # uid PROVE GetAttestation(u)' = GetAttestation(u)
    BY <1>1, <1>3, <1>4, LookUp, LookUpNext
<1>5. DOMAIN attestations' = DOMAIN attestations
    BY <1>1
<1>6. CASE Gone(uid)
    <2>1. GetAttestation(uid)' = GetAttestation(uid)
        BY <1>1, <1>3, <1>5, <1>6, LookUp, LookUpNext
    <2> QED BY <1>4, <1>5, <2>1 DEF View
<1>7. CASE ~Gone(uid)
    <2>1. GetAttestation(uid) = "valid" /\ GetAttestation(uid)' = "revoked"
        BY <1>1, <1>2, <1>3, <1>5, <1>7, LookUp, LookUpNext
    <2>2. View' = [View EXCEPT ![uid] = "revoked"] /\ uid \in DOMAIN View /\ View[uid] = "valid"
        BY <1>1, <1>4, <1>5, <2>1 DEF View
    <2> QED BY <2>2 DEF Lifecycle!Revoke, View
<1> QED BY <1>6, <1>7

\* Nothing else shows.
LEMMA NothingShows ==
    ASSUME UNCHANGED <<now, attestations>>
    PROVE  View' = View
BY DEF View, GetAttestation

\* What getAttestation says follows the life of an attestation.
THEOREM LookUpsFollowLife == Spec => ViewIsLifecycle
<1>1. Init => Lifecycle!Init
    BY DEF Init, Lifecycle!Init
<1>2. ASSUME TypeOK, UIDsAreUsedUp, [Next]_vars PROVE [Lifecycle!Next]_View
    <2>1. CASE AdvanceTime /\ UNCHANGED <<schemas, serviceVars>>
        BY <1>2, <2>1, TimeExpires DEF Lifecycle!Next
    <2>2. CASE RegistryNext /\ UNCHANGED serviceVars
        BY <2>2, NothingShows DEF RegistryNext, Register, serviceVars
    <2>3. CASE AttestNext
        BY <1>2, <2>3, IssueShows, ServiceAssumption DEF AttestNext, Attest, AttestOnBehalf, Lifecycle!Next
    <2>4. CASE RevokeNext
        BY <1>2, <2>4, RevocationShows DEF RevokeNext, Revoke, RevokeOnBehalf, Lifecycle!Next
    <2>5. CASE AuthorityNext
        BY <2>5, NothingShows
           DEF AuthorityNext, RegisterAuthority, SetAuthorityVerification, chainVars, recordVars
    <2>6. CASE DelegateNext
        BY <2>6, NothingShows DEF DelegateNext, AddDelegate, RemoveDelegate, recordVars
    <2>7. CASE UNCHANGED vars
        BY <2>7, NothingShows DEF vars
    <2> QED BY <1>2, <2>1, <2>2, <2>3, <2>4, <2>5, <2>6, <2>7 DEF Next
<1> QED BY <1>1, <1>2, TypeCorrect, UIDsUsedUp, PTL
        DEF Spec, ViewIsLifecycle, Lifecycle!Spec, View
=============================================================================
