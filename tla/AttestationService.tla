------------------------- MODULE AttestationService -------------------------
(***************************************************************************)
(* AttestationService.sol on top of SchemaRegistry.sol: attestations,      *)
(* authorities and delegates.  Every external function is one action; its  *)
(* require-like checks are the guards, in the order of the code, and a     *)
(* transaction that would revert is not a step.                            *)
(*                                                                         *)
(* A resolver is another contract.  Attest and Revoke stand for the        *)
(* transactions in which its hook answered true; module Resolvers          *)
(* conjoins the hooks themselves.  The hooks of the repository's resolvers *)
(* never call back into the service.                                       *)
(***************************************************************************)
EXTENDS SchemaRegistry, FiniteSets

CONSTANTS Payload,      \* attestation data
          Metadata,     \* authority metadata
          Expiration    \* the expirationTime arguments, 0 for none

ASSUME ServiceAssumption == Expiration \subseteq Nat

VARIABLES attestations, \* _attestations, on the UIDs whose timestamp is not 0
          nonces,       \* _nonces
          authorities,  \* _authorities, where registeredAt is not 0
          delegates,    \* _delegates, as the set of addresses mapped to true
          delegateList  \* _delegateList

recordVars   == <<attestations, nonces>>
delegateVars == <<delegates, delegateList>>
serviceVars  == <<attestations, nonces, authorities, delegates, delegateList>>
vars         == <<now, log, schemas, attestations, nonces, authorities, delegates, delegateList>>

-----------------------------------------------------------------------------
\* A fault for the runs to find: the nonce is left out of the hash.
GenerateAttestationUID_NoNonce(schemaUid, subject, attester, data, nonce) ==
    [schemaUid |-> schemaUid, subject |-> subject, attester |-> attester,
     data |-> data, nonce |-> 0]

\* keccak256 of the five, taken as collision free
GenerateAttestationUID(schemaUid, subject, attester, data, nonce) ==
    [schemaUid |-> schemaUid, subject |-> subject, attester |-> attester,
     data |-> data, nonce |-> nonce]

AttestationUID == [schemaUid : SchemaUID, subject : Subject, attester : Account,
                   data : Payload, nonce : Nat]

AttestationRecord ==
    [schemaUid : SchemaUID, attester : Account, subject : Subject, data : Payload,
     timestamp : Nat \ {0}, expirationTime : Nat, revoked : BOOLEAN,
     revocationTime : Nat, nonce : Nat]

AuthorityRecord == [metadata : Metadata, isVerified : BOOLEAN, registeredAt : Nat \ {0}]

Init == /\ ChainInit
        /\ RegistryInit
        /\ attestations = <<>>
        /\ nonces = [a \in Account |-> 0]
        /\ authorities = <<>>
        /\ delegates = [a \in Account |-> {}]
        /\ delegateList = [a \in Account |-> <<>>]

-----------------------------------------------------------------------------
(* Attestations *)

\* The common end of attest and attestOnBehalf, from the schema lookup on.
Issue(attester, schemaUid, subject, data, expirationTime) ==
    LET nonce == nonces[attester]
        uid   == GenerateAttestationUID(schemaUid, subject, attester, data, nonce)
    IN  /\ SchemaExists(schemaUid)
        /\ expirationTime = 0 \/ expirationTime > now
        /\ nonces' = [nonces EXCEPT ![attester] = nonce + 1]
        /\ attestations' = Put(attestations, uid,
                   [schemaUid |-> schemaUid, attester |-> attester, subject |-> subject,
                    data |-> data, timestamp |-> now, expirationTime |-> expirationTime,
                    revoked |-> FALSE, revocationTime |-> 0, nonce |-> nonce])
        /\ Emit([type |-> "AttestationCreated", uid |-> uid, schemaUid |-> schemaUid,
                 attester |-> attester, subject |-> subject])
        /\ UNCHANGED <<now, schemas, authorities, delegateVars>>

Attest(caller, schemaUid, subject, data, expirationTime) ==
    Issue(caller, schemaUid, subject, data, expirationTime)

\* The authority's nonce counts, not the delegate's.
AttestOnBehalf(caller, authority, schemaUid, subject, data, expirationTime) ==
    /\ caller \in delegates[authority]
    /\ Issue(authority, schemaUid, subject, data, expirationTime)

Revocable(uid) ==
    /\ uid \in DOMAIN attestations
    /\ ~attestations[uid].revoked
    /\ schemas[attestations[uid].schemaUid].revocable

\* A fault for the runs to find: the flag is forgotten.
RevokedRecord_TimeOnly(r) == [r EXCEPT !.revocationTime = now]

RevokedRecord(r) == [r EXCEPT !.revoked = TRUE, !.revocationTime = now]

\* The common part of revoke and revokeOnBehalf; the event names the attester.
MarkRevoked(uid) ==
    /\ Revocable(uid)
    /\ attestations' = [attestations EXCEPT ![uid] = RevokedRecord(@)]
    /\ Emit([type |-> "AttestationRevoked", uid |-> uid,
             revoker |-> attestations[uid].attester])
    /\ UNCHANGED <<now, schemas, nonces, authorities, delegateVars>>

Revoke(caller, uid) ==
    /\ caller = attestations[uid].attester
    /\ MarkRevoked(uid)

RevokeOnBehalf(caller, uid) ==
    /\ caller \in delegates[attestations[uid].attester]
    /\ MarkRevoked(uid)

\* A fault for the runs to find: revocation is looked at before expiration.
GetAttestation_RevokedFirst(uid) ==
    CASE uid \notin DOMAIN attestations -> "AttestationNotFound"
      [] uid \in DOMAIN attestations /\ attestations[uid].revoked -> "revoked"
      [] OTHER -> IF attestations[uid].expirationTime \in 1 .. now - 1
                  THEN "AttestationExpired" ELSE "valid"

\* getAttestation: what a relying party is told about uid.
GetAttestation(uid) ==
    CASE uid \notin DOMAIN attestations -> "AttestationNotFound"
      [] /\ uid \in DOMAIN attestations
         /\ attestations[uid].expirationTime # 0
         /\ now > attestations[uid].expirationTime -> "AttestationExpired"
      [] OTHER -> IF attestations[uid].revoked THEN "revoked" ELSE "valid"

-----------------------------------------------------------------------------
(* Authorities *)

\* A fault for the runs to find: registering again keeps the verification.
NewAuthority_KeepsVerified(caller, metadata) ==
    [metadata |-> metadata, registeredAt |-> now,
     isVerified |-> caller \in DOMAIN authorities /\ authorities[caller].isVerified]

\* Registering again overwrites the record, verification included.
NewAuthority(caller, metadata) ==
    [metadata |-> metadata, registeredAt |-> now, isVerified |-> FALSE]

RegisterAuthority(caller, metadata) ==
    /\ authorities' = Put(authorities, caller, NewAuthority(caller, metadata))
    /\ Emit([type |-> "AuthorityRegistered", authority |-> caller])
    /\ UNCHANGED <<now, schemas, recordVars, delegateVars>>

\* The one state change that emits no event.
SetAuthorityVerification(caller, addr, verified) ==
    /\ caller = Deployer
    /\ addr \in DOMAIN authorities
    /\ authorities' = [authorities EXCEPT ![addr].isVerified = verified]
    /\ UNCHANGED <<chainVars, schemas, recordVars, delegateVars>>

-----------------------------------------------------------------------------
(* Delegation *)

AddDelegate(caller, delegate) ==
    /\ delegate \notin delegates[caller]
    /\ delegates' = [delegates EXCEPT ![caller] = @ \cup {delegate}]
    /\ delegateList' = [delegateList EXCEPT ![caller] = Append(@, delegate)]
    /\ Emit([type |-> "DelegateAdded", authority |-> caller, delegate |-> delegate])
    /\ UNCHANGED <<now, schemas, recordVars, authorities>>

\* A fault for the runs to find: the last entry is popped, whatever it is.
RemoveBySwap_PopOnly(list, delegate) == SubSeq(list, 1, Len(list) - 1)

\* The loop of removeDelegate: the first match takes the last entry's value,
\* and the last entry is popped.
RemoveBySwap(list, delegate) ==
    LET matches == {i \in DOMAIN list : list[i] = delegate}
        i == CHOOSE m \in matches : \A n \in matches : m <= n
    IN  IF matches = {} THEN list
        ELSE [k \in 1 .. Len(list) - 1 |-> IF k = i THEN list[Len(list)] ELSE list[k]]

RemoveDelegate(caller, delegate) ==
    /\ delegate \in delegates[caller]
    /\ delegates' = [delegates EXCEPT ![caller] = @ \ {delegate}]
    /\ delegateList' = [delegateList EXCEPT ![caller] = RemoveBySwap(@, delegate)]
    /\ Emit([type |-> "DelegateRemoved", authority |-> caller, delegate |-> delegate])
    /\ UNCHANGED <<now, schemas, recordVars, authorities>>

-----------------------------------------------------------------------------
AttestNext ==
    \E caller \in Account, schemaUid \in DOMAIN schemas, subject \in Subject,
       data \in Payload, expirationTime \in Expiration :
        \/ Attest(caller, schemaUid, subject, data, expirationTime)
        \/ \E authority \in Account :
              AttestOnBehalf(caller, authority, schemaUid, subject, data, expirationTime)

RevokeNext ==
    \E caller \in Account, uid \in DOMAIN attestations :
        Revoke(caller, uid) \/ RevokeOnBehalf(caller, uid)

AuthorityNext ==
    \E caller \in Account :
        \/ \E metadata \in Metadata : RegisterAuthority(caller, metadata)
        \/ \E addr \in DOMAIN authorities, verified \in BOOLEAN :
              SetAuthorityVerification(caller, addr, verified)

DelegateNext ==
    \E caller, delegate \in Account :
        AddDelegate(caller, delegate) \/ RemoveDelegate(caller, delegate)

Next == \/ AdvanceTime /\ UNCHANGED <<schemas, serviceVars>>
        \/ RegistryNext /\ UNCHANGED serviceVars
        \/ AttestNext
        \/ RevokeNext
        \/ AuthorityNext
        \/ DelegateNext

Spec == Init /\ [][Next]_vars

-----------------------------------------------------------------------------
(* Properties *)

TypeOK ==
    /\ now \in 1 .. MaxTime
    /\ DOMAIN schemas \subseteq SchemaUID
    /\ \A s \in DOMAIN schemas : schemas[s] \in SchemaRecord
    /\ DOMAIN attestations \subseteq AttestationUID
    /\ \A u \in DOMAIN attestations : attestations[u] \in AttestationRecord
    /\ nonces \in [Account -> Nat]
    /\ DOMAIN authorities \subseteq Account
    /\ \A a \in DOMAIN authorities : authorities[a] \in AuthorityRecord
    /\ delegates \in [Account -> SUBSET Account]
    /\ delegateList \in [Account -> Seq(Account)]

\* A UID in storage hashes the attester and the nonce of its own record, and that
\* nonce is used up: no later attestation of anybody gets the UID again (attest,
\* attestOnBehalf).
UIDsAreUsedUp ==
    \A u \in DOMAIN attestations :
        LET r == attestations[u] IN
        u.attester = r.attester /\ u.nonce = r.nonce /\ r.nonce < nonces[r.attester]

\* An attester's nonces are used in order, each for exactly one attestation,
\* whether it attests itself or through delegates (attest, attestOnBehalf).
NoncesCountAttestations ==
    \A a \in Account :
        LET mine == {u \in DOMAIN attestations : attestations[u].attester = a} IN
        /\ {attestations[u].nonce : u \in mine} = 0 .. nonces[a] - 1
        /\ \A u, v \in mine : attestations[u].nonce = attestations[v].nonce => u = v

\* The two ways the contract stores delegates agree: the list getDelegates
\* returns names every address isDelegate answers true for, once.
DelegateListMatchesMap ==
    \A a \in Account :
        /\ {delegateList[a][i] : i \in DOMAIN delegateList[a]} = delegates[a]
        /\ Len(delegateList[a]) = Cardinality(delegates[a])

Stream == INSTANCE EventStream WITH stream <- log

\* Whoever registers a schema first is its authority for good: no later
\* registration of the same content, by anybody, touches the record (register).
SchemasNeverChange ==
    [][\A s \in DOMAIN schemas : s \in DOMAIN schemas' /\ schemas'[s] = schemas[s]]_vars

\* The events tell the whole story: replaying the log gives the schemas, the
\* attestations, the revocations, the authorities and the delegates in storage.
LogReplaysToState ==
    /\ DOMAIN schemas = Stream!SchemasIn(log)
    /\ DOMAIN attestations = Stream!CreatedIn(log)
    /\ {u \in DOMAIN attestations : attestations[u].revoked} = Stream!RevokedIn(log)
    /\ DOMAIN authorities = Stream!AuthoritiesIn(log)
    /\ \A a \in Account : delegates[a] = Stream!DelegatesIn(log, a)

\* The log of the contracts is a legal stream of events: nothing is created
\* twice, nothing is revoked twice, before it exists or under a schema that is
\* not revocable, and a delegate is not added or removed twice in a row.
LogIsEventStream == Stream!Spec

\* An attestation, once stored, is never overwritten: the only change its record
\* ever sees is one revocation, stamped with the time it happened.
RecordsOnlyGetRevoked ==
    [][\A u \in DOMAIN attestations :
          /\ u \in DOMAIN attestations'
          /\ \/ attestations'[u] = attestations[u]
             \/ /\ ~attestations[u].revoked
                /\ attestations'[u] = [attestations[u] EXCEPT !.revoked = TRUE,
                                                              !.revocationTime = now]]_vars

\* The admin's verification covers the metadata the admin saw: an authority
\* cannot change its metadata and stay verified (registerAuthority).
VerificationCoversMetadata ==
    [][\A a \in DOMAIN authorities :
          authorities[a].isVerified /\ authorities'[a].isVerified
              => authorities'[a] = authorities[a]]_vars

\* What getAttestation tells a relying party follows the life of an attestation:
\* valid, then perhaps revoked, then perhaps expired, and never back.
Lifecycle == INSTANCE AttestationLifecycle
                 WITH view <- [u \in DOMAIN attestations |-> GetAttestation(u)]
ViewIsLifecycle == Lifecycle!Spec
=============================================================================
