----------------------------- MODULE Deployment -----------------------------
(***************************************************************************)
(* The contracts together with the indexer that follows them: what module  *)
(* Indexer takes from its surroundings, a stream of legal events and a set *)
(* of expired attestations, is here the log that AttestationService really *)
(* emits and what its getAttestation really refuses.                       *)
(*                                                                         *)
(* A transaction of the contracts and a step of the indexer interleave in  *)
(* any order; they share nothing but the log, read through the mirror      *)
(* node, and the look-ups of single records.                               *)
(***************************************************************************)
EXTENDS AttestationService

CONSTANTS MaxCrashes,   \* bound: how often the indexer's process ends
          PageSize,     \* logs the mirror node answers with at once
          WritesFail,   \* whether writes to the database may fail
          HcsEnabled,   \* whether the indexer publishes messages
          MaxLookups,   \* bound: requests of the API under way
          MaxCalls,     \* bound: publish calls in flight
          MaxTopics     \* bound: topics of a schema

ASSUME DeploymentAssumption ==
    /\ MaxCrashes \in Nat /\ MaxLookups \in Nat /\ PageSize \in Nat \ {0}
    /\ MaxCalls \in Nat /\ MaxTopics \in Nat
    /\ WritesFail \in BOOLEAN /\ HcsEnabled \in BOOLEAN

VARIABLES schemaRows,       \* the tables of the database
          attestationRows,
          authorityRows,
          cursor, syncStatus, poll, lookups, crashes,
          inflight, topicLog, schemaTopics

indexerVars == <<schemaRows, attestationRows, authorityRows, cursor, syncStatus, poll,
                 lookups, crashes, inflight, topicLog, schemaTopics>>
deployedVars == <<vars, indexerVars>>

\* The events the contracts emit: nonces count attestations, each of which is an event.
ContractUID == [schemaUid : SchemaUID, subject : Subject, attester : Account,
                data : Payload, nonce : 0 .. MaxEvents]

ContractEvent ==
    [type : {"SchemaRegistered"}, uid : SchemaUID, authority : Account,
     resolver : Contract \cup {NoResolver}]
    \cup [type : {"AttestationCreated"}, uid : ContractUID, schemaUid : SchemaUID,
          attester : Account, subject : Subject]
    \cup [type : {"AttestationRevoked"}, uid : ContractUID, revoker : Account]
    \cup [type : {"AuthorityRegistered"}, authority : Account]
    \cup [type : {"DelegateAdded", "DelegateRemoved"}, authority : Account, delegate : Account]

\* The attestations getAttestation no longer returns.
Expired == {u \in DOMAIN attestations : GetAttestation(u) = "AttestationExpired"}

\* The indexer, started with the contracts; one that starts later polls later.
Follower == INSTANCE Indexer
    WITH stream <- log, expired <- Expired, schemas <- schemaRows,
         attestations <- attestationRows, authorities <- authorityRows,
         Schema <- SchemaUID, Event <- ContractEvent, History <- <<>>, Lasting <- {}

DeployedInit == Init /\ Follower!Init

DeployedNext == \/ Next /\ UNCHANGED indexerVars
                \/ UNCHANGED vars /\ Follower!IndexerNext

DeployedSpec == DeployedInit /\ [][DeployedNext]_deployedVars

-----------------------------------------------------------------------------
(* Properties *)

\* The surroundings the indexer was checked in are the ones it has: every step of
\* the contracts is, to the indexer, a legal event or a block that lets
\* attestations expire, and its own steps read nothing else of them.
FollowsTheContracts == Follower!Spec

\* Whatever a reader of the database is told, the storage of the contracts backs:
\* a row is about something that is stored there, and an attestation with the mark
\* "revoked" is revoked there, however late, often or out of order it was indexed.
RowsAreOnChain ==
    /\ DOMAIN schemaRows \subseteq DOMAIN schemas
    /\ DOMAIN attestationRows \subseteq DOMAIN attestations
    /\ \A u \in DOMAIN attestationRows :
          attestationRows[u].revoked => attestations[u].revoked
    /\ authorityRows \subseteq DOMAIN authorities

\* What the event e announces holds in the storage of the contracts.
Stands(e) ==
    CASE e.type = "SchemaRegistered"    -> e.uid \in DOMAIN schemas
      [] e.type = "AttestationCreated"  -> e.uid \in DOMAIN attestations
      [] e.type = "AttestationRevoked"  -> e.uid \in DOMAIN attestations
                                           /\ attestations[e.uid].revoked
      [] e.type = "AuthorityRegistered" -> e.authority \in DOMAIN authorities
      [] OTHER -> FALSE

\* The audit trail on the consensus service can be held against the contracts: a
\* message in a topic announces something that stands in their storage, and in the topic
\* of a schema something of that schema, although it is sent by calls that run behind the
\* database, which runs behind the chain.
AuditIsOnChain ==
    /\ \A t \in Follower!Global : \A i \in topicLog[t] : Stands(log[i])
    /\ \A s \in SchemaUID : \A k \in DOMAIN schemaTopics[s] : \A i \in schemaTopics[s][k] :
          Stands(log[i]) /\ Follower!SchemaOf(log[i]) = s
=============================================================================
