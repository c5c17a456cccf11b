------------------------------ MODULE Indexer ------------------------------
(***************************************************************************)
(* apps/indexer: a loop that polls the mirror node for the logs of the two *)
(* contracts, decodes them, writes rows to PostgreSQL and publishes audit  *)
(* messages; and the reads of the REST API that fill in missing data.      *)
(*                                                                         *)
(* Every transaction of the service has a consensus timestamp of its own   *)
(* and emits one event, so the position of an event in the stream stands   *)
(* for its timestamp.  A step ends at an await whose other side matters:   *)
(* the two requests, the creation of a topic, each event's write and the   *)
(* final write of the state may each fail, or the process may end there.   *)
(***************************************************************************)
EXTENDS HcsPublisher

CONSTANTS Event,        \* the events the contracts may emit
          History,      \* what they had emitted before the indexer was deployed
          MaxEvents,    \* bound: the length of the stream
          MaxCrashes,   \* bound: how often the process ends
          MaxLookups,   \* bound: requests of the API under way
          Lasting,      \* the attestations without an expiration time
          PageSize,     \* limit, 100 in the code
          WritesFail    \* whether writes to the database may fail

\* The events a log may hold.
Emitted == Event \cup {History[i] : i \in DOMAIN History}

ASSUME IndexerAssumption ==
    /\ MaxEvents \in Nat /\ MaxCrashes \in Nat /\ MaxLookups \in Nat
    /\ MaxCalls \in Nat /\ MaxTopics \in Nat /\ PageSize \in Nat \ {0}
    /\ HcsEnabled \in BOOLEAN /\ WritesFail \in BOOLEAN
    /\ History \in Seq(Emitted)
    /\ \A e \in Emitted : e.type = "SchemaRegistered" => e.uid \in Schema

VARIABLES stream,       \* what the contracts have emitted
          expired,      \* the attestations getAttestation no longer returns
          schemas,      \* the rows of each table
          attestations,
          authorities,
          cursor,       \* indexerState.lastProcessedTimestamp
          syncStatus,   \* indexerState.syncStatus
          poll,         \* the local variables of poll()
          lookups,      \* the UIDs whose requests await what the contract has
          crashes

dbVars   == <<schemas, attestations, authorities>>
stateVars == <<cursor, syncStatus>>
vars == <<stream, expired, dbVars, stateVars, poll, lookups, crashes, hcsVars>>

Contracts == INSTANCE EventStream

-----------------------------------------------------------------------------
(* The contracts and the mirror node *)

Source(e) == IF e.type = "SchemaRegistered" THEN "registry" ELSE "service"

\* The topics decodeLog recognises.
Decodable(e) == e.type \in {"SchemaRegistered", "AttestationCreated",
                            "AttestationRevoked", "AuthorityRegistered"}

Emit(e) ==
    /\ Len(stream) < MaxEvents
    /\ Contracts!Legal(stream, e)
    /\ stream' = Append(stream, e)
    /\ UNCHANGED <<expired, dbVars, stateVars, poll, lookups, crashes, hcsVars>>

\* A block after the expiration times of us: several may pass at once.
Expire(us) ==
    /\ us # {}
    /\ expired' = expired \cup us
    /\ UNCHANGED <<stream, dbVars, stateVars, poll, lookups, crashes, hcsVars>>

\* A fault for the runs to find: the newest logs come first.
FetchContractLogs_Desc(c, from) ==
    LET logs == {i \in DOMAIN stream : Source(stream[i]) = c /\ i >= from}
    IN  {i \in logs : Cardinality({j \in logs : j > i}) < PageSize}

\* fetchContractLogs: the oldest PageSize logs of c, from that timestamp on
FetchContractLogs(c, from) ==
    LET logs == {i \in DOMAIN stream : Source(stream[i]) = c /\ i >= from}
    IN  {i \in logs : Cardinality({j \in logs : j < i}) < PageSize}

-----------------------------------------------------------------------------
(* poll *)

Idle == [pc |-> "idle", from |-> 0, answered |-> {}, queue |-> {}, latest |-> 0,
         asked |-> FALSE, topic |-> 0]

Init == /\ stream = History
        /\ expired = {}
        /\ schemas = <<>> /\ attestations = <<>> /\ authorities = {}
        /\ cursor = 0 /\ syncStatus = "syncing"
        /\ poll = Idle
        /\ lookups = {}
        /\ crashes = 0
        /\ HcsInit

StartPoll ==
    /\ poll.pc = "idle"
    /\ poll' = [Idle EXCEPT !.pc = "fetching", !.from = cursor, !.latest = cursor]
    /\ UNCHANGED <<stream, expired, dbVars, stateVars, lookups, crashes, hcsVars>>

\* The requests for the two contracts are answered in any order, at any two moments.
Fetch(c) ==
    /\ poll.pc = "fetching"
    /\ c \notin poll.answered
    /\ poll' = [poll EXCEPT !.answered = @ \cup {c},
                            !.queue = @ \cup FetchContractLogs(c, poll.from),
                            !.pc = IF poll.answered = {} THEN "fetching" ELSE "processing"]
    /\ UNCHANGED <<stream, expired, dbVars, stateVars, lookups, crashes, hcsVars>>

\* A fault for the runs to find: after an error no further poll is scheduled.
GiveUp_Stops ==
    /\ syncStatus' = "error"
    /\ poll' = [Idle EXCEPT !.pc = "stopped"]
    /\ UNCHANGED <<stream, expired, dbVars, cursor, lookups, crashes, hcsVars>>

\* poll's catch: the error is recorded, the cursor is not touched.
GiveUp ==
    /\ syncStatus' = "error"
    /\ poll' = Idle
    /\ UNCHANGED <<stream, expired, dbVars, cursor, lookups, crashes, hcsVars>>

FetchFails == poll.pc = "fetching" /\ GiveUp

\* The log whose turn it is: the one with the least timestamp.
Current == CHOOSE i \in poll.queue : \A j \in poll.queue : i <= j
Processing == poll.pc = "processing" /\ poll.queue # {}

Skipped(i) == [poll EXCEPT !.queue = @ \ {i}, !.asked = FALSE, !.topic = 0]

Done(i) == [Skipped(i) EXCEPT !.latest = i]

\* The boundary the mirror node includes again, and logs decodeLog does not know.
SkipLog ==
    /\ Processing
    /\ Current = poll.from \/ ~Decodable(stream[Current])
    /\ poll' = Skipped(Current)
    /\ UNCHANGED <<stream, expired, dbVars, stateVars, lookups, crashes, hcsVars>>

\* An event whose processing throws is logged and left behind.
SkipFailure ==
    /\ Processing
    /\ WritesFail
    /\ poll' = Skipped(Current)
    /\ UNCHANGED <<stream, expired, dbVars, stateVars, lookups, crashes, hcsVars>>

Handling(type) ==
    Processing /\ Current # poll.from /\ stream[Current].type = type

\* createSchemaTopic: a topic may be created, or not, and its identifier may be
\* lost although it was (the receipt fails).
CreateTopic ==
    LET s == stream[Current].uid IN
    /\ Handling("SchemaRegistered")
    /\ HcsEnabled
    /\ ~poll.asked
    /\ \/ /\ CreateSchemaTopic(s)
          /\ \E k \in {0, Len(schemaTopics[s]) + 1} :
                poll' = [poll EXCEPT !.asked = TRUE, !.topic = k]
       \/ UNCHANGED hcsVars /\ poll' = [poll EXCEPT !.asked = TRUE]
    /\ UNCHANGED <<stream, expired, dbVars, stateVars, lookups, crashes>>

\* upsert: the row of key is created, or updated.
Upsert(table, key, row) ==
    [k \in DOMAIN table \cup {key} |-> IF k = key THEN row ELSE table[k]]

\* schema.upsert: the update keeps the topic of the row when there is no new one.
\* complete: the definition was read from the contract.
IndexSchema(complete) ==
    LET s == stream[Current].uid IN
    /\ Handling("SchemaRegistered")
    /\ HcsEnabled => poll.asked
    /\ schemas' = Upsert(schemas, s,
                         [complete |-> complete,
                          topic |-> IF poll.topic = 0 /\ s \in DOMAIN schemas
                                    THEN schemas[s].topic ELSE poll.topic])
    /\ Publish(Current, "schemas", s, poll.topic)
    /\ poll' = Done(Current)
    /\ UNCHANGED <<stream, expired, attestations, authorities, stateVars, lookups, crashes>>

\* The topic in the row of s, null when there is no row.
TopicOf(s) == IF s \in DOMAIN schemas THEN schemas[s].topic ELSE 0

\* A fault for the runs to find: the update side of the upsert resets the row.
Upserted_Reset(u, complete) == [complete |-> complete, revoked |-> FALSE]

\* A fault for the runs to find: what the contract does not return is taken for revoked.
Upserted_Gone(u, complete) == [complete |-> complete, revoked |-> ~complete]

\* attestation.upsert leaves revoked alone when the row is there already.
Upserted(u, complete) ==
    [complete |-> complete,
     revoked |-> u \in DOMAIN attestations /\ attestations[u].revoked]

\* After the write the schema's row is looked up, and the event published; when
\* that throws the row stays, but the event does not count as processed.
PublishAndFinish(global, s, topic) ==
    \/ Publish(Current, global, s, topic) /\ poll' = Done(Current)
    \/ WritesFail /\ UNCHANGED hcsVars /\ poll' = Skipped(Current)

\* complete: getAttestation answered; it does not for an expired attestation.
IndexAttestation(complete) ==
    LET e == stream[Current] IN
    /\ Handling("AttestationCreated")
    /\ complete => e.uid \notin expired
    /\ attestations' = Upsert(attestations, e.uid, Upserted(e.uid, complete))
    /\ PublishAndFinish("attestations", e.schemaUid, TopicOf(e.schemaUid))
    /\ UNCHANGED <<stream, expired, schemas, authorities, stateVars, lookups, crashes>>

\* where: { uid }; there may be no such row
RowsOf(u) == {u} \cap DOMAIN attestations

\* A fault for the runs to find: the topic is the one of the schema, row or no row.
IndexRevocation_AnyTopic ==
    LET u == stream[Current].uid IN
    /\ Handling("AttestationRevoked")
    /\ attestations' = [v \in DOMAIN attestations |->
                           [attestations[v] EXCEPT !.revoked = @ \/ v \in RowsOf(u)]]
    /\ PublishAndFinish("attestations", u.schemaUid, TopicOf(u.schemaUid))
    /\ UNCHANGED <<stream, expired, schemas, authorities, stateVars, lookups, crashes>>

\* updateMany: no row, no effect.
IndexRevocation ==
    LET u == stream[Current].uid IN
    /\ Handling("AttestationRevoked")
    /\ attestations' = [v \in DOMAIN attestations |->
                           [attestations[v] EXCEPT !.revoked = @ \/ v \in RowsOf(u)]]
    /\ PublishAndFinish("attestations", u.schemaUid,
                        IF u \in DOMAIN attestations THEN TopicOf(u.schemaUid) ELSE 0)
    /\ UNCHANGED <<stream, expired, schemas, authorities, stateVars, lookups, crashes>>

IndexAuthority ==
    LET a == stream[Current].authority IN
    /\ Handling("AuthorityRegistered")
    /\ authorities' = authorities \cup {a}
    /\ Publish(Current, "authorities", a, 0)
    /\ poll' = Done(Current)
    /\ UNCHANGED <<stream, expired, schemas, attestations, stateVars, lookups, crashes>>

\* The state is written only when something moved.
SaveState ==
    /\ poll.pc = "processing" /\ poll.queue = {}
    /\ IF poll.latest # poll.from
       THEN cursor' = poll.latest /\ syncStatus' = "synced"
       ELSE UNCHANGED stateVars
    /\ poll' = Idle
    /\ UNCHANGED <<stream, expired, dbVars, lookups, crashes, hcsVars>>

SaveFails ==
    /\ poll.pc = "processing" /\ poll.queue = {} /\ poll.latest # poll.from
    /\ WritesFail
    /\ GiveUp

\* The process ends (and is started again): only the database is left.
Crash ==
    /\ crashes < MaxCrashes
    /\ crashes' = crashes + 1
    /\ poll' = Idle
    /\ lookups' = {}
    /\ HcsCrash
    /\ UNCHANGED <<stream, expired, dbVars, stateVars>>

-----------------------------------------------------------------------------
(* The REST API *)

\* GET /schemas/:uid or /attestations/:uid finds a row without its data and asks the
\* contract, which does not answer for an attestation that has expired.
LookUp(uid) ==
    /\ Cardinality(lookups) < MaxLookups
    /\ \/ uid \in DOMAIN schemas /\ ~schemas[uid].complete
       \/ uid \in DOMAIN attestations \ expired /\ ~attestations[uid].complete
    /\ lookups' = lookups \cup {uid}
    /\ UNCHANGED <<stream, expired, dbVars, stateVars, poll, crashes, hcsVars>>

\* The request is over, or another one for the same UID is left.
Answered(uid) == uid \in lookups /\ lookups' \in {lookups, lookups \ {uid}}

\* The request fails, or fills in what it was told, in a row the indexer may have written
\* since, and only that.
BackfillSchema(s) ==
    /\ Answered(s)
    /\ schemas' \in {schemas, [schemas EXCEPT ![s].complete = TRUE]}
    /\ UNCHANGED <<stream, expired, attestations, authorities, stateVars, poll, crashes, hcsVars>>

BackfillAttestation(u) ==
    /\ Answered(u)
    /\ attestations' \in {attestations, [attestations EXCEPT ![u].complete = TRUE]}
    /\ UNCHANGED <<stream, expired, schemas, authorities, stateVars, poll, crashes, hcsVars>>

-----------------------------------------------------------------------------
PollStep ==
    \/ SkipLog
    \/ CreateTopic
    \/ \E complete \in BOOLEAN : IndexSchema(complete) \/ IndexAttestation(complete)
    \/ IndexRevocation
    \/ IndexAuthority
    \/ SaveState

\* What happens on the contracts' side.
ContractsNext ==
    \/ \E e \in Event : Emit(e)
    \/ \E us \in SUBSET (Contracts!CreatedIn(stream) \ (expired \cup Lasting)) : Expire(us)

\* What the process of the indexer, its API and its message submissions do.
IndexerNext ==
    \/ StartPoll
    \/ \E c \in {"registry", "service"} : Fetch(c)
    \/ FetchFails
    \/ PollStep
    \/ SkipFailure
    \/ SaveFails
    \/ Crash
    \/ \E uid \in DOMAIN schemas \cup DOMAIN attestations : LookUp(uid)
    \/ \E s \in DOMAIN schemas : BackfillSchema(s)
    \/ \E u \in DOMAIN attestations : BackfillAttestation(u)
    \/ HcsNext /\ UNCHANGED <<stream, expired, dbVars, stateVars, poll, lookups, crashes>>

Next == ContractsNext \/ IndexerNext

Spec == Init /\ [][Next]_vars

\* The timers of the loop fire, its steps go on, and the mirror node is not down
\* for ever: the second of two requests is answered again and again.
Fairness ==
    /\ WF_vars(StartPoll)
    /\ WF_vars(PollStep)
    /\ SF_vars(\E c \in {"registry", "service"} : Fetch(c))
    /\ SF_vars(\E c \in {"registry", "service"} : Fetch(c) /\ poll.answered # {})

FairSpec == Spec /\ Fairness

-----------------------------------------------------------------------------
(* Properties *)

\* The event e shows in the database.
Reflected(e) ==
    CASE e.type = "SchemaRegistered"    -> e.uid \in DOMAIN schemas
      [] e.type = "AttestationCreated"  -> e.uid \in DOMAIN attestations
      [] e.type = "AttestationRevoked"  -> e.uid \in DOMAIN attestations
                                           /\ attestations[e.uid].revoked
      [] e.type = "AuthorityRegistered" -> e.authority \in authorities

Row == [complete : BOOLEAN, revoked : BOOLEAN]

IndexerTypeOK ==
    /\ stream \in Seq(Emitted)
    /\ \A u \in DOMAIN attestations : attestations[u] \in Row
    /\ \A s \in DOMAIN schemas : schemas[s].topic \in 0 .. Len(schemaTopics[s])
    /\ cursor \in 0 .. Len(stream)
    /\ syncStatus \in {"syncing", "synced", "error"}
    /\ poll.pc \in {"idle", "fetching", "processing"}
    /\ poll.queue \subseteq DOMAIN stream
    /\ lookups \subseteq DOMAIN schemas \cup DOMAIN attestations

\* The database invents nothing, however polls, failures, restarts and reads of the
\* API interleave: a row stands for an event that was emitted, and a row that says
\* revoked for an attestation that is (processEvent).
DatabaseSaysWhatHappened ==
    /\ DOMAIN schemas \subseteq Contracts!SchemasIn(stream)
    /\ DOMAIN attestations \subseteq Contracts!CreatedIn(stream)
    /\ {u \in DOMAIN attestations : attestations[u].revoked} \subseteq Contracts!RevokedIn(stream)
    /\ authorities \subseteq Contracts!AuthoritiesIn(stream)

\* A revocation the database knows of is never forgotten, although the event that
\* created the attestation may be processed again after a restart (the upsert).
RevocationsStick ==
    [][\A u \in DOMAIN attestations :
          attestations[u].revoked =>
              u \in DOMAIN attestations' /\ attestations'[u].revoked]_vars

\* The schema whose activity an event is part of.
SchemaOf(e) == IF e.type = "AttestationRevoked" THEN e.uid.schemaUid
               ELSE IF e.type = "AttestationCreated" THEN e.schemaUid ELSE e.uid

\* The audit trail never runs ahead of the database, however calls overlap, are made
\* again and end with the process: a message in a global topic is about an event that
\* shows there, unless it is a revocation, which is published although there may be no
\* row; one in the topic of a schema is about an event of that schema and shows, also if
\* it is a revocation (the publish calls follow the writes and the look-up of the row).
AuditFollowsDatabase ==
    /\ \A t \in Global : \A i \in topicLog[t] :
          stream[i].type # "AttestationRevoked" => Reflected(stream[i])
    /\ \A s \in Schema : \A k \in DOMAIN schemaTopics[s] : \A i \in schemaTopics[s][k] :
          Reflected(stream[i]) /\ SchemaOf(stream[i]) = s

\* The database holds the "full history": every event up to the cursor, past which
\* the indexer never looks again, shows in it.
HistoryIsComplete ==
    \A i \in 1 .. cursor : Decodable(stream[i]) => Reflected(stream[i])

\* Every event is indexed in the end, those from before the first poll included.
EventuallyIndexed ==
    \A e \in {f \in Emitted : Decodable(f)} :
        (\E i \in DOMAIN stream : stream[i] = e) ~> Reflected(e)
=============================================================================
