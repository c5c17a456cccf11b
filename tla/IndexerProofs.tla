--------------------------- MODULE IndexerProofs ---------------------------
(***************************************************************************)
(* Theorems about the indexer, for every stream of events, every size of   *)
(* a page and any number of failures and restarts.                         *)
(***************************************************************************)
EXTENDS Indexer, FiniteLemmas

-----------------------------------------------------------------------------
(* What a step does to the stream and to the loop *)

\* The stream grows by legal events of Event, at its end, or stays.
LEMMA StreamCases ==
    [Next]_vars => \/ stream' = stream
                   \/ \E e \in Event : Contracts!Legal(stream, e) /\ stream' = Append(stream, e)
<1> SUFFICES ASSUME [Next]_vars
             PROVE  \/ stream' = stream
                    \/ \E e \in Event : Contracts!Legal(stream, e) /\ stream' = Append(stream, e)
    OBVIOUS
<1>1. CASE \E e \in Event : Emit(e)
    BY <1>1 DEF Emit
<1>2. CASE PollStep
    BY <1>2 DEF PollStep, SkipLog, CreateTopic, IndexSchema, IndexAttestation, IndexRevocation,
        IndexAuthority, SaveState
<1>3. CASE ~(\E e \in Event : Emit(e)) /\ ~PollStep
    BY <1>3 DEF Next, ContractsNext, IndexerNext, vars, Expire, StartPoll, Fetch, FetchFails,
        GiveUp, SkipFailure, SaveFails,
        Crash, LookUp, BackfillSchema, BackfillAttestation
<1> QED BY <1>1, <1>2, <1>3

\* What was emitted stays where it is.
LEMMA StreamGrows ==
    ASSUME stream \in Seq(Emitted), [Next]_vars
    PROVE  /\ stream' \in Seq(Emitted)
           /\ Len(stream) \in Nat /\ Len(stream') \in Nat /\ Len(stream) <= Len(stream')
           /\ DOMAIN stream = 1 .. Len(stream) /\ DOMAIN stream' = 1 .. Len(stream')
           /\ \A i \in DOMAIN stream : i \in DOMAIN stream' /\ stream'[i] = stream[i]
<1>1. CASE stream' = stream
    BY <1>1
<1>2. ASSUME NEW e \in Event, stream' = Append(stream, e)
      PROVE  /\ stream' \in Seq(Emitted)
             /\ Len(stream) \in Nat /\ Len(stream') \in Nat /\ Len(stream) <= Len(stream')
             /\ DOMAIN stream = 1 .. Len(stream) /\ DOMAIN stream' = 1 .. Len(stream')
             /\ \A i \in DOMAIN stream : i \in DOMAIN stream' /\ stream'[i] = stream[i]
    <2>1. e \in Emitted
        BY DEF Emitted
    <2> QED BY <1>2, <2>1
<1> QED BY <1>1, <1>2, StreamCases

\* Everything a step may do to the local variables of poll and to the cursor.
LEMMA PollCases ==
    ASSUME [Next]_vars
    PROVE  \/ UNCHANGED <<poll, cursor>>
           \/ poll' = Idle /\ cursor' \in {cursor, poll.latest}
           \/ StartPoll
           \/ \E c \in {"registry", "service"} : Fetch(c)
           \/ CreateTopic
           \/ Processing /\ poll' \in {Skipped(Current), Done(Current)} /\ UNCHANGED cursor
<1>1. CASE PollStep
    BY <1>1 DEF PollStep, SkipLog, IndexSchema, IndexAttestation, IndexRevocation,
        IndexAuthority, SaveState, Handling, PublishAndFinish, stateVars
<1>2. CASE ~PollStep
    BY <1>2 DEF Next, ContractsNext, IndexerNext, vars, stateVars, Emit, Expire, FetchFails,
        GiveUp, SkipFailure, SaveFails,
        Crash, LookUp, BackfillSchema, BackfillAttestation
<1> QED BY <1>1, <1>2

\* The log whose turn it is exists, and comes first.
LEMMA CurrentIsFirst ==
    ASSUME poll.queue \subseteq Nat, Processing
    PROVE  Current \in poll.queue /\ \A j \in poll.queue : Current <= j
BY Least DEF Current, Processing

PollRecord ==
    [pc : {"idle", "fetching", "processing"}, from : Nat,
     answered : SUBSET {"registry", "service"}, queue : SUBSET Nat, latest : Nat,
     asked : BOOLEAN, topic : Nat]

\* The types of the stream, of the cursor and of poll's local variables.
LoopTyped ==
    /\ stream \in Seq(Emitted)
    /\ cursor \in 0 .. Len(stream)
    /\ syncStatus \in {"syncing", "synced", "error"}
    /\ poll \in PollRecord
    /\ poll.queue \subseteq DOMAIN stream
    /\ poll.latest \in 0 .. Len(stream)

\* Skipping a log, or counting it as processed.
LEMMA SkippedType ==
    ASSUME poll \in PollRecord, NEW i \in Nat
    PROVE  /\ Skipped(i) \in PollRecord /\ Done(i) \in PollRecord
           /\ Skipped(i) = [poll EXCEPT !.queue = poll.queue \ {i}, !.asked = FALSE, !.topic = 0]
           /\ Skipped(i).queue = poll.queue \ {i} /\ Done(i).queue = poll.queue \ {i}
           /\ Skipped(i).latest = poll.latest /\ Done(i).latest = i
           /\ Skipped(i).topic = 0 /\ Done(i).topic = 0
           /\ Skipped(i).pc = poll.pc /\ Done(i).pc = poll.pc
           /\ Skipped(i).from = poll.from /\ Done(i).from = poll.from
BY DEF Skipped, Done, PollRecord

Named == Schema \cup {e.schemaUid : e \in Emitted} \cup {e.uid.schemaUid : e \in Emitted}
                \cup {e.authority : e \in Emitted}

\* A call reaches the topic of a schema only when it is for one.
Job == {j \in [message : Nat, global : Global, schema : Named, topic : Nat,
               step : {"global", "schema"}, attempt : Nat] : j.step = "schema" => j.topic # 0}

\* The types of the publish calls and of the topics.
PublisherTyped ==
    /\ inflight \subseteq Job
    /\ topicLog \in [Global -> SUBSET Nat]
    /\ schemaTopics \in [Schema -> Seq(SUBSET Nat)]

\* The types of the rows.
RowsTyped ==
    /\ \A s \in DOMAIN schemas : schemas[s] \in [complete : BOOLEAN, topic : Nat]
    /\ \A u \in DOMAIN attestations : attestations[u] \in Row

Typed == LoopTyped /\ PublisherTyped /\ RowsTyped

\* The schema of the log whose turn it is.
LEMMA CurrentSchema ==
    ASSUME LoopTyped, Processing, stream[Current].type = "SchemaRegistered"
    PROVE  stream[Current].uid \in Schema
<1>1. Current \in DOMAIN stream
    BY CurrentIsFirst DEF LoopTyped, PollRecord
<1>2. stream[Current] \in Emitted
    BY <1>1 DEF LoopTyped
<1> QED BY <1>2, IndexerAssumption

\* What CreateTopic notes.
LEMMA TopicNoted ==
    ASSUME Typed, CreateTopic
    PROVE  /\ Processing /\ stream[Current].type = "SchemaRegistered"
           /\ stream[Current].uid \in Schema
           /\ \/ poll' = [poll EXCEPT !.asked = TRUE] /\ schemaTopics' = schemaTopics
              \/ /\ schemaTopics' = [schemaTopics EXCEPT ![stream[Current].uid] = Append(@, {})]
                 /\ \E k \in {0, Len(schemaTopics[stream[Current].uid]) + 1} :
                       /\ k \in Nat
                       /\ poll' = [poll EXCEPT !.asked = TRUE, !.topic = k]
<1>1. Processing /\ stream[Current].type = "SchemaRegistered"
    BY DEF CreateTopic, Handling
<1>2. stream[Current].uid \in Schema
    BY <1>1, CurrentSchema DEF Typed
<1>3. Len(schemaTopics[stream[Current].uid]) \in Nat
    BY <1>2 DEF Typed, PublisherTyped
<1> QED BY <1>1, <1>2, <1>3 DEF CreateTopic, CreateSchemaTopic, hcsVars

\* The types of the loop are kept.
LEMMA LoopStep == Typed /\ [Next]_vars => LoopTyped'
<1> SUFFICES ASSUME Typed, [Next]_vars PROVE LoopTyped'
    OBVIOUS
<1> USE DEF Typed
<1>1. /\ stream' \in Seq(Emitted)
      /\ Len(stream) \in Nat /\ Len(stream') \in Nat /\ Len(stream) <= Len(stream')
      /\ DOMAIN stream = 1 .. Len(stream) /\ DOMAIN stream \subseteq DOMAIN stream'
    BY StreamGrows DEF LoopTyped
<1>2. syncStatus' \in {"syncing", "synced", "error"}
    <2>1. CASE PollStep
        BY <2>1 DEF LoopTyped, PollStep, SkipLog, CreateTopic, IndexSchema, IndexAttestation,
            IndexRevocation, IndexAuthority, SaveState, stateVars
    <2>2. CASE ~PollStep
        BY <2>2 DEF LoopTyped, Next, ContractsNext, IndexerNext, vars, stateVars, Emit, Expire,
            StartPoll, Fetch, FetchFails,
            GiveUp, SkipFailure, SaveFails, Crash, LookUp, BackfillSchema, BackfillAttestation
    <2> QED BY <2>1, <2>2
<1>3. /\ cursor \in 0 .. Len(stream) /\ poll \in PollRecord
      /\ poll.queue \subseteq DOMAIN stream /\ poll.latest \in 0 .. Len(stream)
    BY DEF LoopTyped
<1> DEFINE Loop == /\ cursor' \in 0 .. Len(stream') /\ poll' \in PollRecord
                   /\ poll'.queue \subseteq DOMAIN stream' /\ poll'.latest \in 0 .. Len(stream')
<1> SUFFICES Loop
    BY <1>1, <1>2 DEF LoopTyped
<1>5. CASE UNCHANGED <<poll, cursor>>
    BY <1>1, <1>3, <1>5
<1>6. CASE poll' = Idle /\ cursor' \in {cursor, poll.latest}
    <2>1. Idle \in PollRecord /\ Idle.queue = {} /\ Idle.latest = 0
        BY DEF Idle, PollRecord
    <2> QED BY <1>1, <1>3, <1>6, <2>1
<1>7. CASE StartPoll
    <2>1. cursor' = cursor /\ poll' = [Idle EXCEPT !.pc = "fetching", !.from = cursor, !.latest = cursor]
        BY <1>7 DEF StartPoll, stateVars
    <2>2. cursor \in Nat
        BY <1>1, <1>3
    <2>3. poll' = [pc |-> "fetching", from |-> cursor, answered |-> {}, queue |-> {},
                   latest |-> cursor, asked |-> FALSE, topic |-> 0]
        BY <2>1 DEF Idle
    <2>4. poll' \in PollRecord /\ poll'.queue = {} /\ poll'.latest = cursor
        BY <2>2, <2>3 DEF PollRecord
    <2> QED BY <1>1, <1>3, <2>1, <2>4
<1>8. ASSUME NEW c \in {"registry", "service"}, Fetch(c) PROVE Loop
    <2> DEFINE page == FetchContractLogs(c, poll.from)
    <2>1. cursor' = cursor /\ page \in SUBSET DOMAIN stream /\ page \in SUBSET Nat
        BY <1>1, <1>8 DEF Fetch, stateVars, FetchContractLogs
    <2>2. poll' = [poll EXCEPT !.answered = @ \cup {c}, !.queue = @ \cup page,
                               !.pc = IF poll.answered = {} THEN "fetching" ELSE "processing"]
        BY <1>8 DEF Fetch
    <2> HIDE DEF page
    <2>3. /\ poll' \in PollRecord /\ poll'.latest = poll.latest
          /\ poll'.queue = poll.queue \cup page
        BY <1>3, <2>1, <2>2 DEF PollRecord
    <2> QED BY <1>1, <1>3, <2>1, <2>3
<1>9. CASE CreateTopic
    <2>1. \/ poll' = [poll EXCEPT !.asked = TRUE]
          \/ \E k \in Nat : poll' = [poll EXCEPT !.asked = TRUE, !.topic = k]
        BY <1>9, TopicNoted
    <2>2. poll' \in PollRecord /\ poll'.queue = poll.queue /\ poll'.latest = poll.latest
        BY <1>3, <2>1 DEF PollRecord
    <2>3. cursor' = cursor
        BY <1>9 DEF CreateTopic, stateVars
    <2>4. poll'.queue \subseteq DOMAIN stream' /\ poll'.latest \in 0 .. Len(stream')
        BY <1>1, <1>3, <2>2
    <2> QED BY <1>1, <1>3, <2>2, <2>3, <2>4
<1>10. CASE Processing /\ poll' \in {Skipped(Current), Done(Current)} /\ UNCHANGED cursor
    <2>1. Current \in poll.queue /\ Current \in Nat /\ Current \in 0 .. Len(stream)
        BY <1>1, <1>3, <1>10, CurrentIsFirst
    <2>2. /\ Skipped(Current) \in PollRecord /\ Done(Current) \in PollRecord
          /\ Skipped(Current).queue \subseteq DOMAIN stream /\ Skipped(Current).latest = poll.latest
          /\ Done(Current).queue \subseteq DOMAIN stream /\ Done(Current).latest = Current
        BY <1>3, <2>1, SkippedType
    <2>3. cursor' = cursor
        BY <1>10
    <2> QED BY <1>1, <1>3, <1>10, <2>1, <2>2, <2>3
<1> QED BY <1>5, <1>6, <1>7, <1>8, <1>9, <1>10, PollCases

-----------------------------------------------------------------------------
(* The publisher, and the rows *)

\* When an event shows in the database, by its type.
LEMMA ReflectedMeans ==
    ASSUME NEW e
    PROVE  /\ e.type = "SchemaRegistered" => (Reflected(e) <=> e.uid \in DOMAIN schemas)
           /\ e.type = "AttestationCreated" => (Reflected(e) <=> e.uid \in DOMAIN attestations)
           /\ e.type = "AttestationRevoked" =>
                 (Reflected(e) <=> e.uid \in DOMAIN attestations /\ attestations[e.uid].revoked)
           /\ e.type = "AuthorityRegistered" => (Reflected(e) <=> e.authority \in authorities)
<1>1. CASE e.type = "SchemaRegistered"
    BY <1>1 DEF Reflected
<1>2. CASE e.type = "AttestationCreated"
    BY <1>2 DEF Reflected
<1>3. CASE e.type = "AttestationRevoked"
    BY <1>3 DEF Reflected
<1>4. CASE e.type = "AuthorityRegistered"
    BY <1>4 DEF Reflected
<1> QED BY <1>1, <1>2, <1>3, <1>4

\* What is said of an event in the audit trail is true: unless it is a revocation, it
\* shows in the database.
Shows(e) == Decodable(e) /\ (e.type # "AttestationRevoked" => Reflected(e))

\* One call more, about the log whose turn it is; if it is for the topic of a schema too,
\* the event is of that schema, and shows whatever it is.
Published ==
    \E e : \E job \in Job :
        /\ Processing /\ e = stream[Current] /\ stream' = stream /\ Shows(e)'
        /\ job.message = Current /\ job.step = "global"
        /\ job.topic # 0 => Reflected(e)' /\ SchemaOf(e) = job.schema
        /\ inflight' = inflight \cup {job}
        /\ UNCHANGED <<topicLog, schemaTopics>>

\* A publish call as the four handlers make it.
LEMMA PublishAdds ==
    ASSUME Processing, Current \in Nat, NEW e, e = stream[Current], stream' = stream, Shows(e)',
           NEW g \in Global, NEW s \in Named, NEW k \in Nat,
           k # 0 => Reflected(e)' /\ SchemaOf(e) = s,
           Publish(Current, g, s, k)
    PROVE  Published \/ UNCHANGED hcsVars
<1> DEFINE job == [message |-> Current, global |-> g, schema |-> s, topic |-> k,
                   step |-> "global", attempt |-> 1]
<1>1. /\ job \in Job /\ job.message = Current /\ job.step = "global"
      /\ job.topic = k /\ job.schema = s
    BY DEF Job
<1>2. /\ UNCHANGED <<topicLog, schemaTopics>>
      /\ inflight' = inflight \cup {job} \/ inflight' = inflight
    BY DEF Publish
<1> HIDE DEF job
<1> QED BY <1>1, <1>2 DEF Published, hcsVars

\* The log whose turn it is, its event and what names it.
LEMMA CurrentEvent ==
    ASSUME LoopTyped, Processing
    PROVE  /\ Current \in Nat /\ Current \in DOMAIN stream /\ Current \in poll.queue
           /\ stream[Current] \in Emitted
           /\ stream[Current].schemaUid \in Named /\ stream[Current].uid.schemaUid \in Named
           /\ stream[Current].authority \in Named
<1>1. Current \in poll.queue /\ Current \in Nat /\ Current \in DOMAIN stream
    BY CurrentIsFirst DEF LoopTyped, PollRecord
<1>2. stream[Current] \in Emitted
    BY <1>1 DEF LoopTyped
<1> QED BY <1>1, <1>2 DEF Named

\* The topic of a row.
LEMMA TopicOfType == ASSUME RowsTyped, NEW s PROVE TopicOf(s) \in Nat
BY DEF RowsTyped, TopicOf

\* Everything a step may do to the publish calls and the topics.
LEMMA PublisherCases ==
    ASSUME Typed, [Next]_vars
    PROVE  \/ UNCHANGED hcsVars
           \/ HcsCrash
           \/ HcsNext /\ UNCHANGED <<stream, dbVars>>
           \/ CreateTopic
           \/ Published
<1> DEFINE Goal == Published \/ UNCHANGED hcsVars
<1>1. ASSUME NEW complete \in BOOLEAN, IndexSchema(complete) PROVE Goal
    <2>1. PICK e : e = stream[Current]
        OBVIOUS
    <2>2. Processing /\ e.type = "SchemaRegistered" /\ e.uid \in Schema /\ Current \in Nat
        BY <1>1, <2>1, CurrentEvent, CurrentSchema DEF IndexSchema, Handling, Typed
    <2>3. Publish(Current, "schemas", e.uid, poll.topic) /\ stream' = stream
        BY <1>1, <2>1 DEF IndexSchema
    <2>4. poll.topic \in Nat /\ e.uid \in Named /\ "schemas" \in Global
        BY <2>2 DEF Typed, LoopTyped, PollRecord, Named, Global
    <2>5. Reflected(e)'
        BY <1>1, <2>1, <2>2, ReflectedMeans DEF IndexSchema, Upsert, Reflected
    <2>6. Shows(e)' /\ SchemaOf(e) = e.uid
        BY <2>2, <2>5 DEF Shows, Decodable, SchemaOf
    <2> QED BY <2>1, <2>2, <2>3, <2>4, <2>5, <2>6, PublishAdds
<1>2. ASSUME NEW complete \in BOOLEAN, IndexAttestation(complete) PROVE Goal
    <2>1. PICK e : e = stream[Current]
        OBVIOUS
    <2>2. Processing /\ e.type = "AttestationCreated" /\ Current \in Nat /\ e.schemaUid \in Named
        BY <1>2, <2>1, CurrentEvent DEF IndexAttestation, Handling, Typed
    <2>3. PublishAndFinish("attestations", e.schemaUid, TopicOf(e.schemaUid)) /\ stream' = stream
        BY <1>2, <2>1 DEF IndexAttestation
    <2>4. TopicOf(e.schemaUid) \in Nat /\ "attestations" \in Global
        BY TopicOfType DEF Typed, Global
    <2>5. Reflected(e)'
        BY <1>2, <2>1, <2>2 DEF IndexAttestation, Upsert, Reflected
    <2>6. Shows(e)' /\ SchemaOf(e) = e.schemaUid
        BY <2>2, <2>5 DEF Shows, Decodable, SchemaOf
    <2> QED BY <2>1, <2>2, <2>3, <2>4, <2>5, <2>6, PublishAdds DEF PublishAndFinish
<1>3. CASE IndexRevocation
    <2>1. PICK e : e = stream[Current]
        OBVIOUS
    <2>2. Processing /\ e.type = "AttestationRevoked" /\ Current \in Nat /\ e.uid.schemaUid \in Named
        BY <1>3, <2>1, CurrentEvent DEF IndexRevocation, Handling, Typed
    <2>3. PICK k : k = IF e.uid \in DOMAIN attestations THEN TopicOf(e.uid.schemaUid) ELSE 0
        OBVIOUS
    <2>4. PublishAndFinish("attestations", e.uid.schemaUid, k) /\ stream' = stream /\ k \in Nat
        BY <1>3, <2>1, <2>3, TopicOfType DEF IndexRevocation, Typed
    <2>5. k # 0 => Reflected(e)'
        <3>1. SUFFICES ASSUME e.uid \in DOMAIN attestations
                       PROVE  e.uid \in DOMAIN attestations' /\ attestations'[e.uid].revoked
            BY <2>2, <2>3 DEF Reflected
        <3>2. attestations' = [v \in DOMAIN attestations |->
                   [attestations[v] EXCEPT !.revoked = @ \/ v \in RowsOf(e.uid)]]
            BY <1>3, <2>1 DEF IndexRevocation
        <3>3. attestations[e.uid] \in Row
            BY <3>1 DEF Typed, RowsTyped
        <3> QED BY <3>1, <3>2, <3>3 DEF RowsOf, Row
    <2>6. Shows(e)' /\ SchemaOf(e) = e.uid.schemaUid /\ "attestations" \in Global
        BY <2>2 DEF Shows, Decodable, SchemaOf, Global
    <2> QED BY <2>1, <2>2, <2>4, <2>5, <2>6, PublishAdds DEF PublishAndFinish
<1>4. CASE IndexAuthority
    <2>1. PICK e : e = stream[Current]
        OBVIOUS
    <2>2. Processing /\ e.type = "AuthorityRegistered" /\ Current \in Nat /\ e.authority \in Named
        BY <1>4, <2>1, CurrentEvent DEF IndexAuthority, Handling, Typed
    <2>3. Publish(Current, "authorities", e.authority, 0) /\ stream' = stream
        BY <1>4, <2>1 DEF IndexAuthority
    <2>4. Shows(e)' /\ "authorities" \in Global
        BY <1>4, <2>1, <2>2 DEF IndexAuthority, Shows, Decodable, Reflected, Global
    <2> QED BY <2>1, <2>2, <2>3, <2>4, PublishAdds
<1>5. CASE SkipLog \/ SaveState
    BY <1>5 DEF SkipLog, SaveState
<1>6. CASE Crash
    BY <1>6 DEF Crash
<1>7. CASE \/ \E e \in Event : Emit(e)
           \/ \E us \in SUBSET (Contracts!CreatedIn(stream) \ (expired \cup Lasting)) : Expire(us)
           \/ StartPoll
           \/ \E c \in {"registry", "service"} : Fetch(c)
           \/ FetchFails
           \/ SkipFailure
           \/ SaveFails
           \/ \E uid \in DOMAIN schemas \cup DOMAIN attestations : LookUp(uid)
           \/ \E s \in DOMAIN schemas : BackfillSchema(s)
           \/ \E u \in DOMAIN attestations : BackfillAttestation(u)
           \/ UNCHANGED vars
    BY <1>7 DEF Emit, Expire, StartPoll, Fetch, FetchFails, GiveUp, SkipFailure, SaveFails,
        LookUp, BackfillSchema, BackfillAttestation, vars
<1> QED BY <1>1, <1>2, <1>3, <1>4, <1>5, <1>6, <1>7 DEF Next, ContractsNext, IndexerNext, PollStep

\* The calls about the logs of M, and of the logs and schemas of P when they are for the
\* topic of a schema too.
JobsAbout(M, P) ==
    {j \in Job : /\ j.message \in M
                 /\ j.topic # 0 => <<j.schema, j.message>> \in P}

\* The topics of the schemas tell of nothing but logs and schemas of P.
TopicsAbout(P) ==
    \A s \in Schema : \A k \in DOMAIN schemaTopics[s] : \A i \in schemaTopics[s][k] : <<s, i>> \in P

\* A call that goes on is about the same log and for the same topics.
LEMMA CallGoesOn ==
    ASSUME NEW M, NEW P, NEW call \in JobsAbout(M, P), Attempt(call),
           inflight \subseteq JobsAbout(M, P)
    PROVE  inflight' \subseteq JobsAbout(M, P)
<1>1. /\ call \in Job /\ call.attempt \in Nat /\ call.message \in M
      /\ call.topic # 0 => <<call.schema, call.message>> \in P
      /\ call.step = "schema" => call.topic # 0
    BY DEF JobsAbout, Job
<1> DEFINE next == [call EXCEPT !.step = "schema", !.attempt = 1]
           again == [call EXCEPT !.attempt = @ + 1]
<1>2. /\ call.topic # 0 => next \in Job
      /\ next.message = call.message /\ next.topic = call.topic /\ next.schema = call.schema
    BY <1>1 DEF Job
<1>3. /\ again \in Job /\ again.message = call.message /\ again.topic = call.topic
      /\ again.schema = call.schema /\ again.step = call.step
    BY <1>1 DEF Job
<1>4. again \in JobsAbout(M, P)
    BY <1>1, <1>3 DEF JobsAbout
<1>5. call.topic # 0 => next \in JobsAbout(M, P)
    BY <1>1, <1>2 DEF JobsAbout
<1> HIDE DEF next, again
<1>6. Rest(call) = {} \/ (call.topic # 0 /\ Rest(call) = {next})
    BY DEF Rest, next
<1>7. \/ inflight' = (inflight \ {call}) \cup Rest(call)
      \/ inflight' = (inflight \ {call}) \cup {again}
    BY DEF Attempt, again
<1> QED BY <1>4, <1>5, <1>6, <1>7

\* An attempt tells the global topics of logs they may be told of, ...
LEMMA GlobalTold ==
    ASSUME NEW M, NEW P, NEW call \in JobsAbout(M, P), Attempt(call),
           topicLog \in [Global -> SUBSET M]
    PROVE  topicLog' \in [Global -> SUBSET M]
<1>1. call.message \in M /\ call.global \in Global
    BY DEF JobsAbout, Job
<1>2. \/ topicLog' = topicLog
      \/ topicLog' = [topicLog EXCEPT ![call.global] = @ \cup {call.message}]
    BY DEF Attempt, Deliver
<1>3. topicLog[call.global] \cup {call.message} \in SUBSET M
    BY <1>1
<1> QED BY <1>1, <1>2, <1>3

\* ... and the topics of its schema of one of the schema's.
LEMMA SchemaTold ==
    ASSUME Typed, NEW M, NEW P, NEW call \in JobsAbout(M, P), Attempt(call), TopicsAbout(P)
    PROVE  /\ schemaTopics' \in [Schema -> Seq(SUBSET Nat)]
           /\ \A s \in Schema : Len(schemaTopics[s]) = Len(schemaTopics'[s])
           /\ TopicsAbout(P)'
<1> DEFINE Goal == /\ schemaTopics' \in [Schema -> Seq(SUBSET Nat)]
                   /\ \A s \in Schema : Len(schemaTopics[s]) = Len(schemaTopics'[s])
                   /\ TopicsAbout(P)'
<1>1. schemaTopics \in [Schema -> Seq(SUBSET Nat)]
    BY DEF Typed, PublisherTyped
<1>2. ASSUME schemaTopics' = schemaTopics PROVE Goal
    BY <1>1, <1>2 DEF TopicsAbout
<1>3. ASSUME call.step # "global", Deliver(call) PROVE Goal
    <2>1. PICK s, k, m : s = call.schema /\ k = call.topic /\ m = call.message
        OBVIOUS
    <2>2. m \in Nat /\ <<s, m>> \in P
        BY <1>3, <2>1 DEF JobsAbout, Job
    <2>3. PICK y : y = [schemaTopics[s] EXCEPT ![k] = @ \cup {m}]
        OBVIOUS
    <2>4. schemaTopics' = [schemaTopics EXCEPT ![s] = y]
        BY <1>3, <2>1, <2>3 DEF Deliver
    <2>5. CASE s \in Schema
        <3>1. schemaTopics[s] \in Seq(SUBSET Nat)
            BY <1>1, <2>5
        <3>2. ASSUME k \in DOMAIN schemaTopics[s] PROVE schemaTopics[s][k] \cup {m} \in SUBSET Nat
            <4>1. schemaTopics[s][k] \in SUBSET Nat
                BY <3>1, <3>2
            <4> QED BY <2>2, <4>1
        <3>3. y \in Seq(SUBSET Nat)
            BY <2>3, <3>1, <3>2, ReplaceType
        <3>4. /\ DOMAIN y = DOMAIN schemaTopics[s]
              /\ \A l \in DOMAIN y : y[l] \subseteq schemaTopics[s][l] \cup {m}
            BY <2>3
        <3>5. Len(y) = Len(schemaTopics[s])
            BY <3>1, <3>3, <3>4
        <3>6. /\ DOMAIN schemaTopics = Schema
              /\ \A t \in Schema : schemaTopics'[t] = IF t = s THEN y ELSE schemaTopics[t]
            BY <1>1, <2>4
        <3>7. schemaTopics' \in [Schema -> Seq(SUBSET Nat)]
            BY <1>1, <2>4, <3>3
        <3>8. \A t \in Schema : Len(schemaTopics[t]) = Len(schemaTopics'[t])
            BY <3>5, <3>6
        <3>9. TopicsAbout(P)'
            BY <2>2, <3>4, <3>6 DEF TopicsAbout
        <3> QED BY <3>7, <3>8, <3>9
    <2>6. CASE s \notin Schema
        <3>1. schemaTopics' = schemaTopics
            BY <1>1, <2>4, <2>6
        <3> QED BY <1>2, <3>1
    <2> QED BY <2>5, <2>6
<1>4. ASSUME call.step = "global", Deliver(call) PROVE Goal
    BY <1>2, <1>4 DEF Deliver
<1> QED BY <1>2, <1>3, <1>4 DEF Attempt

\* A topic that was just created tells nothing.
LEMMA NewTopicEmpty ==
    ASSUME Typed, CreateTopic, NEW P, TopicsAbout(P)
    PROVE  /\ schemaTopics' \in [Schema -> Seq(SUBSET Nat)]
           /\ \A s \in Schema : Len(schemaTopics[s]) <= Len(schemaTopics'[s])
           /\ TopicsAbout(P)'
<1>1. schemaTopics \in [Schema -> Seq(SUBSET Nat)] /\ \A t \in Schema : Len(schemaTopics[t]) \in Nat
    BY DEF Typed, PublisherTyped
<1>2. PICK s : s = stream[Current].uid
    OBVIOUS
<1>3. s \in Schema /\ \/ schemaTopics' = schemaTopics
                      \/ schemaTopics' = [schemaTopics EXCEPT ![s] = Append(@, {})]
    BY <1>2, TopicNoted
<1>4. PICK y : y = Append(schemaTopics[s], {})
    OBVIOUS
<1>5. schemaTopics[s] \in Seq(SUBSET Nat)
    BY <1>1, <1>3
<1>6. /\ y \in Seq(SUBSET Nat) /\ Len(schemaTopics[s]) <= Len(y)
      /\ \A l \in DOMAIN y : y[l] = {} \/ (l \in DOMAIN schemaTopics[s] /\ y[l] = schemaTopics[s][l])
    BY <1>4, <1>5
<1>7. CASE schemaTopics' = schemaTopics
    BY <1>1, <1>7 DEF TopicsAbout
<1>8. CASE schemaTopics' = [schemaTopics EXCEPT ![s] = y]
    <2>1. \A t \in Schema : schemaTopics'[t] = IF t = s THEN y ELSE schemaTopics[t]
        BY <1>1, <1>8
    <2>2. schemaTopics' \in [Schema -> Seq(SUBSET Nat)]
        BY <1>1, <1>6, <1>8
    <2>3. \A t \in Schema : Len(schemaTopics[t]) <= Len(schemaTopics'[t])
        BY <1>1, <1>6, <2>1
    <2>4. TopicsAbout(P)'
        BY <1>3, <1>6, <2>1 DEF TopicsAbout
    <2> QED BY <2>2, <2>3, <2>4
<1> QED BY <1>3, <1>4, <1>7, <1>8

\* What the publish calls and the topics are about, after a step: what they were about
\* before, and the log whose turn it is.
LEMMA MessagesStep ==
    ASSUME Typed, [Next]_vars, NEW M, M \subseteq Nat, NEW N, N \subseteq Nat, M \subseteq N,
           NEW P, NEW Q, P \subseteq Q,
           inflight \subseteq JobsAbout(M, P), topicLog \in [Global -> SUBSET M], TopicsAbout(P),
           ASSUME NEW e, Processing, e = stream[Current], stream' = stream, Shows(e)'
           PROVE  /\ Current \in N
                  /\ \A s \in Named : Reflected(e)' /\ SchemaOf(e) = s => <<s, Current>> \in Q
    PROVE  /\ inflight' \subseteq JobsAbout(N, Q) /\ topicLog' \in [Global -> SUBSET N]
           /\ schemaTopics' \in [Schema -> Seq(SUBSET Nat)] /\ TopicsAbout(Q)'
           /\ \A s \in Schema : Len(schemaTopics[s]) <= Len(schemaTopics'[s])
<1> DEFINE Goal == /\ inflight' \subseteq JobsAbout(N, Q) /\ topicLog' \in [Global -> SUBSET N]
                   /\ schemaTopics' \in [Schema -> Seq(SUBSET Nat)] /\ TopicsAbout(Q)'
                   /\ \A s \in Schema : Len(schemaTopics[s]) <= Len(schemaTopics'[s])
<1>1. /\ JobsAbout(M, P) \subseteq JobsAbout(N, Q)
      /\ TopicsAbout(P)' => TopicsAbout(Q)'
      /\ topicLog \in [Global -> SUBSET N]
      /\ topicLog' \in [Global -> SUBSET M] => topicLog' \in [Global -> SUBSET N]
    BY DEF JobsAbout, TopicsAbout
<1>2. schemaTopics \in [Schema -> Seq(SUBSET Nat)] /\ \A s \in Schema : Len(schemaTopics[s]) \in Nat
    BY DEF Typed, PublisherTyped
<1>3. ASSUME schemaTopics' = schemaTopics
      PROVE  /\ schemaTopics' \in [Schema -> Seq(SUBSET Nat)] /\ TopicsAbout(Q)'
             /\ \A s \in Schema : Len(schemaTopics[s]) <= Len(schemaTopics'[s])
    <2>1. TopicsAbout(P)'
        BY <1>3 DEF TopicsAbout
    <2> QED BY <1>1, <1>2, <1>3, <2>1
<1>4. CASE UNCHANGED hcsVars
    BY <1>1, <1>3, <1>4 DEF hcsVars
<1>5. CASE HcsCrash
    BY <1>1, <1>3, <1>5 DEF HcsCrash
<1>6. CASE HcsNext
    <2>1. PICK call \in JobsAbout(M, P) : Attempt(call)
        BY <1>6 DEF HcsNext
    <2>2. inflight' \subseteq JobsAbout(M, P) /\ topicLog' \in [Global -> SUBSET M]
        BY <2>1, CallGoesOn, GlobalTold
    <2>3. /\ schemaTopics' \in [Schema -> Seq(SUBSET Nat)] /\ TopicsAbout(P)'
          /\ \A s \in Schema : Len(schemaTopics[s]) = Len(schemaTopics'[s])
        BY <2>1, SchemaTold
    <2> QED BY <1>1, <1>2, <2>2, <2>3
<1>7. CASE CreateTopic
    <2>1. inflight' = inflight /\ topicLog' = topicLog
        BY <1>7 DEF CreateTopic, CreateSchemaTopic, hcsVars
    <2> QED BY <1>1, <1>7, <2>1, NewTopicEmpty
<1>8. CASE Published
    <2>1. PICK e : /\ Processing /\ e = stream[Current] /\ stream' = stream /\ Shows(e)'
                   /\ \E job \in Job :
                         /\ job.message = Current /\ job.step = "global"
                         /\ job.topic # 0 => Reflected(e)' /\ SchemaOf(e) = job.schema
                         /\ inflight' = inflight \cup {job}
                         /\ UNCHANGED <<topicLog, schemaTopics>>
        BY <1>8 DEF Published
    <2>2. PICK job \in Job :
              /\ job.message = Current /\ job.step = "global"
              /\ job.topic # 0 => Reflected(e)' /\ SchemaOf(e) = job.schema
              /\ inflight' = inflight \cup {job}
              /\ UNCHANGED <<topicLog, schemaTopics>>
        BY <2>1
    <2>3. job.schema \in Named
        BY DEF Job
    <2>4. Current \in N /\ (job.topic # 0 => <<job.schema, Current>> \in Q)
        BY <2>1, <2>2, <2>3
    <2>5. job \in JobsAbout(N, Q)
        BY <2>2, <2>4 DEF JobsAbout
    <2> QED BY <1>1, <1>3, <2>2, <2>5
<1> QED BY <1>4, <1>5, <1>6, <1>7, <1>8, PublisherCases

\* The types of the publisher are kept, and topics are never lost.
LEMMA PublisherStep ==
    ASSUME Typed, [Next]_vars
    PROVE  PublisherTyped' /\ \A s \in Schema : Len(schemaTopics[s]) <= Len(schemaTopics'[s])
<1> DEFINE P == Named \X Nat
<1>1. JobsAbout(Nat, P) = Job
    BY DEF JobsAbout, Job
<1>2. TopicsAbout(P)
    <2> SUFFICES ASSUME NEW s \in Schema, NEW k \in DOMAIN schemaTopics[s],
                        NEW i \in schemaTopics[s][k]
                 PROVE  <<s, i>> \in P
        BY DEF TopicsAbout
    <2>1. schemaTopics[s] \in Seq(SUBSET Nat)
        BY DEF Typed, PublisherTyped
    <2>2. schemaTopics[s][k] \in SUBSET Nat
        BY <2>1
    <2> QED BY <2>2 DEF Named
<1>3. Processing => Current \in Nat
    BY CurrentEvent DEF Typed
<1> HIDE DEF P
<1>4. /\ inflight' \subseteq JobsAbout(Nat, P) /\ topicLog' \in [Global -> SUBSET Nat]
      /\ schemaTopics' \in [Schema -> Seq(SUBSET Nat)]
      /\ \A s \in Schema : Len(schemaTopics[s]) <= Len(schemaTopics'[s])
    <2>1. Processing => \A s \in Named : <<s, Current>> \in P
        BY <1>3 DEF P
    <2> QED BY <1>1, <1>2, <1>3, <2>1, MessagesStep DEF Typed, PublisherTyped
<1> QED BY <1>1, <1>4 DEF PublisherTyped

SchemaRow == [complete : BOOLEAN, topic : Nat]

\* Everything a step may do to the rows.
LEMMA RowCases ==
    ASSUME Typed, [Next]_vars
    PROVE  /\ \/ schemas' = schemas
              \/ \E s \in Contracts!SchemasIn(stream), row \in SchemaRow :
                    schemas' = Upsert(schemas, s, row)
              \/ \E s \in DOMAIN schemas : schemas' = [schemas EXCEPT ![s].complete = TRUE]
           /\ \/ attestations' = attestations
              \/ \E u \in Contracts!CreatedIn(stream), complete \in BOOLEAN :
                    attestations' = Upsert(attestations, u, Upserted(u, complete))
              \/ \E u \in Contracts!RevokedIn(stream) :
                    attestations' = [v \in DOMAIN attestations |->
                        [attestations[v] EXCEPT !.revoked = @ \/ v \in RowsOf(u)]]
              \/ \E u \in DOMAIN attestations :
                    attestations' = [attestations EXCEPT ![u].complete = TRUE]
           /\ \/ authorities' = authorities
              \/ \E a \in Contracts!AuthoritiesIn(stream) : authorities' = authorities \cup {a}
<1> DEFINE Schemas == \/ schemas' = schemas
                      \/ \E s \in Contracts!SchemasIn(stream), row \in SchemaRow :
                            schemas' = Upsert(schemas, s, row)
                      \/ \E s \in DOMAIN schemas : schemas' = [schemas EXCEPT ![s].complete = TRUE]
           Attestations ==
              \/ attestations' = attestations
              \/ \E u \in Contracts!CreatedIn(stream), complete \in BOOLEAN :
                    attestations' = Upsert(attestations, u, Upserted(u, complete))
              \/ \E u \in Contracts!RevokedIn(stream) :
                    attestations' = [v \in DOMAIN attestations |->
                        [attestations[v] EXCEPT !.revoked = @ \/ v \in RowsOf(u)]]
              \/ \E u \in DOMAIN attestations :
                    attestations' = [attestations EXCEPT ![u].complete = TRUE]
           Authorities ==
              \/ authorities' = authorities
              \/ \E a \in Contracts!AuthoritiesIn(stream) : authorities' = authorities \cup {a}
<1>1. ASSUME NEW complete \in BOOLEAN, IndexSchema(complete)
      PROVE  Schemas /\ Attestations /\ Authorities
    <2>1. PICK s : s = stream[Current].uid
        OBVIOUS
    <2>2. Processing /\ stream[Current].type = "SchemaRegistered"
        BY <1>1 DEF IndexSchema, Handling
    <2>3. s \in Contracts!SchemasIn(stream)
        BY <2>1, <2>2, CurrentEvent DEF Contracts!SchemasIn, Contracts!Positions, Typed
    <2> DEFINE row == [complete |-> complete,
                       topic |-> IF poll.topic = 0 /\ s \in DOMAIN schemas
                                 THEN schemas[s].topic ELSE poll.topic]
    <2>4. row \in SchemaRow
        BY DEF SchemaRow, Typed, RowsTyped, LoopTyped, PollRecord
    <2>5. schemas' = Upsert(schemas, s, row)
        BY <1>1, <2>1 DEF IndexSchema
    <2> HIDE DEF row
    <2>6. attestations' = attestations /\ authorities' = authorities
        BY <1>1 DEF IndexSchema
    <2> QED BY <2>3, <2>4, <2>5, <2>6
<1>2. ASSUME NEW complete \in BOOLEAN, IndexAttestation(complete)
      PROVE  Schemas /\ Attestations /\ Authorities
    <2>1. PICK u : u = stream[Current].uid
        OBVIOUS
    <2>2. Processing /\ stream[Current].type = "AttestationCreated"
        BY <1>2 DEF IndexAttestation, Handling
    <2>3. u \in Contracts!CreatedIn(stream)
        BY <2>1, <2>2, CurrentEvent DEF Contracts!CreatedIn, Contracts!Positions, Typed
    <2>4. attestations' = Upsert(attestations, u, Upserted(u, complete))
          /\ schemas' = schemas /\ authorities' = authorities
        BY <1>2, <2>1 DEF IndexAttestation
    <2> QED BY <2>3, <2>4
<1>3. CASE IndexRevocation
    <2>1. PICK u : u = stream[Current].uid
        OBVIOUS
    <2>2. Processing /\ stream[Current].type = "AttestationRevoked"
        BY <1>3 DEF IndexRevocation, Handling
    <2>3. u \in Contracts!RevokedIn(stream)
        BY <2>1, <2>2, CurrentEvent DEF Contracts!RevokedIn, Contracts!Positions, Typed
    <2>4. attestations' = [v \in DOMAIN attestations |->
                              [attestations[v] EXCEPT !.revoked = @ \/ v \in RowsOf(u)]]
          /\ schemas' = schemas /\ authorities' = authorities
        BY <1>3, <2>1 DEF IndexRevocation
    <2> QED BY <2>3, <2>4
<1>4. CASE IndexAuthority
    <2>1. PICK a : a = stream[Current].authority
        OBVIOUS
    <2>2. Processing /\ stream[Current].type = "AuthorityRegistered"
        BY <1>4 DEF IndexAuthority, Handling
    <2>3. a \in Contracts!AuthoritiesIn(stream)
        BY <2>1, <2>2, CurrentEvent DEF Contracts!AuthoritiesIn, Contracts!Positions, Typed
    <2>4. authorities' = authorities \cup {a} /\ schemas' = schemas /\ attestations' = attestations
        BY <1>4, <2>1 DEF IndexAuthority
    <2> QED BY <2>3, <2>4
<1>5. ASSUME NEW s \in DOMAIN schemas, BackfillSchema(s) PROVE Schemas /\ Attestations /\ Authorities
    BY <1>5 DEF BackfillSchema
<1>6. ASSUME NEW u \in DOMAIN attestations, BackfillAttestation(u)
      PROVE  Schemas /\ Attestations /\ Authorities
    BY <1>6 DEF BackfillAttestation
<1>7. ASSUME UNCHANGED dbVars PROVE Schemas /\ Attestations /\ Authorities
    BY <1>7 DEF dbVars
<1>8. CASE SkipLog \/ CreateTopic \/ SaveState
    BY <1>7, <1>8 DEF SkipLog, CreateTopic, SaveState
<1>9. CASE \/ \E e \in Event : Emit(e)
           \/ \E us \in SUBSET (Contracts!CreatedIn(stream) \ (expired \cup Lasting)) : Expire(us)
           \/ StartPoll
           \/ \E c \in {"registry", "service"} : Fetch(c)
           \/ FetchFails
           \/ SkipFailure
           \/ SaveFails
           \/ Crash
           \/ \E uid \in DOMAIN schemas \cup DOMAIN attestations : LookUp(uid)
           \/ HcsNext /\ UNCHANGED <<stream, expired, dbVars, stateVars, poll, lookups, crashes>>
           \/ UNCHANGED vars
    BY <1>7, <1>9 DEF Emit, Expire, StartPoll, Fetch, FetchFails, GiveUp, SkipFailure, SaveFails,
        Crash, LookUp, vars
<1> QED BY <1>1, <1>2, <1>3, <1>4, <1>5, <1>6, <1>8, <1>9 DEF Next, ContractsNext, IndexerNext,
    PollStep

\* What a step leaves of the rows: none goes away, none comes from nowhere, none that
\* says revoked stops to, and none says so before its attestation is.
LEMMA RowsEffect ==
    ASSUME Typed, [Next]_vars
    PROVE  /\ RowsTyped'
           /\ DOMAIN schemas \subseteq DOMAIN schemas'
           /\ DOMAIN schemas' \subseteq DOMAIN schemas \cup Contracts!SchemasIn(stream)
           /\ DOMAIN attestations \subseteq DOMAIN attestations'
           /\ DOMAIN attestations' \subseteq DOMAIN attestations \cup Contracts!CreatedIn(stream)
           /\ \A u \in DOMAIN attestations : attestations[u].revoked => attestations'[u].revoked
           /\ \A u \in DOMAIN attestations' :
                 attestations'[u].revoked => \/ u \in DOMAIN attestations /\ attestations[u].revoked
                                             \/ u \in Contracts!RevokedIn(stream)
           /\ authorities \subseteq authorities'
           /\ authorities' \subseteq authorities \cup Contracts!AuthoritiesIn(stream)
<1>1. /\ \A s \in DOMAIN schemas' : schemas'[s] \in SchemaRow
      /\ DOMAIN schemas \subseteq DOMAIN schemas'
      /\ DOMAIN schemas' \subseteq DOMAIN schemas \cup Contracts!SchemasIn(stream)
    <2>1. \A s \in DOMAIN schemas : schemas[s] \in SchemaRow
        BY DEF Typed, RowsTyped, SchemaRow
    <2>2. CASE schemas' = schemas
        BY <2>1, <2>2
    <2>3. ASSUME NEW s \in Contracts!SchemasIn(stream), NEW row \in SchemaRow,
                 schemas' = Upsert(schemas, s, row)
          PROVE  <1>1!1 /\ <1>1!2 /\ <1>1!3
        BY <2>1, <2>3 DEF Upsert
    <2>4. ASSUME NEW s \in DOMAIN schemas, schemas' = [schemas EXCEPT ![s].complete = TRUE]
          PROVE  <1>1!1 /\ <1>1!2 /\ <1>1!3
        <3>1. [schemas[s] EXCEPT !.complete = TRUE] \in SchemaRow
            BY <2>1 DEF SchemaRow
        <3> QED BY <2>1, <2>4, <3>1
    <2> QED BY <2>2, <2>3, <2>4, RowCases
<1>2. authorities \subseteq authorities'
      /\ authorities' \subseteq authorities \cup Contracts!AuthoritiesIn(stream)
    BY RowCases
<1> DEFINE Rows ==
           /\ \A u \in DOMAIN attestations' : attestations'[u] \in Row
           /\ DOMAIN attestations \subseteq DOMAIN attestations'
           /\ DOMAIN attestations' \subseteq DOMAIN attestations \cup Contracts!CreatedIn(stream)
           /\ \A u \in DOMAIN attestations : attestations[u].revoked => attestations'[u].revoked
           /\ \A u \in DOMAIN attestations' :
                 attestations'[u].revoked => \/ u \in DOMAIN attestations /\ attestations[u].revoked
                                             \/ u \in Contracts!RevokedIn(stream)
<1>3. \A u \in DOMAIN attestations : attestations[u] \in Row
    BY DEF Typed, RowsTyped
<1>4. ASSUME attestations' = attestations PROVE Rows
    BY <1>3, <1>4
<1>5. ASSUME NEW u \in Contracts!CreatedIn(stream), NEW complete \in BOOLEAN,
             attestations' = Upsert(attestations, u, Upserted(u, complete))
      PROVE  Rows
    <2>1. Upserted(u, complete) \in Row
        BY <1>3 DEF Upserted, Row
    <2>2. Upserted(u, complete).revoked = (u \in DOMAIN attestations /\ attestations[u].revoked)
        BY DEF Upserted
    <2>3. /\ DOMAIN attestations' = DOMAIN attestations \cup {u}
          /\ attestations'[u] = Upserted(u, complete)
          /\ \A v \in DOMAIN attestations : v # u => attestations'[v] = attestations[v]
        BY <1>5 DEF Upsert
    <2> QED BY <1>3, <2>1, <2>2, <2>3
<1>6. ASSUME NEW u \in Contracts!RevokedIn(stream),
             attestations' = [v \in DOMAIN attestations |->
                                 [attestations[v] EXCEPT !.revoked = @ \/ v \in RowsOf(u)]]
      PROVE  Rows
    <2>1. ASSUME NEW v \in DOMAIN attestations
          PROVE  /\ attestations'[v] \in Row
                 /\ attestations'[v].revoked = (attestations[v].revoked \/ v \in RowsOf(u))
        BY <1>3, <1>6 DEF Row
    <2>2. DOMAIN attestations' = DOMAIN attestations /\ RowsOf(u) \subseteq {u}
        BY <1>6 DEF RowsOf
    <2> QED BY <2>1, <2>2
<1>7. ASSUME NEW u \in DOMAIN attestations, attestations' = [attestations EXCEPT ![u].complete = TRUE]
      PROVE  Rows
    <2>1. PICK row : row = [attestations[u] EXCEPT !.complete = TRUE]
        OBVIOUS
    <2>2. row \in Row /\ row.revoked = attestations[u].revoked
        BY <1>3, <2>1 DEF Row
    <2>3. attestations' = [attestations EXCEPT ![u] = row]
        BY <1>7, <2>1
    <2> QED BY <1>3, <2>2, <2>3
<1>8. Rows
    BY <1>4, <1>5, <1>6, <1>7, RowCases
<1> QED BY <1>1, <1>2, <1>8 DEF RowsTyped, SchemaRow

-----------------------------------------------------------------------------
(* The types *)

\* The types are kept: of the loop, of the publisher and of the rows.
LEMMA TypedStep == Typed /\ [Next]_vars => Typed'
BY LoopStep, PublisherStep, RowsEffect DEF Typed

\* The indexer starts with them: behind whatever the contracts emitted before.
LEMMA TypedStart == Init => Typed
<1> SUFFICES ASSUME Init PROVE Typed
    OBVIOUS
<1>1. LoopTyped
    <2>1. Len(History) \in Nat
        BY IndexerAssumption
    <2>2. poll \in PollRecord /\ poll.queue = {} /\ poll.latest = 0
        BY DEF Init, Idle, PollRecord
    <2> QED BY <2>1, <2>2, IndexerAssumption DEF Init, LoopTyped
<1>2. PublisherTyped
    BY DEF Init, HcsInit, PublisherTyped
<1>3. RowsTyped
    BY DEF Init, RowsTyped
<1> QED BY <1>1, <1>2, <1>3 DEF Typed

\* A reader of a longer stream knows all that a reader of its beginning does.
LEMMA ReadersLearn ==
    ASSUME Typed, [Next]_vars
    PROVE  /\ Contracts!SchemasIn(stream) \subseteq Contracts!SchemasIn(stream')
           /\ Contracts!CreatedIn(stream) \subseteq Contracts!CreatedIn(stream')
           /\ Contracts!RevokedIn(stream) \subseteq Contracts!RevokedIn(stream')
           /\ Contracts!AuthoritiesIn(stream) \subseteq Contracts!AuthoritiesIn(stream')
<1>1. \A i \in DOMAIN stream : i \in DOMAIN stream' /\ stream'[i] = stream[i]
    BY StreamGrows DEF Typed, LoopTyped
<1> QED BY <1>1 DEF Contracts!SchemasIn, Contracts!CreatedIn, Contracts!RevokedIn,
        Contracts!AuthoritiesIn, Contracts!Positions

\* A row that is written has its event in the stream already.
LEMMA SaysStep == Typed /\ DatabaseSaysWhatHappened /\ [Next]_vars => DatabaseSaysWhatHappened'
<1> SUFFICES ASSUME Typed, DatabaseSaysWhatHappened, [Next]_vars PROVE DatabaseSaysWhatHappened'
    OBVIOUS
<1>1. /\ DOMAIN schemas' \subseteq Contracts!SchemasIn(stream)
      /\ DOMAIN attestations' \subseteq Contracts!CreatedIn(stream)
      /\ {u \in DOMAIN attestations' : attestations'[u].revoked} \subseteq Contracts!RevokedIn(stream)
      /\ authorities' \subseteq Contracts!AuthoritiesIn(stream)
    BY RowsEffect DEF DatabaseSaysWhatHappened
<1> QED BY <1>1, ReadersLearn DEF DatabaseSaysWhatHappened

\* Every row stands for an event that was emitted, for every stream and whatever
\* fails.
THEOREM DatabaseIsTrue == Spec => []DatabaseSaysWhatHappened
<1>1. Init => DatabaseSaysWhatHappened
    BY DEF Init, DatabaseSaysWhatHappened
<1> QED BY <1>1, TypedStart, TypedStep, SaysStep, PTL DEF Spec

\* A row that says revoked says so for good.
THEOREM RevocationsAreKept == Spec => RevocationsStick
<1> DEFINE Stick == \A u \in DOMAIN attestations :
                       attestations[u].revoked =>
                           u \in DOMAIN attestations' /\ attestations'[u].revoked
<1>1. ASSUME Typed, [Next]_vars PROVE Stick
    BY <1>1, RowsEffect
<1> QED BY <1>1, TypedStart, TypedStep, PTL DEF Spec, RevocationsStick

\* The topic a row names, and the one poll is about to write, was created.
TopicsExist ==
    /\ \A s \in DOMAIN schemas : schemas[s].topic <= Len(schemaTopics[s])
    /\ poll.topic # 0 =>
          /\ Processing /\ stream[Current].type = "SchemaRegistered"
          /\ poll.topic <= Len(schemaTopics[stream[Current].uid])

\* The schemas of the rows are schemas.
LEMMA RowsAreSchemas ==
    ASSUME Typed, DatabaseSaysWhatHappened
    PROVE  DOMAIN schemas \subseteq Schema
<1>1. \A i \in DOMAIN stream : stream[i] \in Emitted
    BY DEF Typed, LoopTyped
<1> QED BY <1>1, IndexerAssumption DEF DatabaseSaysWhatHappened, Contracts!SchemasIn,
        Contracts!Positions

\* A row names a topic only after its creation, and topics are never removed.
LEMMA TopicsStep ==
    Typed /\ DatabaseSaysWhatHappened /\ TopicsExist /\ [Next]_vars => TopicsExist'
<1> SUFFICES ASSUME Typed, DatabaseSaysWhatHappened, TopicsExist, [Next]_vars
             PROVE  TopicsExist'
    OBVIOUS
<1>1. /\ schemaTopics \in [Schema -> Seq(SUBSET Nat)] /\ schemaTopics' \in [Schema -> Seq(SUBSET Nat)]
      /\ \A s \in Schema : /\ Len(schemaTopics[s]) \in Nat /\ Len(schemaTopics'[s]) \in Nat
                           /\ Len(schemaTopics[s]) <= Len(schemaTopics'[s])
    BY PublisherStep DEF Typed, PublisherTyped
<1>2. /\ DOMAIN schemas \subseteq Schema /\ poll.topic \in Nat
      /\ \A s \in DOMAIN schemas : schemas[s] \in SchemaRow
    BY RowsAreSchemas DEF Typed, RowsTyped, LoopTyped, PollRecord, SchemaRow
<1>3. \A s \in DOMAIN schemas' : schemas'[s].topic <= Len(schemaTopics'[s])
    <2>1. \A s \in DOMAIN schemas : schemas[s].topic \in Nat /\ schemas[s].topic <= Len(schemaTopics'[s])
        BY <1>1, <1>2 DEF SchemaRow, TopicsExist
    <2>2. CASE schemas' = schemas
        BY <2>1, <2>2
    <2>3. ASSUME NEW complete \in BOOLEAN, IndexSchema(complete)
          PROVE  \A s \in DOMAIN schemas' : schemas'[s].topic <= Len(schemaTopics'[s])
        <3>1. PICK s : s = stream[Current].uid
            OBVIOUS
        <3>2. s \in Schema
            BY <2>3, <3>1, CurrentSchema DEF IndexSchema, Handling, Typed
        <3>3. poll.topic <= Len(schemaTopics'[s])
            BY <1>1, <1>2, <3>1, <3>2 DEF TopicsExist
        <3> DEFINE row == [complete |-> complete,
                           topic |-> IF poll.topic = 0 /\ s \in DOMAIN schemas
                                     THEN schemas[s].topic ELSE poll.topic]
        <3>4. row.topic <= Len(schemaTopics'[s])
            BY <2>1, <3>3
        <3>5. schemas' = Upsert(schemas, s, row)
            BY <2>3, <3>1 DEF IndexSchema
        <3> HIDE DEF row
        <3> QED BY <2>1, <3>4, <3>5 DEF Upsert
    <2>4. ASSUME NEW s \in DOMAIN schemas, schemas' = [schemas EXCEPT ![s].complete = TRUE]
          PROVE  \A t \in DOMAIN schemas' : schemas'[t].topic <= Len(schemaTopics'[t])
        <3>1. \A t \in DOMAIN schemas : schemas'[t].topic = schemas[t].topic
            BY <1>2, <2>4 DEF SchemaRow
        <3> QED BY <2>1, <2>4, <3>1
    <2>5. \/ schemas' = schemas
          \/ \E complete \in BOOLEAN : IndexSchema(complete)
          \/ \E s \in DOMAIN schemas : schemas' = [schemas EXCEPT ![s].complete = TRUE]
        BY DEF Next, ContractsNext, IndexerNext, PollStep, Emit, Expire, StartPoll, Fetch,
            FetchFails, GiveUp,
            SkipFailure, SaveFails, Crash, LookUp, BackfillSchema, BackfillAttestation, dbVars,
            vars, SkipLog, CreateTopic, IndexAttestation, IndexRevocation, IndexAuthority, SaveState
    <2> QED BY <2>2, <2>3, <2>4, <2>5
<1> DEFINE Noted == poll'.topic # 0 =>
          /\ Processing' /\ stream'[Current'].type = "SchemaRegistered"
          /\ poll'.topic <= Len(schemaTopics'[stream'[Current'].uid])
<1>4. ASSUME poll'.topic = 0 PROVE Noted
    BY <1>4
<1>5. ASSUME poll'.queue = poll.queue, poll'.pc = poll.pc
      PROVE  Processing' = Processing /\ Current' = Current
    BY <1>5 DEF Processing, Current
<1>6. ASSUME Processing, stream[Current].type = "SchemaRegistered"
      PROVE  /\ stream'[Current] = stream[Current] /\ stream[Current].uid \in Schema
    <2>1. Current \in DOMAIN stream
        BY <1>6, CurrentEvent DEF Typed
    <2>2. stream'[Current] = stream[Current]
        BY <2>1, StreamGrows DEF Typed, LoopTyped
    <2> QED BY <1>6, <2>2, CurrentSchema DEF Typed
<1>7. ASSUME poll'.queue = poll.queue, poll'.pc = poll.pc, poll'.topic = poll.topic PROVE Noted
    <2>1. SUFFICES ASSUME poll.topic # 0 PROVE Noted
        BY <1>7
    <2>2. /\ Processing /\ stream[Current].type = "SchemaRegistered"
          /\ poll.topic <= Len(schemaTopics[stream[Current].uid])
        BY <2>1 DEF TopicsExist
    <2> QED BY <1>1, <1>2, <1>5, <1>6, <1>7, <2>2
<1>8. ASSUME StartPoll PROVE Noted
    BY <1>4, <1>8 DEF StartPoll, Idle
<1>9. ASSUME NEW c \in {"registry", "service"}, Fetch(c) PROVE Noted
    <2>1. poll.pc = "fetching" /\ poll.topic = 0
        BY <1>9 DEF Fetch, TopicsExist, Processing
    <2>2. poll'.topic = poll.topic
        BY <1>9 DEF Fetch, Typed, LoopTyped, PollRecord
    <2> QED BY <1>4, <2>1, <2>2
<1>10. ASSUME CreateTopic PROVE Noted
    <2>1. PICK i : i = Current
        OBVIOUS
    <2>2. /\ Processing /\ stream[i].type = "SchemaRegistered" /\ stream[i].uid \in Schema
          /\ \/ poll' = [poll EXCEPT !.asked = TRUE] /\ schemaTopics' = schemaTopics
             \/ /\ schemaTopics' = [schemaTopics EXCEPT ![stream[i].uid] = Append(@, {})]
                /\ \E k \in {0, Len(schemaTopics[stream[i].uid]) + 1} :
                      /\ k \in Nat
                      /\ poll' = [poll EXCEPT !.asked = TRUE, !.topic = k]
        BY <1>10, <2>1, TopicNoted
    <2>3. poll \in PollRecord
        BY DEF Typed, LoopTyped
    <2>4. CASE poll' = [poll EXCEPT !.asked = TRUE] /\ schemaTopics' = schemaTopics
        <3>1. poll'.queue = poll.queue /\ poll'.pc = poll.pc /\ poll'.topic = poll.topic
            BY <2>3, <2>4 DEF PollRecord
        <3> QED BY <1>7, <3>1
    <2>5. ASSUME NEW k \in {0, Len(schemaTopics[stream[i].uid]) + 1}, k \in Nat,
                 schemaTopics' = [schemaTopics EXCEPT ![stream[i].uid] = Append(@, {})],
                 poll' = [poll EXCEPT !.asked = TRUE, !.topic = k]
          PROVE  Noted
        <3>1. poll'.queue = poll.queue /\ poll'.pc = poll.pc /\ poll'.topic = k
            BY <2>3, <2>5 DEF PollRecord
        <3>2. Len(schemaTopics'[stream[i].uid]) = Len(schemaTopics[stream[i].uid]) + 1
            BY <1>1, <2>2, <2>5
        <3>3. k <= Len(schemaTopics'[stream[i].uid])
            BY <1>1, <2>2, <2>5, <3>2
        <3>4. Processing' /\ Current' = i
            BY <1>5, <2>1, <2>2, <3>1
        <3>5. stream'[i] = stream[i]
            BY <1>6, <2>1, <2>2
        <3> QED BY <2>2, <3>1, <3>3, <3>4, <3>5
    <2> QED BY <2>2, <2>4, <2>5
<1>11. ASSUME Processing, poll' \in {Skipped(Current), Done(Current)} PROVE Noted
    <2>1. Current \in Nat
        BY <1>11, CurrentEvent DEF Typed
    <2>2. poll'.topic = 0
        BY <1>11, <2>1, SkippedType DEF Typed, LoopTyped
    <2> QED BY <1>4, <2>2
<1>12. Noted
    <2>1. CASE poll' = Idle
        BY <1>4, <2>1 DEF Idle
    <2>2. CASE poll' = poll
        BY <1>7, <2>2
    <2> QED BY <1>8, <1>9, <1>10, <1>11, <2>1, <2>2, PollCases
<1> QED BY <1>3, <1>12 DEF TopicsExist

\* Whose data is asked for has a row.
LookupsAreRows == lookups \subseteq DOMAIN schemas \cup DOMAIN attestations

\* Rows never go away, and only theirs is asked for.
LEMMA LookupsStep == Typed /\ LookupsAreRows /\ [Next]_vars => LookupsAreRows'
<1> SUFFICES ASSUME Typed, LookupsAreRows, [Next]_vars PROVE LookupsAreRows'
    OBVIOUS
<1>1. DOMAIN schemas \subseteq DOMAIN schemas' /\ DOMAIN attestations \subseteq DOMAIN attestations'
    BY RowsEffect
<1>2. \/ lookups' \subseteq lookups
      \/ \E uid \in DOMAIN schemas \cup DOMAIN attestations : lookups' = lookups \cup {uid}
    <2>1. CASE PollStep
        BY <2>1 DEF PollStep, SkipLog, CreateTopic, IndexSchema, IndexAttestation, IndexRevocation,
            IndexAuthority, SaveState
    <2>2. CASE ~PollStep
        BY <2>2 DEF Next, ContractsNext, IndexerNext, vars, Emit, Expire, StartPoll, Fetch,
            FetchFails, GiveUp, SkipFailure, SaveFails, Crash, LookUp, Answered, BackfillSchema,
            BackfillAttestation
    <2> QED BY <2>1, <2>2
<1> QED BY <1>1, <1>2 DEF LookupsAreRows

\* The indexer's state has the types the code declares; the cursor never passes the end
\* of the stream, and a row never names a topic that was not created.
THEOREM IndexerTypeCorrect == Spec => []IndexerTypeOK
<1>1. Init => TopicsExist
    BY DEF Init, Idle, TopicsExist
<1>2. Init => DatabaseSaysWhatHappened
    BY DEF Init, DatabaseSaysWhatHappened
<1>3. Typed /\ DatabaseSaysWhatHappened /\ TopicsExist /\ LookupsAreRows => IndexerTypeOK
    <2> SUFFICES ASSUME Typed, DatabaseSaysWhatHappened, TopicsExist, LookupsAreRows
                 PROVE  IndexerTypeOK
        OBVIOUS
    <2>1. \A s \in DOMAIN schemas : schemas[s].topic \in 0 .. Len(schemaTopics[s])
        <3>1. ASSUME NEW s \in DOMAIN schemas PROVE schemas[s].topic \in 0 .. Len(schemaTopics[s])
            <4>1. s \in Schema
                BY RowsAreSchemas
            <4>2. Len(schemaTopics[s]) \in Nat
                BY <4>1 DEF Typed, PublisherTyped
            <4>3. schemas[s].topic \in Nat /\ schemas[s].topic <= Len(schemaTopics[s])
                BY DEF Typed, RowsTyped, TopicsExist
            <4> QED BY <4>2, <4>3
        <3> QED BY <3>1
    <2> QED BY <2>1 DEF Typed, LoopTyped, RowsTyped, PollRecord, LookupsAreRows, IndexerTypeOK
<1>4. Init => LookupsAreRows
    BY DEF Init, LookupsAreRows
<1> QED BY <1>1, <1>2, <1>3, <1>4, TypedStart, TypedStep, SaysStep, TopicsStep, LookupsStep, PTL
        DEF Spec

-----------------------------------------------------------------------------
(* The audit trail *)

\* What shows in the database goes on to show.
LEMMA ReflectedStays ==
    ASSUME Typed, [Next]_vars, NEW e, Decodable(e), Reflected(e)
    PROVE  Reflected(e)'
<1>1. CASE e.type = "SchemaRegistered"
    BY <1>1, RowsEffect DEF Reflected
<1>2. CASE e.type = "AttestationCreated"
    BY <1>2, RowsEffect DEF Reflected
<1>3. CASE e.type = "AttestationRevoked"
    BY <1>3, RowsEffect DEF Reflected
<1>4. CASE e.type = "AuthorityRegistered"
    BY <1>4, RowsEffect DEF Reflected
<1> QED BY <1>1, <1>2, <1>3, <1>4 DEF Decodable

\* The logs that may be spoken of, and those of a schema that may in its own topics: they
\* show in the database, revocations too.
Tellable == {i \in DOMAIN stream : Shows(stream[i])}

Announced == {p \in Named \X DOMAIN stream : LET e == stream[p[2]] IN
                                                Decodable(e) /\ Reflected(e) /\ SchemaOf(e) = p[1]}

\* The messages in the topics are about such logs, and so are those on their way.
AuditTrail ==
    /\ inflight \subseteq JobsAbout(Tellable, Announced)
    /\ topicLog \in [Global -> SUBSET Tellable]
    /\ TopicsAbout(Announced)

\* A message is handed to the publisher when its row was written, with the topic of its
\* schema only if the row is there, and the publisher only copies it: to a topic, or to a
\* later attempt.
LEMMA AuditStep == Typed /\ AuditTrail /\ [Next]_vars => AuditTrail'
<1> SUFFICES ASSUME Typed, AuditTrail, [Next]_vars PROVE AuditTrail'
    OBVIOUS
<1>1. PICK M, P : M = Tellable /\ P = Announced
    OBVIOUS
<1>2. PICK N, Q : N = Tellable' /\ Q = Announced'
    OBVIOUS
<1>3. /\ DOMAIN stream \subseteq Nat /\ DOMAIN stream' \subseteq Nat
      /\ \A i \in DOMAIN stream : i \in DOMAIN stream' /\ stream'[i] = stream[i]
    BY StreamGrows DEF Typed, LoopTyped
<1>4. M \subseteq Nat /\ N \subseteq Nat
    BY <1>1, <1>2, <1>3 DEF Tellable
<1>5. ASSUME NEW e, Shows(e) PROVE Shows(e)'
    BY <1>5, ReflectedStays DEF Shows
<1>6. M \subseteq N
    <2> SUFFICES ASSUME NEW i \in M PROVE i \in N
        OBVIOUS
    <2>1. PICK e : e = stream[i]
        OBVIOUS
    <2>2. i \in DOMAIN stream' /\ stream'[i] = e /\ Shows(e)'
        BY <1>1, <1>3, <1>5, <2>1 DEF Tellable
    <2> QED BY <1>2, <2>2 DEF Tellable
<1>7. P \subseteq Q
    <2> SUFFICES ASSUME NEW s \in Named, NEW i \in DOMAIN stream, <<s, i>> \in P
                 PROVE  <<s, i>> \in Q
        BY <1>1 DEF Announced
    <2>1. PICK e : e = stream[i]
        OBVIOUS
    <2>2. Decodable(e) /\ Reflected(e) /\ SchemaOf(e) = s
        BY <1>1, <2>1 DEF Announced
    <2>3. i \in DOMAIN stream' /\ stream'[i] = e /\ Reflected(e)'
        BY <1>3, <2>1, <2>2, ReflectedStays
    <2> QED BY <1>2, <2>2, <2>3 DEF Announced
<1>8. ASSUME NEW e, Processing, e = stream[Current], stream' = stream, Shows(e)'
      PROVE  /\ Current \in N
             /\ \A s \in Named : Reflected(e)' /\ SchemaOf(e) = s => <<s, Current>> \in Q
    <2>1. PICK i : i = Current
        OBVIOUS
    <2>2. i \in DOMAIN stream
        BY <1>8, <2>1, CurrentEvent DEF Typed
    <2>3. i \in DOMAIN stream' /\ stream'[i] = e /\ Decodable(e)
        BY <1>3, <1>8, <2>1, <2>2 DEF Shows
    <2>4. i \in N
        BY <1>2, <1>8, <2>3 DEF Tellable
    <2>5. \A s \in Named : Reflected(e)' /\ SchemaOf(e) = s => <<s, i>> \in Q
        BY <1>2, <2>3 DEF Announced
    <2> QED BY <2>1, <2>4, <2>5
<1>9. /\ inflight \subseteq JobsAbout(M, P) /\ topicLog \in [Global -> SUBSET M]
      /\ TopicsAbout(P)
    BY <1>1 DEF AuditTrail
<1>10. /\ inflight' \subseteq JobsAbout(N, Q) /\ topicLog' \in [Global -> SUBSET N]
       /\ TopicsAbout(Q)'
    BY <1>4, <1>6, <1>7, <1>8, <1>9, MessagesStep
<1> QED BY <1>2, <1>10 DEF AuditTrail, TopicsAbout

\* Messages are about logs that show in the database, in the topics and on their way.
LEMMA AuditTrailKept == Spec => []AuditTrail
<1>1. Init => AuditTrail
    BY DEF Init, HcsInit, AuditTrail, TopicsAbout
<1> QED BY <1>1, TypedStart, TypedStep, AuditStep, PTL DEF Spec

\* No global topic tells of an event whose row was not written before, revocations apart,
\* and no topic of a schema of one that is another schema's or does not show, revocations
\* included.
THEOREM AuditIsTrue == Spec => []AuditFollowsDatabase
<1>1. AuditTrail => AuditFollowsDatabase
    BY DEF AuditTrail, TopicsAbout, Announced, Tellable, Shows, AuditFollowsDatabase
<1> QED BY <1>1, AuditTrailKept, PTL

-----------------------------------------------------------------------------
(* The history is complete, where the pages of the two contracts cannot    *)
(* cross: the schemas were registered before the first attestation and the *)
(* first poll and fit into one page, and the database takes every write.   *)

\* Up to where the history is the registry's.
Border == Cardinality({i \in DOMAIN History : Source(History[i]) = "registry"})

SchemasCameFirst ==
    /\ ~WritesFail
    /\ Border <= PageSize
    /\ \A i \in DOMAIN History :
          /\ Source(History[i]) = IF i <= Border THEN "registry" ELSE "service"
          /\ History[i].type = "AttestationRevoked" =>
                \E j \in 1 .. i - 1 : /\ History[j].type = "AttestationCreated"
                                      /\ History[j].uid = History[i].uid
    /\ \A e \in Event : Source(e) = "service"

\* The border is in the history.
LEMMA BorderType == Border \in Nat /\ Border <= Len(History)
<1> DEFINE registered == {i \in DOMAIN History : Source(History[i]) = "registry"}
<1>1. Len(History) \in Nat /\ DOMAIN History = 1 .. Len(History)
    BY IndexerAssumption
<1>2. IsFiniteSet(1 .. Len(History)) /\ Cardinality(1 .. Len(History)) = Len(History)
    <2>1. \A n \in Nat : IsFiniteSet(1 .. n) /\ Cardinality(1 .. n) = n
        BY FS_Interval
    <2> QED BY <1>1, <2>1
<1>3. registered \subseteq 1 .. Len(History)
    BY <1>1
<1> HIDE DEF registered
<1>4. Cardinality(registered) \in Nat /\ Cardinality(registered) <= Len(History)
    BY <1>2, <1>3, FS_Subset, FS_CardinalityType
<1> QED BY <1>4 DEF Border, registered

\* The log at i needs no further look.
Told(i) == Decodable(stream[i]) => Reflected(stream[i])

\* The registry's logs come first, and a revocation after what it revokes.
StreamOrder ==
    /\ Border <= Len(stream)
    /\ \A i \in DOMAIN stream :
          /\ Source(stream[i]) = IF i <= Border THEN "registry" ELSE "service"
          /\ stream[i].type = "AttestationRevoked" =>
                \E j \in 1 .. i - 1 : /\ stream[j].type = "AttestationCreated"
                                      /\ stream[j].uid = stream[i].uid

\* What is fetched is without gaps, in the registry's part of the stream once it has
\* answered, and in the service's part.
NoGaps(queue, from, answered) ==
    /\ "registry" \in answered => \A i \in 1 .. Border : i >= from => i \in queue
    /\ \A j \in queue : \A i \in Border + 1 .. j - 1 : i >= from => i \in queue

\* Nothing is left behind: not before the cursor, not before the last log processed, and
\* not before any log still to be processed.
NothingLeftBehind ==
    /\ HistoryIsComplete
    /\ \A i \in 1 .. poll.latest : Told(i)
    /\ poll.pc # "idle" => poll.from = cursor
    /\ poll.pc = "fetching" => NoGaps(poll.queue, poll.from, poll.answered)
    /\ poll.pc = "processing" =>
          \A j \in poll.queue : \A i \in 1 .. j - 1 : i \in poll.queue \/ Told(i)

\* The first of a set of logs are a set without gaps.
LEMMA PageIsClosed ==
    ASSUME stream \in Seq(Emitted), NEW c, NEW from \in Nat,
           NEW j \in FetchContractLogs(c, from), NEW i \in 1 .. j - 1,
           Source(stream[i]) = c, i >= from
    PROVE  i \in FetchContractLogs(c, from)
<1> DEFINE logs == {k \in DOMAIN stream : Source(stream[k]) = c /\ k >= from}
           before(n) == {k \in logs : k < n}
<1>1. DOMAIN stream = 1 .. Len(stream) /\ Len(stream) \in Nat
    OBVIOUS
<1>2. j \in logs /\ Cardinality(before(j)) < PageSize
    BY DEF FetchContractLogs
<1>3. j \in 1 .. Len(stream) /\ i \in logs
    BY <1>1, <1>2
<1>4. before(i) \subseteq before(j) /\ before(j) \subseteq 1 .. Len(stream)
    BY <1>1, <1>3
<1>5. IsFiniteSet(before(j))
    <2>1. IsFiniteSet(1 .. Len(stream))
        BY <1>1, FS_Interval
    <2> HIDE DEF before
    <2> QED BY <1>4, <2>1, FS_Subset
<1>6. Cardinality(before(i)) <= Cardinality(before(j))
    BY <1>4, <1>5, FS_Subset
<1>7. Cardinality(before(i)) \in Nat /\ Cardinality(before(j)) \in Nat
    BY <1>4, <1>5, FS_Subset, FS_CardinalityType
<1> QED BY <1>2, <1>3, <1>6, <1>7, IndexerAssumption DEF FetchContractLogs

\* The logs of the registry fit into one page.
LEMMA RegistryFits ==
    ASSUME SchemasCameFirst, stream \in Seq(Emitted), StreamOrder, NEW from \in Nat,
           NEW i \in 1 .. Border, i >= from
    PROVE  i \in FetchContractLogs("registry", from)
<1> DEFINE logs == {k \in DOMAIN stream : Source(stream[k]) = "registry" /\ k >= from}
           before == {k \in logs : k < i}
<1>1. /\ DOMAIN stream = 1 .. Len(stream) /\ Len(stream) \in Nat
      /\ Border \in Nat /\ Border <= Len(stream)
    BY BorderType DEF StreamOrder
<1>2. i \in logs
    BY <1>1 DEF StreamOrder
<1>3. before \subseteq 1 .. i - 1 /\ i - 1 \in Nat /\ i - 1 < PageSize
    BY <1>1, IndexerAssumption DEF SchemasCameFirst
<1>4. IsFiniteSet(1 .. i - 1) /\ Cardinality(1 .. i - 1) = i - 1
    BY <1>3, FS_Interval
<1>5. Cardinality(before) <= i - 1 /\ Cardinality(before) \in Nat
    BY <1>3, <1>4, FS_Subset, FS_CardinalityType
<1>6. Cardinality(before) < PageSize
    BY <1>3, <1>5, IndexerAssumption
<1> QED BY <1>2, <1>6 DEF FetchContractLogs

\* A page closes no gap's other side: what was fetched before and the page together are
\* without gaps.
LEMMA PageLeavesNoGaps ==
    ASSUME SchemasCameFirst, stream \in Seq(Emitted), StreamOrder, NEW from \in Nat,
           NEW queue, queue \subseteq DOMAIN stream, NEW answered, NoGaps(queue, from, answered),
           NEW c \in {"registry", "service"}
    PROVE  NoGaps(queue \cup FetchContractLogs(c, from), from, answered \cup {c})
<1> DEFINE page == FetchContractLogs(c, from)
<1>1. /\ DOMAIN stream = 1 .. Len(stream) /\ Len(stream) \in Nat
      /\ Border \in Nat /\ Border <= Len(stream)
    BY BorderType DEF StreamOrder
<1>2. page \subseteq DOMAIN stream /\ \A j \in page : Source(stream[j]) = c
    BY DEF FetchContractLogs
<1>3. ASSUME "registry" \in answered \cup {c}, NEW i \in 1 .. Border, i >= from
      PROVE  i \in queue \cup page
    BY <1>3, RegistryFits DEF NoGaps
<1>4. ASSUME NEW j \in queue \cup page, NEW i \in Border + 1 .. j - 1, i >= from
      PROVE  i \in queue \cup page
    <2>1. CASE j \in queue
        BY <1>4, <2>1 DEF NoGaps
    <2>2. CASE j \in page
        <3>1. i \in 1 .. j - 1 /\ i \in DOMAIN stream /\ ~(i <= Border) /\ ~(j <= Border)
            BY <1>1, <1>2, <2>2
        <3>2. Source(stream[i]) = "service" /\ c = "service"
            BY <1>2, <2>2, <3>1 DEF StreamOrder
        <3> QED BY <1>4, <2>2, <3>1, <3>2, PageIsClosed
    <2> QED BY <2>1, <2>2
<1> HIDE DEF page
<1>5. NoGaps(queue \cup page, from, answered \cup {c})
    BY <1>3, <1>4 DEF NoGaps
<1> QED BY <1>5 DEF page

\* What needs no further look goes on to need none.
LEMMA ToldStays ==
    ASSUME Typed, [Next]_vars, NEW i \in DOMAIN stream, Told(i)
    PROVE  Told(i)'
<1>1. PICK e : e = stream[i]
    OBVIOUS
<1>2. stream'[i] = e
    BY <1>1, StreamGrows DEF Typed, LoopTyped
<1>3. Decodable(e) => Reflected(e)'
    BY <1>1, ReflectedStays DEF Told
<1> QED BY <1>2, <1>3 DEF Told, Decodable

\* The contracts emit in that order.
LEMMA StreamOrderStep ==
    SchemasCameFirst /\ Typed /\ StreamOrder /\ [Next]_vars => StreamOrder'
<1> SUFFICES ASSUME SchemasCameFirst, Typed, StreamOrder, NEW e \in Event,
                    Contracts!Legal(stream, e), stream' = Append(stream, e)
             PROVE  StreamOrder'
    BY StreamCases DEF StreamOrder
<1>1. /\ stream \in Seq(Emitted) /\ DOMAIN stream = 1 .. Len(stream) /\ Len(stream) \in Nat
      /\ Border \in Nat /\ Border <= Len(stream)
    BY BorderType DEF StreamOrder, Typed, LoopTyped
<1>2. /\ Len(stream') = Len(stream) + 1 /\ DOMAIN stream' = 1 .. Len(stream) + 1
      /\ stream'[Len(stream) + 1] = e /\ \A i \in DOMAIN stream : stream'[i] = stream[i]
    <2>1. e \in Emitted
        BY DEF Emitted
    <2> QED BY <1>1, <2>1
<1>3. Source(e) = "service"
    BY DEF SchemasCameFirst
<1>4. ASSUME NEW i \in DOMAIN stream'
      PROVE  Source(stream'[i]) = IF i <= Border THEN "registry" ELSE "service"
    BY <1>1, <1>2, <1>3 DEF StreamOrder
<1>5. ASSUME NEW i \in DOMAIN stream', stream'[i].type = "AttestationRevoked"
      PROVE  \E j \in 1 .. i - 1 : /\ stream'[j].type = "AttestationCreated"
                                   /\ stream'[j].uid = stream'[i].uid
    <2>1. CASE i \in DOMAIN stream
        <3>1. PICK j \in 1 .. i - 1 : /\ stream[j].type = "AttestationCreated"
                                      /\ stream[j].uid = stream[i].uid
            BY <1>2, <1>5, <2>1 DEF StreamOrder
        <3>2. j \in DOMAIN stream
            BY <1>1, <2>1
        <3> QED BY <1>2, <2>1, <3>1, <3>2
    <2>2. CASE i = Len(stream) + 1
        <3>1. e.uid \in Contracts!CreatedIn(stream)
            BY <1>2, <1>5, <2>2 DEF Contracts!Legal
        <3>2. PICK j \in DOMAIN stream : /\ stream[j].type = "AttestationCreated"
                                         /\ stream[j].uid = e.uid
            BY <3>1 DEF Contracts!CreatedIn, Contracts!Positions
        <3>3. j \in 1 .. i - 1
            BY <1>1, <2>2
        <3> QED BY <1>2, <2>2, <3>2, <3>3
    <2> QED BY <1>1, <1>2, <2>1, <2>2
<1> QED BY <1>1, <1>2, <1>4, <1>5 DEF StreamOrder

\* An event is handled: it shows in the database, and counts as processed.
Handled ==
    /\ Processing /\ poll' = Done(Current) /\ cursor' = cursor /\ stream' = stream
    /\ \E e : e = stream[Current] /\ Reflected(e)'

\* A revocation meets the row of its attestation: the event that created it is not
\* waiting, for it came before.
LEMMA RowIsThere ==
    ASSUME Typed, StreamOrder, NothingLeftBehind, Processing,
           stream[Current].type = "AttestationRevoked"
    PROVE  stream[Current].uid \in DOMAIN attestations
<1>1. PICK n : n = Current
    OBVIOUS
<1>2. n \in poll.queue /\ n \in DOMAIN stream /\ \A k \in poll.queue : n <= k
    BY <1>1, CurrentIsFirst, CurrentEvent DEF Typed, LoopTyped, PollRecord
<1>3. /\ poll.queue \subseteq DOMAIN stream /\ DOMAIN stream = 1 .. Len(stream)
      /\ Len(stream) \in Nat
    BY DEF Typed, LoopTyped
<1>4. PICK j \in 1 .. n - 1 : /\ stream[j].type = "AttestationCreated"
                              /\ stream[j].uid = stream[n].uid
    BY <1>1, <1>2 DEF StreamOrder
<1>5. j \notin poll.queue
    BY <1>2, <1>3
<1>6. Told(j)
    BY <1>2, <1>5 DEF NothingLeftBehind, Processing
<1>7. Reflected(stream[j])
    BY <1>4, <1>6 DEF Told, Decodable
<1>8. stream[j].uid \in DOMAIN attestations
    BY <1>4, <1>7, ReflectedMeans
<1> QED BY <1>1, <1>4, <1>8

\* When no write fails, a log whose turn it is is skipped for a good reason, or handled.
LEMMA LogCases ==
    ASSUME Typed, StreamOrder, NothingLeftBehind, [Next]_vars, ~WritesFail
    PROVE  \/ UNCHANGED <<poll, cursor>>
           \/ poll' = Idle /\ cursor' \in {cursor, poll.latest}
           \/ StartPoll
           \/ \E c \in {"registry", "service"} : Fetch(c)
           \/ CreateTopic
           \/ SkipLog
           \/ Handled
<1>1. ASSUME NEW complete \in BOOLEAN, IndexSchema(complete) PROVE Handled
    <2>1. PICK e : e = stream[Current]
        OBVIOUS
    <2>2. Processing /\ e.type = "SchemaRegistered"
        BY <1>1, <2>1 DEF IndexSchema, Handling
    <2>3. Reflected(e)'
        BY <1>1, <2>1, <2>2 DEF IndexSchema, Upsert, Reflected
    <2> QED BY <1>1, <2>1, <2>2, <2>3 DEF IndexSchema, Handled, stateVars
<1>2. ASSUME NEW complete \in BOOLEAN, IndexAttestation(complete) PROVE Handled
    <2>1. PICK e : e = stream[Current]
        OBVIOUS
    <2>2. Processing /\ e.type = "AttestationCreated"
        BY <1>2, <2>1 DEF IndexAttestation, Handling
    <2>3. Reflected(e)'
        BY <1>2, <2>1, <2>2 DEF IndexAttestation, Upsert, Reflected
    <2>4. poll' = Done(Current) /\ cursor' = cursor /\ stream' = stream
        BY <1>2 DEF IndexAttestation, PublishAndFinish, stateVars
    <2> QED BY <2>1, <2>2, <2>3, <2>4 DEF Handled
<1>3. ASSUME IndexRevocation PROVE Handled
    <2>1. PICK e : e = stream[Current]
        OBVIOUS
    <2>2. Processing /\ e.type = "AttestationRevoked"
        BY <1>3, <2>1 DEF IndexRevocation, Handling
    <2>3. PICK u : u = e.uid
        OBVIOUS
    <2>4. u \in DOMAIN attestations /\ u \in RowsOf(u) /\ attestations[u] \in Row
        BY <2>1, <2>2, <2>3, RowIsThere DEF RowsOf, Typed, RowsTyped
    <2>5. attestations' = [v \in DOMAIN attestations |->
                              [attestations[v] EXCEPT !.revoked = @ \/ v \in RowsOf(u)]]
        BY <1>3, <2>1, <2>3 DEF IndexRevocation
    <2>6. u \in DOMAIN attestations' /\ attestations'[u].revoked
        BY <2>4, <2>5 DEF Row
    <2>7. Reflected(e)'
        BY <2>2, <2>3, <2>6 DEF Reflected
    <2>8. poll' = Done(Current) /\ cursor' = cursor /\ stream' = stream
        BY <1>3 DEF IndexRevocation, PublishAndFinish, stateVars
    <2> QED BY <2>1, <2>2, <2>7, <2>8 DEF Handled
<1>4. ASSUME IndexAuthority PROVE Handled
    <2>1. PICK e : e = stream[Current]
        OBVIOUS
    <2>2. Processing /\ e.type = "AuthorityRegistered"
        BY <1>4, <2>1 DEF IndexAuthority, Handling
    <2>3. Reflected(e)'
        BY <1>4, <2>1, <2>2 DEF IndexAuthority, Reflected
    <2> QED BY <1>4, <2>1, <2>2, <2>3 DEF IndexAuthority, Handled, stateVars
<1>5. CASE PollStep
    BY <1>1, <1>2, <1>3, <1>4, <1>5 DEF PollStep, SaveState, stateVars
<1>6. CASE ~PollStep
    BY <1>6 DEF Next, ContractsNext, IndexerNext, vars, stateVars, Emit, Expire, FetchFails,
        GiveUp, SkipFailure, SaveFails,
        Crash, LookUp, BackfillSchema, BackfillAttestation
<1> QED BY <1>5, <1>6

\* When both contracts have answered, nothing before a fetched log is left out.
LEMMA AllFetched ==
    ASSUME Typed, StreamOrder, HistoryIsComplete,
           NEW queue, queue \subseteq DOMAIN stream,
           NoGaps(queue, cursor, {"registry", "service"}),
           NEW j \in queue, NEW i \in 1 .. j - 1
    PROVE  i \in queue \/ Told(i)
<1>1. /\ DOMAIN stream = 1 .. Len(stream) /\ Len(stream) \in Nat /\ Border \in Nat
      /\ cursor \in Nat /\ j \in Nat
    BY BorderType DEF Typed, LoopTyped
<1>2. CASE i <= cursor
    BY <1>1, <1>2 DEF HistoryIsComplete, Told
<1>3. CASE i > cursor /\ i <= Border
    BY <1>1, <1>3 DEF NoGaps
<1>4. CASE i > cursor /\ i > Border
    BY <1>1, <1>4 DEF NoGaps
<1> QED BY <1>1, <1>2, <1>3, <1>4

\* The creation of a topic changes nothing else of poll's local variables.
LEMMA TopicOnly ==
    ASSUME Typed, CreateTopic
    PROVE  /\ poll'.pc = poll.pc /\ poll'.from = poll.from /\ poll'.answered = poll.answered
           /\ poll'.queue = poll.queue /\ poll'.latest = poll.latest
           /\ cursor' = cursor
<1>1. poll \in PollRecord
    BY DEF Typed, LoopTyped
<1>2. /\ poll'.pc = poll.pc /\ poll'.from = poll.from /\ poll'.answered = poll.answered
      /\ poll'.queue = poll.queue /\ poll'.latest = poll.latest
    <2>1. CASE poll' = [poll EXCEPT !.asked = TRUE]
        BY <1>1, <2>1 DEF PollRecord
    <2>2. ASSUME NEW k, poll' = [poll EXCEPT !.asked = TRUE, !.topic = k] PROVE <1>2
        BY <1>1, <2>2 DEF PollRecord
    <2>3. \/ poll' = [poll EXCEPT !.asked = TRUE]
          \/ \E k : poll' = [poll EXCEPT !.asked = TRUE, !.topic = k]
        BY DEF CreateTopic
    <2> QED BY <2>1, <2>2, <2>3
<1>3. cursor' = cursor
    BY DEF CreateTopic, stateVars
<1> QED BY <1>2, <1>3

\* Skipping the log whose turn it is, or counting it as processed, takes the first log
\* from the queue.
LEMMA TakesFirst ==
    ASSUME Typed, Processing, poll' \in {Skipped(Current), Done(Current)}
    PROVE  \E n \in poll.queue :
              /\ n = Current /\ n \in Nat /\ \A k \in poll.queue : n <= k
              /\ poll'.queue = poll.queue \ {n} /\ poll'.pc = poll.pc /\ poll'.from = poll.from
              /\ poll'.latest \in {poll.latest, n}
<1>1. poll \in PollRecord /\ poll.queue \subseteq Nat
    BY DEF Typed, LoopTyped, PollRecord
<1>2. Current \in poll.queue /\ \A k \in poll.queue : Current <= k
    BY <1>1, CurrentIsFirst
<1>3. PICK n : n = Current
    OBVIOUS
<1>4. n \in Nat /\ n \in poll.queue /\ poll' \in {Skipped(n), Done(n)}
    BY <1>1, <1>2, <1>3
<1>5. /\ Skipped(n).queue = poll.queue \ {n} /\ Done(n).queue = poll.queue \ {n}
      /\ Skipped(n).latest = poll.latest /\ Done(n).latest = n
      /\ Skipped(n).pc = poll.pc /\ Done(n).pc = poll.pc
      /\ Skipped(n).from = poll.from /\ Done(n).from = poll.from
    BY <1>1, <1>4, SkippedType
<1> QED BY <1>2, <1>3, <1>4, <1>5

\* No step leaves an event behind.
LEMMA LeftBehindStep ==
    SchemasCameFirst /\ Typed /\ StreamOrder /\ NothingLeftBehind /\ [Next]_vars
        => NothingLeftBehind'
<1> SUFFICES ASSUME SchemasCameFirst, Typed, StreamOrder, NothingLeftBehind, [Next]_vars
             PROVE  NothingLeftBehind'
    OBVIOUS
<1>1. /\ stream \in Seq(Emitted) /\ DOMAIN stream = 1 .. Len(stream) /\ Len(stream) \in Nat
      /\ poll \in PollRecord /\ poll.queue \subseteq DOMAIN stream
      /\ poll.from \in Nat /\ cursor \in 0 .. Len(stream) /\ poll.latest \in 0 .. Len(stream)
    BY DEF Typed, LoopTyped, PollRecord
<1>2. PICK told : told = {i \in DOMAIN stream : Told(i)}
    OBVIOUS
<1>3. PICK seen : seen = {i \in DOMAIN stream : Told(i)'}
    OBVIOUS
<1>4. told \subseteq seen
    BY <1>2, <1>3, ToldStays
<1>5. 1 .. cursor \subseteq told /\ 1 .. poll.latest \subseteq told
    BY <1>1, <1>2 DEF NothingLeftBehind, HistoryIsComplete, Told
<1>6. poll.pc = "processing" =>
          \A j \in poll.queue : \A i \in 1 .. j - 1 : i \in poll.queue \cup told
    BY <1>1, <1>2 DEF NothingLeftBehind
<1> DEFINE Clauses ==
        /\ 1 .. cursor' \subseteq seen /\ 1 .. poll'.latest \subseteq seen
        /\ poll'.pc # "idle" => poll'.from = cursor'
        /\ poll'.pc = "fetching" => NoGaps(poll'.queue, poll'.from, poll'.answered)
        /\ poll'.pc = "processing" =>
              \A j \in poll'.queue : \A i \in 1 .. j - 1 : i \in poll'.queue \cup seen
<1>7. SUFFICES Clauses
    BY <1>3 DEF NothingLeftBehind, HistoryIsComplete, Told
<1>8. /\ poll.pc # "idle" => poll.from = cursor
      /\ poll.pc = "fetching" => NoGaps(poll.queue, poll.from, poll.answered)
    BY DEF NothingLeftBehind
<1>9. ASSUME UNCHANGED <<poll, cursor>> PROVE Clauses
    BY <1>4, <1>5, <1>6, <1>8, <1>9
<1>10. ASSUME poll' = Idle, cursor' \in {cursor, poll.latest} PROVE Clauses
    <2>1. Idle.pc = "idle" /\ Idle.latest = 0
        BY DEF Idle
    <2> QED BY <1>4, <1>5, <1>10, <2>1
<1>11. ASSUME StartPoll PROVE Clauses
    <2>1. cursor' = cursor
        BY <1>11 DEF StartPoll, stateVars
    <2>2. /\ poll'.pc = "fetching" /\ poll'.from = cursor /\ poll'.answered = {}
          /\ poll'.queue = {} /\ poll'.latest = cursor
        BY <1>11 DEF StartPoll, Idle
    <2>3. NoGaps({}, cursor, {})
        BY DEF NoGaps
    <2> QED BY <1>4, <1>5, <2>1, <2>2, <2>3
<1>12. ASSUME NEW c \in {"registry", "service"}, Fetch(c) PROVE Clauses
    <2>1. PICK page : page = FetchContractLogs(c, poll.from)
        OBVIOUS
    <2>2. page \subseteq DOMAIN stream
        BY <2>1 DEF FetchContractLogs
    <2>3. /\ poll.pc = "fetching" /\ c \notin poll.answered /\ cursor' = cursor
          /\ poll' = [poll EXCEPT !.answered = @ \cup {c}, !.queue = @ \cup page,
                                  !.pc = IF poll.answered = {} THEN "fetching" ELSE "processing"]
        BY <1>12, <2>1 DEF Fetch, stateVars
    <2>4. /\ poll'.answered = poll.answered \cup {c} /\ poll'.queue = poll.queue \cup page
          /\ poll'.from = poll.from /\ poll'.latest = poll.latest
          /\ poll'.pc = IF poll.answered = {} THEN "fetching" ELSE "processing"
        BY <1>1, <2>3 DEF PollRecord
    <2>5. NoGaps(poll.queue \cup page, poll.from, poll.answered \cup {c})
        BY <1>1, <1>8, <2>1, <2>3, PageLeavesNoGaps
    <2>6. poll.from = cursor
        BY <1>8, <2>3
    <2>7. CASE poll.answered = {}
        BY <1>4, <1>5, <2>3, <2>4, <2>5, <2>6, <2>7
    <2>8. CASE poll.answered # {}
        <3>1. poll.answered \cup {c} = {"registry", "service"}
            BY <1>1, <2>3, <2>8 DEF PollRecord
        <3>2. PICK queue : queue = poll.queue \cup page
            OBVIOUS
        <3>3. queue \subseteq DOMAIN stream /\ HistoryIsComplete
            BY <1>1, <2>2, <3>2 DEF NothingLeftBehind
        <3>4. NoGaps(queue, cursor, {"registry", "service"})
            BY <2>5, <2>6, <3>1, <3>2
        <3>5. \A j \in queue : \A i \in 1 .. j - 1 : i \in queue \/ Told(i)
            BY <3>3, <3>4, AllFetched
        <3>6. \A j \in queue : \A i \in 1 .. j - 1 : i \in queue \cup told
            BY <1>1, <1>2, <3>3, <3>5
        <3> QED BY <1>4, <1>5, <2>3, <2>4, <2>6, <2>8, <3>2, <3>6
    <2> QED BY <2>7, <2>8
<1>13. ASSUME CreateTopic PROVE Clauses
    <2>1. /\ poll'.pc = poll.pc /\ poll'.from = poll.from /\ poll'.answered = poll.answered
          /\ poll'.queue = poll.queue /\ poll'.latest = poll.latest /\ cursor' = cursor
        BY <1>13, TopicOnly
    <2> QED BY <1>4, <1>5, <1>6, <1>8, <2>1
<1>14. ASSUME Processing, cursor' = cursor, poll' \in {Skipped(Current), Done(Current)},
              Current \in seen
       PROVE  Clauses
    <2>1. PICK n \in poll.queue :
              /\ n = Current /\ n \in Nat /\ \A k \in poll.queue : n <= k
              /\ poll'.queue = poll.queue \ {n} /\ poll'.pc = poll.pc /\ poll'.from = poll.from
              /\ poll'.latest \in {poll.latest, n}
        BY <1>14, TakesFirst
    <2>2. n \in Nat /\ n \in poll.queue /\ \A k \in poll.queue : n <= k
        BY <2>1
    <2>3. /\ poll'.queue = poll.queue \ {n} /\ poll'.pc = poll.pc /\ poll'.from = poll.from
          /\ poll'.latest \in {poll.latest, n}
        BY <2>1
    <2>4. poll.pc = "processing" /\ poll.from = cursor
        BY <1>8, <1>14 DEF Processing
    <2>5. 1 .. n \subseteq seen
        <3>1. \A i \in 1 .. n - 1 : i \notin poll.queue
            BY <1>1, <2>2
        <3>2. \A i \in 1 .. n - 1 : i \in seen
            BY <1>4, <1>6, <2>2, <2>4, <3>1
        <3> QED BY <1>14, <2>1, <2>2, <3>2
    <2>6. \A j \in poll'.queue : \A i \in 1 .. j - 1 : i \in poll'.queue \cup seen
        BY <1>4, <1>6, <1>14, <2>1, <2>3, <2>4
    <2> QED BY <1>4, <1>5, <1>14, <2>3, <2>4, <2>5, <2>6
<1>15. ASSUME Handled PROVE Current \in seen
    <2>1. PICK n : n = Current
        OBVIOUS
    <2>2. n \in DOMAIN stream
        BY <1>15, <2>1, CurrentEvent DEF Handled, Typed
    <2>3. PICK e : e = stream[n] /\ Reflected(e)'
        BY <1>15, <2>1 DEF Handled
    <2>4. stream'[n] = e
        BY <1>15, <2>3 DEF Handled
    <2>5. Told(n)'
        BY <2>3, <2>4 DEF Told
    <2> QED BY <1>3, <2>1, <2>2, <2>5
<1>16. ASSUME SkipLog PROVE Current \in seen
    <2>1. PICK n : n = Current
        OBVIOUS
    <2>2. n \in DOMAIN stream /\ n \in Nat /\ n >= 1
        BY <1>1, <1>16, <2>1, CurrentEvent DEF SkipLog, Typed
    <2>3. n = cursor \/ ~Decodable(stream[n])
        BY <1>8, <1>16, <2>1 DEF SkipLog, Processing
    <2>4. n \in told
        BY <1>2, <1>5, <2>2, <2>3 DEF Told
    <2> QED BY <1>4, <2>1, <2>4
<1> QED BY <1>9, <1>10, <1>11, <1>12, <1>13, <1>14, <1>15, <1>16, LogCases
        DEF SchemasCameFirst, Handled, SkipLog, stateVars

\* The database holds the full history: when the schemas were registered before the
\* indexer ran and fit into one page, and the database takes every write, no event before
\* the cursor is missing, whatever the mirror node answers when, and however often a poll
\* fails or the process ends.
THEOREM HistoryComplete == ASSUME SchemasCameFirst PROVE Spec => []HistoryIsComplete
<1>1. Init => StreamOrder
    <2> SUFFICES ASSUME Init PROVE StreamOrder
        OBVIOUS
    <2>1. stream = History
        BY DEF Init
    <2> QED BY <2>1, BorderType DEF StreamOrder, SchemasCameFirst
<1>2. Init => NothingLeftBehind
    BY DEF Init, Idle, NothingLeftBehind, HistoryIsComplete
<1>3. Typed /\ StreamOrder /\ [Next]_vars => StreamOrder'
    BY StreamOrderStep
<1>4. Typed /\ StreamOrder /\ NothingLeftBehind /\ [Next]_vars => NothingLeftBehind'
    BY LeftBehindStep
<1>5. NothingLeftBehind => HistoryIsComplete
    BY DEF NothingLeftBehind
<1> QED BY <1>1, <1>2, <1>3, <1>4, <1>5, TypedStart, TypedStep, PTL DEF Spec
=============================================================================
