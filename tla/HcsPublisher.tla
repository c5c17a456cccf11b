---------------------------- MODULE HcsPublisher ----------------------------
(***************************************************************************)
(* apps/indexer/src/hcs-publisher.ts: messages the indexer hands over are  *)
(* submitted in the background, to the global topic of their kind and then *)
(* to the topic of their schema, at most MaxRetries times to each.         *)
(***************************************************************************)
EXTENDS Naturals, Sequences, FiniteSets

CONSTANTS HcsEnabled,   \* topic ids and credentials are configured
          Schema,       \* schema UIDs
          MaxCalls,     \* bound: publish calls in flight
          MaxTopics     \* bound: topics of a schema

MaxRetries == 2         \* MAX_RETRIES

VARIABLES inflight,     \* the publish calls that have not returned
          topicLog,     \* global topic name -> the messages in it
          schemaTopics  \* schema -> the messages in each of the topics created for it

hcsVars == <<inflight, topicLog, schemaTopics>>

Global == {"schemas", "attestations", "authorities"}

HcsInit == /\ inflight = {}
           /\ topicLog = [t \in Global |-> {}]
           /\ schemaTopics = [s \in Schema |-> <<>>]

\* createSchemaTopic: the new topic is the last one of the schema; its init message
\* may fail like any other, and is left out.
CreateSchemaTopic(s) ==
    /\ Len(schemaTopics[s]) < MaxTopics
    /\ schemaTopics' = [schemaTopics EXCEPT ![s] = Append(@, {})]
    /\ UNCHANGED <<inflight, topicLog>>

\* publish...: to the global topic, then to topic number k of schema s, 0 for none.  The
\* caller never waits: a call over the bound counts as one whose attempts all fail, and
\* calls for the same message that are equally far count as one.
Publish(message, global, s, k) ==
    LET call == [message |-> message, global |-> global, schema |-> s, topic |-> k,
                 step |-> "global", attempt |-> 1]
    IN  /\ inflight' = IF HcsEnabled /\ Cardinality(inflight) < MaxCalls
                       THEN inflight \cup {call} ELSE inflight
        /\ UNCHANGED <<topicLog, schemaTopics>>

\* What is left of a call when its current submission is over, sent or given up.
Rest(call) ==
    IF call.step = "global" /\ call.topic # 0
    THEN {[call EXCEPT !.step = "schema", !.attempt = 1]} ELSE {}

\* The message of a call reaches the topic its current submission is for.
Deliver(call) ==
    IF call.step = "global"
    THEN /\ topicLog' = [topicLog EXCEPT ![call.global] = @ \cup {call.message}]
         /\ UNCHANGED schemaTopics
    ELSE /\ schemaTopics' = [schemaTopics EXCEPT ![call.schema][call.topic] =
                                                     @ \cup {call.message}]
         /\ UNCHANGED topicLog

\* One attempt of a call: the message may reach the topic, and the attempt may fail,
\* independently of one another.
Attempt(call) ==
    /\ \/ UNCHANGED <<topicLog, schemaTopics>>
       \/ Deliver(call)
    /\ \/ inflight' = (inflight \ {call}) \cup Rest(call)
       \/ /\ call.attempt < MaxRetries
          /\ inflight' = (inflight \ {call}) \cup {[call EXCEPT !.attempt = @ + 1]}

HcsNext == \E call \in inflight : Attempt(call)

\* The process ends with its calls.
HcsCrash == inflight' = {} /\ UNCHANGED <<topicLog, schemaTopics>>
=============================================================================
