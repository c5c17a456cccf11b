----------------------------- MODULE AgentRelay -----------------------------
(***************************************************************************)
(* bounty/agent: verification-agent.ts takes HTTP calls and relays them to *)
(* the Attestify agent over an HCS-10 connection topic; hcs10-server.ts    *)
(* accepts connections on the inbound topic and answers what it reads.     *)
(*                                                                         *)
(* A topic is a log, and a poll reads some prefix of it: the mirror node   *)
(* lags, and answers of overlapping polls may come in any order.  Timers   *)
(* of setInterval fire whether or not the previous callback has returned,  *)
(* so a loop that skips what lastSequence covers is one step per message.  *)
(***************************************************************************)
EXTENDS AgentMemory

CONSTANTS Requester,    \* accounts that run a verification agent
          MaxInbound,   \* bound: messages on the inbound topic
          MaxRestarts   \* bound: how often the server, or a requester, ends

ASSUME RelayAssumption ==
    /\ \A m \in Message : Protocol[m] = "hcs10" => Peer[m] \in Requester
    /\ MaxInbound \in Nat /\ MaxRestarts \in Nat

\* The HTTP calls to POST /api/verify, and the agent each is made to.
Request == {m \in Message : Protocol[m] = "hcs10"}
Asked == Peer

VARIABLES inbound,      \* the agent's inbound topic
          topics,       \* the connection topics: what they were created for, messages
          lastSeen,     \* lastSeenSequence of monitorInbound
          firstPoll,
          accepting,    \* inbound messages whose handleConnectionRequest is awaited
          active,       \* activeConnections: requester -> number of its topic
          monitored,    \* topics with a monitorConnection loop -> its lastSequence
          working,      \* messages that have been taken and not answered yet
          connection,   \* of each requester: the state of connectToAttestifyAgent
          lastSequence, \* of each requester
          pending,      \* pendingRequests of each requester, in the order of the Map
          call,         \* the state of each HTTP call
          key,          \* its requestId: the millisecond it came in
          result,       \* how it ended, as AnswerService tells it
          restarts

inboundVars == <<inbound, lastSeen, firstPoll, accepting, active>>
serverVars  == <<monitored, working>>
callVars    == <<pending, call, key, result>>
relayVars == <<inboundVars, serverVars, topics, connection, lastSequence, callVars, restarts>>

Open == [kind |-> "open"]
Error == [kind |-> "error"]
Answer(q) == [kind |-> "answer", to |-> q]

Off == [phase |-> "off", at |-> 0]

RelayInit ==
    /\ inbound = <<>> /\ topics = <<>>
    /\ lastSeen = 0 /\ firstPoll = TRUE /\ accepting = {} /\ active = <<>>
    /\ monitored = <<>> /\ working = {}
    /\ connection = [c \in Requester |-> Off]
    /\ lastSequence = [c \in Requester |-> 0]
    /\ pending = [c \in Requester |-> <<>>]
    /\ call = [r \in Request |-> "new"]
    /\ key = [r \in Request |-> 0]
    /\ result = [r \in Request |-> Open]
    /\ restarts = 0

-----------------------------------------------------------------------------
(* hcs10-server.ts: the inbound topic *)

\* The first poll only records where the topic ends.  The mirror node does not fall
\* behind what an earlier process has read and accepted.
FirstPoll(n) ==
    /\ firstPoll
    /\ \A t \in DOMAIN topics : topics[t].request <= n
    /\ firstPoll' = FALSE /\ lastSeen' = n
    /\ UNCHANGED <<memoryVars, inbound, accepting, active, serverVars, topics, connection,
                   lastSequence, callVars, restarts>>

\* The messages of a page up to n that the loop does not skip.  The page is sorted
\* newest first and each message taken raises lastSeenSequence to itself, above all
\* that follow.
Taken(n) == {n} \ 0 .. lastSeen

\* A fault for the runs to find: lastSeenSequence is raised after the await.
PollInbound_Late(n) ==
    /\ ~firstPoll
    /\ lastSeen' = IF \E i \in Taken(n) : inbound[i].op = "request" THEN lastSeen
                   ELSE Max({n, lastSeen})
    /\ accepting' = accepting \cup {i \in Taken(n) : inbound[i].op = "request"
                                                    /\ inbound[i].from \notin DOMAIN active}
    /\ UNCHANGED <<memoryVars, inbound, firstPoll, active, serverVars, topics, connection,
                   lastSequence, callVars, restarts>>

PollInbound(n) ==
    /\ ~firstPoll
    /\ lastSeen' = Max({n, lastSeen})
    /\ accepting' = accepting \cup {i \in Taken(n) : inbound[i].op = "request"
                                                    /\ inbound[i].from \notin DOMAIN active}
    /\ UNCHANGED <<memoryVars, inbound, firstPoll, active, serverVars, topics, connection,
                   lastSequence, callVars, restarts>>

\* handleConnectionRequest creates a topic and confirms it on the inbound topic.
Confirm(i) ==
    /\ Len(inbound) < MaxInbound
    /\ topics' = Append(topics, [request |-> i, log |-> <<>>])
    /\ inbound' = Append(inbound, [op |-> "created", from |-> inbound[i].from,
                                   request |-> i, topic |-> Len(topics) + 1])

Accept(i) ==
    /\ i \in accepting
    /\ Confirm(i)
    /\ active' = Put(active, inbound[i].from, Len(topics) + 1)
    /\ monitored' = Put(monitored, Len(topics) + 1, 0)
    /\ accepting' = accepting \ {i}
    /\ UNCHANGED <<memoryVars, lastSeen, firstPoll, working, connection, lastSequence,
                   callVars, restarts>>

\* It throws, before or after the confirmation: the request is not tried again.
AcceptFails(i) ==
    /\ i \in accepting
    /\ Confirm(i) \/ UNCHANGED <<inbound, topics>>
    /\ accepting' = accepting \ {i}
    /\ UNCHANGED <<memoryVars, lastSeen, firstPoll, active, serverVars, connection, lastSequence,
                   callVars, restarts>>

-----------------------------------------------------------------------------
(* hcs10-server.ts: a connection topic *)

\* The first message after position n of a topic that was sent by that side, 0 if none.
NextFrom(side, t, n) ==
    LET new == {i \in n + 1 .. Len(topics[t].log) : topics[t].log[i].by = side}
    IN  IF new = {} THEN 0 ELSE CHOOSE i \in new : \A j \in new : i <= j

\* A fault for the runs to find: lastSequence is set when the answer is sent.
TakeMessage_Late(t) ==
    LET i == NextFrom("requester", t, monitored[t]) IN
    /\ i # 0
    /\ job' = [job EXCEPT ![topics[t].log[i].request].stage = "thinking"]
    /\ working' = working \cup {[topic |-> t, at |-> i]}
    /\ UNCHANGED <<workload, memory, inboundVars, monitored, topics, connection, lastSequence,
                   callVars, restarts>>

TakeMessage(t) ==
    LET i == NextFrom("requester", t, monitored[t]) IN
    /\ i # 0
    /\ StartJob(topics[t].log[i].request)
    /\ monitored' = [monitored EXCEPT ![t] = i]
    /\ working' = working \cup {[topic |-> t, at |-> i]}
    /\ UNCHANGED <<inboundVars, topics, connection, lastSequence, callVars, restarts>>

\* The agent has answered, and the answer is sent; answers to messages taken one after
\* the other may be sent in any order.
Reply(w) ==
    /\ w \in working
    /\ FinishJob(topics[w.topic].log[w.at].request)
    /\ topics' = [topics EXCEPT ![w.topic].log =
                     Append(@, [by |-> "agent", request |-> @[w.at].request])]
    /\ working' = working \ {w}
    /\ UNCHANGED <<inboundVars, monitored, connection, lastSequence, callVars, restarts>>

\* An error in sending is logged, and the message not taken again.
ReplyFails(w) ==
    /\ w \in working
    /\ FinishJob(topics[w.topic].log[w.at].request)
    /\ working' = working \ {w}
    /\ UNCHANGED <<inboundVars, monitored, topics, connection, lastSequence, callVars, restarts>>

ServerRestart ==
    /\ restarts < MaxRestarts
    /\ restarts' = restarts + 1
    /\ lastSeen' = 0 /\ firstPoll' = TRUE /\ accepting' = {} /\ active' = <<>>
    /\ monitored' = <<>> /\ working' = {}
    /\ UNCHANGED <<inbound, topics, connection, lastSequence, callVars>>

-----------------------------------------------------------------------------
(* verification-agent.ts *)

CallsOf(c) == {r \in Request : Asked[r] = c}

\* connectToAttestifyAgent: submitConnectionRequest
Connect(c) ==
    /\ CallsOf(c) \cap workload # {}
    /\ connection[c].phase = "off" /\ Len(inbound) < MaxInbound
    /\ inbound' = Append(inbound, [op |-> "request", from |-> c])
    /\ connection' = [connection EXCEPT ![c] = [phase |-> "requesting", at |-> Len(inbound) + 1]]
    /\ UNCHANGED <<memoryVars, lastSeen, firstPoll, accepting, active, serverVars, topics,
                   lastSequence,
                   callVars, restarts>>

\* waitForConnectionConfirmation: the confirmation of this very request
Connected(c) ==
    /\ connection[c].phase = "requesting"
    /\ \E m \in Range(inbound) :
          /\ m.op = "created" /\ m.request = connection[c].at
          /\ connection' = [connection EXCEPT ![c] = [phase |-> "connected", at |-> m.topic]]
    /\ UNCHANGED <<memoryVars, inboundVars, serverVars, topics, lastSequence, callVars, restarts>>

\* The process ends: no confirmation came, or it is restarted; its callers get an error.
RequesterRestart(c) ==
    /\ connection[c].phase # "off"
    /\ restarts < MaxRestarts
    /\ restarts' = restarts + 1
    /\ connection' = [connection EXCEPT ![c] = Off]
    /\ lastSequence' = [lastSequence EXCEPT ![c] = 0]
    /\ pending' = [pending EXCEPT ![c] = <<>>]
    /\ LET lost == {r \in CallsOf(c) : call[r] \in {"sending", "waiting"}} IN
       /\ call' = [r \in Request |-> IF r \in lost THEN "settled" ELSE call[r]]
       /\ result' = [r \in Request |-> IF r \in lost THEN Error ELSE result[r]]
    /\ UNCHANGED <<memoryVars, inboundVars, serverVars, topics, key>>

Settle(r, how) ==
    /\ call' = [call EXCEPT ![r] = "settled"]
    /\ result' = [result EXCEPT ![r] = how]

\* POST /api/verify while the agent is not connected: 503
Refuse(r) ==
    /\ r \in workload /\ call[r] = "new" /\ connection[Asked[r]].phase # "connected"
    /\ Settle(r, Error)
    /\ UNCHANGED <<memoryVars, inboundVars, serverVars, topics, connection, lastSequence,
                   pending, key, restarts>>

\* sendAndWait up to its await.  The requestId is the clock: that of the latest call
\* when both come in the same millisecond.
SendAndWait(r) ==
    LET latest == Max({key[q] : q \in CallsOf(Asked[r])}) IN
    /\ r \in workload /\ call[r] = "new" /\ connection[Asked[r]].phase = "connected"
    /\ call' = [call EXCEPT ![r] = "sending"]
    /\ \E ms \in {latest, latest + 1} \ {0} : key' = [key EXCEPT ![r] = ms]
    /\ UNCHANGED <<memoryVars, inboundVars, serverVars, topics, connection, lastSequence,
                   pending, result, restarts>>

\* Its message reaches the topic; sendMessage has not returned yet.
Sent(r) ==
    LET t == connection[Asked[r]].at IN
    /\ call[r] = "sending"
    /\ \A m \in Range(topics[t].log) : m.request # r
    /\ topics' = [topics EXCEPT ![t].log = Append(@, [by |-> "requester", request |-> r])]
    /\ UNCHANGED <<memoryVars, inboundVars, serverVars, connection, lastSequence, callVars,
                   restarts>>

\* Where the Map of c holds the key of r: at one place, or at none.
Under(c, r) == {i \in DOMAIN pending[c] : key[pending[c][i]] = key[r]}

\* pendingRequests.set: a key that is there keeps its place in the Map.
Registered(c, r) ==
    IF Under(c, r) = {}
    THEN Append(pending[c], r)
    ELSE [i \in DOMAIN pending[c] |-> IF i \in Under(c, r) THEN r ELSE pending[c][i]]

\* pendingRequests.delete
Deleted(c, r) ==
    IF Under(c, r) = {}
    THEN pending[c]
    ELSE RemoveAt(pending[c], CHOOSE i \in Under(c, r) : TRUE)

\* sendMessage has returned: the request is registered and its timer started.
Await(r) ==
    LET c == Asked[r] IN
    /\ call[r] = "sending"
    /\ \E m \in Range(topics[connection[c].at].log) : m.request = r
    /\ call' = [call EXCEPT ![r] = "waiting"]
    /\ pending' = [pending EXCEPT ![c] = Registered(c, r)]
    /\ UNCHANGED <<memoryVars, inboundVars, serverVars, topics, connection, lastSequence,
                   key, result, restarts>>

\* sendMessage throws: 500, wherever the message is.
SendFails(r) ==
    /\ call[r] = "sending"
    /\ Settle(r, Error)
    /\ UNCHANGED <<memoryVars, inboundVars, serverVars, topics, connection, lastSequence,
                   pending, key, restarts>>


\* The timer of r: whatever is under its key is deleted.
TimedOut(r) ==
    /\ call[r] = "waiting"
    /\ pending' = [pending EXCEPT ![Asked[r]] = Deleted(Asked[r], r)]
    /\ Settle(r, Error)
    /\ UNCHANGED <<memoryVars, inboundVars, serverVars, topics, connection, lastSequence,
                   key, restarts>>

\* A fault for the runs to find: the request answered stays in the Map.
Rest_Kept(queue) == queue

\* What is pending once the oldest request has been answered.
Rest(queue) == Tail(queue)

\* pollForResponses: the next message of the agent resolves the oldest request, or
\* is dropped when none is pending.
PollForResponses(c) ==
    LET t == connection[c].at
        i == NextFrom("agent", t, lastSequence[c])
    IN
    /\ connection[c].phase = "connected"
    /\ i # 0
    /\ lastSequence' = [lastSequence EXCEPT ![c] = i]
    /\ IF pending[c] = <<>>
       THEN UNCHANGED callVars
       ELSE /\ Settle(Head(pending[c]), Answer(topics[t].log[i].request))
            /\ pending' = [pending EXCEPT ![c] = Rest(@)]
            /\ UNCHANGED key
    /\ UNCHANGED <<memoryVars, inboundVars, serverVars, topics, connection, restarts>>

RelayNext ==
    \/ \E n \in 0 .. Len(inbound) : FirstPoll(n) \/ PollInbound(n)
    \/ \E i \in accepting : Accept(i) \/ AcceptFails(i)
    \/ \E t \in DOMAIN monitored : TakeMessage(t)
    \/ \E w \in working : Reply(w) \/ ReplyFails(w)
    \/ \E c \in Requester : Connect(c) \/ Connected(c) \/ RequesterRestart(c) \/ PollForResponses(c)
    \/ \E r \in Request : \/ Refuse(r) \/ SendAndWait(r) \/ Sent(r) \/ Await(r)
                          \/ SendFails(r) \/ TimedOut(r)
=============================================================================
