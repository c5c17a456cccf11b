---------------------------- MODULE AgentProofs ----------------------------
(***************************************************************************)
(* Theorems about the agents, for every set of messages, peers and         *)
(* requesters and any number of polls, restarts and clears.                *)
(***************************************************************************)
EXTENDS Agents, FiniteLemmas

-----------------------------------------------------------------------------
(* What a step does to the topics *)

Said == [by : {"requester", "agent"}, request : Request]
Topic == [request : Nat, log : Seq(Said)]
Inbound == [op : {"request"}, from : Requester]
               \cup [op : {"created"}, from : Requester, request : Nat, topic : Nat]

\* A topic that was created for the request at i, and a message m more in topic t.
Created(i) == [request |-> i, log |-> <<>>]
Say(ts, t, m) == [ts EXCEPT ![t].log = Append(@, m)]

\* One message more, at the end of one log.
LEMMA SayIs ==
    ASSUME NEW ts \in Seq(Topic), NEW t \in DOMAIN ts, NEW m \in Said
    PROVE  /\ Say(ts, t, m) \in Seq(Topic)
           /\ DOMAIN Say(ts, t, m) = DOMAIN ts /\ Len(Say(ts, t, m)) = Len(ts)
           /\ \A s \in DOMAIN ts : Say(ts, t, m)[s].request = ts[s].request
           /\ \A s \in DOMAIN ts : s # t => Say(ts, t, m)[s] = ts[s]
           /\ Say(ts, t, m)[t].log = Append(ts[t].log, m)
<1>1. ts[t] \in Topic /\ ts[t].log \in Seq(Said)
    <2>1. ts[t] \in Topic
        OBVIOUS
    <2> QED BY <2>1 DEF Topic
<1>2. PICK log : log = Append(ts[t].log, m)
    OBVIOUS
<1>3. log \in Seq(Said)
    BY <1>1, <1>2
<1>4. PICK topic : topic = [ts[t] EXCEPT !.log = log]
    OBVIOUS
<1>5. topic \in Topic /\ topic.log = log /\ topic.request = ts[t].request
    BY <1>1, <1>3, <1>4 DEF Topic
<1>6. Say(ts, t, m) = [ts EXCEPT ![t] = topic]
    BY <1>2, <1>4 DEF Say
<1>7. Say(ts, t, m) \in Seq(Topic)
    BY <1>5, <1>6, ReplaceType
<1>8. /\ DOMAIN Say(ts, t, m) = DOMAIN ts /\ Say(ts, t, m)[t] = topic
      /\ \A s \in DOMAIN ts : s # t => Say(ts, t, m)[s] = ts[s]
    BY <1>6
<1>9. Len(Say(ts, t, m)) = Len(ts)
    BY <1>7, <1>8
<1> QED BY <1>2, <1>5, <1>7, <1>8, <1>9

\* One topic more.
LEMMA CreatedIs ==
    ASSUME NEW ts \in Seq(Topic), NEW i \in Nat
    PROVE  /\ Append(ts, Created(i)) \in Seq(Topic)
           /\ Len(Append(ts, Created(i))) = Len(ts) + 1
           /\ Len(ts) \in Nat /\ DOMAIN ts = 1 .. Len(ts)
           /\ DOMAIN Append(ts, Created(i)) = 1 .. Len(ts) + 1
           /\ \A s \in DOMAIN ts : Append(ts, Created(i))[s] = ts[s]
           /\ Append(ts, Created(i))[Len(ts) + 1] = Created(i)
           /\ Created(i).request = i /\ Created(i).log = <<>>
<1>1. Created(i) \in Topic /\ Created(i).request = i /\ Created(i).log = <<>>
    BY DEF Created, Topic
<1> HIDE DEF Created
<1> QED BY <1>1

\* The types of the inbound topic, of the connection topics and of what refers to them.
TopicsTyped ==
    /\ inbound \in Seq(Inbound) /\ topics \in Seq(Topic)
    /\ \A i \in DOMAIN inbound : inbound[i].op = "created" =>
          /\ inbound[i].topic \in DOMAIN topics
          /\ topics[inbound[i].topic].request = inbound[i].request
    /\ \A t \in DOMAIN topics : /\ topics[t].request \in DOMAIN inbound
                                /\ inbound[topics[t].request].op = "request"
    /\ accepting \subseteq {i \in DOMAIN inbound : inbound[i].op = "request"}

ServerTyped ==
    /\ DOMAIN monitored \subseteq DOMAIN topics
    /\ \A t \in DOMAIN monitored : monitored[t] \in Nat
    /\ \A w \in working : /\ w.topic \in DOMAIN topics /\ w.at \in DOMAIN topics[w.topic].log
                          /\ topics[w.topic].log[w.at].by = "requester"

Outcome == {Open, Error} \cup {Answer(r) : r \in Request}

RequestersTyped ==
    /\ connection \in [Requester -> [phase : {"off", "requesting", "connected"}, at : Nat]]
    /\ \A c \in Requester : connection[c].phase = "connected" => connection[c].at \in DOMAIN topics
    /\ lastSequence \in [Requester -> Nat]
    /\ pending \in [Requester -> Seq(Request)]
    /\ call \in [Request -> {"new", "sending", "waiting", "settled"}]
    /\ \A r \in Request : call[r] = "sending" => connection[Asked[r]].phase = "connected"
    /\ result \in [Request -> Outcome]

RelayTyped == TopicsTyped /\ ServerTyped /\ RequestersTyped

\* The first of the messages of one side past a position.
LEMMA NextFromIs ==
    ASSUME NEW side, NEW t \in DOMAIN topics, NEW n \in Nat, topics \in Seq(Topic),
           NextFrom(side, t, n) # 0
    PROVE  LET i == NextFrom(side, t, n) IN
           /\ i \in DOMAIN topics[t].log /\ i \in Nat /\ i > n /\ topics[t].log[i].by = side
           /\ topics[t].log[i].request \in Request
           /\ \A j \in n + 1 .. i - 1 : topics[t].log[j].by # side
<1>1. PICK log : log = topics[t].log
    OBVIOUS
<1>2. log \in Seq(Said)
    <2>1. topics[t] \in Topic
        OBVIOUS
    <2> QED BY <1>1, <2>1 DEF Topic
<1>3. PICK new : new = {i \in n + 1 .. Len(log) : log[i].by = side}
    OBVIOUS
<1>4. new # {} /\ NextFrom(side, t, n) = CHOOSE i \in new : \A j \in new : i <= j
    BY <1>1, <1>3 DEF NextFrom
<1>5. new \subseteq Nat /\ Len(log) \in Nat
    BY <1>2, <1>3
<1>6. \E i \in new : \A j \in new : i <= j
    BY <1>4, <1>5, Least
<1>7. PICK i : i = NextFrom(side, t, n)
    OBVIOUS
<1>8. i \in new /\ \A j \in new : i <= j
    BY <1>4, <1>6, <1>7
<1>9. i \in n + 1 .. Len(log) /\ log[i].by = side
    BY <1>3, <1>8
<1>10. log[i] \in Said /\ i \in DOMAIN log
    BY <1>2, <1>9
<1>11. \A j \in n + 1 .. i - 1 : log[j].by # side
    BY <1>2, <1>3, <1>8, <1>9
<1>12. log[i].request \in Request
    BY <1>10 DEF Said
<1> QED BY <1>1, <1>7, <1>9, <1>10, <1>11, <1>12

\* What a caller's message, and an answer, add to which topic.
Question(r) == [by |-> "requester", request |-> r]
Response(r) == [by |-> "agent", request |-> r]

\* The message of a call reaches the topic its agent is connected to.
LEMMA SentSays ==
    ASSUME RelayTyped, NEW r \in Request, Sent(r)
    PROVE  \E t \in DOMAIN topics :
              /\ t = connection[Asked[r]].at /\ call[r] = "sending"
              /\ connection[Asked[r]].phase = "connected"
              /\ \A i \in DOMAIN topics[t].log : topics[t].log[i].request # r
              /\ Question(r) \in Said /\ topics' = Say(topics, t, Question(r))
              /\ inbound' = inbound
<1>1. Asked[r] \in Requester /\ r \in Message
    BY RelayAssumption DEF Request, Asked
<1>2. call[r] = "sending" /\ connection[Asked[r]].phase = "connected"
    BY DEF Sent, RelayTyped, RequestersTyped
<1>3. PICK t : t = connection[Asked[r]].at
    OBVIOUS
<1>4. t \in DOMAIN topics
    BY <1>1, <1>2, <1>3 DEF RelayTyped, RequestersTyped
<1>5. \A i \in DOMAIN topics[t].log : topics[t].log[i].request # r
    BY <1>3 DEF Sent, Range
<1>6. topics' = Say(topics, t, Question(r)) /\ Question(r) \in Said
    BY <1>3 DEF Sent, Say, Question, Said
<1>7. inbound' = inbound
    BY DEF Sent, inboundVars
<1> QED BY <1>2, <1>3, <1>4, <1>5, <1>6, <1>7

\* The message a call of the agent works on.
LEMMA WorkIs ==
    ASSUME RelayTyped, NEW w \in working
    PROVE  \E r \in Request :
              /\ w.topic \in DOMAIN topics /\ w.at \in DOMAIN topics[w.topic].log
              /\ r = topics[w.topic].log[w.at].request /\ topics[w.topic].log[w.at].by = "requester"
<1>1. w.topic \in DOMAIN topics /\ w.at \in DOMAIN topics[w.topic].log
    BY DEF RelayTyped, ServerTyped
<1>2. topics[w.topic] \in Topic
    BY <1>1 DEF RelayTyped, TopicsTyped
<1>3. topics[w.topic].log \in Seq(Said)
    BY <1>2 DEF Topic
<1>4. topics[w.topic].log[w.at] \in Said
    BY <1>1, <1>3
<1> QED BY <1>1, <1>4 DEF Said, RelayTyped, ServerTyped

\* The answer to it goes to the topic it came over.
LEMMA ReplySays ==
    ASSUME RelayTyped, NEW w \in working, Reply(w)
    PROVE  \E t \in DOMAIN topics, r \in Request :
              /\ t = w.topic /\ w.at \in DOMAIN topics[t].log
              /\ r = topics[t].log[w.at].request /\ topics[t].log[w.at].by = "requester"
              /\ FinishJob(r)
              /\ Response(r) \in Said /\ topics' = Say(topics, t, Response(r))
              /\ inbound' = inbound
<1>1. PICK r \in Request :
          /\ w.topic \in DOMAIN topics /\ w.at \in DOMAIN topics[w.topic].log
          /\ r = topics[w.topic].log[w.at].request /\ topics[w.topic].log[w.at].by = "requester"
    BY WorkIs
<1>2. PICK t : t = w.topic
    OBVIOUS
<1>3. topics' = Say(topics, t, Response(r)) /\ Response(r) \in Said
    BY <1>1, <1>2 DEF Reply, Say, Response, Said
<1>4. inbound' = inbound /\ FinishJob(r)
    BY <1>1 DEF Reply, inboundVars
<1> QED BY <1>1, <1>2, <1>3, <1>4

\* A confirmation of the request at i: a topic, and a message that names it.
ConfirmIs(i) ==
    /\ topics' = Append(topics, Created(i))
    /\ inbound' = Append(inbound, [op |-> "created", from |-> inbound[i].from,
                                   request |-> i, topic |-> Len(topics) + 1])
    /\ accepting' = accepting \ {i}

\* Everything a step may do to the topics.
LEMMA TopicsCases ==
    ASSUME RelayTyped, [Next]_vars
    PROVE  \/ UNCHANGED <<inbound, topics>>
           \/ \E c \in Requester : Connect(c) /\ topics' = topics
           \/ \E i \in accepting : ConfirmIs(i) /\ (Accept(i) \/ AcceptFails(i))
           \/ \E r \in Request : Sent(r)
           \/ \E w \in working : Reply(w)
<1> DEFINE Goal == \/ UNCHANGED <<inbound, topics>>
                   \/ \E c \in Requester : Connect(c) /\ topics' = topics
                   \/ \E i \in accepting : ConfirmIs(i) /\ (Accept(i) \/ AcceptFails(i))
                   \/ \E r \in Request : Sent(r)
                   \/ \E w \in working : Reply(w)
<1>1. ASSUME NEW n \in 0 .. Len(inbound), FirstPoll(n) \/ PollInbound(n) PROVE Goal
    BY <1>1 DEF FirstPoll, PollInbound
<1>2. ASSUME NEW i \in accepting, Accept(i) \/ AcceptFails(i) PROVE Goal
    BY <1>2 DEF Accept, AcceptFails, Confirm, ConfirmIs, Created
<1>3. ASSUME NEW t \in DOMAIN monitored, TakeMessage(t) PROVE Goal
    BY <1>3 DEF TakeMessage, inboundVars
<1>4. ASSUME NEW w \in working, Reply(w) \/ ReplyFails(w) PROVE Goal
    BY <1>4 DEF ReplyFails, inboundVars
<1>5. ASSUME NEW c \in Requester, Connect(c) \/ Connected(c) \/ RequesterRestart(c)
                                             \/ PollForResponses(c)
      PROVE  Goal
    BY <1>5 DEF Connect, Connected, RequesterRestart, PollForResponses, inboundVars
<1>6. ASSUME NEW r \in Request, \/ Refuse(r) \/ SendAndWait(r) \/ Sent(r) \/ Await(r)
                                \/ SendFails(r) \/ TimedOut(r)
      PROVE  Goal
    BY <1>6 DEF Refuse, SendAndWait, Await, SendFails, TimedOut, inboundVars
<1>7. CASE ServersNext /\ UNCHANGED relayVars
    BY <1>7 DEF relayVars, inboundVars
<1>8. CASE Restart
    BY <1>8 DEF Restart, ServerRestart
<1>9. CASE UNCHANGED vars
    BY <1>9 DEF vars, relayVars, inboundVars
<1> QED BY <1>1, <1>2, <1>3, <1>4, <1>5, <1>6, <1>7, <1>8, <1>9 DEF Next, RelayNext

\* What is on a topic stays where it is.
Grown(ts, us) ==
    /\ us \in Seq(Topic) /\ DOMAIN ts \subseteq DOMAIN us
    /\ \A t \in DOMAIN ts :
          /\ us[t].request = ts[t].request
          /\ \A i \in DOMAIN ts[t].log : i \in DOMAIN us[t].log /\ us[t].log[i] = ts[t].log[i]

\* Messages only grow the log they are added to, and new topics no log.
LEMMA SayGrows ==
    ASSUME NEW ts \in Seq(Topic), NEW t \in DOMAIN ts, NEW m \in Said
    PROVE  Grown(ts, Say(ts, t, m))
<1>1. PICK us : us = Say(ts, t, m)
    OBVIOUS
<1>2. /\ us \in Seq(Topic) /\ DOMAIN us = DOMAIN ts
      /\ \A s \in DOMAIN ts : us[s].request = ts[s].request
      /\ \A s \in DOMAIN ts : s # t => us[s] = ts[s]
      /\ us[t].log = Append(ts[t].log, m)
    BY <1>1, SayIs
<1>3. ts[t].log \in Seq(Said)
    <2>1. ts[t] \in Topic
        OBVIOUS
    <2> QED BY <2>1 DEF Topic
<1>4. \A i \in DOMAIN ts[t].log : i \in DOMAIN us[t].log /\ us[t].log[i] = ts[t].log[i]
    <2>1. PICK log \in Seq(Said) : log = ts[t].log
        BY <1>3
    <2>2. \A i \in DOMAIN log : i \in DOMAIN Append(log, m) /\ Append(log, m)[i] = log[i]
        BY <2>1
    <2> QED BY <1>2, <2>1, <2>2
<1>5. \A s \in DOMAIN ts : \A i \in DOMAIN ts[s].log :
          i \in DOMAIN us[s].log /\ us[s].log[i] = ts[s].log[i]
    BY <1>2, <1>4
<1> QED BY <1>1, <1>2, <1>5 DEF Grown

\* Inbound messages stay, too.
LEMMA TopicsGrow ==
    ASSUME RelayTyped, [Next]_vars
    PROVE  /\ Grown(topics, topics')
           /\ inbound' \in Seq(Inbound) /\ DOMAIN inbound \subseteq DOMAIN inbound'
           /\ \A i \in DOMAIN inbound : inbound'[i] = inbound[i]
<1>1. topics \in Seq(Topic) /\ inbound \in Seq(Inbound)
    BY DEF RelayTyped, TopicsTyped
<1> DEFINE Goal == /\ Grown(topics, topics')
                   /\ inbound' \in Seq(Inbound) /\ DOMAIN inbound \subseteq DOMAIN inbound'
                   /\ \A i \in DOMAIN inbound : inbound'[i] = inbound[i]
<1>2. Grown(topics, topics)
    BY <1>1 DEF Grown
<1>3. ASSUME NEW m \in Inbound
      PROVE  /\ Append(inbound, m) \in Seq(Inbound)
             /\ DOMAIN inbound \subseteq DOMAIN Append(inbound, m)
             /\ \A i \in DOMAIN inbound : Append(inbound, m)[i] = inbound[i]
    BY <1>1
<1>4. ASSUME UNCHANGED <<inbound, topics>> PROVE Goal
    BY <1>1, <1>2, <1>4
<1>5. ASSUME NEW c \in Requester, Connect(c), topics' = topics PROVE Goal
    <2>1. PICK m : m = [op |-> "request", from |-> c]
        OBVIOUS
    <2>2. m \in Inbound /\ inbound' = Append(inbound, m)
        BY <1>5, <2>1 DEF Connect, Inbound
    <2> QED BY <1>2, <1>3, <1>5, <2>2
<1>6. ASSUME NEW i \in accepting, ConfirmIs(i) PROVE Goal
    <2>1. i \in DOMAIN inbound /\ i \in Nat
        BY <1>1 DEF RelayTyped, TopicsTyped
    <2>2. inbound[i] \in Inbound
        BY <1>1, <2>1
    <2>3. inbound[i].from \in Requester
        BY <2>2 DEF Inbound
    <2>4. Len(topics) + 1 \in Nat
        BY <1>1
    <2>5. PICK m : m = [op |-> "created", from |-> inbound[i].from, request |-> i,
                        topic |-> Len(topics) + 1]
        OBVIOUS
    <2>6. m \in Inbound
        BY <2>1, <2>3, <2>4, <2>5 DEF Inbound
    <2>7. inbound' = Append(inbound, m) /\ topics' = Append(topics, Created(i))
        BY <1>6, <2>5 DEF ConfirmIs
    <2>8. Grown(topics, topics')
        BY <1>1, <2>1, <2>7, CreatedIs DEF Grown
    <2> QED BY <1>3, <2>6, <2>7, <2>8
<1>7. ASSUME NEW r \in Request, Sent(r) PROVE Goal
    <2>1. PICK t \in DOMAIN topics : /\ Question(r) \in Said /\ inbound' = inbound
                                     /\ topics' = Say(topics, t, Question(r))
        BY <1>7, SentSays
    <2> QED BY <1>1, <2>1, SayGrows
<1>8. ASSUME NEW w \in working, Reply(w) PROVE Goal
    <2>1. PICK t \in DOMAIN topics, r \in Request :
              /\ Response(r) \in Said /\ inbound' = inbound
              /\ topics' = Say(topics, t, Response(r))
        BY <1>8, ReplySays
    <2> QED BY <1>1, <2>1, SayGrows
<1> QED BY <1>4, <1>5, <1>6, <1>7, <1>8, TopicsCases

\* Everything a step may do to the polling of the inbound topic.
LEMMA InboundCases ==
    ASSUME [Next]_vars
    PROVE  \/ UNCHANGED <<accepting, lastSeen, firstPoll>>
           \/ \E n \in 0 .. Len(inbound) :
                 \/ FirstPoll(n) /\ UNCHANGED <<inbound, topics, accepting>>
                 \/ PollInbound(n) /\ UNCHANGED <<inbound, topics, firstPoll>>
           \/ \E i \in accepting : /\ accepting' = accepting \ {i}
                                   /\ ConfirmIs(i) \/ UNCHANGED <<inbound, topics>>
                                   /\ UNCHANGED <<lastSeen, firstPoll>>
           \/ /\ accepting' = {} /\ lastSeen' = 0 /\ firstPoll' = TRUE
              /\ UNCHANGED <<inbound, topics>>
<1> DEFINE Goal ==
           \/ UNCHANGED <<accepting, lastSeen, firstPoll>>
           \/ \E n \in 0 .. Len(inbound) :
                 \/ FirstPoll(n) /\ UNCHANGED <<inbound, topics, accepting>>
                 \/ PollInbound(n) /\ UNCHANGED <<inbound, topics, firstPoll>>
           \/ \E i \in accepting : /\ accepting' = accepting \ {i}
                                   /\ ConfirmIs(i) \/ UNCHANGED <<inbound, topics>>
                                   /\ UNCHANGED <<lastSeen, firstPoll>>
           \/ /\ accepting' = {} /\ lastSeen' = 0 /\ firstPoll' = TRUE
              /\ UNCHANGED <<inbound, topics>>
<1>1. ASSUME NEW n \in 0 .. Len(inbound), FirstPoll(n) \/ PollInbound(n) PROVE Goal
    BY <1>1 DEF FirstPoll, PollInbound
<1>2. ASSUME NEW i \in accepting, Accept(i) \/ AcceptFails(i) PROVE Goal
    <2>1. /\ accepting' = accepting \ {i} /\ UNCHANGED <<lastSeen, firstPoll>>
          /\ ConfirmIs(i) \/ UNCHANGED <<inbound, topics>>
        BY <1>2 DEF Accept, AcceptFails, Confirm, ConfirmIs, Created
    <2> QED BY <2>1
<1>3. ASSUME NEW t \in DOMAIN monitored, TakeMessage(t) PROVE Goal
    BY <1>3 DEF TakeMessage, inboundVars
<1>4. ASSUME NEW w \in working, Reply(w) \/ ReplyFails(w) PROVE Goal
    BY <1>4 DEF Reply, ReplyFails, inboundVars
<1>5. ASSUME NEW c \in Requester, Connect(c) \/ Connected(c) \/ RequesterRestart(c)
                                             \/ PollForResponses(c)
      PROVE  Goal
    BY <1>5 DEF Connect, Connected, RequesterRestart, PollForResponses, inboundVars
<1>6. ASSUME NEW r \in Request, \/ Refuse(r) \/ SendAndWait(r) \/ Sent(r) \/ Await(r)
                                \/ SendFails(r) \/ TimedOut(r)
      PROVE  Goal
    BY <1>6 DEF Refuse, SendAndWait, Sent, Await, SendFails, TimedOut, inboundVars
<1>7. CASE ServersNext /\ UNCHANGED relayVars
    BY <1>7 DEF relayVars, inboundVars
<1>8. CASE Restart
    BY <1>8 DEF Restart, ServerRestart
<1>9. CASE UNCHANGED vars
    BY <1>9 DEF vars, relayVars, inboundVars
<1> QED BY <1>1, <1>2, <1>3, <1>4, <1>5, <1>6, <1>7, <1>8, <1>9 DEF Next, RelayNext

\* The messages a poll takes: one that was not seen before.
LEMMA PollTakes ==
    ASSUME inbound \in Seq(Inbound), lastSeen \in Nat, NEW n \in 0 .. Len(inbound), PollInbound(n)
    PROVE  /\ ~firstPoll
           /\ \/ n > lastSeen /\ lastSeen' = n /\ accepting' \subseteq accepting \cup {n}
              \/ lastSeen' = lastSeen /\ accepting' = accepting
           /\ \A i \in accepting' \ accepting : i \in DOMAIN inbound /\ inbound[i].op = "request"
<1>1. n \in Nat /\ DOMAIN inbound = 1 .. Len(inbound)
    OBVIOUS
<1>2. CASE n > lastSeen
    <2>1. Taken(n) = {n} /\ n \in DOMAIN inbound
        BY <1>1, <1>2 DEF Taken
    <2>2. Max({n, lastSeen}) = n
        BY <1>1, <1>2 DEF Max
    <2> QED BY <1>1, <1>2, <2>1, <2>2 DEF PollInbound
<1>3. CASE ~(n > lastSeen)
    <2>1. Taken(n) = {}
        BY <1>1, <1>3 DEF Taken
    <2>2. Max({n, lastSeen}) = lastSeen
        BY <1>1, <1>3 DEF Max
    <2> QED BY <1>1, <1>3, <2>1, <2>2 DEF PollInbound
<1> QED BY <1>2, <1>3

\* The types of the topics are kept.
LEMMA TopicsStep == RelayTyped /\ lastSeen \in Nat /\ [Next]_vars => TopicsTyped'
<1> SUFFICES ASSUME RelayTyped, lastSeen \in Nat, [Next]_vars PROVE TopicsTyped'
    OBVIOUS
<1>1. /\ inbound \in Seq(Inbound) /\ topics \in Seq(Topic)
      /\ accepting \subseteq {i \in DOMAIN inbound : inbound[i].op = "request"}
    BY DEF RelayTyped, TopicsTyped
<1>2. /\ inbound' \in Seq(Inbound) /\ DOMAIN inbound \subseteq DOMAIN inbound'
      /\ \A i \in DOMAIN inbound : inbound'[i] = inbound[i]
      /\ topics' \in Seq(Topic) /\ DOMAIN topics \subseteq DOMAIN topics'
      /\ \A t \in DOMAIN topics : topics'[t].request = topics[t].request
    BY TopicsGrow DEF Grown
<1>3. accepting' \subseteq {i \in DOMAIN inbound' : inbound'[i].op = "request"}
    <2>1. ASSUME NEW i \in accepting' \ accepting
          PROVE  i \in DOMAIN inbound /\ inbound[i].op = "request"
        BY <1>1, <2>1, InboundCases, PollTakes
    <2> QED BY <1>1, <1>2, <2>1
<1>4. /\ \A i \in DOMAIN inbound : inbound[i].op = "created" =>
            /\ inbound[i].topic \in DOMAIN topics'
            /\ topics'[inbound[i].topic].request = inbound[i].request
      /\ \A t \in DOMAIN topics : /\ topics'[t].request \in DOMAIN inbound'
                                  /\ inbound'[topics'[t].request].op = "request"
    <2>1. ASSUME NEW i \in DOMAIN inbound, inbound[i].op = "created"
          PROVE  /\ inbound[i].topic \in DOMAIN topics'
                 /\ topics'[inbound[i].topic].request = inbound[i].request
        <3>1. PICK t : t = inbound[i].topic
            OBVIOUS
        <3>2. t \in DOMAIN topics /\ topics[t].request = inbound[i].request
            BY <2>1, <3>1 DEF RelayTyped, TopicsTyped
        <3> QED BY <1>2, <3>1, <3>2
    <2>2. ASSUME NEW t \in DOMAIN topics
          PROVE  /\ topics'[t].request \in DOMAIN inbound'
                 /\ inbound'[topics'[t].request].op = "request"
        <3>1. PICK i : i = topics[t].request
            OBVIOUS
        <3>2. i \in DOMAIN inbound /\ inbound[i].op = "request"
            BY <3>1 DEF RelayTyped, TopicsTyped
        <3> QED BY <1>2, <3>1, <3>2
    <2> QED BY <2>1, <2>2
<1> DEFINE News ==
        /\ \A i \in DOMAIN inbound' \ DOMAIN inbound : inbound'[i].op = "created" =>
              /\ inbound'[i].topic \in DOMAIN topics'
              /\ topics'[inbound'[i].topic].request = inbound'[i].request
        /\ \A t \in DOMAIN topics' \ DOMAIN topics : /\ topics'[t].request \in DOMAIN inbound'
                                                     /\ inbound'[topics'[t].request].op = "request"
<1>5. SUFFICES News
    BY <1>2, <1>3, <1>4 DEF TopicsTyped
<1>6. ASSUME UNCHANGED <<inbound, topics>> PROVE News
    BY <1>6
<1>7. ASSUME NEW c \in Requester, Connect(c), topics' = topics PROVE News
    <2>1. PICK m : m = [op |-> "request", from |-> c]
        OBVIOUS
    <2>2. m \in Inbound /\ m.op = "request" /\ inbound' = Append(inbound, m)
        BY <1>7, <2>1 DEF Connect, Inbound
    <2>3. \A i \in DOMAIN inbound' \ DOMAIN inbound : inbound'[i] = m
        BY <1>1, <2>2
    <2> QED BY <1>7, <2>2, <2>3
<1>8. ASSUME NEW i \in accepting, ConfirmIs(i) PROVE News
    <2>1. PICK n : n = Len(topics) + 1
        OBVIOUS
    <2>2. PICK m : m = [op |-> "created", from |-> inbound[i].from, request |-> i, topic |-> n]
        OBVIOUS
    <2>3. inbound' = Append(inbound, m) /\ topics' = Append(topics, Created(i))
        BY <1>8, <2>1, <2>2 DEF ConfirmIs
    <2>4. \A k \in DOMAIN inbound' \ DOMAIN inbound : inbound'[k] = m
        <3>1. Len(inbound) \in Nat /\ DOMAIN inbound = 1 .. Len(inbound)
            BY <1>1
        <3>2. Len(inbound') = Len(inbound) + 1 /\ DOMAIN inbound' = 1 .. Len(inbound')
            BY <1>1, <1>2, <2>3
        <3>3. inbound'[Len(inbound) + 1] = m
            BY <1>1, <2>3
        <3> QED BY <3>1, <3>2, <3>3
    <2>5. i \in Nat /\ i \in DOMAIN inbound /\ inbound[i].op = "request"
        BY <1>1
    <2>6. /\ DOMAIN topics' \ DOMAIN topics = {n} /\ topics'[n].request = i
          /\ n \in DOMAIN topics'
        BY <1>1, <2>1, <2>3, <2>5, CreatedIs
    <2>7. m.topic = n /\ m.request = i
        BY <2>2
    <2> QED BY <1>2, <2>4, <2>5, <2>6, <2>7
<1>9. ASSUME NEW r \in Request, Sent(r) PROVE News
    <2>1. inbound' = inbound /\ DOMAIN topics' = DOMAIN topics
        BY <1>1, <1>9, SentSays, SayIs
    <2> QED BY <2>1
<1>10. ASSUME NEW w \in working, Reply(w) PROVE News
    <2>1. inbound' = inbound /\ DOMAIN topics' = DOMAIN topics
        BY <1>1, <1>10, ReplySays, SayIs
    <2> QED BY <2>1
<1> QED BY <1>6, <1>7, <1>8, <1>9, <1>10, TopicsCases

\* Everything a step may do to the reading of the connection topics.
LEMMA ServerCases ==
    ASSUME [Next]_vars
    PROVE  \/ UNCHANGED <<monitored, working>>
           \/ \E i \in accepting : Accept(i) /\ ConfirmIs(i)
           \/ \E t \in DOMAIN monitored : TakeMessage(t) /\ topics' = topics
           \/ \E w \in working : /\ Reply(w) \/ ReplyFails(w)
                                 /\ working' = working \ {w} /\ monitored' = monitored
           \/ monitored' = <<>> /\ working' = {}
<1> DEFINE Goal ==
           \/ UNCHANGED <<monitored, working>>
           \/ \E i \in accepting : Accept(i) /\ ConfirmIs(i)
           \/ \E t \in DOMAIN monitored : TakeMessage(t) /\ topics' = topics
           \/ \E w \in working : /\ Reply(w) \/ ReplyFails(w)
                                 /\ working' = working \ {w} /\ monitored' = monitored
           \/ monitored' = <<>> /\ working' = {}
<1>1. ASSUME NEW n \in 0 .. Len(inbound), FirstPoll(n) \/ PollInbound(n) PROVE Goal
    BY <1>1 DEF FirstPoll, PollInbound, serverVars
<1>2. ASSUME NEW i \in accepting, Accept(i) \/ AcceptFails(i) PROVE Goal
    <2>1. CASE Accept(i)
        <3>1. ConfirmIs(i)
            BY <2>1 DEF Accept, Confirm, ConfirmIs, Created
        <3> QED BY <2>1, <3>1
    <2>2. CASE AcceptFails(i)
        BY <2>2 DEF AcceptFails, serverVars
    <2> QED BY <1>2, <2>1, <2>2
<1>3. ASSUME NEW t \in DOMAIN monitored, TakeMessage(t) PROVE Goal
    BY <1>3 DEF TakeMessage
<1>4. ASSUME NEW w \in working, Reply(w) \/ ReplyFails(w) PROVE Goal
    BY <1>4 DEF Reply, ReplyFails
<1>5. ASSUME NEW c \in Requester, Connect(c) \/ Connected(c) \/ RequesterRestart(c)
                                             \/ PollForResponses(c)
      PROVE  Goal
    BY <1>5 DEF Connect, Connected, RequesterRestart, PollForResponses, serverVars
<1>6. ASSUME NEW r \in Request, \/ Refuse(r) \/ SendAndWait(r) \/ Sent(r) \/ Await(r)
                                \/ SendFails(r) \/ TimedOut(r)
      PROVE  Goal
    BY <1>6 DEF Refuse, SendAndWait, Sent, Await, SendFails, TimedOut, serverVars
<1>7. CASE ServersNext /\ UNCHANGED relayVars
    BY <1>7 DEF relayVars, serverVars
<1>8. CASE Restart
    BY <1>8 DEF Restart, ServerRestart
<1>9. CASE UNCHANGED vars
    BY <1>9 DEF vars, relayVars, serverVars
<1> QED BY <1>1, <1>2, <1>3, <1>4, <1>5, <1>6, <1>7, <1>8, <1>9 DEF Next, RelayNext

\* What TakeMessage takes: the next message of the requester's, with all before it read.
LEMMA TakeIs ==
    ASSUME RelayTyped, NEW t \in DOMAIN monitored, TakeMessage(t)
    PROVE  \E i \in DOMAIN topics[t].log, r \in Request :
              /\ t \in DOMAIN topics /\ i \in Nat /\ i > monitored[t]
              /\ topics[t].log[i].by = "requester" /\ topics[t].log[i].request = r
              /\ \A j \in monitored[t] + 1 .. i - 1 : topics[t].log[j].by # "requester"
              /\ monitored' = [monitored EXCEPT ![t] = i]
              /\ working' = working \cup {[topic |-> t, at |-> i]}
              /\ StartJob(r)
<1>1. t \in DOMAIN topics /\ monitored[t] \in Nat /\ topics \in Seq(Topic)
    BY DEF RelayTyped, ServerTyped, TopicsTyped
<1>2. PICK i : i = NextFrom("requester", t, monitored[t])
    OBVIOUS
<1>3. /\ i # 0 /\ StartJob(topics[t].log[i].request)
      /\ monitored' = [monitored EXCEPT ![t] = i]
      /\ working' = working \cup {[topic |-> t, at |-> i]}
    BY <1>2 DEF TakeMessage
<1>4. /\ i \in DOMAIN topics[t].log /\ i \in Nat /\ i > monitored[t]
      /\ topics[t].log[i].by = "requester" /\ topics[t].log[i].request \in Request
      /\ \A j \in monitored[t] + 1 .. i - 1 : topics[t].log[j].by # "requester"
    BY <1>1, <1>2, <1>3, NextFromIs
<1> QED BY <1>1, <1>3, <1>4

\* The types of what is read are kept.
LEMMA ServerStep == RelayTyped /\ [Next]_vars => ServerTyped'
<1> SUFFICES ASSUME RelayTyped, [Next]_vars PROVE ServerTyped'
    OBVIOUS
<1>1. /\ topics \in Seq(Topic) /\ DOMAIN topics \subseteq DOMAIN topics'
      /\ \A t \in DOMAIN topics : \A i \in DOMAIN topics[t].log :
            i \in DOMAIN topics'[t].log /\ topics'[t].log[i] = topics[t].log[i]
    BY TopicsGrow DEF Grown, RelayTyped, TopicsTyped
<1> DEFINE Placed(w) == /\ w.topic \in DOMAIN topics' /\ w.at \in DOMAIN topics'[w.topic].log
                        /\ topics'[w.topic].log[w.at].by = "requester"
           Read == /\ DOMAIN monitored' \subseteq DOMAIN topics'
                   /\ \A t \in DOMAIN monitored' : monitored'[t] \in Nat
<1>2. \A w \in working : Placed(w)
    BY <1>1 DEF RelayTyped, ServerTyped
<1>3. DOMAIN monitored \subseteq DOMAIN topics' /\ \A t \in DOMAIN monitored : monitored[t] \in Nat
    BY <1>1 DEF RelayTyped, ServerTyped
<1>4. SUFFICES (\A w \in working' : Placed(w)) /\ Read
    BY DEF ServerTyped
<1>5. CASE UNCHANGED <<monitored, working>>
    BY <1>2, <1>3, <1>5
<1>6. ASSUME NEW i \in accepting, Accept(i), ConfirmIs(i)
      PROVE  (\A w \in working' : Placed(w)) /\ Read
    <2>1. PICK n : n = Len(topics) + 1
        OBVIOUS
    <2>2. topics' = Append(topics, Created(i)) /\ n \in DOMAIN topics'
        <3>1. i \in Nat
            BY DEF RelayTyped, TopicsTyped
        <3> QED BY <1>1, <1>6, <2>1, <3>1, CreatedIs DEF ConfirmIs
    <2>3. working' = working /\ monitored' = Put(monitored, n, 0)
        BY <1>6, <2>1 DEF Accept
    <2> QED BY <1>2, <1>3, <2>2, <2>3 DEF Put
<1>7. ASSUME NEW t \in DOMAIN monitored, TakeMessage(t), topics' = topics
      PROVE  (\A w \in working' : Placed(w)) /\ Read
    <2>1. PICK i \in DOMAIN topics[t].log : 
              /\ t \in DOMAIN topics /\ i \in Nat /\ topics[t].log[i].by = "requester"
              /\ monitored' = [monitored EXCEPT ![t] = i]
              /\ working' = working \cup {[topic |-> t, at |-> i]}
        BY <1>7, TakeIs
    <2>2. PICK w : w = [topic |-> t, at |-> i]
        OBVIOUS
    <2>3. Placed(w)
        BY <1>7, <2>1, <2>2
    <2>4. \A v \in working' : Placed(v)
        BY <1>2, <2>1, <2>2, <2>3
    <2>5. Read
        BY <1>3, <2>1
    <2> QED BY <2>4, <2>5
<1>8. CASE \E w \in working : working' = working \ {w} /\ monitored' = monitored
    BY <1>2, <1>3, <1>8
<1>9. CASE monitored' = <<>> /\ working' = {}
    BY <1>9
<1> QED BY <1>5, <1>6, <1>7, <1>8, <1>9, ServerCases

-----------------------------------------------------------------------------
(* The Map of pending requests *)

\* No key twice.
Distinct(s) == \A i, j \in DOMAIN s : key[s[i]] = key[s[j]] => i = j

\* What set does to the Map: r is in it, in the place of who had its key.
LEMMA RegisteredIs ==
    ASSUME NEW X, NEW r \in X, NEW c, pending[c] \in Seq(X)
    PROVE  /\ Registered(c, r) \in Seq(X)
           /\ Range(Registered(c, r)) \subseteq Range(pending[c]) \cup {r}
           /\ r \in Range(Registered(c, r))
           /\ \A q \in Range(pending[c]) \ Range(Registered(c, r)) : key[q] = key[r]
           /\ Distinct(pending[c]) => Distinct(Registered(c, r))
<1>1. PICK s \in Seq(X) : s = pending[c]
    OBVIOUS
<1>2. PICK same : same = Under(c, r)
    OBVIOUS
<1>3. same = {i \in DOMAIN s : key[s[i]] = key[r]}
    BY <1>1, <1>2 DEF Under
<1>4. Len(s) \in Nat /\ DOMAIN s = 1 .. Len(s) /\ \A i \in DOMAIN s : s[i] \in X
    BY <1>1
<1>5. CASE same = {}
    <2>1. PICK u : u = Append(s, r)
        OBVIOUS
    <2>2. Registered(c, r) = u
        BY <1>1, <1>2, <1>5, <2>1 DEF Registered
    <2>3. /\ u \in Seq(X) /\ DOMAIN u = 1 .. Len(s) + 1 /\ u[Len(s) + 1] = r
          /\ \A i \in DOMAIN s : u[i] = s[i]
        BY <1>4, <2>1
    <2>4. Range(u) = Range(s) \cup {r}
        BY <1>4, <2>3 DEF Range
    <2>5. Distinct(s) => Distinct(u)
        BY <1>3, <1>4, <1>5, <2>3 DEF Distinct
    <2> QED BY <1>1, <2>2, <2>3, <2>4, <2>5
<1>6. CASE same # {}
    <2>1. PICK u : u = [i \in DOMAIN s |-> IF i \in same THEN r ELSE s[i]]
        OBVIOUS
    <2>2. Registered(c, r) = u
        BY <1>1, <1>2, <1>6, <2>1 DEF Registered
    <2>3. /\ DOMAIN u = DOMAIN s /\ \A i \in same : u[i] = r
          /\ \A i \in DOMAIN s \ same : u[i] = s[i]
        BY <1>3, <2>1
    <2>4. u \in Seq(X)
        <3>1. u \in [1 .. Len(s) -> X]
            BY <1>4, <2>1
        <3> QED BY <1>4, <3>1
    <2>5. r \in Range(u)
        BY <1>3, <1>6, <2>3 DEF Range
    <2>6. Range(u) \subseteq Range(s) \cup {r}
        BY <2>3 DEF Range
    <2>7. ASSUME NEW q \in Range(s) \ Range(u) PROVE key[q] = key[r]
        <3>1. PICK i \in DOMAIN s : q = s[i]
            BY DEF Range
        <3>2. i \in same
            BY <2>3, <3>1 DEF Range
        <3> QED BY <1>3, <3>1, <3>2
    <2>8. \A i \in DOMAIN s : key[u[i]] = key[s[i]]
        BY <1>3, <2>3
    <2>9. Distinct(s) => Distinct(u)
        BY <2>3, <2>8 DEF Distinct
    <2> QED BY <1>1, <2>2, <2>4, <2>5, <2>6, <2>7, <2>9
<1> QED BY <1>5, <1>6

\* What delete does: who has the key of r is gone, the others are there.
LEMMA DeletedIs ==
    ASSUME NEW X, NEW r, NEW c, pending[c] \in Seq(X)
    PROVE  /\ Deleted(c, r) \in Seq(X)
           /\ Range(Deleted(c, r)) \subseteq Range(pending[c])
           /\ \A q \in Range(pending[c]) \ Range(Deleted(c, r)) : key[q] = key[r]
           /\ Distinct(pending[c]) => /\ Distinct(Deleted(c, r))
                                      /\ \A q \in Range(Deleted(c, r)) : key[q] # key[r]
<1>1. PICK s \in Seq(X) : s = pending[c]
    OBVIOUS
<1>2. PICK same : same = Under(c, r)
    OBVIOUS
<1>3. same = {i \in DOMAIN s : key[s[i]] = key[r]}
    BY <1>1, <1>2 DEF Under
<1>4. CASE same = {}
    <2>1. Deleted(c, r) = s
        BY <1>1, <1>2, <1>4 DEF Deleted
    <2>2. \A q \in Range(s) : key[q] # key[r]
        BY <1>3, <1>4 DEF Range
    <2> QED BY <1>1, <2>1, <2>2
<1>5. CASE same # {}
    <2>1. PICK k : k = CHOOSE i \in same : TRUE
        OBVIOUS
    <2>2. k \in DOMAIN s /\ key[s[k]] = key[r]
        BY <1>3, <1>5, <2>1
    <2>3. PICK u : u = RemoveAt(s, k)
        OBVIOUS
    <2>4. Deleted(c, r) = u
        BY <1>1, <1>2, <1>5, <2>1, <2>3 DEF Deleted
    <2>5. PICK n : n = Len(s)
        OBVIOUS
    <2>6. /\ u \in Seq(X) /\ n \in Nat /\ n - 1 \in Nat /\ DOMAIN s = 1 .. n /\ DOMAIN u = 1 .. n - 1
          /\ \A i \in 1 .. n - 1 : u[i] = IF i < k THEN s[i] ELSE s[i + 1]
        BY <2>2, <2>3, <2>5, RemoveAtIs
    <2>7. Range(u) \subseteq Range(s)
        <3>1. ASSUME NEW i \in 1 .. n - 1 PROVE \E j \in 1 .. n : u[i] = s[j]
            <4>1. i \in 1 .. n /\ i + 1 \in 1 .. n
                BY <2>6
            <4> QED BY <2>6, <4>1
        <3> QED BY <2>6, <3>1 DEF Range
    <2>8. ASSUME NEW q \in Range(s) \ Range(u) PROVE key[q] = key[r]
        <3>1. PICK i \in DOMAIN s : q = s[i]
            BY DEF Range
        <3>2. CASE i < k
            <4>1. i \in DOMAIN u /\ u[i] = s[i]
                BY <2>2, <2>6, <3>2
            <4> QED BY <3>1, <4>1 DEF Range
        <3>3. CASE i > k
            <4>1. i - 1 \in 1 .. n - 1 /\ ~(i - 1 < k) /\ (i - 1) + 1 = i
                BY <2>2, <2>6, <3>3
            <4>2. i - 1 \in DOMAIN u /\ u[i - 1] = s[i]
                BY <2>6, <4>1
            <4> QED BY <3>1, <4>2 DEF Range
        <3>4. CASE i = k
            BY <2>2, <3>1, <3>4
        <3> QED BY <2>2, <2>6, <3>2, <3>3, <3>4
    <2>9. ASSUME Distinct(s) PROVE Distinct(u) /\ \A q \in Range(u) : key[q] # key[r]
        <3>1. PICK at : at = [i \in 1 .. n - 1 |-> IF i < k THEN i ELSE i + 1]
            OBVIOUS
        <3>2. \A i \in 1 .. n - 1 : at[i] \in DOMAIN s /\ at[i] # k /\ u[i] = s[at[i]]
            BY <2>2, <2>6, <3>1
        <3>3. \A i, j \in 1 .. n - 1 : at[i] = at[j] => i = j
            BY <2>2, <2>6, <3>1
        <3>4. Distinct(u)
            BY <2>6, <2>9, <3>2, <3>3 DEF Distinct
        <3>5. ASSUME NEW i \in DOMAIN u PROVE key[u[i]] # key[r]
            <4>1. i \in 1 .. n - 1
                BY <2>6
            <4> QED BY <2>2, <2>9, <3>2, <4>1 DEF Distinct
        <3> QED BY <3>4, <3>5 DEF Range
    <2> QED BY <1>1, <2>4, <2>6, <2>7, <2>8, <2>9
<1> QED BY <1>4, <1>5

-----------------------------------------------------------------------------
(* The verification agents *)

\* Everything a step may do to the verification agents and their callers.
LEMMA RequesterCases ==
    ASSUME [Next]_vars
    PROVE  \/ UNCHANGED <<connection, lastSequence, callVars>>
           \/ \E c \in Requester : Connect(c) \/ Connected(c) \/ RequesterRestart(c)
                                              \/ PollForResponses(c)
           \/ \E r \in Request : \/ Refuse(r) \/ SendAndWait(r) \/ Await(r)
                                 \/ SendFails(r) \/ TimedOut(r)
<1> DEFINE Goal ==
           \/ UNCHANGED <<connection, lastSequence, callVars>>
           \/ \E c \in Requester : Connect(c) \/ Connected(c) \/ RequesterRestart(c)
                                              \/ PollForResponses(c)
           \/ \E r \in Request : \/ Refuse(r) \/ SendAndWait(r) \/ Await(r)
                                 \/ SendFails(r) \/ TimedOut(r)
<1>1. ASSUME NEW n \in 0 .. Len(inbound), FirstPoll(n) \/ PollInbound(n) PROVE Goal
    BY <1>1 DEF FirstPoll, PollInbound
<1>2. ASSUME NEW i \in accepting, Accept(i) \/ AcceptFails(i) PROVE Goal
    BY <1>2 DEF Accept, AcceptFails
<1>3. ASSUME NEW t \in DOMAIN monitored, TakeMessage(t) PROVE Goal
    BY <1>3 DEF TakeMessage
<1>4. ASSUME NEW w \in working, Reply(w) \/ ReplyFails(w) PROVE Goal
    BY <1>4 DEF Reply, ReplyFails
<1>5. ASSUME NEW r \in Request, Sent(r) PROVE Goal
    BY <1>5 DEF Sent
<1>6. CASE ServersNext /\ UNCHANGED relayVars
    BY <1>6 DEF relayVars
<1>7. CASE Restart
    BY <1>7 DEF Restart, ServerRestart
<1>8. CASE UNCHANGED vars
    BY <1>8 DEF vars, relayVars
<1> QED BY <1>1, <1>2, <1>3, <1>4, <1>5, <1>6, <1>7, <1>8 DEF Next, RelayNext

\* What a confirmation a requester waits for tells it.
LEMMA ConnectedIs ==
    ASSUME RelayTyped, NEW c \in Requester, Connected(c)
    PROVE  \E t \in DOMAIN topics :
              /\ t \in Nat /\ topics[t].request = connection[c].at
              /\ connection[c].phase = "requesting"
              /\ connection' = [connection EXCEPT ![c] = [phase |-> "connected", at |-> t]]
              /\ UNCHANGED <<inboundVars, topics, lastSequence, callVars>>
<1>1. PICK i \in DOMAIN inbound :
          /\ inbound[i].op = "created" /\ inbound[i].request = connection[c].at
          /\ connection' = [connection EXCEPT ![c] = [phase |-> "connected", at |-> inbound[i].topic]]
    BY DEF Connected, Range
<1>2. inbound[i].topic \in DOMAIN topics /\ topics[inbound[i].topic].request = inbound[i].request
    BY <1>1 DEF RelayTyped, TopicsTyped
<1>3. inbound[i].topic \in Nat
    BY <1>2 DEF RelayTyped, TopicsTyped
<1> QED BY <1>1, <1>2, <1>3 DEF Connected

\* What a verification agent does with the next answer.
LEMMA PollIs ==
    ASSUME RelayTyped, NEW c \in Requester, PollForResponses(c)
    PROVE  \E t \in DOMAIN topics : \E i \in DOMAIN topics[t].log, q \in Request :
              /\ connection[c].phase = "connected" /\ t = connection[c].at
              /\ i \in Nat /\ i > lastSequence[c]
              /\ topics[t].log[i].by = "agent" /\ q = topics[t].log[i].request
              /\ lastSequence' = [lastSequence EXCEPT ![c] = i]
              /\ \/ pending[c] = <<>> /\ UNCHANGED callVars
                 \/ /\ pending[c] # <<>>
                    /\ Settle(Head(pending[c]), Answer(q))
                    /\ pending' = [pending EXCEPT ![c] = Tail(@)]
                    /\ key' = key
              /\ UNCHANGED <<inboundVars, topics, connection>>
<1>1. PICK t : t = connection[c].at
    OBVIOUS
<1>2. connection[c].phase = "connected"
    BY DEF PollForResponses
<1>3. t \in DOMAIN topics /\ topics \in Seq(Topic) /\ lastSequence[c] \in Nat
    BY <1>1, <1>2 DEF RelayTyped, RequestersTyped, TopicsTyped
<1>4. PICK i : i = NextFrom("agent", t, lastSequence[c])
    OBVIOUS
<1>5. /\ i # 0
      /\ lastSequence' = [lastSequence EXCEPT ![c] = i]
      /\ IF pending[c] = <<>>
         THEN UNCHANGED callVars
         ELSE /\ Settle(Head(pending[c]), Answer(topics[t].log[i].request))
              /\ pending' = [pending EXCEPT ![c] = Tail(@)]
              /\ UNCHANGED key
      /\ UNCHANGED <<inboundVars, topics, connection>>
    BY <1>1, <1>4 DEF PollForResponses, Rest
<1>6. /\ i \in DOMAIN topics[t].log /\ i \in Nat /\ i > lastSequence[c]
      /\ topics[t].log[i].by = "agent" /\ topics[t].log[i].request \in Request
    BY <1>3, <1>4, <1>5, NextFromIs
<1> QED BY <1>1, <1>2, <1>3, <1>5, <1>6

\* Who is asked is a requester.
LEMMA AskedIs == \A r \in Request : Asked[r] \in Requester /\ r \in Message
BY RelayAssumption DEF Request, Asked

\* How a call may end.
LEMMA SettleTyped ==
    ASSUME call \in [Request -> {"new", "sending", "waiting", "settled"}],
           result \in [Request -> Outcome], NEW r \in Request, NEW how \in Outcome, Settle(r, how)
    PROVE  /\ call' \in [Request -> {"new", "sending", "waiting", "settled"}]
           /\ result' \in [Request -> Outcome]
           /\ \A q \in Request : call'[q] = IF q = r THEN "settled" ELSE call[q]
BY DEF Settle

\* The types of the verification agents are kept.
LEMMA RequestersStep == RelayTyped /\ [Next]_vars => RequestersTyped'
<1> SUFFICES ASSUME RelayTyped, [Next]_vars PROVE RequestersTyped'
    OBVIOUS
<1> DEFINE CallStates == {"new", "sending", "waiting", "settled"}
           Link == [phase : {"off", "requesting", "connected"}, at : Nat]
           Calls == /\ call' \in [Request -> CallStates] /\ result' \in [Request -> Outcome]
                    /\ pending' \in [Requester -> Seq(Request)]
           Links == /\ connection' \in [Requester -> Link] /\ lastSequence' \in [Requester -> Nat]
                    /\ \A c \in Requester : connection'[c].phase = "connected" =>
                                                connection'[c].at \in DOMAIN topics'
                    /\ \A r \in Request : call'[r] = "sending" =>
                                                connection'[Asked[r]].phase = "connected"
<1>1. /\ call \in [Request -> CallStates] /\ result \in [Request -> Outcome]
      /\ pending \in [Requester -> Seq(Request)]
      /\ connection \in [Requester -> Link] /\ lastSequence \in [Requester -> Nat]
      /\ \A r \in Request : call[r] = "sending" => connection[Asked[r]].phase = "connected"
    BY DEF RelayTyped, RequestersTyped
<1>2. \A c \in Requester : connection[c].phase = "connected" => connection[c].at \in DOMAIN topics'
    BY TopicsGrow DEF Grown, RelayTyped, RequestersTyped
<1>3. SUFFICES Calls /\ Links
    BY DEF RequestersTyped
<1>4. Error \in Outcome /\ \A r \in Request : Answer(r) \in Outcome
    BY DEF Outcome
<1>5. CASE UNCHANGED <<connection, lastSequence, callVars>>
    BY <1>1, <1>2, <1>5 DEF callVars
<1>6. ASSUME NEW c \in Requester, Connect(c) PROVE Calls /\ Links
    <2>1. PICK x : x = [phase |-> "requesting", at |-> Len(inbound) + 1]
        OBVIOUS
    <2>2. x \in Link /\ x.phase = "requesting"
        <3>1. Len(inbound) + 1 \in Nat
            BY DEF RelayTyped, TopicsTyped
        <3> QED BY <2>1, <3>1
    <2>3. /\ connection[c].phase = "off" /\ connection' = [connection EXCEPT ![c] = x]
          /\ UNCHANGED <<lastSequence, callVars>>
        BY <1>6, <2>1 DEF Connect
    <2> QED BY <1>1, <1>2, <2>2, <2>3 DEF callVars
<1>7. ASSUME NEW c \in Requester, Connected(c) PROVE Calls /\ Links
    <2>1. PICK t \in DOMAIN topics :
              /\ t \in Nat /\ connection[c].phase = "requesting"
              /\ connection' = [connection EXCEPT ![c] = [phase |-> "connected", at |-> t]]
              /\ UNCHANGED <<topics, lastSequence, callVars>>
        BY <1>7, ConnectedIs
    <2>2. PICK x : x = [phase |-> "connected", at |-> t]
        OBVIOUS
    <2>3. x \in Link /\ x.phase = "connected" /\ x.at = t
        BY <2>1, <2>2
    <2> QED BY <1>1, <1>2, <2>1, <2>2, <2>3 DEF callVars
<1>8. ASSUME NEW c \in Requester, RequesterRestart(c) PROVE Calls /\ Links
    <2>1. Off \in Link /\ Off.phase = "off"
        BY DEF Off
    <2>2. PICK lost : lost = {r \in CallsOf(c) : call[r] \in {"sending", "waiting"}}
        OBVIOUS
    <2>3. /\ connection' = [connection EXCEPT ![c] = Off]
          /\ lastSequence' = [lastSequence EXCEPT ![c] = 0]
          /\ pending' = [pending EXCEPT ![c] = <<>>]
          /\ call' = [r \in Request |-> IF r \in lost THEN "settled" ELSE call[r]]
          /\ result' = [r \in Request |-> IF r \in lost THEN Error ELSE result[r]]
        BY <1>8, <2>2 DEF RequesterRestart
    <2>4. Calls
        BY <1>1, <1>4, <2>3
    <2>5. \A r \in Request : Asked[r] = c /\ call[r] = "sending" => r \in lost
        BY <2>2 DEF CallsOf
    <2> QED BY <1>1, <1>2, <2>1, <2>3, <2>4, <2>5
<1>9. ASSUME NEW c \in Requester, PollForResponses(c) PROVE Calls /\ Links
    <2>1. PICK i \in Nat, q \in Request :
              /\ lastSequence' = [lastSequence EXCEPT ![c] = i]
              /\ \/ pending[c] = <<>> /\ UNCHANGED callVars
                 \/ /\ pending[c] # <<>>
                    /\ Settle(Head(pending[c]), Answer(q))
                    /\ pending' = [pending EXCEPT ![c] = Tail(@)]
              /\ connection' = connection
        BY <1>9, PollIs
    <2>2. CASE pending[c] = <<>> /\ UNCHANGED callVars
        BY <1>1, <1>2, <2>1, <2>2 DEF callVars
    <2>3. CASE /\ pending[c] # <<>>
               /\ Settle(Head(pending[c]), Answer(q))
               /\ pending' = [pending EXCEPT ![c] = Tail(@)]
        <3>1. Head(pending[c]) \in Request /\ Tail(pending[c]) \in Seq(Request)
            <4>1. pending[c] \in Seq(Request)
                BY <1>1
            <4> QED BY <2>3, <4>1, HeadTailProperties
        <3>2. /\ call' \in [Request -> CallStates] /\ result' \in [Request -> Outcome]
              /\ \A r \in Request : call'[r] = "sending" => call[r] = "sending"
            BY <1>1, <1>4, <2>3, <3>1, SettleTyped
        <3>3. pending' \in [Requester -> Seq(Request)]
            BY <1>1, <2>3, <3>1
        <3> QED BY <1>1, <1>2, <2>1, <3>2, <3>3
    <2> QED BY <2>1, <2>2, <2>3
<1>10. ASSUME NEW r \in Request, UNCHANGED <<connection, lastSequence, pending>>, Settle(r, Error)
       PROVE  Calls /\ Links
    <2>1. /\ call' \in [Request -> CallStates] /\ result' \in [Request -> Outcome]
          /\ \A q \in Request : call'[q] = "sending" => call[q] = "sending"
        BY <1>1, <1>4, <1>10, SettleTyped
    <2> QED BY <1>1, <1>2, <1>10, <2>1
<1>11. ASSUME NEW r \in Request, Refuse(r) \/ SendFails(r) PROVE Calls /\ Links
    BY <1>10, <1>11 DEF Refuse, SendFails
<1>12. ASSUME NEW r \in Request, SendAndWait(r) PROVE Calls /\ Links
    <2>1. /\ connection[Asked[r]].phase = "connected" /\ call' = [call EXCEPT ![r] = "sending"]
          /\ UNCHANGED <<connection, lastSequence, pending, result>>
        BY <1>12 DEF SendAndWait
    <2> QED BY <1>1, <1>2, <2>1
<1>13. ASSUME NEW r \in Request, Await(r) PROVE Calls /\ Links
    <2>1. PICK c \in Requester : c = Asked[r]
        BY AskedIs
    <2>2. /\ call' = [call EXCEPT ![r] = "waiting"]
          /\ pending' = [pending EXCEPT ![c] = Registered(c, r)]
          /\ UNCHANGED <<connection, lastSequence, result>>
        BY <1>13, <2>1 DEF Await
    <2>3. Registered(c, r) \in Seq(Request)
        BY <1>1, RegisteredIs
    <2> QED BY <1>1, <1>2, <2>2, <2>3
<1>14. ASSUME NEW r \in Request, TimedOut(r) PROVE Calls /\ Links
    <2>1. PICK c \in Requester : c = Asked[r]
        BY AskedIs
    <2>2. /\ Settle(r, Error) /\ pending' = [pending EXCEPT ![c] = Deleted(c, r)]
          /\ UNCHANGED <<connection, lastSequence>>
        BY <1>14, <2>1 DEF TimedOut
    <2>3. Deleted(c, r) \in Seq(Request)
        BY <1>1, DeletedIs
    <2>4. /\ call' \in [Request -> CallStates] /\ result' \in [Request -> Outcome]
          /\ \A q \in Request : call'[q] = "sending" => call[q] = "sending"
        BY <1>1, <1>4, <2>2, SettleTyped
    <2> QED BY <1>1, <1>2, <2>2, <2>3, <2>4
<1> QED BY <1>5, <1>6, <1>7, <1>8, <1>9, <1>11, <1>12, <1>13, <1>14, RequesterCases

-----------------------------------------------------------------------------
(* Connection requests *)

\* A request whose handling is awaited was seen and has no topic, and no poll will take
\* again what has one.
InboundSeen ==
    /\ lastSeen \in 0 .. Len(inbound)
    /\ accepting \subseteq 1 .. lastSeen
    /\ firstPoll => accepting = {}
    /\ ~firstPoll => \A t \in DOMAIN topics : topics[t].request <= lastSeen
    /\ \A t \in DOMAIN topics : topics[t].request \notin accepting
    /\ RequestsAcceptedOnce

\* A topic more has the request that was accepted; nothing else creates one.
LEMMA RequestsStay ==
    ASSUME RelayTyped, [Next]_vars
    PROVE  \/ /\ DOMAIN topics' = DOMAIN topics
              /\ \A t \in DOMAIN topics : topics'[t].request = topics[t].request
           \/ \E i \in accepting, n \in Nat :
                 /\ ConfirmIs(i) /\ n \notin DOMAIN topics /\ DOMAIN topics' = DOMAIN topics \cup {n}
                 /\ topics'[n].request = i
                 /\ \A t \in DOMAIN topics : topics'[t].request = topics[t].request
<1>1. topics \in Seq(Topic) /\ accepting \subseteq Nat
    BY DEF RelayTyped, TopicsTyped
<1>2. CASE topics' = topics
    BY <1>2
<1>3. ASSUME NEW i \in accepting, ConfirmIs(i)
      PROVE  \E n \in Nat :
                /\ n \notin DOMAIN topics /\ DOMAIN topics' = DOMAIN topics \cup {n}
                /\ topics'[n].request = i
                /\ \A t \in DOMAIN topics : topics'[t].request = topics[t].request
    <2>1. PICK n : n = Len(topics) + 1
        OBVIOUS
    <2>2. topics' = Append(topics, Created(i)) /\ i \in Nat
        BY <1>1, <1>3 DEF ConfirmIs
    <2>3. /\ Len(topics) \in Nat /\ DOMAIN topics = 1 .. Len(topics) /\ DOMAIN topics' = 1 .. n
          /\ topics'[n].request = i /\ \A t \in DOMAIN topics : topics'[t] = topics[t]
        BY <1>1, <2>1, <2>2, CreatedIs
    <2>4. n \in Nat /\ n \notin DOMAIN topics /\ DOMAIN topics' = DOMAIN topics \cup {n}
        BY <2>1, <2>3
    <2> QED BY <2>3, <2>4
<1>4. ASSUME NEW r \in Request, Sent(r)
      PROVE  /\ DOMAIN topics' = DOMAIN topics
             /\ \A t \in DOMAIN topics : topics'[t].request = topics[t].request
    BY <1>1, <1>4, SentSays, SayIs
<1>5. ASSUME NEW w \in working, Reply(w)
      PROVE  /\ DOMAIN topics' = DOMAIN topics
             /\ \A t \in DOMAIN topics : topics'[t].request = topics[t].request
    BY <1>1, <1>5, ReplySays, SayIs
<1> QED BY <1>2, <1>3, <1>4, <1>5, TopicsCases

\* Overlapping polls and restarts do not make the server take a request twice.
LEMMA InboundStep == RelayTyped /\ InboundSeen /\ [Next]_vars => InboundSeen'
<1> SUFFICES ASSUME RelayTyped, InboundSeen, [Next]_vars PROVE InboundSeen'
    OBVIOUS
<1>1. /\ inbound \in Seq(Inbound) /\ topics \in Seq(Topic) /\ Len(inbound) \in Nat
      /\ accepting \subseteq DOMAIN inbound /\ DOMAIN inbound = 1 .. Len(inbound)
      /\ \A t \in DOMAIN topics : topics[t].request \in Nat
    BY DEF RelayTyped, TopicsTyped
<1>2. Len(inbound') \in Nat /\ Len(inbound) <= Len(inbound')
    BY <1>1, TopicsGrow
<1>3. /\ lastSeen \in 0 .. Len(inbound) /\ accepting \subseteq 1 .. lastSeen
      /\ firstPoll => accepting = {}
      /\ ~firstPoll => \A t \in DOMAIN topics : topics[t].request <= lastSeen
      /\ \A t \in DOMAIN topics : topics[t].request \notin accepting
      /\ \A s, t \in DOMAIN topics : topics[s].request = topics[t].request => s = t
    BY DEF InboundSeen, RequestsAcceptedOnce
<1> DEFINE Same == /\ DOMAIN topics' = DOMAIN topics
                   /\ \A t \in DOMAIN topics : topics'[t].request = topics[t].request
           More(i, n) == /\ n \notin DOMAIN topics /\ DOMAIN topics' = DOMAIN topics \cup {n}
                         /\ topics'[n].request = i
                         /\ \A t \in DOMAIN topics : topics'[t].request = topics[t].request
           Seen == /\ lastSeen' \in 0 .. Len(inbound') /\ accepting' \subseteq 1 .. lastSeen'
                   /\ firstPoll' => accepting' = {}
                   /\ ~firstPoll' => \A t \in DOMAIN topics' : topics'[t].request <= lastSeen'
                   /\ \A t \in DOMAIN topics' : topics'[t].request \notin accepting'
                   /\ \A s, t \in DOMAIN topics' : topics'[s].request = topics'[t].request => s = t
<1>4. SUFFICES Seen
    BY DEF InboundSeen, RequestsAcceptedOnce
<1>5. ASSUME UNCHANGED <<accepting, lastSeen, firstPoll>>, Same PROVE Seen
    BY <1>2, <1>3, <1>5
<1>6. ASSUME NEW i \in accepting, ConfirmIs(i) PROVE accepting' = accepting \ {i}
    BY <1>6 DEF ConfirmIs
<1>7. ASSUME NEW i \in accepting, NEW n \in Nat, More(i, n),
             accepting' = accepting \ {i}, UNCHANGED <<lastSeen, firstPoll>>
      PROVE  Seen
    BY <1>1, <1>2, <1>3, <1>7
<1>8. ASSUME NEW i \in accepting, Same, accepting' = accepting \ {i},
             UNCHANGED <<lastSeen, firstPoll>>
      PROVE  Seen
    BY <1>1, <1>2, <1>3, <1>8
<1>9. ASSUME NEW n \in 0 .. Len(inbound), FirstPoll(n), UNCHANGED <<inbound, topics, accepting>>
      PROVE  Seen
    <2>1. /\ firstPoll /\ firstPoll' = FALSE /\ lastSeen' = n
          /\ \A t \in DOMAIN topics : topics[t].request <= n
        BY <1>9 DEF FirstPoll
    <2> QED BY <1>1, <1>3, <1>9, <2>1
<1>10. ASSUME NEW n \in 0 .. Len(inbound), PollInbound(n), UNCHANGED <<inbound, topics, firstPoll>>
       PROVE  Seen
    <2>1. /\ ~firstPoll
          /\ \/ n > lastSeen /\ lastSeen' = n /\ accepting' \subseteq accepting \cup {n}
             \/ lastSeen' = lastSeen /\ accepting' = accepting
        BY <1>1, <1>3, <1>10, PollTakes
    <2>2. CASE lastSeen' = lastSeen /\ accepting' = accepting
        BY <1>3, <1>10, <2>2
    <2>3. CASE n > lastSeen /\ lastSeen' = n /\ accepting' \subseteq accepting \cup {n}
        <3>1. \A t \in DOMAIN topics : topics[t].request < n
            BY <1>1, <1>3, <2>1, <2>3
        <3> QED BY <1>1, <1>3, <1>10, <2>1, <2>3, <3>1
    <2> QED BY <2>1, <2>2, <2>3
<1>11. ASSUME accepting' = {}, lastSeen' = 0, firstPoll' = TRUE, Same PROVE Seen
    BY <1>2, <1>3, <1>11
<1>12. CASE Same
    <2>1. \/ UNCHANGED <<accepting, lastSeen, firstPoll>>
          \/ \E n \in 0 .. Len(inbound) :
                \/ FirstPoll(n) /\ UNCHANGED <<inbound, topics, accepting>>
                \/ PollInbound(n) /\ UNCHANGED <<inbound, topics, firstPoll>>
          \/ \E i \in accepting : accepting' = accepting \ {i} /\ UNCHANGED <<lastSeen, firstPoll>>
          \/ accepting' = {} /\ lastSeen' = 0 /\ firstPoll' = TRUE
        BY InboundCases
    <2> QED BY <1>5, <1>8, <1>9, <1>10, <1>11, <1>12, <2>1
<1>13. ASSUME NEW i \in accepting, NEW n \in Nat, ConfirmIs(i), More(i, n) PROVE Seen
    <2>1. topics' # topics /\ accepting' = accepting \ {i} /\ accepting' # accepting
        BY <1>6, <1>13
    <2>2. UNCHANGED <<lastSeen, firstPoll>>
        BY <2>1, InboundCases
    <2> QED BY <1>7, <1>13, <2>1, <2>2
<1> QED BY <1>12, <1>13, RequestsStay

\* The types of the relay and what polls have seen, together.
RelayInv == RelayTyped /\ InboundSeen

\* They hold at first.
LEMMA RelayStart == Init => RelayInv
<1> SUFFICES ASSUME Init PROVE RelayInv
    OBVIOUS
<1>1. TopicsTyped /\ ServerTyped /\ InboundSeen
    BY DEF Init, RelayInit, TopicsTyped, ServerTyped, InboundSeen, RequestsAcceptedOnce
<1>2. RequestersTyped
    BY DEF Init, RelayInit, RequestersTyped, Off, Outcome
<1> QED BY <1>1, <1>2 DEF RelayInv, RelayTyped

\* They are kept.
LEMMA RelayStep == RelayInv /\ [Next]_vars => RelayInv'
<1> SUFFICES ASSUME RelayInv, [Next]_vars PROVE RelayInv'
    OBVIOUS
<1>1. lastSeen \in Nat
    <2>1. Len(inbound) \in Nat
        BY DEF RelayInv, RelayTyped, TopicsTyped
    <2> QED BY <2>1 DEF RelayInv, InboundSeen
<1> QED BY <1>1, TopicsStep, ServerStep, RequestersStep, InboundStep DEF RelayInv, RelayTyped

\* The server accepts a connection request at most once, although its polls overlap and
\* it forgets what it has seen when it is restarted.
THEOREM RequestsTakenOnce == Spec => []RequestsAcceptedOnce
<1>1. RelayInv => RequestsAcceptedOnce
    BY DEF RelayInv, InboundSeen
<1> QED BY <1>1, RelayStart, RelayStep, PTL DEF Spec

-----------------------------------------------------------------------------
(* The calls *)

\* The Map of c holds calls that wait, each key once; a call that waits outside of it
\* has the key of another that was made.
MapsInOrder ==
    /\ DOMAIN key = Request
    /\ \A c \in Requester : Range(pending[c]) \subseteq CallsOf(c)
    /\ PendingCallsWait

\* One clause of it for one requester.
InOrder(c, queue) ==
    /\ queue \in Seq(CallsOf(c))
    /\ Distinct(queue)
    /\ \A r \in CallsOf(c) :
          /\ r \in Range(queue) => call[r] = "waiting"
          /\ call[r] = "waiting" /\ r \notin Range(queue) =>
                \E q \in CallsOf(c) \ {r} : key[q] = key[r] /\ call[q] # "new"

\* The two say the same.
LEMMA InOrderIs ==
    ASSUME pending \in [Requester -> Seq(Request)]
    PROVE  MapsInOrder <=> DOMAIN key = Request /\ \A c \in Requester : InOrder(c, pending[c])
<1>1. ASSUME NEW c \in Requester
      PROVE  pending[c] \in Seq(CallsOf(c)) <=> Range(pending[c]) \subseteq CallsOf(c)
    <2>1. PICK s \in Seq(Request) : s = pending[c]
        OBVIOUS
    <2>2. Len(s) \in Nat /\ DOMAIN s = 1 .. Len(s)
        BY <2>1
    <2>3. ASSUME Range(s) \subseteq CallsOf(c) PROVE s \in Seq(CallsOf(c))
        <3>1. s \in [1 .. Len(s) -> CallsOf(c)]
            BY <2>2, <2>3 DEF Range
        <3> QED BY <2>2, <3>1
    <2>4. ASSUME s \in Seq(CallsOf(c)) PROVE Range(s) \subseteq CallsOf(c)
        BY <2>4 DEF Range
    <2> QED BY <2>1, <2>3, <2>4
<1> QED BY <1>1 DEF MapsInOrder, PendingCallsWait, InOrder, Distinct

\* Where only calls of one requester change, the Maps of the others stay in order.
LEMMA OthersInOrder ==
    ASSUME NEW d, NEW queue, InOrder(d, queue),
           \A r \in CallsOf(d) : call'[r] = call[r] /\ key'[r] = key[r]
    PROVE  InOrder(d, queue)'
<1>1. queue \in Seq(CallsOf(d)) /\ Distinct(queue)
    BY DEF InOrder
<1>2. \A i \in DOMAIN queue : queue[i] \in CallsOf(d)
    BY <1>1
<1>3. Distinct(queue)'
    BY <1>1, <1>2 DEF Distinct
<1> QED BY <1>1, <1>3 DEF InOrder

\* A call that is made, or ends, without being in the Map.
LEMMA CallMoves ==
    ASSUME NEW d, NEW queue, InOrder(d, queue), NEW r, r \notin Range(queue),
           call'[r] \in {"sending", "settled"},
           \A q \in CallsOf(d) \ {r} : call'[q] = call[q] /\ key'[q] = key[q],
           key'[r] = key[r] \/ call[r] = "new"
    PROVE  InOrder(d, queue)'
<1>1. queue \in Seq(CallsOf(d)) /\ Distinct(queue)
    BY DEF InOrder
<1>2. \A i \in DOMAIN queue : queue[i] \in CallsOf(d) \ {r}
    BY <1>1 DEF Range
<1>3. Distinct(queue)'
    BY <1>1, <1>2 DEF Distinct
<1>4. ASSUME NEW p \in CallsOf(d)
      PROVE  /\ p \in Range(queue) => call'[p] = "waiting"
             /\ call'[p] = "waiting" /\ p \notin Range(queue) =>
                   \E q \in CallsOf(d) \ {p} : key'[q] = key'[p] /\ call'[q] # "new"
    <2>1. p \in Range(queue) => call'[p] = "waiting"
        BY DEF InOrder
    <2>2. ASSUME call'[p] = "waiting", p \notin Range(queue)
          PROVE  \E q \in CallsOf(d) \ {p} : key'[q] = key'[p] /\ call'[q] # "new"
        <3>1. p # r /\ call[p] = "waiting" /\ key'[p] = key[p]
            BY <2>2
        <3>2. PICK q \in CallsOf(d) \ {p} : key[q] = key[p] /\ call[q] # "new"
            BY <2>2, <3>1 DEF InOrder
        <3>3. key'[q] = key[q] /\ call'[q] # "new"
            BY <3>2
        <3> QED BY <3>1, <3>2, <3>3
    <2> QED BY <2>1, <2>2
<1> QED BY <1>1, <1>3, <1>4 DEF InOrder

\* A call leaves the Map: it ends, and those that leave with it had its key.
LEMMA CallLeaves ==
    ASSUME NEW d, NEW queue, InOrder(d, queue), NEW r \in CallsOf(d),
           NEW rest \in Seq(CallsOf(d)), Distinct(rest), Range(rest) \subseteq Range(queue) \ {r},
           \A q \in Range(queue) \ Range(rest) : q = r \/ key[q] = key[r],
           call'[r] = "settled", \A q \in CallsOf(d) \ {r} : call'[q] = call[q], key' = key
    PROVE  InOrder(d, rest)'
<1>1. Distinct(rest)'
    BY DEF Distinct
<1>2. ASSUME NEW p \in CallsOf(d)
      PROVE  /\ p \in Range(rest) => call'[p] = "waiting"
             /\ call'[p] = "waiting" /\ p \notin Range(rest) =>
                   \E q \in CallsOf(d) \ {p} : key'[q] = key'[p] /\ call'[q] # "new"
    <2>1. p \in Range(rest) => call'[p] = "waiting"
        BY DEF InOrder
    <2>2. ASSUME call'[p] = "waiting", p \notin Range(rest)
          PROVE  \E q \in CallsOf(d) \ {p} : key'[q] = key'[p] /\ call'[q] # "new"
        <3>1. p # r /\ call[p] = "waiting"
            BY <2>2
        <3>2. CASE p \in Range(queue)
            <4>1. key[p] = key[r]
                BY <2>2, <3>1, <3>2
            <4> QED BY <3>1, <4>1
        <3>3. CASE p \notin Range(queue)
            <4>1. PICK q \in CallsOf(d) \ {p} : key[q] = key[p] /\ call[q] # "new"
                BY <3>1, <3>3 DEF InOrder
            <4>2. call'[q] # "new"
                BY <4>1
            <4> QED BY <4>1, <4>2
        <3> QED BY <3>2, <3>3
    <2> QED BY <2>1, <2>2
<1> QED BY <1>1, <1>2 DEF InOrder

\* A call enters the Map, and takes the place of who had its key.
LEMMA CallEnters ==
    ASSUME NEW d, NEW queue, InOrder(d, queue), NEW r \in CallsOf(d),
           NEW more \in Seq(CallsOf(d)), Distinct(more),
           Range(more) \subseteq Range(queue) \cup {r}, r \in Range(more),
           \A q \in Range(queue) \ Range(more) : key[q] = key[r],
           call[r] # "new",
           call'[r] = "waiting", \A q \in CallsOf(d) \ {r} : call'[q] = call[q], key' = key
    PROVE  InOrder(d, more)'
<1>1. Distinct(more)'
    BY DEF Distinct
<1>2. ASSUME NEW p \in CallsOf(d)
      PROVE  /\ p \in Range(more) => call'[p] = "waiting"
             /\ call'[p] = "waiting" /\ p \notin Range(more) =>
                   \E q \in CallsOf(d) \ {p} : key'[q] = key'[p] /\ call'[q] # "new"
    <2>1. p \in Range(more) => call'[p] = "waiting"
        BY DEF InOrder
    <2>2. ASSUME call'[p] = "waiting", p \notin Range(more)
          PROVE  \E q \in CallsOf(d) \ {p} : key'[q] = key'[p] /\ call'[q] # "new"
        <3>1. p # r /\ call[p] = "waiting"
            BY <2>2
        <3>2. CASE p \in Range(queue)
            <4>1. key[p] = key[r]
                BY <2>2, <3>2
            <4> QED BY <3>1, <4>1
        <3>3. CASE p \notin Range(queue)
            <4>1. PICK q \in CallsOf(d) \ {p} : key[q] = key[p] /\ call[q] # "new"
                BY <3>1, <3>3 DEF InOrder
            <4>2. call'[q] # "new"
                BY <4>1
            <4> QED BY <4>1, <4>2
        <3> QED BY <3>2, <3>3
    <2> QED BY <2>1, <2>2
<1> QED BY <1>1, <1>2 DEF InOrder

\* The Maps stay in order, whatever timers, answers and ends of processes do to them.
LEMMA MapsStep == RelayTyped /\ MapsInOrder /\ [Next]_vars => MapsInOrder'
<1> SUFFICES ASSUME RelayTyped, MapsInOrder, [Next]_vars PROVE MapsInOrder'
    OBVIOUS
<1>1. /\ pending \in [Requester -> Seq(Request)]
      /\ call \in [Request -> {"new", "sending", "waiting", "settled"}]
      /\ DOMAIN key = Request /\ \A c \in Requester : InOrder(c, pending[c])
    BY InOrderIs DEF RelayTyped, RequestersTyped
<1>2. pending' \in [Requester -> Seq(Request)]
    BY RequestersStep DEF RequestersTyped
<1>3. \A c \in Requester : CallsOf(c) \subseteq Request /\ \A r \in CallsOf(c) : Asked[r] = c
    BY DEF CallsOf
<1>4. \A r \in Request : Asked[r] \in Requester /\ r \in CallsOf(Asked[r])
    BY AskedIs DEF CallsOf
<1> DEFINE Goal == DOMAIN key' = Request /\ \A d \in Requester : \E s : s = pending'[d] /\ InOrder(d, s)'
<1>5. SUFFICES Goal
    <2>1. ASSUME NEW d \in Requester, NEW s, s = pending'[d], InOrder(d, s)'
          PROVE  /\ pending'[d] \in Seq(CallsOf(d)) /\ Distinct(pending[d])'
                 /\ Range(pending'[d]) \subseteq CallsOf(d)
                 /\ \A r \in CallsOf(d) :
                       /\ r \in Range(pending'[d]) => call'[r] = "waiting"
                       /\ call'[r] = "waiting" /\ r \notin Range(pending'[d]) =>
                             \E q \in CallsOf(d) \ {r} : key'[q] = key'[r] /\ call'[q] # "new"
        BY <2>1 DEF InOrder, Distinct, Range
    <2> QED BY <2>1 DEF MapsInOrder, PendingCallsWait, Distinct
<1>6. ASSUME NEW d \in Requester, pending'[d] = pending[d],
             \A r \in CallsOf(d) : call'[r] = call[r] /\ key'[r] = key[r]
      PROVE  \E s : s = pending'[d] /\ InOrder(d, s)'
    BY <1>1, <1>6, OthersInOrder
<1>7. CASE UNCHANGED callVars
    BY <1>1, <1>6, <1>7 DEF callVars
<1>8. ASSUME NEW c \in Requester, RequesterRestart(c) PROVE Goal
    <2>1. PICK lost : lost = {r \in CallsOf(c) : call[r] \in {"sending", "waiting"}}
        OBVIOUS
    <2>2. /\ pending' = [pending EXCEPT ![c] = <<>>] /\ key' = key
          /\ call' = [r \in Request |-> IF r \in lost THEN "settled" ELSE call[r]]
        BY <1>8, <2>1 DEF RequesterRestart
    <2>3. ASSUME NEW d \in Requester, d # c PROVE \E s : s = pending'[d] /\ InOrder(d, s)'
        <3>1. \A r \in CallsOf(d) : r \in Request /\ r \notin lost
            BY <1>3, <2>1, <2>3
        <3>2. pending'[d] = pending[d] /\ \A r \in CallsOf(d) : call'[r] = call[r]
            BY <1>1, <2>2, <2>3, <3>1
        <3> QED BY <1>6, <2>2, <3>2
    <2>4. InOrder(c, <<>>)'
        <3>1. \A r \in CallsOf(c) : call'[r] # "waiting"
            BY <1>3, <2>1, <2>2
        <3>2. Range(<<>>) = {} /\ Distinct(<<>>)' /\ <<>> \in Seq(CallsOf(c))
            BY DEF Range, Distinct
        <3> QED BY <3>1, <3>2 DEF InOrder
    <2>5. pending'[c] = <<>>
        BY <1>1, <2>2
    <2> QED BY <1>1, <2>2, <2>3, <2>4, <2>5
<1>9. ASSUME NEW c \in Requester, NEW r \in CallsOf(c), NEW queue,
             pending' = [pending EXCEPT ![c] = queue], InOrder(c, queue)', key' = key,
             \A q \in Request \ {r} : call'[q] = call[q]
      PROVE  Goal
    <2>1. pending'[c] = queue
        BY <1>1, <1>9
    <2>2. ASSUME NEW d \in Requester, d # c PROVE \E s : s = pending'[d] /\ InOrder(d, s)'
        <3>1. pending'[d] = pending[d] /\ r \notin CallsOf(d)
            BY <1>1, <1>3, <1>9, <2>2
        <3>2. \A q \in CallsOf(d) : call'[q] = call[q]
            BY <1>3, <1>9, <3>1
        <3> QED BY <1>6, <1>9, <3>1, <3>2
    <2> QED BY <1>1, <1>9, <2>1, <2>2
<1>10. ASSUME NEW c \in Requester, PollForResponses(c) PROVE Goal
    <2>1. PICK q \in Request :
              \/ pending[c] = <<>> /\ UNCHANGED callVars
              \/ /\ pending[c] # <<>> /\ Settle(Head(pending[c]), Answer(q))
                 /\ pending' = [pending EXCEPT ![c] = Tail(@)] /\ key' = key
        BY <1>10, PollIs
    <2>2. SUFFICES ASSUME pending[c] # <<>>, Settle(Head(pending[c]), Answer(q)),
                          pending' = [pending EXCEPT ![c] = Tail(@)], key' = key
                   PROVE  Goal
        BY <1>7, <2>1
    <2>3. PICK s : s = pending[c]
        OBVIOUS
    <2>4. s \in Seq(CallsOf(c)) /\ s # <<>> /\ Distinct(s)
        BY <1>1, <2>2, <2>3 DEF InOrder
    <2>5. PICK r : r = Head(s)
        OBVIOUS
    <2>6. PICK rest : rest = Tail(s)
        OBVIOUS
    <2>7. /\ r \in CallsOf(c) /\ rest \in Seq(CallsOf(c)) /\ Len(s) \in Nat /\ Len(s) >= 1
          /\ DOMAIN s = 1 .. Len(s) /\ DOMAIN rest = 1 .. Len(s) - 1 /\ r = s[1]
          /\ \A i \in 1 .. Len(s) - 1 : rest[i] = s[i + 1]
        BY <2>4, <2>5, <2>6
    <2>8. \A i \in DOMAIN rest : i + 1 \in DOMAIN s /\ rest[i] = s[i + 1] /\ i + 1 # 1
        BY <2>7
    <2>9. /\ Range(rest) \subseteq Range(s) \ {r}
          /\ Distinct(rest)
        <3>1. Range(rest) \subseteq Range(s)
            BY <2>8 DEF Range
        <3>2. r \notin Range(rest)
            BY <2>4, <2>7, <2>8 DEF Range, Distinct
        <3>3. \A i, j \in DOMAIN rest : i + 1 = j + 1 => i = j
            BY <2>7
        <3>4. Distinct(rest)
            BY <2>4, <2>8, <3>3 DEF Distinct
        <3> QED BY <3>1, <3>2, <3>4
    <2>10. \A q1 \in Range(s) \ Range(rest) : q1 = r
        <3>1. ASSUME NEW i \in DOMAIN s, s[i] \notin Range(rest) PROVE i = 1
            <4>1. i # 1 => i - 1 \in DOMAIN rest /\ rest[i - 1] = s[i]
                BY <2>7
            <4> QED BY <3>1, <4>1 DEF Range
        <3> QED BY <2>7, <3>1 DEF Range
    <2>11. call'[r] = "settled" /\ \A p \in Request \ {r} : call'[p] = call[p]
        BY <1>1, <1>3, <2>2, <2>3, <2>5, <2>7 DEF Settle
    <2>12. InOrder(c, rest)'
        <3>1. InOrder(c, s) /\ r \in CallsOf(c) /\ rest \in Seq(CallsOf(c)) /\ Distinct(rest)
            BY <1>1, <2>3, <2>7, <2>9
        <3>2. Range(rest) \subseteq Range(s) \ {r}
            BY <2>9
        <3>3. \A q1 \in Range(s) \ Range(rest) : q1 = r \/ key[q1] = key[r]
            BY <2>10
        <3>4. call'[r] = "settled" /\ \A q1 \in CallsOf(c) \ {r} : call'[q1] = call[q1]
            BY <1>3, <2>11
        <3> QED BY <2>2, <3>1, <3>2, <3>3, <3>4, CallLeaves
    <2> QED BY <1>9, <2>2, <2>3, <2>6, <2>7, <2>11, <2>12
<1>11. ASSUME NEW r \in Request, pending' = pending, call[r] # "waiting",
              call'[r] \in {"sending", "settled"}, DOMAIN key' = Request,
              key'[r] = key[r] \/ call[r] = "new",
              \A q \in Request \ {r} : call'[q] = call[q] /\ key'[q] = key[q]
       PROVE  Goal
    <2>1. ASSUME NEW d \in Requester PROVE \E s : s = pending'[d] /\ InOrder(d, s)'
        <3>1. PICK s : s = pending[d]
            OBVIOUS
        <3>2. InOrder(d, s)
            BY <1>1, <3>1
        <3>3. r \notin Range(s)
            <4>1. Range(s) \subseteq CallsOf(d)
                BY <3>2 DEF InOrder, Range
            <4> QED BY <1>11, <3>2, <4>1 DEF InOrder
        <3>4. InOrder(d, s)'
            BY <1>3, <1>11, <3>2, <3>3, CallMoves
        <3> QED BY <1>11, <3>1, <3>4
    <2> QED BY <1>11, <2>1
<1>12. ASSUME NEW r \in Request, Refuse(r) \/ SendFails(r) PROVE Goal
    <2>1. /\ call[r] \in {"new", "sending"} /\ pending' = pending /\ key' = key
          /\ call' = [call EXCEPT ![r] = "settled"]
        BY <1>12 DEF Refuse, SendFails, Settle
    <2> QED BY <1>1, <1>11, <2>1
<1>13. ASSUME NEW r \in Request, SendAndWait(r) PROVE Goal
    <2>1. /\ call[r] = "new" /\ pending' = pending /\ call' = [call EXCEPT ![r] = "sending"]
          /\ \E ms : key' = [key EXCEPT ![r] = ms]
        BY <1>13 DEF SendAndWait
    <2> QED BY <1>1, <1>11, <2>1
<1>14. ASSUME NEW r \in Request, Await(r) PROVE Goal
    <2>1. PICK c \in Requester : c = Asked[r] /\ r \in CallsOf(c)
        BY <1>4
    <2>2. /\ call[r] = "sending" /\ call' = [call EXCEPT ![r] = "waiting"] /\ key' = key
          /\ pending' = [pending EXCEPT ![c] = Registered(c, r)]
        BY <1>14, <2>1 DEF Await
    <2>3. PICK more : more = Registered(c, r)
        OBVIOUS
    <2>4. PICK s : s = pending[c]
        OBVIOUS
    <2>5. s \in Seq(CallsOf(c)) /\ Distinct(s)
        BY <1>1, <2>4 DEF InOrder
    <2>6. /\ more \in Seq(CallsOf(c)) /\ Range(more) \subseteq Range(s) \cup {r} /\ r \in Range(more)
          /\ \A q \in Range(s) \ Range(more) : key[q] = key[r]
          /\ Distinct(more)
        BY <2>1, <2>3, <2>4, <2>5, RegisteredIs
    <2>7. call[r] # "new" /\ call'[r] = "waiting" /\ \A p \in Request \ {r} : call'[p] = call[p]
        BY <1>1, <2>2
    <2>8. InOrder(c, more)'
        <3>1. InOrder(c, s) /\ r \in CallsOf(c) /\ more \in Seq(CallsOf(c)) /\ Distinct(more)
            BY <1>1, <2>1, <2>4, <2>6
        <3>2. Range(more) \subseteq Range(s) \cup {r} /\ r \in Range(more)
            BY <2>6
        <3>3. \A q \in Range(s) \ Range(more) : key[q] = key[r]
            BY <2>6
        <3>4. \A q \in CallsOf(c) \ {r} : call'[q] = call[q]
            BY <1>3, <2>7
        <3> QED BY <2>2, <2>7, <3>1, <3>2, <3>3, <3>4, CallEnters
    <2> QED BY <1>9, <2>1, <2>2, <2>3, <2>7, <2>8
<1>15. ASSUME NEW r \in Request, TimedOut(r) PROVE Goal
    <2>1. PICK c \in Requester : c = Asked[r] /\ r \in CallsOf(c)
        BY <1>4
    <2>2. /\ call[r] = "waiting" /\ call' = [call EXCEPT ![r] = "settled"] /\ key' = key
          /\ pending' = [pending EXCEPT ![c] = Deleted(c, r)]
        BY <1>15, <2>1 DEF TimedOut, Settle
    <2>3. PICK rest : rest = Deleted(c, r)
        OBVIOUS
    <2>4. PICK s : s = pending[c]
        OBVIOUS
    <2>5. s \in Seq(CallsOf(c)) /\ Distinct(s)
        BY <1>1, <2>4 DEF InOrder
    <2>6. /\ rest \in Seq(CallsOf(c)) /\ Range(rest) \subseteq Range(s)
          /\ \A q \in Range(s) \ Range(rest) : key[q] = key[r]
          /\ Distinct(rest) /\ \A q \in Range(rest) : key[q] # key[r]
        BY <2>3, <2>4, <2>5, DeletedIs
    <2>7. Range(rest) \subseteq Range(s) \ {r}
        BY <2>6
    <2>8. call'[r] = "settled" /\ \A p \in Request \ {r} : call'[p] = call[p]
        BY <1>1, <2>2
    <2>9. InOrder(c, rest)'
        <3>1. InOrder(c, s) /\ r \in CallsOf(c) /\ rest \in Seq(CallsOf(c)) /\ Distinct(rest)
            BY <1>1, <2>1, <2>4, <2>6
        <3>2. \A q \in Range(s) \ Range(rest) : q = r \/ key[q] = key[r]
            BY <2>6
        <3>3. \A q \in CallsOf(c) \ {r} : call'[q] = call[q]
            BY <1>3, <2>8
        <3> QED BY <2>2, <2>7, <2>8, <3>1, <3>2, <3>3, CallLeaves
    <2> QED BY <1>9, <2>1, <2>2, <2>3, <2>8, <2>9
<1>16. ASSUME NEW c \in Requester, Connect(c) \/ Connected(c) PROVE Goal
    BY <1>7, <1>16 DEF Connect, Connected
<1> QED BY <1>7, <1>8, <1>10, <1>12, <1>13, <1>14, <1>15, <1>16, RequesterCases

\* pollForResponses never finds a call in the Map that no longer waits, and a call that
\* waits outside of it has lost its place to one of the same millisecond.
THEOREM MapsHoldWaitingCalls == Spec => []PendingCallsWait
<1>1. Init => MapsInOrder
    BY DEF Init, RelayInit, MapsInOrder, PendingCallsWait, Range, CallsOf
<1>2. MapsInOrder => PendingCallsWait
    BY DEF MapsInOrder
<1>3. RelayInv => RelayTyped
    BY DEF RelayInv
<1> QED BY <1>1, <1>2, <1>3, RelayStart, RelayStep, MapsStep, PTL DEF Spec

-----------------------------------------------------------------------------
(* The memory *)

Job == [stage : {"none", "thinking", "answered", "lost", "missed"}, generation : Nat]
Entry == [generation : Nat, said : SUBSET Message]

\* A memory holds what was said in its conversation since it was made.
MemoryInv ==
    /\ memory \in [Conversation -> Entry]
    /\ job \in [Message -> Job]
    /\ \A c \in Conversation : \A m \in memory[c].said :
          /\ ConversationOf(m) = c /\ job[m].stage # "none"
          /\ job[m].generation = memory[c].generation

\* A task holds the answer to a message of its own.
TasksInv == \A t \in DOMAIN tasks : tasks[t] \in Over("a2a") /\ Peer[tasks[t]] = t

\* Everything a step may do to the memory and to the processing of messages.
LEMMA MemoryCases ==
    ASSUME RelayTyped, [Next]_vars
    PROVE  \/ UNCHANGED memoryVars
           \/ \E m \in Message : StartJob(m) \/ FinishJob(m)
           \/ \E c \in Conversation : ClearConversation(c)
           \/ \E missed \in SUBSET XmtpUnread : MemoryLost(missed)
<1> DEFINE Goal == \/ UNCHANGED memoryVars
                   \/ \E m \in Message : StartJob(m) \/ FinishJob(m)
                   \/ \E c \in Conversation : ClearConversation(c)
                   \/ \E missed \in SUBSET XmtpUnread : MemoryLost(missed)
<1>1. ASSUME NEW n \in 0 .. Len(inbound), FirstPoll(n) \/ PollInbound(n) PROVE Goal
    BY <1>1 DEF FirstPoll, PollInbound
<1>2. ASSUME NEW i \in accepting, Accept(i) \/ AcceptFails(i) PROVE Goal
    BY <1>2 DEF Accept, AcceptFails
<1>3. ASSUME NEW t \in DOMAIN monitored, TakeMessage(t) PROVE Goal
    BY <1>3, TakeIs DEF Request
<1>4. ASSUME NEW w \in working, Reply(w) \/ ReplyFails(w) PROVE Goal
    <2>1. PICK r \in Request : r = topics[w.topic].log[w.at].request
        BY WorkIs
    <2>2. FinishJob(r)
        BY <1>4, <2>1 DEF Reply, ReplyFails
    <2> QED BY <2>2 DEF Request
<1>5. ASSUME NEW c \in Requester, Connect(c) \/ Connected(c) \/ RequesterRestart(c)
                                             \/ PollForResponses(c)
      PROVE  Goal
    BY <1>5 DEF Connect, Connected, RequesterRestart, PollForResponses
<1>6. ASSUME NEW r \in Request, \/ Refuse(r) \/ SendAndWait(r) \/ Sent(r) \/ Await(r)
                                \/ SendFails(r) \/ TimedOut(r)
      PROVE  Goal
    BY <1>6 DEF Refuse, SendAndWait, Sent, Await, SendFails, TimedOut
<1>7. ASSUME NEW m \in Message, HttpReceive(m) \/ HttpAnswer(m) \/ XmtpReceive(m) \/ XmtpAnswer(m)
      PROVE  Goal
    BY <1>7 DEF HttpReceive, HttpAnswer, XmtpReceive, XmtpAnswer
<1>8. ASSUME NEW m \in Message, TaskCancel(m) \/ \E c \in Conversation : ChatClear(c) PROVE Goal
    BY <1>8 DEF ChatClear, TaskCancel, ConversationOf, Conversation
<1>9. ASSUME NEW m \in Message, XmtpReply(m) PROVE Goal
    BY <1>9 DEF XmtpReply
<1>10. CASE Restart
    BY <1>10 DEF Restart
<1>11. CASE UNCHANGED vars
    BY <1>11 DEF vars
<1> QED BY <1>1, <1>2, <1>3, <1>4, <1>5, <1>6, <1>7, <1>8, <1>9, <1>10, <1>11
        DEF Next, RelayNext, ServersNext

\* The processing of m starts with the memory of its conversation.
LEMMA StartIs ==
    ASSUME MemoryInv, NEW m \in Message, StartJob(m)
    PROVE  /\ memory' = memory /\ job' \in [Message -> Job]
           /\ job[m].stage = "none" /\ job'[m].stage = "thinking"
           /\ \A k \in Message \ {m} : job'[k] = job[k]
<1>1. ConversationOf(m) \in Conversation
    BY DEF ConversationOf, Conversation
<1>2. memory[ConversationOf(m)].generation \in Nat
    <2>1. memory[ConversationOf(m)] \in Entry
        BY <1>1 DEF MemoryInv
    <2> QED BY <2>1 DEF Entry
<1>3. PICK new : new = [stage |-> "thinking", generation |-> memory[ConversationOf(m)].generation]
    OBVIOUS
<1>4. new \in Job /\ new.stage = "thinking"
    BY <1>2, <1>3 DEF Job
<1>5. job' = [job EXCEPT ![m] = new] /\ memory' = memory /\ job[m].stage = "none"
    BY <1>3 DEF StartJob
<1> QED BY <1>4, <1>5 DEF MemoryInv

\* The processing of m ends; it is remembered where it started, or not at all.
LEMMA FinishIs ==
    ASSUME MemoryInv, NEW m \in Message, FinishJob(m)
    PROVE  LET c == ConversationOf(m) IN
           /\ job' \in [Message -> Job]
           /\ job[m].stage = "thinking" /\ job'[m].stage = "answered"
           /\ job'[m].generation = job[m].generation
           /\ \A k \in Message \ {m} : job'[k] = job[k]
           /\ \/ memory' = memory
              \/ /\ memory' \in [Conversation -> Entry]
                 /\ memory'[c].generation = memory[c].generation
                 /\ memory'[c].said = memory[c].said \cup {m}
                 /\ job[m].generation = memory[c].generation
                 /\ \A d \in Conversation \ {c} : memory'[d] = memory[d]
<1>1. PICK c \in Conversation : c = ConversationOf(m)
    BY DEF ConversationOf, Conversation
<1>2. PICK new : new = [job[m] EXCEPT !.stage = "answered"]
    OBVIOUS
<1>3. new \in Job /\ new.stage = "answered" /\ new.generation = job[m].generation
    BY <1>2 DEF MemoryInv, Job
<1>4. job' = [job EXCEPT ![m] = new] /\ job[m].stage = "thinking"
    BY <1>2 DEF FinishJob, Processing
<1>5. PICK entry : entry = [memory[c] EXCEPT !.said = @ \cup {m}]
    OBVIOUS
<1>6. /\ entry \in Entry /\ entry.generation = memory[c].generation
      /\ entry.said = memory[c].said \cup {m}
    BY <1>5 DEF MemoryInv, Entry
<1>7. \/ memory' = memory
      \/ job[m].generation = memory[c].generation /\ memory' = [memory EXCEPT ![c] = entry]
    BY <1>1, <1>5 DEF FinishJob, SavedIn
<1>8. ASSUME memory' = [memory EXCEPT ![c] = entry]
      PROVE  /\ memory' \in [Conversation -> Entry] /\ memory'[c] = entry
             /\ \A d \in Conversation \ {c} : memory'[d] = memory[d]
    BY <1>6, <1>8 DEF MemoryInv
<1>9. job' \in [Message -> Job] /\ job'[m] = new /\ \A k \in Message \ {m} : job'[k] = job[k]
    BY <1>3, <1>4 DEF MemoryInv
<1> QED BY <1>1, <1>3, <1>4, <1>6, <1>7, <1>8, <1>9

\* Memories keep to their conversation and to their generation.
LEMMA MemoryStep == RelayTyped /\ MemoryInv /\ [Next]_vars => MemoryInv'
<1> SUFFICES ASSUME RelayTyped, MemoryInv, [Next]_vars PROVE MemoryInv'
    OBVIOUS
<1> DEFINE Kept(c, m) == /\ ConversationOf(m) = c /\ job'[m].stage # "none"
                         /\ job'[m].generation = memory'[c].generation
<1>1. SUFFICES /\ memory' \in [Conversation -> Entry] /\ job' \in [Message -> Job]
               /\ \A c \in Conversation : \A m \in memory'[c].said : Kept(c, m)
    BY DEF MemoryInv, ConversationOf
<1>2. \A c \in Conversation : memory[c] \in Entry /\ memory[c].said \subseteq Message
    BY DEF MemoryInv, Entry
<1>3. CASE UNCHANGED memoryVars
    BY <1>3 DEF MemoryInv, memoryVars
<1>4. ASSUME NEW m \in Message, StartJob(m)
      PROVE  /\ memory' \in [Conversation -> Entry] /\ job' \in [Message -> Job]
             /\ \A c \in Conversation : \A k \in memory'[c].said : Kept(c, k)
    <2>1. /\ memory' = memory /\ job' \in [Message -> Job] /\ job[m].stage = "none"
          /\ \A k \in Message \ {m} : job'[k] = job[k]
        BY <1>4, StartIs
    <2>2. ASSUME NEW c \in Conversation, NEW k \in memory[c].said PROVE Kept(c, k)
        <3>1. k \in Message \ {m} /\ ConversationOf(k) = c /\ job[k].stage # "none"
              /\ job[k].generation = memory[c].generation
            BY <1>2, <2>1, <2>2 DEF MemoryInv
        <3> QED BY <2>1, <3>1
    <2> QED BY <2>1, <2>2 DEF MemoryInv
<1>5. ASSUME NEW m \in Message, FinishJob(m)
      PROVE  /\ memory' \in [Conversation -> Entry] /\ job' \in [Message -> Job]
             /\ \A c \in Conversation : \A k \in memory'[c].said : Kept(c, k)
    <2>1. PICK d : d = ConversationOf(m)
        OBVIOUS
    <2>2. /\ job' \in [Message -> Job] /\ job'[m].stage = "answered"
          /\ job'[m].generation = job[m].generation
          /\ \A k \in Message \ {m} : job'[k] = job[k]
        BY <1>5, FinishIs
    <2>3. \/ memory' = memory
          \/ /\ memory' \in [Conversation -> Entry]
             /\ memory'[d].generation = memory[d].generation
             /\ memory'[d].said = memory[d].said \cup {m}
             /\ job[m].generation = memory[d].generation
             /\ \A c \in Conversation \ {d} : memory'[c] = memory[c]
        BY <1>5, <2>1, FinishIs
    <2>4. ASSUME NEW c \in Conversation, NEW k \in memory[c].said
          PROVE  /\ ConversationOf(k) = c /\ job'[k].stage # "none"
                 /\ job'[k].generation = memory[c].generation
        <3>1. k \in Message /\ ConversationOf(k) = c /\ job[k].stage # "none"
              /\ job[k].generation = memory[c].generation
            BY <1>2, <2>4 DEF MemoryInv
        <3> QED BY <2>2, <3>1
    <2>5. CASE memory' = memory
        BY <2>2, <2>4, <2>5 DEF MemoryInv
    <2>6. CASE memory' # memory
        <3>1. ASSUME NEW c \in Conversation, NEW k \in memory'[c].said PROVE Kept(c, k)
            <4>1. CASE c # d
                BY <2>3, <2>4, <2>6, <3>1, <4>1
            <4>2. CASE c = d /\ k \in memory[c].said
                BY <2>3, <2>4, <2>6, <4>2
            <4>3. CASE c = d /\ k = m
                BY <2>1, <2>2, <2>3, <2>6, <4>3
            <4> QED BY <2>3, <2>6, <3>1, <4>1, <4>2, <4>3
        <3> QED BY <2>2, <2>3, <2>6, <3>1
    <2> QED BY <2>5, <2>6
<1>6. ASSUME NEW d \in Conversation, ClearConversation(d)
      PROVE  /\ memory' \in [Conversation -> Entry] /\ job' \in [Message -> Job]
             /\ \A c \in Conversation : \A k \in memory'[c].said : Kept(c, k)
    <2>1. PICK entry : entry = [generation |-> memory[d].generation + 1, said |-> {}]
        OBVIOUS
    <2>2. entry \in Entry /\ entry.said = {}
        BY <1>2, <2>1 DEF Entry
    <2>3. (memory' = [memory EXCEPT ![d] = entry] \/ memory' = memory) /\ job' = job
        BY <1>6, <2>1 DEF ClearConversation
    <2>4. CASE memory' = memory
        BY <2>3, <2>4 DEF MemoryInv
    <2>5. CASE memory' = [memory EXCEPT ![d] = entry]
        <3>1. /\ memory' \in [Conversation -> Entry] /\ memory'[d].said = {}
              /\ \A c \in Conversation \ {d} : memory'[c] = memory[c]
            BY <2>2, <2>5 DEF MemoryInv
        <3> QED BY <2>3, <3>1 DEF MemoryInv
    <2> QED BY <2>3, <2>4, <2>5
<1>7. ASSUME NEW missed, MemoryLost(missed)
      PROVE  /\ memory' \in [Conversation -> Entry] /\ job' \in [Message -> Job]
             /\ \A c \in Conversation : \A k \in memory'[c].said : Kept(c, k)
    <2>1. memory' \in [Conversation -> Entry] /\ \A c \in Conversation : memory'[c].said = {}
        <3>1. \A c \in Conversation : memory[c].generation + 1 \in Nat
            BY <1>2 DEF Entry
        <3> QED BY <1>7, <3>1 DEF MemoryLost, Entry
    <2>2. job' \in [Message -> Job]
        <3>1. \A m \in Message : /\ job[m] \in Job /\ [job[m] EXCEPT !.stage = "lost"] \in Job
                                 /\ [job[m] EXCEPT !.stage = "missed"] \in Job
            BY DEF MemoryInv, Job
        <3> QED BY <1>7, <3>1 DEF MemoryLost
    <2> QED BY <2>1, <2>2
<1> QED BY <1>3, <1>4, <1>5, <1>6, <1>7, MemoryCases

\* Memories are empty at first.
LEMMA MemoryStart == Init => MemoryInv /\ TasksInv
<1> SUFFICES ASSUME Init PROVE MemoryInv /\ TasksInv
    OBVIOUS
<1>1. MemoryInv
    BY DEF Init, MemoryInit, MemoryInv, Entry, Job, NoJob
<1>2. TasksInv
    BY DEF Init, ServersInit, TasksInv
<1> QED BY <1>1, <1>2

\* What was said before a conversation was cleared does not get into the memory that
\* follows, however late its answer comes (clearConversation, tasks/cancel).
THEOREM ClearedIsForgotten == Spec => []ForgottenStaysForgotten
<1>1. MemoryInv => ForgottenStaysForgotten
    BY DEF MemoryInv, ForgottenStaysForgotten
<1>2. RelayInv => RelayTyped
    BY DEF RelayInv
<1> QED BY <1>1, <1>2, RelayStart, RelayStep, MemoryStart, MemoryStep, PTL DEF Spec

\* Everything a step may do to the tasks.
LEMMA TasksStep == TasksInv /\ [Next]_vars => TasksInv'
<1> SUFFICES ASSUME TasksInv, [Next]_vars PROVE TasksInv'
    OBVIOUS
<1>1. ASSUME tasks' = tasks PROVE TasksInv'
    BY <1>1 DEF TasksInv, Over
<1>2. ASSUME NEW m \in Message, HttpAnswer(m) PROVE TasksInv'
    <2>1. CASE Protocol[m] = "a2a"
        BY <1>2, <2>1 DEF HttpAnswer, TasksInv, Over, Put
    <2>2. CASE Protocol[m] # "a2a"
        BY <1>1, <1>2, <2>2 DEF HttpAnswer
    <2> QED BY <2>1, <2>2
<1>3. ASSUME NEW m \in Message, TaskCancel(m) PROVE TasksInv'
    BY <1>3 DEF TaskCancel, TasksInv, Over
<1>4. ASSUME NEW m \in Message, \/ HttpReceive(m) \/ XmtpReceive(m) \/ XmtpAnswer(m)
                                \/ XmtpReply(m) \/ \E c \in Conversation : ChatClear(c)
      PROVE  TasksInv'
    BY <1>1, <1>4 DEF HttpReceive, ChatClear, XmtpReceive, XmtpAnswer, XmtpReply, serversVars
<1>5. CASE UNCHANGED serversVars
    BY <1>1, <1>5 DEF serversVars
<1>6. CASE Restart
    BY <1>6 DEF Restart, ServersLost, TasksInv
<1>7. CASE UNCHANGED vars
    BY <1>1, <1>7 DEF vars, serversVars
<1> QED BY <1>2, <1>3, <1>4, <1>5, <1>6, <1>7 DEF Next, ServersNext

\* One process serves all protocols with one Map of memories and one of tasks: what is said
\* to an account, a task or a peer over XMTP stays out of the memory of any other, and what
\* is said in a chat is where its client asked for it, which may be any of them.
THEOREM MemoriesAreSeparate == Spec => []ConversationsAreApart
<1>1. MemoryInv /\ TasksInv => ConversationsAreApart
    <2> SUFFICES ASSUME MemoryInv, TasksInv PROVE ConversationsAreApart
        OBVIOUS
    <2>1. \A c \in Conversation : memory[c].said \subseteq Message
        BY DEF MemoryInv, Entry
    <2>2. ASSUME NEW c \in Conversation, NEW m \in memory[c].said
          PROVE  c = IF Protocol[m] = "web" THEN Peer[m] ELSE <<Protocol[m], Peer[m]>>
        BY <2>2 DEF MemoryInv, ConversationOf, ConversationId
    <2>3. ASSUME NEW c \in Conversation, NEW k \in memory[c].said \ Over("web"),
                 NEW m \in memory[c].said \ Over("web")
          PROVE  Protocol[k] = Protocol[m] /\ Peer[k] = Peer[m]
        <3>1. c = <<Protocol[k], Peer[k]>> /\ c = <<Protocol[m], Peer[m]>>
            BY <2>1, <2>2, <2>3 DEF Over
        <3> QED BY <3>1
    <2>4. ASSUME NEW c \in Conversation, NEW m \in memory[c].said \cap Over("web")
          PROVE  Peer[m] = c
        BY <2>2, <2>4 DEF Over
    <2>5. \A t \in DOMAIN tasks : Protocol[tasks[t]] = "a2a" /\ Peer[tasks[t]] = t
        BY DEF TasksInv, Over
    <2> QED BY <2>3, <2>4, <2>5 DEF ConversationsAreApart
<1>2. RelayInv => RelayTyped
    BY DEF RelayInv
<1> QED BY <1>1, <1>2, RelayStart, RelayStep, MemoryStart, MemoryStep, TasksStep, PTL DEF Spec


-----------------------------------------------------------------------------
(* XMTP *)

XmtpMessages == workload \cap Over("xmtp")

\* The loop of its conversation has given the message to the agent.
Begun(m) == job[m].stage \notin {"none", "missed"}

\* A message is taken when those before it are done with, and answered when it was taken.
XmtpInv ==
    /\ workload \subseteq Message
    /\ DOMAIN reply = Message
    /\ \A k, m \in XmtpMessages :
          Thread[k] = Thread[m] /\ k < m /\ Begun(m) => HandledXmtp(k)
    /\ \A m \in XmtpMessages : reply[m] # "none" => Begun(m)

\* What a step may do to one message over XMTP.
XmtpMoves(m) ==
    /\ reply[m] # "none" => reply'[m] # "none"
    /\ job[m].stage \in {"lost", "missed"} => job'[m].stage = job[m].stage
    /\ Begun(m) => Begun(m)'
    /\ Begun(m)' => Begun(m) \/ XmtpTurn(m)
    /\ reply'[m] # "none" => reply[m] # "none" \/ Begun(m)'

\* It does no more than that.
LEMMA XmtpSteps ==
    ASSUME RelayTyped, MemoryInv, XmtpInv, [Next]_vars, NEW x \in Over("xmtp")
    PROVE  XmtpMoves(x)
<1> DEFINE Goal == XmtpMoves(x)
<1>1. x \in Message /\ Protocol[x] = "xmtp" /\ x \notin Request /\ DOMAIN reply = Message
    BY DEF Over, Request, XmtpInv
<1>2. ASSUME UNCHANGED <<job, reply>> PROVE Goal
    BY <1>1, <1>2 DEF XmtpMoves, Begun
<1>3. ASSUME NEW m \in Message \ {x}, StartJob(m) \/ FinishJob(m), workload' = workload,
             reply' = reply \/ reply' = [reply EXCEPT ![m] = "answer"]
      PROVE  Goal
    <2>1. job'[x] = job[x]
        BY <1>1, <1>3, StartIs, FinishIs
    <2>2. reply'[x] = reply[x]
        BY <1>1, <1>3
    <2> QED BY <1>3, <2>1, <2>2 DEF XmtpMoves, Begun
<1>4. ASSUME StartJob(x), XmtpTurn(x), UNCHANGED <<workload, reply>> PROVE Goal
    BY <1>1, <1>4, StartIs DEF XmtpMoves, Begun
<1>5. ASSUME FinishJob(x), UNCHANGED <<workload, reply>> PROVE Goal
    BY <1>1, <1>5, FinishIs DEF XmtpMoves, Begun
<1>6. ASSUME NEW n \in 0 .. Len(inbound), FirstPoll(n) \/ PollInbound(n), UNCHANGED reply PROVE Goal
    BY <1>2, <1>6 DEF FirstPoll, PollInbound, memoryVars
<1>7. ASSUME NEW i \in accepting, Accept(i) \/ AcceptFails(i), UNCHANGED reply PROVE Goal
    BY <1>2, <1>7 DEF Accept, AcceptFails, memoryVars
<1>8. ASSUME NEW t \in DOMAIN monitored, TakeMessage(t), UNCHANGED reply PROVE Goal
    <2>1. PICK r \in Request : StartJob(r)
        BY <1>8, TakeIs
    <2>2. r \in Message \ {x} /\ workload' = workload
        BY <1>1, <2>1 DEF StartJob, Request
    <2> QED BY <1>3, <1>8, <2>1, <2>2
<1>9. ASSUME NEW w \in working, Reply(w) \/ ReplyFails(w), UNCHANGED reply PROVE Goal
    <2>1. PICK r \in Request : r = topics[w.topic].log[w.at].request
        BY WorkIs
    <2>2. FinishJob(r)
        BY <1>9, <2>1 DEF Reply, ReplyFails
    <2>3. r \in Message \ {x} /\ workload' = workload
        BY <1>1, <2>1, <2>2 DEF FinishJob, Request
    <2> QED BY <1>3, <1>9, <2>2, <2>3
<1>10. ASSUME NEW c \in Requester, Connect(c) \/ Connected(c) \/ RequesterRestart(c)
                                              \/ PollForResponses(c), UNCHANGED reply
       PROVE  Goal
    BY <1>2, <1>10 DEF Connect, Connected, RequesterRestart, PollForResponses, memoryVars
<1>11. ASSUME NEW r \in Request, \/ Refuse(r) \/ SendAndWait(r) \/ Sent(r) \/ Await(r)
                                 \/ SendFails(r) \/ TimedOut(r), UNCHANGED reply
       PROVE  Goal
    BY <1>2, <1>11 DEF Refuse, SendAndWait, Sent, Await, SendFails, TimedOut, memoryVars
<1>12. ASSUME NEW m \in Message, HttpReceive(m) \/ HttpAnswer(m) PROVE Goal
    <2>1. m \in Message \ {x} /\ workload' = workload
        BY <1>1, <1>12 DEF HttpReceive, HttpAnswer, Over, StartJob, FinishJob
    <2>2. CASE HttpReceive(m)
        <3>1. StartJob(m) /\ reply' = reply
            BY <2>2 DEF HttpReceive, serversVars
        <3> QED BY <1>3, <2>1, <3>1
    <2>3. CASE HttpAnswer(m)
        <3>1. FinishJob(m) /\ reply' = [reply EXCEPT ![m] = "answer"]
            BY <2>3 DEF HttpAnswer
        <3> QED BY <1>3, <2>1, <3>1
    <2> QED BY <1>12, <2>2, <2>3
<1>13. ASSUME NEW m \in Message, TaskCancel(m) \/ \E c \in Conversation : ChatClear(c) PROVE Goal
    BY <1>2, <1>13 DEF ChatClear, TaskCancel, ClearConversation, serversVars
<1>14. ASSUME NEW m \in Message, XmtpReceive(m) \/ XmtpAnswer(m) PROVE Goal
    <2>1. /\ UNCHANGED <<workload, reply>>
          /\ (StartJob(m) /\ XmtpTurn(m)) \/ FinishJob(m)
        BY <1>14 DEF XmtpReceive, XmtpAnswer, serversVars, StartJob, FinishJob
    <2>2. CASE m = x
        BY <1>4, <1>5, <2>1, <2>2
    <2>3. CASE m # x
        <3>1. m \in Message \ {x}
            BY <2>3
        <3> QED BY <1>3, <2>1, <3>1
    <2> QED BY <2>2, <2>3
<1>15. ASSUME NEW m \in Message, XmtpReply(m) PROVE Goal
    <2>1. PICK text \in {"answer", "error"} : reply' = [reply EXCEPT ![m] = text]
        BY <1>15 DEF XmtpReply
    <2>2. UNCHANGED <<workload, job>> /\ job[m].stage = "answered"
        BY <1>15 DEF XmtpReply, memoryVars
    <2> QED BY <1>1, <2>1, <2>2 DEF XmtpMoves, Begun
<1>16. CASE Restart
    <2>0. PICK missed \in SUBSET XmtpUnread : MemoryLost(missed)
        BY <1>16 DEF Restart
    <2>1. job'[x] = IF x \in missed THEN [job[x] EXCEPT !.stage = "missed"]
                    ELSE IF Processing(x) THEN [job[x] EXCEPT !.stage = "lost"] ELSE job[x]
        BY <1>1, <2>0 DEF MemoryLost
    <2>2. reply'[x] = IF reply[x] = "none" /\ job[x].stage \in {"thinking", "answered"}
                      THEN "gone" ELSE reply[x]
        BY <1>1, <1>16 DEF Restart, ServersLost
    <2>3. job[x] \in Job /\ (x \in missed => job[x].stage = "none")
        BY <1>1 DEF MemoryInv, XmtpUnread
    <2>4. CASE x \in missed
        <3>1. job'[x].stage = "missed" /\ job[x].stage = "none"
            BY <2>1, <2>3, <2>4 DEF Job
        <3> QED BY <2>2, <3>1 DEF XmtpMoves, Begun
    <2>5. CASE x \notin missed
        <3>1. job[x].stage = "thinking" => job'[x].stage = "lost"
            BY <2>1, <2>3, <2>5 DEF Processing, Job
        <3>2. job[x].stage # "thinking" => job'[x].stage = job[x].stage
            BY <2>1, <2>5 DEF Processing
        <3> QED BY <2>2, <3>1, <3>2 DEF XmtpMoves, Begun
    <2> QED BY <2>4, <2>5
<1>17. CASE UNCHANGED vars
    BY <1>2, <1>17 DEF vars, memoryVars, serversVars
<1> QED BY <1>6, <1>7, <1>8, <1>9, <1>10, <1>11, <1>12, <1>13, <1>14, <1>15, <1>16, <1>17
        DEF Next, RelayNext, ServersNext, serversVars

\* The messages of a behaviour stay, and so do their replies.
LEMMA XmtpFixed ==
    ASSUME RelayTyped, [Next]_vars, DOMAIN reply = Message
    PROVE  workload' = workload /\ DOMAIN reply' = Message
<1>1. workload' = workload
    BY MemoryCases DEF memoryVars, StartJob, FinishJob, ClearConversation, MemoryLost
<1>2. CASE reply' = reply
    BY <1>1, <1>2
<1>3. ASSUME NEW m \in Message, HttpAnswer(m) \/ XmtpReply(m) PROVE DOMAIN reply' = Message
    BY <1>3 DEF HttpAnswer, XmtpReply
<1>4. ASSUME NEW m \in Message, \/ HttpReceive(m) \/ TaskCancel(m) \/ XmtpReceive(m)
                                \/ XmtpAnswer(m) \/ \E c \in Conversation : ChatClear(c)
      PROVE  reply' = reply
    BY <1>4 DEF HttpReceive, ChatClear, TaskCancel, XmtpReceive, XmtpAnswer, serversVars
<1>5. CASE Restart
    BY <1>1, <1>5 DEF Restart, ServersLost
<1>6. CASE UNCHANGED serversVars \/ UNCHANGED vars
    BY <1>2, <1>6 DEF vars, serversVars
<1> QED BY <1>1, <1>2, <1>3, <1>4, <1>5, <1>6 DEF Next, ServersNext

\* The order is kept: what is done with stays done with.
LEMMA XmtpStep == RelayTyped /\ MemoryInv /\ XmtpInv /\ [Next]_vars => XmtpInv'
<1> SUFFICES ASSUME RelayTyped, MemoryInv, XmtpInv, [Next]_vars PROVE XmtpInv'
    OBVIOUS
<1>1. workload' = workload /\ DOMAIN reply' = Message
    BY XmtpFixed DEF XmtpInv
<1>2. \A x \in XmtpMessages : XmtpMoves(x) /\ x \in workload /\ x \in Over("xmtp")
    BY XmtpSteps DEF XmtpMessages
<1>3. ASSUME NEW k \in XmtpMessages, HandledXmtp(k) PROVE HandledXmtp(k)'
    BY <1>2, <1>3 DEF HandledXmtp, XmtpMoves
<1>4. ASSUME NEW k \in XmtpMessages, NEW m \in XmtpMessages,
             Thread[k] = Thread[m], k < m, Begun(m)'
      PROVE  HandledXmtp(k)'
    <2>1. CASE Begun(m)
        BY <1>3, <1>4, <2>1 DEF XmtpInv
    <2>2. CASE ~Begun(m)
        <3>1. XmtpTurn(m)
            BY <1>2, <1>4, <2>2 DEF XmtpMoves
        <3> QED BY <1>2, <1>3, <1>4, <3>1 DEF XmtpTurn
    <2> QED BY <2>1, <2>2
<1>5. ASSUME NEW m \in XmtpMessages, reply'[m] # "none" PROVE Begun(m)'
    BY <1>2, <1>5 DEF XmtpInv, XmtpMoves
<1>6. XmtpMessages' = XmtpMessages
    BY <1>1 DEF XmtpMessages, Over
<1> QED BY <1>1, <1>4, <1>5, <1>6 DEF XmtpInv

\* Within an XMTP conversation messages are answered in their order: its loop awaits each,
\* and one that was lost or missed when the process ended is not answered at all.
THEOREM XmtpKeepsOrder == Spec => []XmtpInOrder
<1>1. Init => XmtpInv
    BY MemoryAssumption DEF Init, MemoryInit, ServersInit, XmtpInv, XmtpMessages, NoJob, Begun
<1>2. XmtpInv => XmtpInOrder
    BY DEF XmtpInv, XmtpInOrder, XmtpMessages
<1>3. RelayInv => RelayTyped
    BY DEF RelayInv
<1> QED BY <1>1, <1>2, <1>3, RelayStart, RelayStep, MemoryStart, MemoryStep, XmtpStep, PTL DEF Spec


-----------------------------------------------------------------------------
(* Types *)

ActiveInv == \A c \in DOMAIN active : active[c] \in DOMAIN monitored

\* A connection is remembered when its loop starts, and both end with the process.
LEMMA ActiveStep == ActiveInv /\ [Next]_vars => ActiveInv'
<1> SUFFICES ASSUME ActiveInv, [Next]_vars PROVE ActiveInv'
    OBVIOUS
<1>1. ASSUME active' = active, DOMAIN monitored' = DOMAIN monitored PROVE ActiveInv'
    BY <1>1 DEF ActiveInv
<1>2. ASSUME NEW n \in 0 .. Len(inbound), FirstPoll(n) \/ PollInbound(n) PROVE ActiveInv'
    BY <1>1, <1>2 DEF FirstPoll, PollInbound, serverVars
<1>3. ASSUME NEW i \in accepting, Accept(i) \/ AcceptFails(i) PROVE ActiveInv'
    <2>1. CASE Accept(i)
        BY <2>1 DEF Accept, Put, ActiveInv
    <2>2. CASE AcceptFails(i)
        BY <1>1, <2>2 DEF AcceptFails, serverVars
    <2> QED BY <1>3, <2>1, <2>2
<1>4. ASSUME NEW t \in DOMAIN monitored, TakeMessage(t) PROVE ActiveInv'
    BY <1>1, <1>4 DEF TakeMessage, inboundVars
<1>5. ASSUME NEW w \in working, Reply(w) \/ ReplyFails(w) PROVE ActiveInv'
    BY <1>1, <1>5 DEF Reply, ReplyFails, inboundVars
<1>6. ASSUME NEW c \in Requester, Connect(c) \/ Connected(c) \/ RequesterRestart(c)
                                             \/ PollForResponses(c)
      PROVE  ActiveInv'
    BY <1>1, <1>6 DEF Connect, Connected, RequesterRestart, PollForResponses, inboundVars, serverVars
<1>7. ASSUME NEW r \in Request, \/ Refuse(r) \/ SendAndWait(r) \/ Sent(r) \/ Await(r)
                                \/ SendFails(r) \/ TimedOut(r)
      PROVE  ActiveInv'
    BY <1>1, <1>7 DEF Refuse, SendAndWait, Sent, Await, SendFails, TimedOut, inboundVars, serverVars
<1>8. CASE UNCHANGED relayVars \/ UNCHANGED vars
    BY <1>1, <1>8 DEF vars, relayVars, inboundVars, serverVars
<1>9. CASE Restart
    BY <1>9 DEF Restart, ServerRestart, ActiveInv
<1> QED BY <1>2, <1>3, <1>4, <1>5, <1>6, <1>7, <1>8, <1>9 DEF Next, RelayNext

\* The state of the agents is what the program keeps.
THEOREM AgentsTypeCorrect == Spec => []AgentsTypeOK
<1>1. Init => MapsInOrder /\ ActiveInv
    BY DEF Init, RelayInit, MapsInOrder, PendingCallsWait, Range, CallsOf, ActiveInv
<1>2. RelayInv /\ MapsInOrder /\ MemoryInv /\ ActiveInv => AgentsTypeOK
    <2> SUFFICES ASSUME RelayInv, MapsInOrder, MemoryInv, ActiveInv PROVE AgentsTypeOK
        OBVIOUS
    <2>1. \A r \in Range(job) : r.stage \in {"none", "thinking", "answered", "lost", "missed"}
        BY DEF MemoryInv, Range, Job
    <2> QED BY <2>1 DEF RelayInv, RelayTyped, RequestersTyped, ServerTyped, InboundSeen,
                        MapsInOrder, ActiveInv, AgentsTypeOK, Outcome
<1>3. RelayInv => RelayTyped
    BY DEF RelayInv
<1> QED BY <1>1, <1>2, <1>3, RelayStart, RelayStep, MapsStep, MemoryStart, MemoryStep,
           ActiveStep, PTL DEF Spec


-----------------------------------------------------------------------------
(* What callers are promised *)

\* At place i of topic t, side says something about call r.
Heard(t, i, side, r) ==
    /\ t \in DOMAIN topics /\ i \in DOMAIN topics[t].log
    /\ topics[t].log[i].by = side /\ topics[t].log[i].request = r

\* A step that says nothing.
Silence == \A t, i, side, r : Heard(t, i, side, r)' <=> Heard(t, i, side, r)

\* A step after which one thing more is said.
OneMore(t, i, side, r) ==
    /\ ~ \E by, q : Heard(t, i, by, q)
    /\ \A s, j, by, q : Heard(s, j, by, q)' <=>
                            Heard(s, j, by, q) \/ (s = t /\ j = i /\ by = side /\ q = r)

\* A message more is one thing more that is said.
LEMMA SayIsOneMore ==
    ASSUME topics \in Seq(Topic), NEW t \in DOMAIN topics, NEW m \in Said,
           topics' = Say(topics, t, m)
    PROVE  OneMore(t, Len(topics[t].log) + 1, m.by, m.request)
<1>1. PICK log : log = topics[t].log
    OBVIOUS
<1>2. log \in Seq(Said)
    <2>1. topics[t] \in Topic
        OBVIOUS
    <2> QED BY <1>1, <2>1 DEF Topic
<1>3. PICK n \in Nat : n = Len(log)
    BY <1>2
<1>4. /\ DOMAIN log = 1 .. n /\ DOMAIN Append(log, m) = 1 .. n + 1
      /\ Append(log, m)[n + 1] = m /\ \A i \in 1 .. n : Append(log, m)[i] = log[i]
    BY <1>2, <1>3
<1>5. /\ DOMAIN topics' = DOMAIN topics /\ \A s \in DOMAIN topics : s # t => topics'[s] = topics[s]
      /\ topics'[t].log = Append(log, m)
    BY <1>1, SayIs
<1>6. ~ \E by, q : Heard(t, n + 1, by, q)
    BY <1>1, <1>3, <1>4 DEF Heard
<1>7. ASSUME NEW s, NEW j, NEW by, NEW q, s # t
      PROVE  Heard(s, j, by, q)' <=> Heard(s, j, by, q)
    BY <1>5, <1>7 DEF Heard
<1>8. ASSUME NEW j, NEW by, NEW q
      PROVE  Heard(t, j, by, q)' <=>
                 Heard(t, j, by, q) \/ (j = n + 1 /\ by = m.by /\ q = m.request)
    <2>1. Heard(t, j, by, q) <=> j \in 1 .. n /\ log[j].by = by /\ log[j].request = q
        BY <1>1, <1>4 DEF Heard
    <2>2. Heard(t, j, by, q)' <=>
              j \in 1 .. n + 1 /\ Append(log, m)[j].by = by /\ Append(log, m)[j].request = q
        BY <1>4, <1>5 DEF Heard
    <2>3. j \in 1 .. n + 1 <=> j \in 1 .. n \/ j = n + 1
        BY <1>3
    <2> QED BY <1>3, <1>4, <2>1, <2>2, <2>3
<1>9. ASSUME NEW s, NEW j, NEW by, NEW q
      PROVE  Heard(s, j, by, q)' <=>
                 Heard(s, j, by, q) \/ (s = t /\ j = n + 1 /\ by = m.by /\ q = m.request)
    BY <1>7, <1>8
<1> QED BY <1>1, <1>3, <1>6, <1>9 DEF OneMore

\* Everything a step may say.
LEMMA HeardCases ==
    ASSUME RelayTyped, [Next]_vars
    PROVE  \/ Silence
           \/ \E x \in Request : \E t, i :
                 /\ Sent(x) /\ call[x] = "sending" /\ t = connection[Asked[x]].at
                 /\ OneMore(t, i, "requester", x)
                 /\ \A j, side : ~Heard(t, j, side, x)
           \/ \E w \in working, x \in Request : \E t, i, j :
                 /\ Reply(w) /\ FinishJob(x)
                 /\ OneMore(t, i, "agent", x)
                 /\ Heard(t, j, "requester", x)
<1>1. topics \in Seq(Topic)
    BY DEF RelayTyped, TopicsTyped
<1>2. ASSUME topics' = topics PROVE Silence
    BY <1>2 DEF Silence, Heard
<1>3. ASSUME NEW k \in accepting, ConfirmIs(k) PROVE Silence
    <2>1. k \in Nat
        BY DEF RelayTyped, TopicsTyped
    <2>2. PICK n \in Nat : n = Len(topics)
        BY <1>1
    <2>3. /\ DOMAIN topics = 1 .. n /\ DOMAIN topics' = 1 .. n + 1
          /\ \A s \in 1 .. n : topics'[s] = topics[s]
          /\ topics'[n + 1].log = <<>>
        BY <1>1, <1>3, <2>1, <2>2, CreatedIs DEF ConfirmIs
    <2>4. ASSUME NEW t, NEW i, NEW side, NEW r
          PROVE  Heard(t, i, side, r)' <=> Heard(t, i, side, r)
        <3>1. CASE t = n + 1
            <4>1. t \notin DOMAIN topics /\ DOMAIN topics'[t].log = {}
                BY <2>3, <3>1
            <4> QED BY <4>1 DEF Heard
        <3>2. CASE t # n + 1
            <4>1. t \in DOMAIN topics' <=> t \in DOMAIN topics
                BY <2>3, <3>2
            <4>2. t \in DOMAIN topics => topics'[t] = topics[t]
                BY <2>3
            <4> QED BY <4>1, <4>2 DEF Heard
        <3> QED BY <3>1, <3>2
    <2> QED BY <2>4 DEF Silence
<1>4. ASSUME NEW x \in Request, Sent(x)
      PROVE  \E t, i : /\ Sent(x) /\ call[x] = "sending" /\ t = connection[Asked[x]].at
                       /\ OneMore(t, i, "requester", x)
                       /\ \A j, side : ~Heard(t, j, side, x)
    <2>1. PICK t \in DOMAIN topics :
              /\ t = connection[Asked[x]].at /\ call[x] = "sending"
              /\ \A i \in DOMAIN topics[t].log : topics[t].log[i].request # x
              /\ Question(x) \in Said /\ topics' = Say(topics, t, Question(x))
        BY <1>4, SentSays
    <2>2. OneMore(t, Len(topics[t].log) + 1, Question(x).by, Question(x).request)
        BY <1>1, <2>1, SayIsOneMore
    <2>3. Question(x).by = "requester" /\ Question(x).request = x
        BY DEF Question
    <2>4. \A j, side : ~Heard(t, j, side, x)
        BY <2>1 DEF Heard
    <2> QED BY <1>4, <2>1, <2>2, <2>3, <2>4
<1>5. ASSUME NEW w \in working, Reply(w)
      PROVE  \E x \in Request : \E t, i, j : /\ Reply(w) /\ FinishJob(x)
                                             /\ OneMore(t, i, "agent", x)
                                             /\ Heard(t, j, "requester", x)
    <2>1. PICK t \in DOMAIN topics, x \in Request :
              /\ t = w.topic /\ w.at \in DOMAIN topics[t].log
              /\ x = topics[t].log[w.at].request /\ topics[t].log[w.at].by = "requester"
              /\ FinishJob(x)
              /\ Response(x) \in Said /\ topics' = Say(topics, t, Response(x))
        BY <1>5, ReplySays
    <2>2. OneMore(t, Len(topics[t].log) + 1, Response(x).by, Response(x).request)
        BY <1>1, <2>1, SayIsOneMore
    <2>3. Response(x).by = "agent" /\ Response(x).request = x
        BY DEF Response
    <2>4. Heard(t, w.at, "requester", x)
        BY <2>1 DEF Heard
    <2> QED BY <1>5, <2>1, <2>2, <2>3, <2>4
<1> QED BY <1>2, <1>3, <1>4, <1>5, TopicsCases


\* What a caller has said was said by a call that was made, where its agent is connected.
AskedInv ==
    \A t, i : \A r \in Request : Heard(t, i, "requester", r) =>
        call[r] # "new" /\ (call[r] = "sending" => connection[Asked[r]].at = t)

\* A call does not become new again, and its agent stays connected while it is sent.
LEMMA CallsMove ==
    ASSUME RelayTyped, [Next]_vars, NEW r \in Request, call[r] # "new"
    PROVE  /\ call'[r] # "new"
           /\ call'[r] = "sending" =>
                 call[r] = "sending" /\ connection'[Asked[r]].at = connection[Asked[r]].at
<1> DEFINE Goal == /\ call'[r] # "new"
                   /\ call'[r] = "sending" =>
                         /\ call[r] = "sending"
                         /\ connection'[Asked[r]].at = connection[Asked[r]].at
<1>1. /\ call \in [Request -> {"new", "sending", "waiting", "settled"}]
      /\ DOMAIN connection = Requester /\ Asked[r] \in Requester
      /\ call[r] = "sending" => connection[Asked[r]].phase = "connected"
    BY AskedIs DEF RelayTyped, RequestersTyped
<1>2. ASSUME call'[r] \in {"waiting", "settled"} \/ call'[r] = call[r],
             connection' = connection
      PROVE  Goal
    BY <1>2
<1>3. CASE UNCHANGED <<connection, lastSequence, callVars>>
    BY <1>2, <1>3 DEF callVars
<1>4. ASSUME NEW c \in Requester, Connect(c) \/ Connected(c) PROVE Goal
    <2>1. /\ call' = call /\ connection[c].phase # "connected"
          /\ \E x : connection' = [connection EXCEPT ![c] = x]
        BY <1>4 DEF Connect, Connected, callVars
    <2>2. call[r] = "sending" => c # Asked[r]
        BY <1>1, <2>1
    <2> QED BY <1>1, <2>1, <2>2
<1>5. ASSUME NEW c \in Requester, RequesterRestart(c) PROVE Goal
    <2>1. PICK lost : lost = {q \in CallsOf(c) : call[q] \in {"sending", "waiting"}}
        OBVIOUS
    <2>2. /\ call' = [q \in Request |-> IF q \in lost THEN "settled" ELSE call[q]]
          /\ connection' = [connection EXCEPT ![c] = Off]
        BY <1>5, <2>1 DEF RequesterRestart
    <2>3. call[r] = "sending" /\ Asked[r] = c => r \in lost
        BY <2>1 DEF CallsOf
    <2> QED BY <1>1, <2>2, <2>3
<1>6. ASSUME NEW c \in Requester, PollForResponses(c) PROVE Goal
    <2>1. PICK q \in Request :
              /\ \/ UNCHANGED callVars
                 \/ Settle(Head(pending[c]), Answer(q))
              /\ connection' = connection
        BY <1>6, PollIs
    <2>2. call' = call \/ call' = [call EXCEPT ![Head(pending[c])] = "settled"]
        BY <2>1 DEF Settle, callVars
    <2> QED BY <1>1, <1>2, <2>1, <2>2
<1>7. ASSUME NEW q \in Request, Refuse(q) \/ SendFails(q) \/ TimedOut(q) PROVE Goal
    <2>1. call' = [call EXCEPT ![q] = "settled"] /\ connection' = connection
        BY <1>7 DEF Refuse, SendFails, TimedOut, Settle
    <2> QED BY <1>1, <1>2, <2>1
<1>8. ASSUME NEW q \in Request, Await(q) PROVE Goal
    <2>1. call' = [call EXCEPT ![q] = "waiting"] /\ connection' = connection
        BY <1>8 DEF Await
    <2> QED BY <1>1, <1>2, <2>1
<1>9. ASSUME NEW q \in Request, SendAndWait(q) PROVE Goal
    <2>1. /\ call[q] = "new" /\ call' = [call EXCEPT ![q] = "sending"]
          /\ connection' = connection
        BY <1>9 DEF SendAndWait
    <2> QED BY <1>1, <1>2, <2>1
<1> QED BY <1>3, <1>4, <1>5, <1>6, <1>7, <1>8, <1>9, RequesterCases

\* What callers have said stays true of them.
LEMMA AskedStep == RelayTyped /\ AskedInv /\ [Next]_vars => AskedInv'
<1> SUFFICES ASSUME RelayTyped, AskedInv, [Next]_vars PROVE AskedInv'
    OBVIOUS
<1> DEFINE So(t, r) == call'[r] # "new" /\ (call'[r] = "sending" => connection'[Asked[r]].at = t)
<1>1. SUFFICES ASSUME NEW t, NEW i, NEW r \in Request, Heard(t, i, "requester", r)'
               PROVE  So(t, r)
    BY DEF AskedInv
<1>2. ASSUME Heard(t, i, "requester", r) PROVE So(t, r)
    BY <1>2, CallsMove DEF AskedInv
<1>3. CASE Silence
    BY <1>1, <1>2, <1>3 DEF Silence
<1>4. ASSUME NEW x \in Request, NEW s, NEW j, Sent(x), call[x] = "sending",
             s = connection[Asked[x]].at, OneMore(s, j, "requester", x)
      PROVE  So(t, r)
    <2>1. Heard(t, i, "requester", r) \/ (t = s /\ r = x)
        BY <1>1, <1>4 DEF OneMore
    <2>2. call' = call /\ connection' = connection
        BY <1>4 DEF Sent, callVars
    <2> QED BY <1>2, <1>4, <2>1, <2>2
<1>5. ASSUME NEW x \in Request, NEW s, NEW j, OneMore(s, j, "agent", x) PROVE So(t, r)
    BY <1>1, <1>2, <1>5 DEF OneMore
<1> QED BY <1>3, <1>4, <1>5, HeardCases

\* The agent has answered a call once it has processed it, and at one place.
ProducedInv ==
    \A t, i : \A r \in Request : Heard(t, i, "agent", r) =>
        /\ job[r].stage = "answered"
        /\ \A s, j : Heard(s, j, "agent", r) => s = t /\ j = i

\* What was answered stays answered.
LEMMA AnsweredStays ==
    ASSUME RelayTyped, MemoryInv, [Next]_vars, NEW m \in Message, job[m].stage = "answered"
    PROVE  job'[m].stage = "answered"
<1>1. CASE UNCHANGED memoryVars
    BY <1>1 DEF memoryVars
<1>2. ASSUME NEW k \in Message, StartJob(k) PROVE job'[m].stage = "answered"
    BY <1>2, StartIs
<1>3. ASSUME NEW k \in Message, FinishJob(k) PROVE job'[m].stage = "answered"
    BY <1>3, FinishIs
<1>4. CASE \E c \in Conversation : ClearConversation(c)
    BY <1>4 DEF ClearConversation
<1>5. CASE \E missed \in SUBSET XmtpUnread : MemoryLost(missed)
    BY <1>5 DEF MemoryLost, Processing, XmtpUnread
<1> QED BY <1>1, <1>2, <1>3, <1>4, <1>5, MemoryCases

\* No call is answered twice.
LEMMA ProducedStep == RelayTyped /\ MemoryInv /\ ProducedInv /\ [Next]_vars => ProducedInv'
<1> SUFFICES ASSUME RelayTyped, MemoryInv, ProducedInv, [Next]_vars PROVE ProducedInv'
    OBVIOUS
<1>1. SUFFICES ASSUME NEW t, NEW i, NEW r \in Request, Heard(t, i, "agent", r)'
               PROVE  /\ job'[r].stage = "answered"
                      /\ \A s, j : Heard(s, j, "agent", r)' => s = t /\ j = i
    BY DEF ProducedInv
<1>2. r \in Message
    BY AskedIs
<1>3. ASSUME Heard(t, i, "agent", r) PROVE job'[r].stage = "answered"
    <2>1. job[r].stage = "answered"
        BY <1>3 DEF ProducedInv
    <2> QED BY <1>2, <2>1, AnsweredStays
<1>4. ASSUME \A s, j : Heard(s, j, "agent", r)' <=> Heard(s, j, "agent", r)
      PROVE  /\ job'[r].stage = "answered"
             /\ \A s, j : Heard(s, j, "agent", r)' => s = t /\ j = i
    BY <1>1, <1>3, <1>4 DEF ProducedInv
<1>5. CASE Silence
    BY <1>4, <1>5 DEF Silence
<1>6. ASSUME NEW x \in Request, NEW s, NEW j, OneMore(s, j, "requester", x)
      PROVE  /\ job'[r].stage = "answered"
             /\ \A k, l : Heard(k, l, "agent", r)' => k = t /\ l = i
    <2>1. \A k, l : Heard(k, l, "agent", r)' <=> Heard(k, l, "agent", r)
        BY <1>6 DEF OneMore
    <2> QED BY <1>4, <2>1
<1>7. ASSUME NEW x \in Request, NEW s, NEW j, OneMore(s, j, "agent", x), FinishJob(x)
      PROVE  /\ job'[r].stage = "answered"
             /\ \A k, l : Heard(k, l, "agent", r)' => k = t /\ l = i
    <2>1. CASE x # r
        <3>1. \A k, l : Heard(k, l, "agent", r)' <=> Heard(k, l, "agent", r)
            BY <1>7, <2>1 DEF OneMore
        <3> QED BY <1>4, <3>1
    <2>2. CASE x = r
        <3>1. job[r].stage = "thinking" /\ job'[r].stage = "answered"
            BY <1>2, <1>7, <2>2, FinishIs
        <3>2. \A k, l : ~Heard(k, l, "agent", r)
            BY <3>1 DEF ProducedInv
        <3>3. \A k, l : Heard(k, l, "agent", r)' => k = s /\ l = j
            BY <1>7, <2>2, <3>2 DEF OneMore
        <3>4. t = s /\ i = j
            BY <1>1, <3>3
        <3> QED BY <3>1, <3>3, <3>4
    <2> QED BY <2>1, <2>2
<1> QED BY <1>5, <1>6, <1>7, HeardCases


\* A requester connects over its own connection request.
ConnectionsInv ==
    \A c \in Requester :
        /\ connection[c].phase = "requesting" =>
              connection[c].at \in DOMAIN inbound /\ inbound[connection[c].at].from = c
        /\ connection[c].phase = "connected" =>
              inbound[topics[connection[c].at].request].from = c

\* It never gets to hold that of another.
LEMMA ConnectionsStep == RelayTyped /\ ConnectionsInv /\ [Next]_vars => ConnectionsInv'
<1> SUFFICES ASSUME RelayTyped, ConnectionsInv, [Next]_vars PROVE ConnectionsInv'
    OBVIOUS
<1> DEFINE Own(c) == /\ connection'[c].phase = "requesting" =>
                           /\ connection'[c].at \in DOMAIN inbound'
                           /\ inbound'[connection'[c].at].from = c
                     /\ connection'[c].phase = "connected" =>
                           inbound'[topics'[connection'[c].at].request].from = c
<1>1. /\ DOMAIN inbound \subseteq DOMAIN inbound' /\ inbound \in Seq(Inbound)
      /\ \A i \in DOMAIN inbound : inbound'[i] = inbound[i]
      /\ \A t \in DOMAIN topics : /\ topics'[t].request = topics[t].request
                                  /\ topics[t].request \in DOMAIN inbound
      /\ DOMAIN connection = Requester
      /\ \A c \in Requester : connection[c].phase = "connected" => connection[c].at \in DOMAIN topics
    BY TopicsGrow DEF Grown, RelayTyped, TopicsTyped, RequestersTyped
<1>2. SUFFICES \A c \in Requester : Own(c)
    BY DEF ConnectionsInv
<1>3. ASSUME NEW c \in Requester, connection'[c] = connection[c] PROVE Own(c)
    BY <1>1, <1>3 DEF ConnectionsInv
<1>4. ASSUME connection' = connection PROVE \A c \in Requester : Own(c)
    BY <1>3, <1>4
<1>5. ASSUME NEW c \in Requester, Own(c), NEW x, connection' = [connection EXCEPT ![c] = x]
      PROVE  \A d \in Requester : Own(d)
    BY <1>1, <1>3, <1>5
<1>6. ASSUME NEW c \in Requester, Connect(c) PROVE \A d \in Requester : Own(d)
    <2>1. PICK n \in Nat : n = Len(inbound) + 1
        BY <1>1
    <2>2. PICK x : x = [phase |-> "requesting", at |-> n]
        OBVIOUS
    <2>3. PICK m : m = [op |-> "request", from |-> c]
        OBVIOUS
    <2>4. connection' = [connection EXCEPT ![c] = x] /\ inbound' = Append(inbound, m)
        BY <1>6, <2>1, <2>2, <2>3 DEF Connect
    <2>5. n \in DOMAIN inbound' /\ inbound'[n] = m
        BY <1>1, <2>1, <2>4
    <2>6. connection'[c] = x /\ x.phase = "requesting" /\ x.at = n /\ m.from = c
        BY <1>1, <2>2, <2>3, <2>4
    <2>7. Own(c)
        BY <2>5, <2>6
    <2> QED BY <1>5, <2>4, <2>7
<1>7. ASSUME NEW c \in Requester, Connected(c) PROVE \A d \in Requester : Own(d)
    <2>1. PICK t \in DOMAIN topics :
              /\ topics[t].request = connection[c].at /\ connection[c].phase = "requesting"
              /\ connection' = [connection EXCEPT ![c] = [phase |-> "connected", at |-> t]]
        BY <1>7, ConnectedIs
    <2>2. PICK x : x = [phase |-> "connected", at |-> t]
        OBVIOUS
    <2>3. connection'[c] = x /\ x.phase = "connected" /\ x.at = t
        BY <1>1, <2>1, <2>2
    <2>4. inbound[topics[t].request].from = c
        BY <2>1 DEF ConnectionsInv
    <2>5. Own(c)
        BY <1>1, <2>1, <2>3, <2>4
    <2> QED BY <1>5, <2>1, <2>5
<1>8. ASSUME NEW c \in Requester, RequesterRestart(c) PROVE \A d \in Requester : Own(d)
    <2>1. connection' = [connection EXCEPT ![c] = Off] /\ connection'[c].phase = "off"
        BY <1>1, <1>8 DEF RequesterRestart, Off
    <2> QED BY <1>5, <2>1
<1>9. ASSUME NEW c \in Requester, PollForResponses(c) PROVE connection' = connection
    BY <1>9 DEF PollForResponses
<1>10. ASSUME NEW r \in Request, \/ Refuse(r) \/ SendAndWait(r) \/ Await(r)
                                 \/ SendFails(r) \/ TimedOut(r)
       PROVE  connection' = connection
    BY <1>10 DEF Refuse, SendAndWait, Await, SendFails, TimedOut
<1> QED BY <1>4, <1>6, <1>7, <1>8, <1>9, <1>10, RequesterCases

\* Nobody will read place i of topic t any more.
Delivered(t, i) ==
    \A c \in Requester :
        /\ connection[c].phase = "connected" /\ connection[c].at = t => i <= lastSequence[c]
        /\ connection[c].phase = "requesting" => connection[c].at # topics[t].request

\* What was delivered is not read again, whoever connects: a requester that starts anew
\* makes a new connection request, and lastSequence only grows.
LEMMA DeliveredStays ==
    ASSUME RelayTyped, [Next]_vars, NEW t \in DOMAIN topics, NEW i \in Nat, Delivered(t, i)
    PROVE  Delivered(t, i)'
<1> DEFINE Past(c) == /\ connection'[c].phase = "connected" /\ connection'[c].at = t =>
                            i <= lastSequence'[c]
                      /\ connection'[c].phase = "requesting" =>
                            connection'[c].at # topics'[t].request
<1>1. /\ topics'[t].request = topics[t].request /\ topics[t].request \in DOMAIN inbound
      /\ inbound \in Seq(Inbound)
      /\ DOMAIN connection = Requester /\ lastSequence \in [Requester -> Nat]
    BY TopicsGrow DEF Grown, RelayTyped, TopicsTyped, RequestersTyped
<1>2. SUFFICES \A c \in Requester : Past(c)
    BY DEF Delivered
<1>3. ASSUME NEW c \in Requester, connection'[c] = connection[c], lastSequence'[c] = lastSequence[c]
      PROVE  Past(c)
    BY <1>1, <1>3 DEF Delivered
<1>4. ASSUME connection' = connection, lastSequence' = lastSequence
      PROVE  \A c \in Requester : Past(c)
    BY <1>3, <1>4
<1>5. ASSUME NEW c \in Requester, Past(c),
             \A d \in Requester \ {c} : /\ connection'[d] = connection[d]
                                        /\ lastSequence'[d] = lastSequence[d]
      PROVE  \A d \in Requester : Past(d)
    BY <1>3, <1>5
<1>6. ASSUME NEW c \in Requester, Connect(c) PROVE \A d \in Requester : Past(d)
    <2>1. PICK x : x = [phase |-> "requesting", at |-> Len(inbound) + 1]
        OBVIOUS
    <2>2. connection' = [connection EXCEPT ![c] = x] /\ lastSequence' = lastSequence
        BY <1>6, <2>1 DEF Connect
    <2>3. connection'[c] = x /\ x.phase = "requesting" /\ x.at = Len(inbound) + 1
        BY <1>1, <2>1, <2>2
    <2>4. topics[t].request # Len(inbound) + 1
        BY <1>1
    <2>5. Past(c)
        BY <1>1, <2>3, <2>4
    <2> QED BY <1>1, <1>5, <2>2, <2>5
<1>7. ASSUME NEW c \in Requester, Connected(c) PROVE \A d \in Requester : Past(d)
    <2>1. PICK u \in DOMAIN topics :
              /\ topics[u].request = connection[c].at /\ connection[c].phase = "requesting"
              /\ connection' = [connection EXCEPT ![c] = [phase |-> "connected", at |-> u]]
              /\ lastSequence' = lastSequence
        BY <1>7, ConnectedIs
    <2>2. PICK x : x = [phase |-> "connected", at |-> u]
        OBVIOUS
    <2>3. connection'[c] = x /\ x.phase = "connected" /\ x.at = u
        BY <1>1, <2>1, <2>2
    <2>4. u # t
        BY <2>1 DEF Delivered
    <2>5. Past(c)
        BY <2>3, <2>4
    <2> QED BY <1>1, <1>5, <2>1, <2>5
<1>8. ASSUME NEW c \in Requester, RequesterRestart(c) PROVE \A d \in Requester : Past(d)
    <2>1. /\ connection' = [connection EXCEPT ![c] = Off]
          /\ lastSequence' = [lastSequence EXCEPT ![c] = 0]
        BY <1>8 DEF RequesterRestart
    <2>2. connection'[c].phase = "off"
        BY <1>1, <2>1 DEF Off
    <2> QED BY <1>1, <1>5, <2>1, <2>2
<1>9. ASSUME NEW c \in Requester, PollForResponses(c) PROVE \A d \in Requester : Past(d)
    <2>1. PICK j \in Nat : /\ j > lastSequence[c] /\ connection' = connection
                           /\ lastSequence' = [lastSequence EXCEPT ![c] = j]
        BY <1>9, PollIs
    <2>2. lastSequence'[c] = j /\ lastSequence[c] \in Nat
        BY <1>1, <2>1
    <2>3. Past(c)
        BY <1>1, <2>1, <2>2 DEF Delivered
    <2> QED BY <1>1, <1>5, <2>1, <2>3
<1>10. ASSUME NEW r \in Request, \/ Refuse(r) \/ SendAndWait(r) \/ Await(r)
                                 \/ SendFails(r) \/ TimedOut(r)
       PROVE  connection' = connection /\ lastSequence' = lastSequence
    BY <1>10 DEF Refuse, SendAndWait, Await, SendFails, TimedOut
<1> QED BY <1>4, <1>6, <1>7, <1>8, <1>9, <1>10, RequesterCases

\* A poll delivers what it reads, since nobody else is connected to the topic.
LEMMA PollDelivers ==
    ASSUME RelayTyped, ConnectionsInv, NEW c \in Requester, connection[c].phase = "connected",
           NEW t \in DOMAIN topics, t = connection[c].at, NEW i \in Nat,
           lastSequence' = [lastSequence EXCEPT ![c] = i], UNCHANGED <<connection, topics>>
    PROVE  Delivered(t, i)'
<1>1. lastSequence'[c] = i
    BY DEF RelayTyped, RequestersTyped
<1>2. inbound[topics[t].request].from = c
    BY DEF ConnectionsInv
<1>3. ASSUME NEW d \in Requester, connection[d].phase = "connected", connection[d].at = t
      PROVE  i <= lastSequence'[d]
    <2>1. d = c
        BY <1>2, <1>3 DEF ConnectionsInv
    <2> QED BY <1>1, <2>1
<1>4. ASSUME NEW d \in Requester, connection[d].phase = "requesting"
      PROVE  connection[d].at # topics[t].request
    BY <1>2, <1>4 DEF ConnectionsInv
<1> QED BY <1>3, <1>4 DEF Delivered


\* Callers that have not been settled have no outcome.
OpenInv == \A r \in Request : call[r] # "settled" => result[r] = Open

\* Callers fail together.
Failed(R) ==
    /\ R \subseteq Request /\ \A r \in R : result[r] = Open
    /\ result' = [r \in Request |-> IF r \in R THEN Error ELSE result[r]]

\* s receives the answer to q, which c has found at place i of topic t.
Received(c, t, i, q, s) ==
    /\ result[s] = Open /\ result' = [result EXCEPT ![s] = Answer(q)]
    /\ connection[c].phase = "connected" /\ t = connection[c].at
    /\ i > lastSequence[c] /\ lastSequence' = [lastSequence EXCEPT ![c] = i]
    /\ Heard(t, i, "agent", q)
    /\ UNCHANGED <<connection, topics>>

\* Everything a step may do to the outcomes of calls.
LEMMA OutcomeCases ==
    ASSUME RelayTyped, MapsInOrder, OpenInv, [Next]_vars
    PROVE  /\ OpenInv'
           /\ \/ result' = result
              \/ \E R : Failed(R)
              \/ \E c \in Requester, t \in DOMAIN topics, i \in Nat, q \in Request, s \in Request :
                    Received(c, t, i, q, s)
<1> DEFINE Receives == \E c \in Requester, t \in DOMAIN topics, i \in Nat, q \in Request, s \in Request :
                           Received(c, t, i, q, s)
           Goal == OpenInv' /\ (result' = result \/ (\E R : Failed(R)) \/ Receives)
<1>1. /\ call \in [Request -> {"new", "sending", "waiting", "settled"}]
      /\ result \in [Request -> Outcome]
      /\ pending \in [Requester -> Seq(Request)]
      /\ \A c \in Requester : CallsOf(c) \subseteq Request
    BY DEF RelayTyped, RequestersTyped, CallsOf
<1>2. ASSUME UNCHANGED <<call, result>> PROVE Goal
    BY <1>2 DEF OpenInv
<1>3. ASSUME NEW R, R \subseteq Request, \A r \in R : call[r] # "settled",
             call' = [r \in Request |-> IF r \in R THEN "settled" ELSE call[r]],
             result' = [r \in Request |-> IF r \in R THEN Error ELSE result[r]]
      PROVE  Goal
    <2>1. Failed(R)
        BY <1>3 DEF Failed, OpenInv
    <2>2. OpenInv'
        BY <1>3 DEF OpenInv
    <2> QED BY <2>1, <2>2
<1>4. ASSUME NEW r \in Request, call[r] # "settled", Settle(r, Error) PROVE Goal
    <2>1. PICK R : R = {r}
        OBVIOUS
    <2>2. /\ call' = [q \in Request |-> IF q \in R THEN "settled" ELSE call[q]]
          /\ result' = [q \in Request |-> IF q \in R THEN Error ELSE result[q]]
        BY <1>1, <1>4, <2>1 DEF Settle
    <2>3. R \subseteq Request /\ \A q \in R : call[q] # "settled"
        BY <1>4, <2>1
    <2> QED BY <1>3, <2>2, <2>3
<1>5. CASE UNCHANGED <<connection, lastSequence, callVars>>
    BY <1>2, <1>5 DEF callVars
<1>6. ASSUME NEW c \in Requester, Connect(c) \/ Connected(c) PROVE Goal
    BY <1>2, <1>6 DEF Connect, Connected, callVars
<1>7. ASSUME NEW c \in Requester, RequesterRestart(c) PROVE Goal
    <2>1. PICK lost : lost = {r \in CallsOf(c) : call[r] \in {"sending", "waiting"}}
        OBVIOUS
    <2>2. lost \subseteq Request /\ \A r \in lost : call[r] # "settled"
        BY <1>1, <2>1
    <2>3. /\ call' = [r \in Request |-> IF r \in lost THEN "settled" ELSE call[r]]
          /\ result' = [r \in Request |-> IF r \in lost THEN Error ELSE result[r]]
        BY <1>7, <2>1 DEF RequesterRestart
    <2> QED BY <1>3, <2>2, <2>3
<1>8. ASSUME NEW c \in Requester, PollForResponses(c) PROVE Goal
    <2>1. PICK t \in DOMAIN topics : \E i \in DOMAIN topics[t].log, q \in Request :
              /\ connection[c].phase = "connected" /\ t = connection[c].at
              /\ i \in Nat /\ i > lastSequence[c]
              /\ topics[t].log[i].by = "agent" /\ q = topics[t].log[i].request
              /\ lastSequence' = [lastSequence EXCEPT ![c] = i]
              /\ \/ pending[c] = <<>> /\ UNCHANGED callVars
                 \/ /\ pending[c] # <<>>
                    /\ Settle(Head(pending[c]), Answer(q))
              /\ UNCHANGED <<topics, connection>>
        BY <1>8, PollIs
    <2>2. PICK i \in DOMAIN topics[t].log, q \in Request :
              /\ connection[c].phase = "connected" /\ t = connection[c].at
              /\ i \in Nat /\ i > lastSequence[c]
              /\ topics[t].log[i].by = "agent" /\ q = topics[t].log[i].request
              /\ lastSequence' = [lastSequence EXCEPT ![c] = i]
              /\ \/ pending[c] = <<>> /\ UNCHANGED callVars
                 \/ /\ pending[c] # <<>>
                    /\ Settle(Head(pending[c]), Answer(q))
              /\ UNCHANGED <<topics, connection>>
        BY <2>1
    <2>3. CASE UNCHANGED callVars
        BY <1>2, <2>3 DEF callVars
    <2>4. CASE pending[c] # <<>> /\ Settle(Head(pending[c]), Answer(q))
        <3>1. PICK s : s = Head(pending[c])
            OBVIOUS
        <3>2. pending[c] \in Seq(Request)
            BY <1>1
        <3>3. s \in Range(pending[c])
            <4>1. 1 \in DOMAIN pending[c] /\ s = pending[c][1]
                BY <2>4, <3>1, <3>2
            <4> QED BY <4>1 DEF Range
        <3>4. s \in Request /\ call[s] = "waiting"
            BY <1>1, <3>3 DEF MapsInOrder, PendingCallsWait
        <3>5. result[s] = Open
            BY <3>4 DEF OpenInv
        <3>6. call' = [call EXCEPT ![s] = "settled"] /\ result' = [result EXCEPT ![s] = Answer(q)]
            BY <2>4, <3>1 DEF Settle
        <3>7. Heard(t, i, "agent", q)
            BY <2>2 DEF Heard
        <3>8. Received(c, t, i, q, s)
            BY <2>2, <3>5, <3>6, <3>7 DEF Received
        <3>9. OpenInv'
            BY <1>1, <3>4, <3>6 DEF OpenInv
        <3> QED BY <2>2, <3>4, <3>8, <3>9
    <2> QED BY <2>2, <2>3, <2>4
<1>9. ASSUME NEW r \in Request, Refuse(r) \/ SendFails(r) \/ TimedOut(r) PROVE Goal
    BY <1>4, <1>9 DEF Refuse, SendFails, TimedOut
<1>10. ASSUME NEW r \in Request, SendAndWait(r) \/ Await(r) PROVE Goal
    <2>1. /\ result' = result /\ call[r] # "settled"
          /\ \E x : call' = [call EXCEPT ![r] = x]
        BY <1>10 DEF SendAndWait, Await
    <2> QED BY <1>1, <2>1 DEF OpenInv
<1> QED BY <1>5, <1>6, <1>7, <1>8, <1>9, <1>10, RequesterCases

\* An answer that a caller has was delivered.
ReceivedInv ==
    \A s, q \in Request : result[s] = Answer(q) =>
        \E t, i : Heard(t, i, "agent", q) /\ i \in Nat /\ Delivered(t, i)

\* What was said stays.
LEMMA HeardStays ==
    ASSUME RelayTyped, [Next]_vars, NEW t, NEW i, NEW side, NEW r, Heard(t, i, side, r)
    PROVE  Heard(t, i, side, r)' /\ t \in DOMAIN topics
<1>1. Heard(t, i, side, r)'
    BY HeardCases DEF Silence, OneMore
<1> QED BY <1>1 DEF Heard

\* Three outcomes, told apart by their kind.
LEMMA Outcomes ==
    /\ \A q : Error # Answer(q) /\ Open # Answer(q)
    /\ \A q, r : Answer(q) = Answer(r) => q = r
<1>1. \A q : Error.kind # Answer(q).kind /\ Open.kind # Answer(q).kind
    BY DEF Error, Open, Answer
<1>2. \A q : Answer(q).to = q
    BY DEF Answer
<1> QED BY <1>1, <1>2

\* Answers that callers get are delivered with them.
LEMMA ReceivedStep ==
    ASSUME RelayTyped, MapsInOrder, OpenInv, ConnectionsInv, ReceivedInv, [Next]_vars
    PROVE  ReceivedInv'
<1> DEFINE Got(q) == \E t, i : Heard(t, i, "agent", q)' /\ i \in Nat /\ Delivered(t, i)'
<1>1. ASSUME NEW s \in Request, NEW q \in Request, result[s] = Answer(q) PROVE Got(q)
    <2>1. PICK t, i : Heard(t, i, "agent", q) /\ i \in Nat /\ Delivered(t, i)
        BY <1>1 DEF ReceivedInv
    <2>2. Heard(t, i, "agent", q)' /\ t \in DOMAIN topics
        BY <2>1, HeardStays
    <2>3. Delivered(t, i)'
        BY <2>1, <2>2, DeliveredStays
    <2> QED BY <2>1, <2>2, <2>3
<1>2. ASSUME NEW s \in Request, NEW q \in Request, result'[s] = Answer(q) PROVE Got(q)
    <2>1. CASE result' = result
        BY <1>1, <1>2, <2>1
    <2>2. ASSUME NEW R, Failed(R) PROVE Got(q)
        <3>1. result'[s] = Error \/ result'[s] = result[s]
            BY <2>2 DEF Failed
        <3> QED BY <1>1, <1>2, <3>1, Outcomes
    <2>3. ASSUME NEW c \in Requester, NEW t \in DOMAIN topics, NEW i \in Nat,
                 NEW p \in Request, NEW r \in Request, Received(c, t, i, p, r)
          PROVE  Got(q)
        <3>1. CASE s # r
            <4>1. result'[s] = result[s]
                BY <2>3, <3>1 DEF Received
            <4> QED BY <1>1, <1>2, <4>1
        <3>2. CASE s = r
            <4>1. result'[s] = Answer(p)
                BY <2>3, <3>2 DEF Received, RelayTyped, RequestersTyped
            <4>2. p = q
                BY <1>2, <4>1, Outcomes
            <4>3. Heard(t, i, "agent", q)'
                BY <2>3, <4>2, HeardStays DEF Received
            <4>4. Delivered(t, i)'
                BY <2>3, PollDelivers DEF Received
            <4> QED BY <4>3, <4>4
        <3> QED BY <3>1, <3>2
    <2> QED BY <2>1, <2>2, <2>3, OutcomeCases
<1> QED BY <1>2 DEF ReceivedInv

\* Everything the promise rests on.
AnswersInv ==
    /\ RelayInv /\ MapsInOrder /\ MemoryInv
    /\ AskedInv /\ ProducedInv /\ ConnectionsInv /\ OpenInv /\ ReceivedInv

\* It holds at first.
LEMMA AnswersStart == Init => AnswersInv
<1> SUFFICES ASSUME Init PROVE AnswersInv
    OBVIOUS
<1>1. MapsInOrder
    BY DEF Init, RelayInit, MapsInOrder, PendingCallsWait, Range, CallsOf
<1>2. \A t, i, side, r : ~Heard(t, i, side, r)
    BY DEF Init, RelayInit, Heard
<1>3. OpenInv /\ ConnectionsInv
    BY DEF Init, RelayInit, OpenInv, ConnectionsInv, Off
<1>4. ReceivedInv
    BY Outcomes DEF Init, RelayInit, ReceivedInv
<1> QED BY <1>1, <1>2, <1>3, <1>4, RelayStart, MemoryStart DEF AnswersInv, AskedInv, ProducedInv

\* It is kept.
LEMMA AnswersStep == AnswersInv /\ [Next]_vars => AnswersInv'
BY RelayStep, MapsStep, MemoryStep, AskedStep, ProducedStep, ConnectionsStep, OutcomeCases,
   ReceivedStep DEF AnswersInv, RelayInv


\* The questions and answers on the topics are those that were heard.
LEMMA OnTopicsIs ==
    ASSUME NEW side
    PROVE  /\ OnTopics(side) = {r \in Request : \E t, i : Heard(t, i, side, r)}
           /\ OnTopics(side)' = {r \in Request : \E t, i : Heard(t, i, side, r)'}
<1>1. ASSUME NEW r \in Request
      PROVE  (\E t \in DOMAIN topics : \E m \in Range(topics[t].log) : m.by = side /\ m.request = r)
                 <=> \E t, i : Heard(t, i, side, r)
    BY DEF Heard, Range
<1>2. ASSUME NEW r \in Request
      PROVE  (\E t \in DOMAIN topics' : \E m \in Range(topics'[t].log) : m.by = side /\ m.request = r)
                 <=> \E t, i : Heard(t, i, side, r)'
    BY DEF Heard, Range
<1> QED BY <1>1, <1>2 DEF OnTopics

\* A step that says nothing of one side changes nothing of it, and one that says a thing
\* more adds what it is about.
LEMMA OnTopicsMove ==
    ASSUME NEW side
    PROVE  /\ Silence => OnTopics(side)' = OnTopics(side)
           /\ \A t, i, by : \A x \in Request : OneMore(t, i, by, x) =>
                 OnTopics(side)' = IF by = side THEN OnTopics(side) \cup {x} ELSE OnTopics(side)
<1>1. ASSUME Silence PROVE OnTopics(side)' = OnTopics(side)
    <2>1. \A t, i, r : Heard(t, i, side, r)' <=> Heard(t, i, side, r)
        BY <1>1 DEF Silence
    <2> QED BY <2>1, OnTopicsIs
<1>2. ASSUME NEW t, NEW i, NEW by, NEW x \in Request, OneMore(t, i, by, x)
      PROVE  OnTopics(side)' = IF by = side THEN OnTopics(side) \cup {x} ELSE OnTopics(side)
    <2>1. \A s, j, r : Heard(s, j, side, r)' <=>
                           Heard(s, j, side, r) \/ (s = t /\ j = i /\ by = side /\ r = x)
        BY <1>2 DEF OneMore
    <2>2. \A r : (\E s, j : Heard(s, j, side, r)') <=>
                     (\E s, j : Heard(s, j, side, r)) \/ (by = side /\ r = x)
        BY <2>1
    <2> QED BY <2>2, OnTopicsIs
<1> QED BY <1>1, <1>2

\* A step of the agents is a step of what they promise, or none.
LEMMA AnswersRefine == AnswersInv /\ [Next]_vars => [Abstract!Next]_(Abstract!answerVars)
<1> SUFFICES ASSUME AnswersInv, [Next]_vars PROVE Abstract!Next \/ UNCHANGED Abstract!answerVars
    OBVIOUS
<1>1. RelayTyped /\ MapsInOrder /\ OpenInv /\ MemoryInv
    BY DEF AnswersInv, RelayInv
<1>2. CASE Silence
    <2>1. OnTopics("requester")' = OnTopics("requester") /\ OnTopics("agent")' = OnTopics("agent")
        BY <1>2, OnTopicsMove
    <2>2. CASE result' = result
        BY <2>1, <2>2 DEF Abstract!answerVars
    <2>3. ASSUME NEW R, Failed(R) PROVE Abstract!Next
        <3>1. Abstract!Fail(R)
            BY <2>1, <2>3 DEF Failed, Abstract!Fail, Abstract!Open, Abstract!Error, Open, Error
        <3>2. R \in SUBSET Request
            BY <2>3 DEF Failed
        <3> QED BY <3>1, <3>2 DEF Abstract!Next
    <2>4. ASSUME NEW c \in Requester, NEW t \in DOMAIN topics, NEW i \in Nat,
                 NEW q \in Request, NEW s \in Request, Received(c, t, i, q, s)
          PROVE  Abstract!Next
        <3>1. q \in OnTopics("agent")
            BY <2>4, OnTopicsIs DEF Received
        <3>2. ASSUME NEW r \in Request, result[r] = Answer(q) PROVE FALSE
            <4>1. PICK u, j : Heard(u, j, "agent", q) /\ j \in Nat /\ Delivered(u, j)
                BY <3>2 DEF AnswersInv, ReceivedInv
            <4>2. u = t /\ j = i
                BY <2>4, <4>1 DEF AnswersInv, ProducedInv, Received
            <4>3. i <= lastSequence[c] /\ i > lastSequence[c] /\ lastSequence[c] \in Nat
                BY <1>1, <2>4, <4>1, <4>2 DEF Delivered, Received, RelayTyped, RequestersTyped
            <4> QED BY <4>3
        <3>3. Abstract!Receive(s, q)
            BY <2>1, <2>4, <3>1, <3>2
               DEF Received, Abstract!Receive, Abstract!Open, Abstract!Answer, Open, Answer
        <3> QED BY <3>3 DEF Abstract!Next
    <2> QED BY <1>1, <2>2, <2>3, <2>4, OutcomeCases
<1>3. ASSUME NEW x \in Request, NEW t, NEW i, Sent(x), call[x] = "sending",
             t = connection[Asked[x]].at, OneMore(t, i, "requester", x),
             \A j, side : ~Heard(t, j, side, x)
      PROVE  Abstract!Next
    <2>1. /\ OnTopics("requester")' = OnTopics("requester") \cup {x}
          /\ OnTopics("agent")' = OnTopics("agent")
        BY <1>3, OnTopicsMove
    <2>2. x \notin OnTopics("requester")
        <3>1. \A s, j : ~Heard(s, j, "requester", x)
            BY <1>3 DEF AnswersInv, AskedInv
        <3> QED BY <3>1, OnTopicsIs
    <2>3. result' = result
        BY <1>3 DEF Sent, callVars
    <2>4. Abstract!Ask(x)
        BY <2>1, <2>2, <2>3 DEF Abstract!Ask
    <2> QED BY <2>4 DEF Abstract!Next
<1>4. ASSUME NEW w \in working, NEW x \in Request, NEW t, NEW i, NEW j, Reply(w), FinishJob(x),
             OneMore(t, i, "agent", x), Heard(t, j, "requester", x)
      PROVE  Abstract!Next
    <2>1. /\ OnTopics("requester")' = OnTopics("requester")
          /\ OnTopics("agent")' = OnTopics("agent") \cup {x}
        BY <1>4, OnTopicsMove
    <2>2. x \in OnTopics("requester")
        BY <1>4, OnTopicsIs
    <2>3. x \notin OnTopics("agent")
        <3>1. job[x].stage = "thinking"
            BY <1>4 DEF FinishJob, Processing
        <3>2. \A s, k : ~Heard(s, k, "agent", x)
            BY <3>1 DEF AnswersInv, ProducedInv
        <3> QED BY <3>2, OnTopicsIs
    <2>4. result' = result
        BY <1>4 DEF Reply, callVars
    <2>5. Abstract!Produce(x)
        BY <2>1, <2>2, <2>3, <2>4 DEF Abstract!Produce
    <2> QED BY <2>5 DEF Abstract!Next
<1> QED BY <1>1, <1>2, <1>3, <1>4, HeardCases

\* However polls overlap, messages get lost and processes end: a question is put to the
\* agent at most once and answered at most once, and no answer is given to two callers.
THEOREM AgentsKeepThePromise == Spec => ImplementsAnswerService
<1>1. Init => Abstract!Init
    <2> SUFFICES ASSUME Init PROVE Abstract!Init
        OBVIOUS
    <2>1. \A t, i, side, r : ~Heard(t, i, side, r)
        BY DEF Init, RelayInit, Heard
    <2>2. OnTopics("requester") = {} /\ OnTopics("agent") = {}
        BY <2>1, OnTopicsIs
    <2>3. result = [r \in Request |-> Open]
        BY DEF Init, RelayInit
    <2> QED BY <2>2, <2>3 DEF Abstract!Init, Abstract!Open, Open
<1> QED BY <1>1, AnswersStart, AnswersStep, AnswersRefine, PTL
        DEF Spec, ImplementsAnswerService, Abstract!Spec
=============================================================================
