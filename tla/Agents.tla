------------------------------- MODULE Agents -------------------------------
(***************************************************************************)
(* The Attestify agent (bounty/agent/src/index.ts) as one process that     *)
(* serves HCS-10, HTTP and XMTP with one memory, and the verification      *)
(* agents that talk to it.  An error nobody catches ends it for all.       *)
(***************************************************************************)
EXTENDS AgentRelay, AgentServers

vars == <<memoryVars, relayVars, serversVars>>

Init == MemoryInit /\ RelayInit /\ ServersInit

\* The process ends, for example by an unhandledRejection, and is started again.
Restart ==
    /\ ServerRestart /\ ServersLost
    /\ \E missed \in SUBSET XmtpUnread : MemoryLost(missed)

Next ==
    \/ RelayNext /\ UNCHANGED serversVars
    \/ ServersNext /\ UNCHANGED relayVars
    \/ Restart

Spec == Init /\ [][Next]_vars

\* Timers fire, a submission to a topic ends one way or the other, and so does a call
\* of the language model.
Fairness ==
    /\ \A r \in Request : WF_vars(TimedOut(r) /\ UNCHANGED serversVars)
    /\ \A r \in Request : WF_vars((Sent(r) \/ Await(r) \/ SendFails(r)) /\ UNCHANGED serversVars)
    /\ \A m \in Message \ Request : WF_vars((HttpAnswer(m) \/ XmtpAnswer(m) \/ XmtpReply(m))
                                            /\ UNCHANGED relayVars)

FairSpec == Spec /\ Fairness

-----------------------------------------------------------------------------
(* Properties *)

OnTopics(side) == {r \in Request : \E t \in DOMAIN topics : \E m \in Range(topics[t].log) :
                                    m.by = side /\ m.request = r}

Abstract == INSTANCE AnswerService
    WITH asked <- OnTopics("requester"), produced <- OnTopics("agent"),
         outcome <- result

AgentsTypeOK ==
    /\ call \in [Request -> {"new", "sending", "waiting", "settled"}]
    /\ result \in [Request -> {Open, Error} \cup {Answer(r) : r \in Request}]
    /\ connection \in [Requester -> [phase : {"off", "requesting", "connected"}, at : Nat]]
    /\ \A c \in Requester : Range(pending[c]) \subseteq CallsOf(c)
    /\ \A r \in Range(job) : r.stage \in {"none", "thinking", "answered", "lost", "missed"}
    /\ lastSeen \in 0 .. Len(inbound) /\ accepting \subseteq 1 .. lastSeen
    /\ DOMAIN monitored \subseteq DOMAIN topics
    /\ \A c \in DOMAIN active : active[c] \in DOMAIN monitored

\* pollForResponses answers whoever is first in the Map, so that what is in it has to
\* be a call that still waits, once, although calls of one millisecond share a key; and
\* a call that waits is only missing from it when such a call has taken its place.
PendingCallsWait ==
    \A c \in Requester :
        /\ \A i, j \in DOMAIN pending[c] : key[pending[c][i]] = key[pending[c][j]] => i = j
        /\ \A r \in CallsOf(c) :
              /\ r \in Range(pending[c]) => call[r] = "waiting"
              /\ call[r] = "waiting" /\ r \notin Range(pending[c]) =>
                    \E q \in CallsOf(c) \ {r} : key[q] = key[r] /\ call[q] # "new"

\* A connection request is accepted at most once, although a poll may start while an
\* earlier one awaits handleConnectionRequest (monitorInbound).
RequestsAcceptedOnce ==
    \A s, t \in DOMAIN topics : topics[s].request = topics[t].request => s = t

\* However polls overlap, messages get lost and processes end, a question is answered
\* at most once and its answer given to at most one caller (lastSequence on both sides).
ImplementsAnswerService == Abstract!Spec

\* What was said before a conversation was cleared is not in its memory, although it
\* may still be processed when it is cleared (clearConversation, tasks/cancel).
ForgottenStaysForgotten ==
    \A c \in Conversation : \A m \in memory[c].said :
        job[m].generation = memory[c].generation

\* HCS-10 accounts, tasks and XMTP peers of one name never share a memory, and what is said
\* in a chat is remembered where its client asked for it and nowhere else; a task holds the
\* answer to a message sent to it.  Chats are apart from nothing: what one names, another
\* protocol's conversation included, it shares (POST /api/chat).
ConversationsAreApart ==
    /\ \A c \in Conversation :
          /\ \A k, m \in memory[c].said \ Over("web") :
                Protocol[k] = Protocol[m] /\ Peer[k] = Peer[m]
          /\ \A m \in memory[c].said \cap Over("web") : Peer[m] = c
    /\ \A t \in DOMAIN tasks : Protocol[tasks[t]] = "a2a" /\ Peer[tasks[t]] = t

\* Within one XMTP conversation messages are answered in their order, whatever happens to
\* each: once a later one is answered an earlier one was, or was lost with the process and
\* never is.  Between two conversations, of one peer too, there is no order.
XmtpInOrder ==
    \A k, m \in workload \cap Over("xmtp") :
        Thread[k] = Thread[m] /\ k < m /\ reply[m] # "none" => HandledXmtp(k)


\* "Since HCS-10 is sequential, resolve the oldest pending request": a caller that gets
\* an answer gets the one to its own question.
OldestIsTheAnswered == \A r \in Request : result[r] \in {Open, Error, Answer(r)}
=============================================================================
