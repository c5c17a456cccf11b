---------------------------- MODULE AgentServers ----------------------------
(***************************************************************************)
(* bounty/agent: the protocols the Attestify agent serves besides HCS-10:  *)
(* POST /api/chat (routes.ts), JSON-RPC tasks (a2a-server.ts) and, if      *)
(* configured, XMTP (xmtp-server.ts).                                      *)
(***************************************************************************)
EXTENDS AgentMemory

CONSTANT Thread         \* Message -> its XMTP conversation: of one peer or of a group

VARIABLES tasks,        \* tasks of a2a-server.ts: task -> the message it holds the answer to
          reply         \* what each caller, or XMTP peer, was sent

serversVars == <<tasks, reply>>

Over(protocol) == {m \in Message : Protocol[m] = protocol}

ServersInit == tasks = <<>> /\ reply = [m \in Message |-> "none"]

\* POST /api/chat and tasks/send: the handler awaits processMessage.
HttpReceive(m) ==
    /\ m \in workload /\ m \in Over("web") \cup Over("a2a")
    /\ StartJob(m)
    /\ UNCHANGED serversVars

\* processMessage has returned: the task is stored, and the answer sent at once.
HttpAnswer(m) ==
    /\ m \in Over("web") \cup Over("a2a")
    /\ FinishJob(m)
    /\ tasks' = IF Protocol[m] = "a2a" THEN Put(tasks, Peer[m], m) ELSE tasks
    /\ reply' = [reply EXCEPT ![m] = "answer"]

\* POST /api/chat/clear, of whatever conversation its client names
ChatClear(c) ==
    /\ ClearConversation(c)
    /\ UNCHANGED serversVars

\* tasks/cancel
TaskCancel(m) ==
    /\ m \in Over("a2a")
    /\ ClearConversation(ConversationOf(m))
    /\ tasks' = [t \in DOMAIN tasks \ {Peer[m]} |-> tasks[t]]
    /\ UNCHANGED reply

\* The XMTP loop of a conversation has finished with m.
HandledXmtp(m) == reply[m] # "none" \/ job[m].stage \in {"lost", "missed"}

\* A fault for the runs to find: the loop does not await handleXMTPMessage.
XmtpTurn_Concurrent(m) == TRUE

\* Each conversation has a loop of its own, which awaits each message before it takes the
\* next, in the order they were sent.
XmtpTurn(m) ==
    \A k \in Over("xmtp") : k \in workload /\ Thread[k] = Thread[m] /\ k < m => HandledXmtp(k)

XmtpReceive(m) ==
    /\ m \in workload \cap Over("xmtp") /\ XmtpTurn(m)
    /\ StartJob(m)
    /\ UNCHANGED serversVars

XmtpAnswer(m) ==
    /\ m \in Over("xmtp")
    /\ FinishJob(m)
    /\ UNCHANGED serversVars

\* sendReply with the answer; when that throws, with the error; when that throws too,
\* nothing catches it and the process ends (Agents!Restart).
XmtpReply(m) ==
    /\ m \in Over("xmtp") /\ job[m].stage = "answered" /\ reply[m] = "none"
    /\ \E text \in {"answer", "error"} : reply' = [reply EXCEPT ![m] = text]
    /\ UNCHANGED <<memoryVars, tasks>>

\* While the process is down messages are missed, and a conversation it used to read may
\* not be streamed to it again: any that it has not taken may never be.
XmtpUnread == {m \in workload \cap Over("xmtp") : job[m].stage = "none"}

\* The process ends; callers that wait get an error.
ServersLost ==
    /\ tasks' = <<>>
    /\ reply' = [m \in Message |->
                    IF reply[m] = "none" /\ job[m].stage \in {"thinking", "answered"}
                    THEN "gone" ELSE reply[m]]

ServersNext ==
    \E m \in Message :
        \/ HttpReceive(m) \/ HttpAnswer(m) \/ TaskCancel(m)
        \/ \E c \in Conversation : ChatClear(c)
        \/ XmtpReceive(m) \/ XmtpAnswer(m) \/ XmtpReply(m)
============================================================================
