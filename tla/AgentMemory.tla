---------------------------- MODULE AgentMemory ----------------------------
(***************************************************************************)
(* bounty/agent/src/agent.ts: a message is answered by the language model, *)
(* which is given the memory of its conversation; the exchange is added to *)
(* that memory afterwards.  Messages are processed concurrently, those of  *)
(* one conversation too.                                                   *)
(***************************************************************************)
EXTENDS Naturals, Sequences, SequencesExt, FiniteSets

CONSTANTS Message,      \* what is said to the agent, over any protocol
          Protocol,     \* Message -> how it comes in
          Peer,         \* Message -> the account, task or inbox it comes from or names, or
                        \* what a chat gives as its conversationId
          Workload,     \* bound: the sets of messages explored
          MaxClears     \* bound: how often a conversation is cleared

ASSUME MemoryAssumption ==
    /\ Message \subseteq Nat \* in the order their senders send them
    /\ Workload \subseteq SUBSET Message /\ MaxClears \in Nat

VARIABLES workload,     \* the messages that are sent in a behaviour
          memory,       \* conversationMemories, with the generation of each entry
          job           \* processMessage of each message

memoryVars == <<workload, memory, job>>

\* A fault for the runs to find: the conversation is named after the peer alone.
ConversationId_NoPrefix(protocol, peer) ==
    IF protocol = "web" THEN peer ELSE <<"agent", peer>>

\* hcs10-..., a2a-..., xmtp-...; a chat is taken at its word, whatever its client names,
\* and without one is web-<milliseconds>, which several may share.
ConversationId(protocol, peer) == IF protocol = "web" THEN peer ELSE <<protocol, peer>>

Conversation == {ConversationId(Protocol[m], Peer[m]) : m \in Message}
ConversationOf(m) == ConversationId(Protocol[m], Peer[m])

\* Map.set: the entry of key is added, or replaced.
Put(map, key, value) ==
    [k \in DOMAIN map \cup {key} |-> IF k = key THEN value ELSE map[k]]

NoJob == [stage |-> "none", generation |-> 0]

MemoryInit == /\ workload \in Workload
              /\ memory = [c \in Conversation |-> [generation |-> 0, said |-> {}]]
              /\ job = [m \in Message |-> NoJob]

Processing(m) == job[m].stage = "thinking"

\* processMessage up to its first await: it holds on to the memory it found.
StartJob(m) ==
    /\ job[m].stage = "none"
    /\ job' = [job EXCEPT ![m] = [stage |-> "thinking",
                                  generation |-> memory[ConversationOf(m)].generation]]
    /\ UNCHANGED <<workload, memory>>

\* A fault for the runs to find: the memory is looked up again when it is saved.
SavedIn_LookedUp(m) == memory[ConversationOf(m)].generation

\* The memory the exchange is added to: no longer in the Map once it was cleared.
SavedIn(m) == job[m].generation

\* An answer, or the text of an error, which is not remembered.
FinishJob(m) ==
    LET c == ConversationOf(m) IN
    /\ Processing(m)
    /\ job' = [job EXCEPT ![m].stage = "answered"]
    /\ \/ UNCHANGED memory
       \/ memory' = IF SavedIn(m) = memory[c].generation
                    THEN [memory EXCEPT ![c].said = @ \cup {m}] ELSE memory
    /\ UNCHANGED workload

\* conversationMemories.has(c)
Remembered(c) == \E m \in Message :
    ConversationOf(m) = c /\ job[m].stage # "none" /\ job[m].generation = memory[c].generation

\* clearConversation: the next message finds a new memory.
ClearConversation(c) ==
    /\ memory[c].generation < MaxClears
    /\ memory' = IF Remembered(c)
                 THEN [memory EXCEPT ![c] = [generation |-> @.generation + 1, said |-> {}]]
                 ELSE memory
    /\ UNCHANGED <<workload, job>>

\* The process ends: memories are gone, and what was being processed is never answered,
\* nor are the missed messages.
MemoryLost(missed) ==
    /\ memory' = [c \in Conversation |-> [generation |-> memory[c].generation + 1, said |-> {}]]
    /\ job' = [m \in Message |-> IF m \in missed THEN [job[m] EXCEPT !.stage = "missed"]
                                ELSE IF Processing(m) THEN [job[m] EXCEPT !.stage = "lost"]
                                ELSE job[m]]
    /\ UNCHANGED workload
============================================================================
