------------------------------ MODULE MCAgents ------------------------------
(* Small instances of Agents. *)
EXTENDS Agents

\* 1 and 2 are calls to the verification agent, 3 to 9 come over the other protocols,
\* all of them from a peer of the same name.  The chats, 3 and 4, name the conversation of
\* the task that 5 and 6 are sent to; the peer over XMTP has two conversations.
MCMessage  == 1 .. 9
MCProtocol == <<"hcs10", "hcs10", "web", "web", "a2a", "a2a", "xmtp", "xmtp", "xmtp">>
MCPeer     == [m \in MCMessage |-> IF m \in {3, 4} THEN <<"a2a", "verifier">> ELSE "verifier"]
MCThread   == [m \in MCMessage |-> IF m = 9 THEN "second" ELSE "first"]

\* Two calls over HCS-10, or two messages over other protocols.
RelayOrServe == {{1, 2}} \cup {{k, m} : k, m \in 3 .. 9}
OnlyRelay    == {{1, 2}}
=============================================================================
