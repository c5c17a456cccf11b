----------------------------- MODULE MCClients -----------------------------
(* Every command, method and tool by itself, and any two programs of tools at once. *)
EXTENDS Clients

Alone(h, programs) == {[host |-> h, run |-> [c \in Call |-> IF c = 1 THEN p ELSE <<>>]] : p \in programs}

\* Two calls in one order only: nothing tells them apart.
Together(programs) ==
    LET all == FoldSet(LAMBDA p, s : Append(s, p), <<>>, programs)
    IN  {[host |-> "server", run |-> <<all[p[1]], all[p[2]]>>] :
            p \in {q \in (DOMAIN all) \X (DOMAIN all) : q[1] <= q[2]}}

MCWorkload ==
    Alone("cli", Commands) \cup Alone("server", Methods) \cup Together(handleRequest)
        \cup Alone("ai", {Ai(p) : p \in Programs(getAttestifyTools)})

MCTopics == {{}, {"attestations"}, Topic}
MCResolvers == {{}, Resolver}
============================================================================
