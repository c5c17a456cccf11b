----------------------------- MODULE EventStream -----------------------------
(***************************************************************************)
(* What the contracts promise to whoever follows their events (the mirror  *)
(* node, the indexer, the web application): the stream only grows, and the *)
(* events alone say which schemas and attestations exist, which are        *)
(* revoked and who is a delegate of whom.                                  *)
(***************************************************************************)
EXTENDS Naturals, Sequences

VARIABLE stream

Positions(s, type) == {i \in DOMAIN s : s[i].type = type}

\* What a reader of the events s concludes from them.
SchemasIn(s)     == {s[i].uid : i \in Positions(s, "SchemaRegistered")}
CreatedIn(s)     == {s[i].uid : i \in Positions(s, "AttestationCreated")}
RevokedIn(s)     == {s[i].uid : i \in Positions(s, "AttestationRevoked")}
AuthoritiesIn(s) == {s[i].authority : i \in Positions(s, "AuthorityRegistered")}

\* The delegates of a: added, and not removed since.
DelegatesIn(s, a) ==
    {s[i].delegate : i \in {j \in Positions(s, "DelegateAdded") :
        /\ s[j].authority = a
        /\ \A k \in Positions(s, "DelegateRemoved") :
              s[k].authority = a /\ s[k].delegate = s[j].delegate => k < j}}

\* The events that may follow s.
Legal(s, e) ==
    \/ e.type = "SchemaRegistered" /\ e.uid \notin SchemasIn(s)
    \/ e.type = "AttestationCreated" /\ e.uid \notin CreatedIn(s) /\ e.schemaUid \in SchemasIn(s)
    \/ e.type = "AttestationRevoked" /\ e.uid \in CreatedIn(s) \ RevokedIn(s)
                                      /\ e.uid.schemaUid.revocable
    \/ e.type = "AuthorityRegistered"
    \/ e.type = "DelegateAdded" /\ e.delegate \notin DelegatesIn(s, e.authority)
    \/ e.type = "DelegateRemoved" /\ e.delegate \in DelegatesIn(s, e.authority)

Init == stream = <<>>

Next == /\ Len(stream') = Len(stream) + 1
        /\ SubSeq(stream', 1, Len(stream)) = stream
        /\ Legal(stream, stream'[Len(stream')])

Spec == Init /\ [][Next]_stream
==============================================================================
