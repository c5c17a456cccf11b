----------------------------- MODULE MCIndexer -----------------------------
(* Small instances of Indexer. *)
EXTENDS Indexer

s1 == [name |-> "s1", revocable |-> TRUE]
s2 == [name |-> "s2", revocable |-> TRUE]
u1 == [schemaUid |-> s1, name |-> "u1"]
u2 == [schemaUid |-> s1, name |-> "u2"]

Registered(s) == [type |-> "SchemaRegistered", uid |-> s]
Created(u)    == [type |-> "AttestationCreated", uid |-> u, schemaUid |-> u.schemaUid]
Revoked(u)    == [type |-> "AttestationRevoked", uid |-> u]
Authority     == [type |-> "AuthorityRegistered", authority |-> "alice"]
Added         == [type |-> "DelegateAdded", authority |-> "alice", delegate |-> "bob"]
Removed       == [type |-> "DelegateRemoved", authority |-> "alice", delegate |-> "bob"]

MCSchema == {s1, s2}

NoHistory == <<>>
NoneLast  == {}
AllLast   == {u1}

\* The schema was registered and used before.
OnceUsed == <<Registered(s1), Created(u1)>>

\* Nothing more than the revocation of what was made then.
OneRevocation == {Revoked(u1)}

\* A second attestation is made, both are revoked, somebody registers.
MoreRecords == {Revoked(u1), Created(u2), Revoked(u2), Authority}

\* A schema registered before; a delegate comes and goes, and an attestation follows.
OneSchema     == <<Registered(s1)>>
WithDelegates == {Added, Removed, Created(u1)}

\* Two schemas, and an attestation of the first.
TwoSchemas == {Registered(s1), Registered(s2), Created(u1), Revoked(u1)}
============================================================================
