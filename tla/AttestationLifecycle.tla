------------------------ MODULE AttestationLifecycle ------------------------
(***************************************************************************)
(* What a relying party may count on when it looks attestations up: an     *)
(* attestation becomes valid when it is issued, may be revoked while it is *)
(* valid, may expire, and has expired for good then, revoked or not.       *)
(***************************************************************************)
VARIABLE view   \* what a look-up answers, for every attestation ever issued

Init == view = <<>>

Issue == \E u \in DOMAIN view' :
            /\ u \notin DOMAIN view
            /\ view' = [x \in DOMAIN view \cup {u} |->
                            IF x = u THEN "valid" ELSE view[x]]

Revoke == \E u \in DOMAIN view :
            view[u] = "valid" /\ view' = [view EXCEPT ![u] = "revoked"]

Expire == \E gone \in SUBSET DOMAIN view :
            view' = [u \in DOMAIN view |->
                        IF u \in gone THEN "AttestationExpired" ELSE view[u]]

Next == Issue \/ Revoke \/ Expire

Spec == Init /\ [][Next]_view
=============================================================================
