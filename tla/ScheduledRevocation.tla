------------------------ MODULE ScheduledRevocation ------------------------
(***************************************************************************)
(* scheduleRevocation of the SDK: the call to revoke is wrapped in a       *)
(* scheduled transaction, with the wanted time as its expiration time.     *)
(* The network runs a scheduled transaction as soon as every key it needs  *)
(* has signed, unless it was told to wait for the expiration time; the     *)
(* account that creates this one is the only one that has to sign.         *)
(***************************************************************************)
EXTENDS Naturals, Sequences

CONSTANTS Attestation,
          MaxTime,      \* bound: the last second that is looked at
          MaxSchedules  \* bound: scheduled transactions

VARIABLES now,
          revoked,    \* the attestations that are revoked
          schedules   \* uid, when it should run, whether it waits for that, when it ran

vars == <<now, revoked, schedules>>

Never == MaxTime + 1

Init == now = 0 /\ revoked = {} /\ schedules = <<>>

Tick == now < MaxTime /\ now' = now + 1 /\ UNCHANGED <<revoked, schedules>>

scheduleRevocation(a, executeAt) ==
    /\ Len(schedules) < MaxSchedules
    /\ executeAt > now
    /\ schedules' = Append(schedules, [uid |-> a, executeAt |-> executeAt,
                                       waitForExpiry |-> FALSE, ran |-> Never])
    /\ UNCHANGED <<now, revoked>>

\* The network runs a signed transaction; revoke does nothing when it was revoked before.
Execute(i) ==
    /\ schedules[i].ran = Never
    /\ schedules[i].waitForExpiry => now >= schedules[i].executeAt
    /\ schedules' = [schedules EXCEPT ![i].ran = now]
    /\ revoked' = revoked \cup {schedules[i].uid}
    /\ UNCHANGED now

revokeAttestation(a) == a \notin revoked /\ revoked' = revoked \cup {a} /\ UNCHANGED <<now, schedules>>

Next == \/ Tick
        \/ \E a \in Attestation : revokeAttestation(a) \/ \E t \in 0 .. MaxTime : scheduleRevocation(a, t)
        \/ \E i \in DOMAIN schedules : Execute(i)

Spec == Init /\ [][Next]_vars

\* "The revocation is guaranteed to execute at the specified time by the Hedera network
\* itself": none is executed before.
ExecutesAtTheSpecifiedTime ==
    \A i \in DOMAIN schedules : schedules[i].ran # Never => schedules[i].ran >= schedules[i].executeAt
=============================================================================
