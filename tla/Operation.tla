----------------------------- MODULE Operation -----------------------------
(***************************************************************************)
(* What a caller of the SDK, of the command line or of a tool may rely on: *)
(* a call confirmed is on the ledger, a call the contracts refused is not  *)
(* and never will be, a call takes effect at most once, and an error of    *)
(* any other kind leaves the caller to find out.  What the audit trail     *)
(* says has happened.                                                      *)
(***************************************************************************)
CONSTANTS Call
VARIABLES changing,   \* the calls that are meant to change something
          landed,     \* the calls whose transaction is on the ledger
          outcome,
          audited     \* the calls the audit trail tells of

operationVars == <<changing, landed, outcome, audited>>

Init == /\ changing \in SUBSET Call
        /\ landed = {} /\ audited = {} /\ outcome = [c \in Call |-> "open"]

Land(c) == /\ c \in changing \ landed
           /\ outcome[c] \in {"open", "unknown"}
           /\ landed' = landed \cup {c}
           /\ UNCHANGED <<changing, outcome, audited>>

Answer(c, o) == /\ outcome[c] = "open"
                /\ o = "confirmed" => c \notin changing \ landed
                /\ o = "refused" => c \notin landed
                /\ outcome' = [outcome EXCEPT ![c] = o]
                /\ UNCHANGED <<changing, landed, audited>>

Audit(c) == c \in landed /\ audited' = audited \cup {c} /\ UNCHANGED <<changing, landed, outcome>>

Next == \E c \in Call : \/ Land(c) \/ Audit(c)
                        \/ \E o \in {"confirmed", "refused", "unknown"} : Answer(c, o)

Spec == Init /\ [][Next]_operationVars
=============================================================================
