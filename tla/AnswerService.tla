--------------------------- MODULE AnswerService ---------------------------
(***************************************************************************)
(* What a caller of the verification agent may rely on, whatever topics,   *)
(* polls and timers are in between: a question is put to the Attestify     *)
(* agent at most once, is answered at most once, and no answer is handed   *)
(* to two callers.  It is not promised that the answer is to the question  *)
(* of the caller who gets it.                                              *)
(***************************************************************************)
CONSTANTS Request
VARIABLES asked,      \* questions that reached the agent's topic
          produced,   \* questions the agent has answered
          outcome     \* of each caller: nothing yet, an answer, or an error

answerVars == <<asked, produced, outcome>>

Open == [kind |-> "open"]
Error == [kind |-> "error"]
Answer(q) == [kind |-> "answer", to |-> q]

Init == asked = {} /\ produced = {} /\ outcome = [r \in Request |-> Open]

Ask(r) == r \notin asked /\ asked' = asked \cup {r} /\ UNCHANGED <<produced, outcome>>

Produce(r) ==
    r \in asked \ produced /\ produced' = produced \cup {r} /\ UNCHANGED <<asked, outcome>>

\* r receives the answer to q, which nobody else has
Receive(r, q) ==
    /\ outcome[r] = Open
    /\ q \in produced
    /\ \A s \in Request : outcome[s] # Answer(q)
    /\ outcome' = [outcome EXCEPT ![r] = Answer(q)]
    /\ UNCHANGED <<asked, produced>>

\* Several callers fail at once when the process they called ends.
Fail(R) ==
    /\ \A r \in R : outcome[r] = Open
    /\ outcome' = [r \in Request |-> IF r \in R THEN Error ELSE outcome[r]]
    /\ UNCHANGED <<asked, produced>>

Next == \/ \E r \in Request : Ask(r) \/ Produce(r) \/ \E q \in Request : Receive(r, q)
        \/ \E R \in SUBSET Request : Fail(R)

Spec == Init /\ [][Next]_answerVars
============================================================================
