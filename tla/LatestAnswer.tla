---------------------------- MODULE LatestAnswer ----------------------------
(***************************************************************************)
(* What a visitor may rely on in a part of a page that shows the answer to *)
(* a request: the request may change at any time, and from then on the     *)
(* page is busy; what it shows when it is not busy any more, and not in    *)
(* error, is an answer to the latest request, given after it was made.     *)
(***************************************************************************)
EXTENDS Naturals

VARIABLES views,  \* the parts of the page
          asked,  \* the latest request of each, with its number
          phase,  \* "busy", "done" or "error"
          shown   \* the request whose answer is held

latestVars == <<views, asked, phase, shown>>

Init == phase = [v \in views |-> "busy"]

Ask(vs) == /\ \A v \in views : IF v \in vs THEN asked'[v].number = asked[v].number + 1
                                 ELSE asked'[v] = asked[v]
           /\ phase' = [v \in views |-> IF v \in vs THEN "busy" ELSE phase[v]]
           /\ UNCHANGED shown

Answer(v) == /\ phase[v] = "busy"
             /\ phase' = [phase EXCEPT ![v] = "done"]
             /\ shown' = [shown EXCEPT ![v] = asked[v]]
             /\ UNCHANGED asked

Fail(v) == /\ phase[v] = "busy"
           /\ phase' = [phase EXCEPT ![v] = "error"]
           /\ UNCHANGED <<asked, shown>>

Next == /\ UNCHANGED views
        /\ \/ \E vs \in (SUBSET views) \ {{}} : Ask(vs)
           \/ \E v \in views : Answer(v) \/ Fail(v)

Spec == Init /\ [][Next]_latestVars
=============================================================================
