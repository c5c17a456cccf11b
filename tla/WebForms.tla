------------------------------ MODULE WebForms ------------------------------
(***************************************************************************)
(* The forms of the sandbox.  A click starts a handler, which awaits the   *)
(* wallet or the network in steps while the visitor goes on; what it sees  *)
(* of the page is what the page was at the click.  All fields of a form    *)
(* are one input, and "" are empty ones.                                   *)
(***************************************************************************)
EXTENDS WebPages, WebWallet, FiniteSets

CONSTANTS Input

VARIABLES page,     \* the page of the tab
          step, input, status,  \* of its form
          busy,     \* the flags of its other handlers that are set
          result,   \* what each handler shows: the input it was for, or ""
          jobs,     \* handlers that were started and have not ended
          ledger,   \* transactions that were signed since the form was reset, or are awaited
          clicks    \* clicks so far

formState == <<step, input, status>>
formVars  == <<page, step, input, status, busy, result, jobs, ledger, clicks>>

form == page.form
Handlers == DOMAIN form.handlers

FormInit == /\ step = 0 /\ input = "" /\ status = "idle"
            /\ busy = {}
            /\ result = [h \in Handlers |-> ""]
            /\ jobs = {} /\ ledger = {}

\* FormWrapper
Visible == form.wrapped => address # None

-----------------------------------------------------------------------------
(* The visitor *)

\* Fields belong to the steps before the one that sends.  The search box and the chat are
\* disabled while they are busy, other fields are not.
Edit(x) ==
    /\ Handlers # {} /\ Visible
    /\ x # input
    /\ IF form.last = 0 THEN step = 0 ELSE step < form.last - 1
    /\ "searching" \notin busy
    /\ "sendMessage" \in Handlers => "loading" \notin busy
    /\ input' = x
    /\ UNCHANGED <<step, status, busy, result, jobs, ledger>>

\* The button that leads to the last step but one.
Forward ==
    /\ Visible /\ form.last > 0
    /\ step = form.last - 2 /\ input # ""
    /\ \A h \in Handlers : form.handlers[h].does # "advance" \/ step # 0
    /\ step' = step + 1
    /\ UNCHANGED <<input, status, busy, result, jobs, ledger>>

\* A fault for the runs to find: Previous is not disabled while a transaction is awaited.
Back_Unlocked ==
    /\ Visible /\ step > 0 /\ step < form.last
    /\ step' = step - 1
    /\ status' = IF form.locked THEN status ELSE "idle"
    /\ UNCHANGED <<input, busy, result, jobs, ledger>>

\* Previous is disabled while a transaction is awaited; the Back of other pages is not,
\* and makes the form forget that one is.
Back ==
    /\ Visible /\ step > 0 /\ step < form.last
    /\ form.locked => status # "loading"
    /\ step' = step - 1
    /\ status' = IF form.locked THEN status ELSE "idle"
    /\ UNCHANGED <<input, busy, result, jobs, ledger>>

\* "Another one".  Of what was sent, only what is still under way matters from here on.
Reset ==
    /\ Visible /\ form.last > 0 /\ step = form.last
    /\ step' = 0 /\ status' = "idle"
    /\ input' = IF form.clears THEN "" ELSE input
    /\ ledger' = {t \in ledger : t.state = "sent" \/ \E j \in jobs : j.number = t.number}
    /\ UNCHANGED <<busy, result, jobs>>

Job(h, stage) == [handler |-> h, input |-> input, number |-> clicks, stage |-> stage]

Click(h) ==
    /\ Visible /\ step = form.handlers[h].at /\ input # ""
    /\ LET does == form.handlers[h].does
           flag == form.handlers[h].flag
       IN \/ /\ does = "transact"
             /\ status # "loading" /\ address # None
             /\ status' = "loading"
             /\ jobs' = jobs \cup {Job(h, "signer")}
             /\ UNCHANGED <<busy, result>>
          \/ /\ does \in {"query", "advance"}
             /\ flag \notin busy
             /\ busy' = busy \cup ({flag} \ {"none"})
             /\ result' = [result EXCEPT ![h] = IF flag = "none" THEN @ ELSE ""]
             /\ jobs' = jobs \cup {Job(h, "asking")}
             /\ UNCHANGED status
          \/ /\ does = "clear"
             /\ result' = [g \in Handlers |-> ""]
             /\ UNCHANGED <<status, busy, jobs>>
    /\ UNCHANGED <<step, input, ledger>>

-----------------------------------------------------------------------------
(* What a handler awaits *)

Done(j) == jobs' = jobs \ {j}
Reaches(j, stage) == jobs' = (jobs \ {j}) \cup {[j EXCEPT !.stage = stage]}
Refused(j) == Done(j) /\ status' = "error"

\* An answer, an error, or a timer.
Asked(j) ==
    /\ j \in jobs /\ j.stage = "asking"
    /\ Done(j)
    /\ busy' = busy \ {form.handlers[j.handler].flag}
    /\ \/ /\ result' = [result EXCEPT ![j.handler] = j.input]
          /\ step' = IF form.handlers[j.handler].does = "advance"
                     THEN form.handlers[j.handler].at + 1 ELSE step
       \/ result' = [result EXCEPT ![j.handler] = ""] /\ step' = step
    /\ UNCHANGED <<input, status, ledger>>

\* getSigner, then the confirmation in the wallet: by the account it has then.
Sign(j) ==
    /\ j \in jobs /\ j.stage = "signer"
    /\ \/ /\ extension.account # None
          /\ Reaches(j, "receipt")
          /\ ledger' = ledger \cup {[number |-> j.number, input |-> j.input, state |-> "sent"]}
          /\ UNCHANGED status
       \/ Refused(j) /\ UNCHANGED ledger
    /\ UNCHANGED <<step, input, busy, result>>

\* The network decides, whether or not anybody waits.
Consensus(t) ==
    /\ t \in ledger /\ t.state = "sent"
    /\ \E state \in {"landed", "failed"} :
          ledger' = (ledger \ {t}) \cup {[t EXCEPT !.state = state]}
    /\ UNCHANGED <<formState, busy, result, jobs>>

\* wait(): whatever the visitor has done meanwhile, success leads to the last step.
Receipt(j) ==
    /\ j \in jobs /\ j.stage = "receipt"
    /\ \/ /\ [number |-> j.number, input |-> j.input, state |-> "landed"] \in ledger
          /\ Done(j) /\ status' = "success" /\ step' = form.last
       \/ Refused(j) /\ step' = step
    /\ UNCHANGED <<input, busy, result, ledger>>

-----------------------------------------------------------------------------
\* A form that locks its way back says "complete" only of a transaction that landed, with
\* the fields that are on the page, and when nothing it has sent is still awaited.
CompletionsAreTrue ==
    form.locked /\ form.last > 0 /\ step = form.last =>
        /\ \E t \in ledger : t.state = "landed" /\ t.input = input
        /\ \A j \in jobs : form.handlers[j.handler].does # "transact"
=============================================================================
