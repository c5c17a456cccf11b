------------------------------ MODULE Clients ------------------------------
(***************************************************************************)
(* A process that calls the SDK: a command of the CLI, which exits soon    *)
(* after it has answered; or a server (an application, the agent, the MCP  *)
(* server, the interactive mode of `attestify ai`), which stays and may    *)
(* run several calls at once.  The network may lose a request or its       *)
(* answer at every step, and a process may be stopped at any time.         *)
(***************************************************************************)
EXTENDS CliCommands, AgentTools, Naturals, SequencesExt

CONSTANTS Call,      \* calls of a process
          Workload,  \* the processes: [host : "cli", "ai" or "server", run : their programs]
          Topics,    \* the configurations of the audit topics, {} for no HCSLogger
          Resolvers, \* the configurations of the resolvers' addresses
          Faults     \* whether the network may fail

ASSUME ClientsAssumption ==
    /\ \A w \in Workload : w.host \in {"cli", "ai", "server"} /\ DOMAIN w.run = Call
    /\ Topics \subseteq SUBSET Topic
    /\ Resolvers \subseteq SUBSET Resolver
    /\ Faults \in BOOLEAN

VARIABLES host, topics, resolvers,   \* what the process is, and its configuration
          reachable, \* whether the JSON-RPC endpoint ever answers
          unheard,   \* the calls whose transaction has a receipt that never comes
          process,   \* "up", "exiting" or "down", and the exit code
          asked,     \* the program of each call
          left,      \* the steps it still has to do
          result,    \* how it ended
          tx,        \* its transaction
          background,\* the steps left of what it started without waiting
          tries,     \* attempts of submitMessage at its audit message
          copies     \* copies of that message that reached the topic

config == <<host, topics, resolvers, reachable, unheard, asked>>
vars == <<config, process, left, result, tx, background, tries, copies>>

MaxRetries == 3

Up == [state |-> "up", code |-> 0]

Transacts(c) == \E i \in DOMAIN asked[c] : asked[c][i].do = "transact"

Init == /\ \E w \in Workload : host = w.host /\ asked = w.run
        /\ topics \in Topics
        /\ resolvers \in Resolvers
        /\ reachable \in {TRUE, ~Faults}
        /\ unheard \in SUBSET {c \in Call : Faults /\ reachable /\ Transacts(c)}
        /\ process = Up
        /\ left = asked
        /\ result = [c \in Call |-> "open"]
        /\ tx = [c \in Call |-> "none"]
        /\ background = [c \in Call |-> <<>>]
        /\ tries = [c \in Call |-> 0]
        /\ copies = [c \in Call |-> 0]

-----------------------------------------------------------------------------
(* One call *)

Running(c) == process.state # "down" /\ result[c] = "open"
At(c, kind) == Running(c) /\ left[c] # <<>> /\ Head(left[c]).do = kind

Goes(c) == left' = [left EXCEPT ![c] = Tail(@)] /\ result' = result
Fails(c, error) == result' = [result EXCEPT ![c] = error] /\ left' = [left EXCEPT ![c] = <<>>]

\* mapContractError: the errors a step may end in, by their class.  "refused" stands for
\* the types of ERROR_REASON_MAP, found only in what the contract said before anything
\* was sent.
mapContractError(cause) ==
    CASE cause = "revert" -> "refused"
      [] cause = "lost" -> "network"
      [] OTHER -> "unknown"

Causes == {"revert"} \cup IF Faults THEN {"lost", "other"} ELSE {}

\* What fails before the SDK is called is thrown, and never reaches mapContractError.
Local(c) ==
    /\ \E kind \in {"options", "load", "model", "encode"} : At(c, kind)
    /\ Goes(c) \/ Fails(c, "local")
    /\ UNCHANGED <<config, process, tx, background, tries, copies>>

Require(c) ==
    /\ At(c, "needs")
    /\ IF Head(left[c]).resolver \in resolvers THEN Goes(c)
       ELSE Fails(c, mapContractError("unconfigured"))
    /\ UNCHANGED <<config, process, tx, background, tries, copies>>

\* The provider looks for its network until the endpoint answers, before anything else.
Ask(c) ==
    /\ At(c, "read") \/ At(c, "peek") => reachable
    /\ \/ /\ At(c, "read") \/ At(c, "query")
          /\ Goes(c) \/ \E e \in Causes : Fails(c, mapContractError(e))
       \/ (At(c, "peek") \/ At(c, "try")) /\ Goes(c)
    /\ UNCHANGED <<config, process, tx, background, tries, copies>>

\* Sending is preceded by an estimate, in which the contract may refuse.  The answer to
\* what was sent may be lost.
Send(c) ==
    /\ (At(c, "transact") /\ reachable) \/ At(c, "execute")
    /\ tx[c] = "none"
    /\ \/ tx' = [tx EXCEPT ![c] = "sent"] /\ UNCHANGED <<left, result>>
       \/ /\ Faults /\ tx' = [tx EXCEPT ![c] = "sent"]
          /\ Fails(c, mapContractError("lost"))
       \/ /\ At(c, "transact") /\ tx' = tx
          /\ \E e \in Causes : Fails(c, mapContractError(e))
       \/ /\ At(c, "execute") /\ tx' = tx
          /\ Fails(c, mapContractError("other"))
    /\ UNCHANGED <<config, process, background, tries, copies>>

\* The network decides, whether or not anybody waits.
Decide(c) ==
    /\ tx[c] = "sent"
    /\ tx' = [tx EXCEPT ![c] = "landed"] \/ tx' = [tx EXCEPT ![c] = "failed"]
    /\ UNCHANGED <<config, process, left, result, background, tries, copies>>

\* A fault for the runs to find: when the receipt is lost the transaction is sent again,
\* and refused because the first one landed.
Receipt_SentAgain(c) ==
    /\ (At(c, "transact") /\ c \notin unheard) \/ At(c, "execute")
    /\ \/ tx[c] = "landed" /\ Goes(c)
       \/ tx[c] = "failed" /\ Fails(c, mapContractError("other"))
       \/ tx[c] = "landed" /\ Faults /\ Fails(c, mapContractError("revert"))
    /\ UNCHANGED <<config, process, tx, background, tries, copies>>

\* wait() or getReceipt() has a receipt.  wait() has no timeout: without one it stays.
Receipt(c) ==
    /\ (At(c, "transact") /\ c \notin unheard) \/ At(c, "execute")
    /\ \/ tx[c] = "landed" /\ Goes(c)
       \/ tx[c] = "failed" /\ Fails(c, mapContractError("other"))
    /\ UNCHANGED <<config, process, tx, background, tries, copies>>

\* It may throw before that: getReceipt when it has asked often enough, wait() when the
\* nonce went to another transaction.
ReceiptLost(c) ==
    /\ Faults /\ (At(c, "transact") \/ At(c, "execute"))
    /\ tx[c] # "none"
    /\ Fails(c, mapContractError("lost"))
    /\ UNCHANGED <<config, process, tx, background, tries, copies>>

\* Started without waiting, when there is an HCSLogger.
Start(c) ==
    /\ At(c, "fork")
    /\ Goes(c)
    /\ background' = IF topics = {} THEN background
                     ELSE [background EXCEPT ![c] = Head(left[c]).background]
    /\ UNCHANGED <<config, process, tx, tries, copies>>

Return(c) ==
    /\ Running(c) /\ left[c] = <<>>
    /\ result' = [result EXCEPT ![c] = "ok"]
    /\ UNCHANGED <<config, process, left, tx, background, tries, copies>>

-----------------------------------------------------------------------------
(* hcs.ts: the audit message of a call, awaited or in the background *)

\* A fault for the runs to find: an attempt too many.
Attempt_OneMore(c, done) ==
    \E delivered, failed \in BOOLEAN :
        /\ Faults \/ (delivered /\ ~failed)
        /\ copies' = [copies EXCEPT ![c] = IF delivered THEN @ + 1 ELSE @]
        /\ IF failed /\ tries[c] < MaxRetries
           THEN tries' = [tries EXCEPT ![c] = @ + 1] /\ UNCHANGED <<left, background, result>>
           ELSE tries' = tries /\ done

\* One attempt of submitMessage.  A message may reach the topic although the attempt
\* fails; the third failure is only logged.
Attempt(c, done) ==
    \E delivered, failed \in BOOLEAN :
        /\ Faults \/ (delivered /\ ~failed)
        /\ copies' = [copies EXCEPT ![c] = IF delivered THEN @ + 1 ELSE @]
        /\ IF failed /\ tries[c] + 1 < MaxRetries
           THEN tries' = [tries EXCEPT ![c] = @ + 1] /\ UNCHANGED <<left, background, result>>
           ELSE tries' = tries /\ done

\* logSchemaRegistered, logAttestation, logRevocation, logAuthorityRegistered: nothing to
\* do when the topic of that kind is not configured.
Submit(c, topic, done) ==
    IF topic \in topics THEN Attempt(c, done) ELSE done /\ UNCHANGED <<tries, copies>>

LogAwaited(c) ==
    /\ At(c, "log")
    /\ Submit(c, Head(left[c]).topic, Goes(c) /\ UNCHANGED background)
    /\ UNCHANGED <<config, process, tx>>

NextInBackground(c) ==
    background' = [background EXCEPT ![c] = Tail(@)] /\ UNCHANGED <<left, result>>

\* The record is read first; if that fails there is no message.
LogInBackground(c) ==
    /\ process.state # "down" /\ background[c] # <<>>
    /\ LET step == Head(background[c])
       IN \/ /\ step.do = "read"
             /\ \/ NextInBackground(c)
                \/ Faults /\ background' = [background EXCEPT ![c] = <<>>] /\ UNCHANGED <<left, result>>
             /\ UNCHANGED <<tries, copies>>
          \/ step.do = "log" /\ Submit(c, step.topic, NextInBackground(c))
    /\ UNCHANGED <<config, process, tx>>

-----------------------------------------------------------------------------
(* The process of the command line *)

\* One message of `attestify ai` is answered with text, whatever its tools returned.
Failed(c) == IF host = "ai" THEN result[c] = "local" ELSE result[c] # "ok"

\* A fault for the runs to find: an error is printed but the exit code is not set.
Output_NoCode ==
    /\ host # "server" /\ process = Up
    /\ \A c \in Call : result[c] # "open"
    /\ process' = [state |-> "exiting", code |-> 0]
    /\ UNCHANGED <<config, left, result, tx, background, tries, copies>>

\* The result is printed; 100 ms are left until process.exit.
Output ==
    /\ host # "server" /\ process = Up
    /\ \A c \in Call : result[c] # "open"
    /\ process' = [state |-> "exiting", code |-> IF \E c \in Call : Failed(c) THEN 1 ELSE 0]
    /\ UNCHANGED <<config, left, result, tx, background, tries, copies>>

\* A fault for the runs to find: the timer is set after a success only.
Exit_OnSuccess ==
    /\ process.state = "exiting" /\ process.code = 0
    /\ process' = [process EXCEPT !.state = "down"]
    /\ UNCHANGED <<config, left, result, tx, background, tries, copies>>

\* What runs in the background is not waited for.
Exit ==
    /\ process.state = "exiting"
    /\ process' = [process EXCEPT !.state = "down"]
    /\ UNCHANGED <<config, left, result, tx, background, tries, copies>>

\* A signal, or the machine.
Killed ==
    /\ Faults /\ process.state # "down"
    /\ process' = [state |-> "down", code |-> 130]
    /\ UNCHANGED <<config, left, result, tx, background, tries, copies>>

Proceed(c) == \/ Local(c) \/ Require(c) \/ Ask(c) \/ Send(c) \/ Receipt(c) \/ Start(c)
              \/ LogAwaited(c) \/ Return(c)

Next == \/ \E c \in Call : Proceed(c) \/ ReceiptLost(c) \/ Decide(c) \/ LogInBackground(c)
        \/ Output \/ Exit \/ Killed

\* What a request waits for comes, or a timeout of fetch, of the Hedera SDK or of the
\* provider ends it; what was sent is decided; timers fire.  Nothing ends the search of a
\* provider for its network, or wait() without a receipt, so nothing is assumed of them.
Fairness == /\ \A c \in Call : /\ WF_vars(Proceed(c)) /\ WF_vars(Decide(c))
                               /\ WF_vars(LogInBackground(c))
            /\ WF_vars(Output) /\ WF_vars(Exit)

Spec == Init /\ [][Next]_vars /\ Fairness

-----------------------------------------------------------------------------
Changing(c) == \E i \in DOMAIN asked[c] : asked[c][i].do \in {"transact", "execute"}

\* The types of the variables; no message reaches a topic more often than submitMessage
\* tries to send it.
ClientsTypeOK ==
    /\ process.state \in {"up", "exiting", "down"} /\ process.code \in {0, 1, 130}
    /\ \A c \in Call : IsSuffix(left[c], asked[c])
    /\ result \in [Call -> {"open", "ok", "refused", "network", "unknown", "local"}]
    /\ tx \in [Call -> {"none", "sent", "landed", "failed"}]
    /\ tries \in [Call -> 0 .. MaxRetries - 1]
    /\ copies \in [Call -> 0 .. MaxRetries]

\* The audit trail of the SDK tells of nothing that did not happen on the ledger, however
\* calls, background work, lost answers and the end of the process interleave.
AuditsAreTrue == \A c \in Call : copies[c] > 0 => tx[c] = "landed"

\* A command that exits with 0 has done what it was asked for.
ExitCodeTells ==
    (host = "cli" /\ process.state # "up" /\ process.code = 0)
        => \A c \in Call : Changing(c) => tx[c] = "landed"

\* Every call, tool and command does what module Operation promises its caller, also when
\* the answer of the network is lost.
Outcome(c) == CASE result[c] = "ok" -> "confirmed"
                [] result[c] \in {"refused", "local"} -> "refused"
                [] result[c] \in {"network", "unknown"} -> "unknown"
                [] OTHER -> "open"

Abstract == INSTANCE Operation WITH
    changing <- {c \in Call : Changing(c)},
    landed   <- {c \in Call : tx[c] = "landed"},
    outcome  <- [c \in Call |-> Outcome(c)],
    audited  <- {c \in Call : copies[c] > 0}

ImplementsOperation == Abstract!Spec

\* What the code waits for without a limit: the receipt of a contract transaction (wait()),
\* and the answer of an endpoint that has not answered yet (JsonRpcProvider).
Waits(c) ==
    /\ Running(c)
    /\ \/ c \in unheard /\ tx[c] # "none"
       \/ ~reachable /\ (At(c, "read") \/ At(c, "peek") \/ At(c, "transact"))

\* A command ends; in a process that stays, every call returns, and what it left running
\* comes to an end.  Apart from that a call only waits, and keeps a command from ending,
\* for a receipt that never comes or an endpoint that never answers.
EverythingSettles ==
    <>[](\/ process.state = "down"
         \/ /\ host = "server" \/ \E c \in Call : Waits(c)
            /\ \A c \in Call : /\ result[c] # "open" \/ Waits(c)
                              /\ background[c] = <<>>)
=============================================================================
