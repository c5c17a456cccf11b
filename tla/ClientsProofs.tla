--------------------------- MODULE ClientsProofs ---------------------------
(***************************************************************************)
(* Theorems about Clients, for any number of calls, whatever they run, as  *)
(* long as every program does its one change before it tells of it.        *)
(***************************************************************************)
EXTENDS Clients, SequenceTheorems, TLAPS

Effect == {"transact", "execute"}
Auditing == {"fork", "log"}

\* After the step that changes the ledger a program only tells the audit trail of it, and
\* it tells of nothing else.
AuditsComeLast(p) ==
    \A i \in 1 .. Len(p) :
        /\ p[i].do \in Effect => \A j \in i + 1 .. Len(p) : p[j].do \in Auditing
        /\ p[i].do \in Auditing => \E j \in 1 .. i - 1 : p[j].do \in Effect

Disciplined(S) ==
    \A w \in Workload : \A c \in Call : w.run[c] \in Seq(S) /\ AuditsComeLast(w.run[c])

-----------------------------------------------------------------------------
(* The inductive invariant *)

Shape(S) ==
    /\ DOMAIN left = Call /\ \A c \in Call : left[c] \in Seq(S) /\ asked[c] \in Seq(S)
    /\ DOMAIN background = Call
    /\ result \in [Call -> {"open", "ok", "refused", "network", "unknown", "local"}]
    /\ tx \in [Call -> {"none", "sent", "landed", "failed"}]
    /\ copies \in [Call -> Nat]

\* Before its transaction, at it, or behind it.
Before(c) == /\ tx[c] = "none" /\ AuditsComeLast(left[c])
             /\ Changing(c) <=> \E i \in 1 .. Len(left[c]) : left[c][i].do \in Effect
During(c) == /\ tx[c] # "none" /\ AuditsComeLast(left[c])
             /\ left[c] # <<>> /\ Head(left[c]).do \in Effect
Behind(c) == /\ tx[c] = "landed"
             /\ \A i \in 1 .. Len(left[c]) : left[c][i].do \in Auditing

CallIsSound(c) ==
    /\ result[c] = "open" => Before(c) \/ During(c) \/ Behind(c)
    /\ result[c] = "ok" => tx[c] = "landed" \/ (tx[c] = "none" /\ ~Changing(c))
    /\ result[c] \in {"refused", "local"} => tx[c] = "none"
    /\ tx[c] # "none" => Changing(c)
    /\ background[c] # <<>> \/ copies[c] > 0 => tx[c] = "landed"

Inv(S) == Shape(S) /\ \A c \in Call : CallIsSound(c)

-----------------------------------------------------------------------------
(* What the steps of a program leave *)

\* The first step of a disciplined program tells of nothing.
LEMMA HeadIsNoAudit ==
    ASSUME NEW S, NEW p \in Seq(S), AuditsComeLast(p), p # <<>>
    PROVE  Head(p).do \notin Auditing
<1>1. Len(p) \in Nat /\ Len(p) >= 1 /\ Head(p) = p[1]
    OBVIOUS
<1>2. 1 \in 1 .. Len(p) /\ 1 .. 1 - 1 = {}
    BY <1>1
<1> QED BY <1>1, <1>2 DEF AuditsComeLast

\* Once a step that changes nothing is done, the rest is disciplined, and what was going
\* to change something still is.
LEMMA RestIsDisciplined ==
    ASSUME NEW S, NEW p \in Seq(S), AuditsComeLast(p), p # <<>>, Head(p).do \notin Effect
    PROVE  /\ AuditsComeLast(Tail(p))
           /\ (\E i \in 1 .. Len(p) : p[i].do \in Effect)
                <=> \E i \in 1 .. Len(Tail(p)) : Tail(p)[i].do \in Effect
<1> DEFINE q == Tail(p)
<1>1. /\ Len(p) \in Nat /\ Len(p) >= 1 /\ Head(p) = p[1] /\ Len(q) = Len(p) - 1
      /\ \A i \in 1 .. Len(q) : q[i] = p[i + 1]
    OBVIOUS
<1> HIDE DEF q
<1>2. ASSUME NEW i \in 1 .. Len(q), q[i].do \in Effect, NEW j \in i + 1 .. Len(q)
      PROVE  q[j].do \in Auditing
    <2>1. i + 1 \in 1 .. Len(p) /\ j + 1 \in (i + 1) + 1 .. Len(p) /\ j \in 1 .. Len(q)
        BY <1>1
    <2>2. p[i + 1].do \in Effect
        BY <1>1, <1>2
    <2> QED BY <1>1, <2>1, <2>2 DEF AuditsComeLast
<1>3. ASSUME NEW i \in 1 .. Len(q), q[i].do \in Auditing
      PROVE  \E j \in 1 .. i - 1 : q[j].do \in Effect
    <2>1. i + 1 \in 1 .. Len(p) /\ p[i + 1].do \in Auditing
        BY <1>1, <1>3
    <2>2. PICK k \in 1 .. (i + 1) - 1 : p[k].do \in Effect
        BY <2>1 DEF AuditsComeLast
    <2>3. k # 1
        BY <1>1, <2>2
    <2>4. k - 1 \in 1 .. i - 1 /\ k - 1 \in 1 .. Len(q) /\ (k - 1) + 1 = k
        BY <1>1, <2>2, <2>3
    <2> QED BY <1>1, <2>2, <2>4
<1>4. ASSUME NEW k \in 1 .. Len(p), p[k].do \in Effect
      PROVE  \E i \in 1 .. Len(q) : q[i].do \in Effect
    <2>1. k # 1
        BY <1>1, <1>4
    <2>2. k - 1 \in 1 .. Len(q) /\ (k - 1) + 1 = k
        BY <1>1, <2>1
    <2> QED BY <1>1, <1>4, <2>2
<1>5. ASSUME NEW i \in 1 .. Len(q), q[i].do \in Effect
      PROVE  \E k \in 1 .. Len(p) : p[k].do \in Effect
    <2>1. i + 1 \in 1 .. Len(p)
        BY <1>1
    <2> QED BY <1>1, <1>5, <2>1
<1>6. AuditsComeLast(q)
    BY <1>2, <1>3 DEF AuditsComeLast
<1> QED BY <1>4, <1>5, <1>6 DEF q

\* Once the change is done, all that is left is to tell of it.
LEMMA RestOnlyAudits ==
    ASSUME NEW S, NEW p \in Seq(S), AuditsComeLast(p), p # <<>>, Head(p).do \in Effect
    PROVE  \A i \in 1 .. Len(Tail(p)) : Tail(p)[i].do \in Auditing
<1>1. /\ Len(p) \in Nat /\ Len(p) >= 1 /\ Head(p) = p[1] /\ Len(Tail(p)) = Len(p) - 1
      /\ \A i \in 1 .. Len(Tail(p)) : Tail(p)[i] = p[i + 1]
    OBVIOUS
<1>2. \A j \in 1 + 1 .. Len(p) : p[j].do \in Auditing
    BY <1>1 DEF AuditsComeLast
<1> QED BY <1>1, <1>2

\* And that goes on until nothing is left.
LEMMA RestStillAudits ==
    ASSUME NEW S, NEW p \in Seq(S), p # <<>>, \A i \in 1 .. Len(p) : p[i].do \in Auditing
    PROVE  /\ Head(p).do \in Auditing
           /\ \A i \in 1 .. Len(Tail(p)) : Tail(p)[i].do \in Auditing
<1>1. /\ Len(p) \in Nat /\ Len(p) >= 1 /\ Head(p) = p[1] /\ Len(Tail(p)) = Len(p) - 1
      /\ \A i \in 1 .. Len(Tail(p)) : Tail(p)[i] = p[i + 1]
    OBVIOUS
<1> QED BY <1>1

-----------------------------------------------------------------------------
(* The invariant is inductive *)

\* Only what a contract says before anything was sent is a refusal.
LEMMA ErrorKinds ==
    /\ \A e : mapContractError(e) \in {"refused", "network", "unknown"}
    /\ mapContractError("lost") = "network" /\ mapContractError("other") = "unknown"
    /\ mapContractError("unconfigured") = "unknown"
BY DEF mapContractError

Same(d) == /\ left'[d] = left[d] /\ result'[d] = result[d] /\ tx'[d] = tx[d]
           /\ background'[d] = background[d] /\ copies'[d] = copies[d]

\* Calls share nothing the invariant is about: it is enough to look at the one that moves.
LEMMA OneMoves ==
    ASSUME NEW S, Inv(S), NEW c \in Call, asked' = asked, Shape(S)', CallIsSound(c)',
           \A d \in Call \ {c} : Same(d)
    PROVE  Inv(S)'
<1> SUFFICES ASSUME NEW d \in Call, d # c PROVE CallIsSound(d)'
    BY DEF Inv
<1>1. CallIsSound(d) /\ Same(d)
    BY DEF Inv
<1>2. Changing(d)' <=> Changing(d)
    BY DEF Changing
<1>3. /\ Before(d) => Before(d)'
      /\ During(d) => During(d)'
      /\ Behind(d) => Behind(d)'
    BY <1>1, <1>2 DEF Same, Before, During, Behind
<1> QED BY <1>1, <1>2, <1>3 DEF Same, CallIsSound

\* A step that neither changes nor tells of anything: it succeeds, or ends the call.
LEMMA QuietStep ==
    ASSUME NEW S, Inv(S), NEW c \in Call, result[c] = "open", left[c] # <<>>,
           Head(left[c]).do \notin Effect \cup Auditing,
           \/ Goes(c)
           \/ \E e \in {"refused", "network", "unknown", "local"} : Fails(c, e),
           asked' = asked, tx' = tx, background' = background, copies' = copies
    PROVE  Inv(S)'
<1>0. /\ DOMAIN left = Call /\ left[c] \in Seq(S)
      /\ result \in [Call -> {"open", "ok", "refused", "network", "unknown", "local"}]
      /\ CallIsSound(c)
    BY DEF Inv, Shape
<1>1. Head(left[c]) = left[c][1] /\ 1 \in 1 .. Len(left[c])
    BY <1>0
<1>2. Before(c)
    BY <1>0, <1>1 DEF CallIsSound, During, Behind
<1>3. Tail(left[c]) \in Seq(S) /\ <<>> \in Seq(S)
    BY <1>0
<1>4. \A d \in Call \ {c} : Same(d)
    BY <1>0 DEF Goes, Fails, Same
<1>5. Shape(S)'
    BY <1>0, <1>3 DEF Inv, Shape, Goes, Fails
<1>6. Changing(c)' <=> Changing(c)
    BY DEF Changing
<1>7. CASE Goes(c)
    <2>1. left'[c] = Tail(left[c]) /\ result'[c] = "open"
        BY <1>0, <1>7 DEF Goes
    <2>2. Before(c)'
        BY <1>0, <1>2, <1>6, <2>1, RestIsDisciplined DEF Before
    <2>3. CallIsSound(c)'
        BY <1>0, <1>6, <2>1, <2>2 DEF CallIsSound
    <2> QED BY <1>4, <1>5, <2>3, OneMoves
<1>8. CASE \E e \in {"refused", "network", "unknown", "local"} : Fails(c, e)
    <2>1. result'[c] \in {"refused", "network", "unknown", "local"}
        BY <1>0, <1>8 DEF Fails
    <2>2. CallIsSound(c)'
        BY <1>0, <1>2, <1>6, <2>1 DEF CallIsSound, Before
    <2> QED BY <1>4, <1>5, <2>2, OneMoves
<1> QED BY <1>7, <1>8

\* Sending: a refusal leaves nothing behind.
LEMMA SendKeeps ==
    ASSUME NEW S, Inv(S), NEW c \in Call, Send(c)
    PROVE  Inv(S)'
<1>0. /\ DOMAIN left = Call /\ left[c] \in Seq(S) /\ left[c] # <<>>
      /\ result \in [Call -> {"open", "ok", "refused", "network", "unknown", "local"}]
      /\ tx \in [Call -> {"none", "sent", "landed", "failed"}]
      /\ CallIsSound(c) /\ result[c] = "open" /\ tx[c] = "none"
      /\ Head(left[c]).do \in Effect
    BY DEF Inv, Shape, Send, At, Running, Effect
<1>1. asked' = asked /\ background' = background /\ copies' = copies
    BY DEF Send, config
<1>2. Before(c)
    BY <1>0 DEF CallIsSound, During, Behind
<1>3. Changing(c)' <=> Changing(c)
    BY <1>1 DEF Changing
<1>4. Changing(c)
    <2>1. Head(left[c]) = left[c][1] /\ 1 \in 1 .. Len(left[c])
        BY <1>0
    <2> QED BY <1>0, <1>2, <2>1 DEF Before
<1>5. ASSUME NEW t \in {"sent", "none"}, tx' = [tx EXCEPT ![c] = t]
      PROVE  Shape(S)' /\ \A d \in Call \ {c} : Same(d)
    <2>1. \/ UNCHANGED <<left, result>>
          \/ \E e \in {"refused", "network", "unknown"} : Fails(c, e)
        BY ErrorKinds DEF Send
    <2>2. CASE UNCHANGED <<left, result>>
        BY <1>0, <1>1, <1>5, <2>2 DEF Inv, Shape, Same
    <2>3. CASE \E e \in {"refused", "network", "unknown"} : Fails(c, e)
        BY <1>0, <1>1, <1>5, <2>3 DEF Inv, Shape, Same, Fails
    <2> QED BY <2>1, <2>2, <2>3
<1>6. CASE tx' = [tx EXCEPT ![c] = "sent"] /\ UNCHANGED <<left, result>>
    <2>1. During(c)' /\ result'[c] = "open"
        BY <1>0, <1>2, <1>6 DEF Before, During
    <2>2. CallIsSound(c)'
        BY <1>0, <1>1, <1>2, <1>3, <1>4, <1>6, <2>1 DEF CallIsSound, Before
    <2> QED BY <1>1, <1>5, <1>6, <2>2, OneMoves
<1>7. CASE tx' = [tx EXCEPT ![c] = "sent"] /\ Fails(c, "network")
    <2>1. result'[c] = "network" /\ tx'[c] = "sent"
        BY <1>0, <1>7 DEF Fails
    <2>2. CallIsSound(c)'
        BY <1>0, <1>1, <1>2, <1>3, <1>4, <2>1 DEF CallIsSound, Before
    <2> QED BY <1>1, <1>5, <1>7, <2>2, OneMoves
<1>8. CASE tx' = tx /\ \E e \in {"refused", "network", "unknown"} : Fails(c, e)
    <2>1. tx' = [tx EXCEPT ![c] = "none"]
        BY <1>0, <1>8
    <2>2. result'[c] \in {"refused", "network", "unknown"} /\ tx'[c] = "none"
        BY <1>0, <1>8 DEF Fails
    <2>3. CallIsSound(c)'
        BY <1>0, <1>1, <1>2, <1>3, <1>8, <2>2 DEF CallIsSound, Before
    <2> QED BY <1>1, <1>5, <2>1, <2>3, OneMoves
<1> QED BY <1>6, <1>7, <1>8, ErrorKinds DEF Send

\* The network decides, whoever waits.
LEMMA DecideKeeps ==
    ASSUME NEW S, Inv(S), NEW c \in Call, Decide(c)
    PROVE  Inv(S)'
<1>0. /\ tx \in [Call -> {"none", "sent", "landed", "failed"}]
      /\ CallIsSound(c) /\ tx[c] = "sent"
    BY DEF Inv, Shape, Decide
<1>1. asked' = asked /\ UNCHANGED <<left, result, background, copies>>
    BY DEF Decide, config
<1>2. Changing(c)' <=> Changing(c)
    BY <1>1 DEF Changing
<1>3. tx' \in [Call -> {"none", "sent", "landed", "failed"}] /\ tx'[c] \in {"landed", "failed"}
    BY <1>0 DEF Decide
<1>4. Shape(S)' /\ \A d \in Call \ {c} : Same(d)
    BY <1>0, <1>1, <1>3 DEF Inv, Shape, Same, Decide
<1>5. During(c) => During(c)'
    BY <1>1, <1>3 DEF During
<1>6. CallIsSound(c)'
    BY <1>0, <1>1, <1>2, <1>3, <1>5 DEF CallIsSound, Before, Behind
<1> QED BY <1>1, <1>4, <1>6, OneMoves

\* A receipt is waited for until the transaction has landed, or the call fails.
LEMMA ReceiptKeeps ==
    ASSUME NEW S, Inv(S), NEW c \in Call, Receipt(c) \/ ReceiptLost(c)
    PROVE  Inv(S)'
<1>0. /\ DOMAIN left = Call /\ left[c] \in Seq(S) /\ left[c] # <<>>
      /\ result \in [Call -> {"open", "ok", "refused", "network", "unknown", "local"}]
      /\ CallIsSound(c) /\ result[c] = "open" /\ tx[c] # "none"
      /\ Head(left[c]).do \in Effect
    BY DEF Inv, Shape, Receipt, ReceiptLost, At, Running, Effect
<1>1. asked' = asked /\ UNCHANGED <<tx, background, copies>>
    BY DEF Receipt, ReceiptLost, config
<1>2. Changing(c)' <=> Changing(c)
    BY <1>1 DEF Changing
<1>3. During(c)
    <2>1. Head(left[c]) = left[c][1] /\ 1 \in 1 .. Len(left[c])
        BY <1>0
    <2>2. ~Behind(c)
        BY <1>0, <2>1 DEF Behind, Effect, Auditing
    <2> QED BY <1>0, <2>2 DEF CallIsSound, Before
<1>4. CASE tx[c] = "landed" /\ Goes(c)
    <2>1. left'[c] = Tail(left[c]) /\ result' = result /\ Tail(left[c]) \in Seq(S)
        BY <1>0, <1>4 DEF Goes
    <2>2. Behind(c)'
        BY <1>0, <1>1, <1>3, <1>4, <2>1, RestOnlyAudits DEF During, Behind
    <2>3. CallIsSound(c)'
        BY <1>0, <1>1, <1>2, <1>4, <2>1, <2>2 DEF CallIsSound
    <2>4. Shape(S)' /\ \A d \in Call \ {c} : Same(d)
        BY <1>0, <1>1, <1>4, <2>1 DEF Inv, Shape, Same, Goes
    <2> QED BY <1>1, <2>3, <2>4, OneMoves
<1>5. CASE \E e \in {"network", "unknown"} : Fails(c, e)
    <2>1. result'[c] \in {"network", "unknown"}
        BY <1>0, <1>5 DEF Fails
    <2>2. CallIsSound(c)'
        BY <1>0, <1>1, <1>2, <2>1 DEF CallIsSound
    <2>3. Shape(S)' /\ \A d \in Call \ {c} : Same(d)
        BY <1>0, <1>1, <1>5 DEF Inv, Shape, Same, Fails
    <2> QED BY <1>1, <2>2, <2>3, OneMoves
<1> QED BY <1>4, <1>5, ErrorKinds DEF Receipt, ReceiptLost

\* What is done after the transaction: audits are started or awaited.
LEMMA AuditStep ==
    ASSUME NEW S, Inv(S), NEW c \in Call, result[c] = "open", left[c] # <<>>,
           Head(left[c]).do \in Auditing, asked' = asked, tx' = tx,
           Goes(c) \/ UNCHANGED <<left, result>>,
           copies' = copies \/ \E n \in Nat : copies' = [copies EXCEPT ![c] = n],
           background' = background \/ \E b : background' = [background EXCEPT ![c] = b]
    PROVE  Inv(S)'
<1>0. /\ DOMAIN left = Call /\ left[c] \in Seq(S) /\ DOMAIN background = Call
      /\ result \in [Call -> {"open", "ok", "refused", "network", "unknown", "local"}]
      /\ copies \in [Call -> Nat] /\ CallIsSound(c)
    BY DEF Inv, Shape
<1>1. Changing(c)' <=> Changing(c)
    BY DEF Changing
<1>2. Behind(c)
    <2>1. ~Before(c)
        BY <1>0, HeadIsNoAudit DEF Before
    <2>2. ~During(c)
        BY DEF During, Effect, Auditing
    <2> QED BY <1>0, <2>1, <2>2 DEF CallIsSound
<1>3. Behind(c)' /\ result' = result
    <2>1. CASE Goes(c)
        <3>1. left'[c] = Tail(left[c]) /\ result' = result
            BY <1>0, <2>1 DEF Goes
        <3> QED BY <1>0, <1>2, <3>1, RestStillAudits DEF Behind
    <2>2. CASE UNCHANGED <<left, result>>
        BY <1>2, <2>2 DEF Behind
    <2> QED BY <2>1, <2>2
<1>4. CallIsSound(c)'
    BY <1>0, <1>1, <1>2, <1>3 DEF CallIsSound, Behind
<1>5. /\ DOMAIN left' = Call /\ \A d \in Call : left'[d] \in Seq(S)
      /\ \A d \in Call \ {c} : left'[d] = left[d]
    <2>1. Tail(left[c]) \in Seq(S)
        BY <1>0
    <2> QED BY <1>0, <2>1 DEF Inv, Shape, Goes
<1>6. copies' \in [Call -> Nat] /\ \A d \in Call \ {c} : copies'[d] = copies[d]
    BY <1>0
<1>7. DOMAIN background' = Call /\ \A d \in Call \ {c} : background'[d] = background[d]
    BY <1>0
<1>8. Shape(S)' /\ \A d \in Call \ {c} : Same(d)
    BY <1>3, <1>5, <1>6, <1>7 DEF Inv, Shape, Same
<1> QED BY <1>4, <1>8, OneMoves

\* An attempt of submitMessage delivers one copy or none, and is finished or tried again.
LEMMA SubmitEffect ==
    ASSUME NEW S, Shape(S), NEW c \in Call, NEW topic, NEW ACTION done, Submit(c, topic, done)
    PROVE  /\ copies' = copies
              \/ \E n \in Nat : n >= copies[c] /\ copies' = [copies EXCEPT ![c] = n]
           /\ done \/ UNCHANGED <<left, background, result>>
<1>1. copies[c] \in Nat
    BY DEF Shape
<1>2. CASE topic \in topics
    <2>1. PICK delivered \in BOOLEAN, failed \in BOOLEAN :
              /\ copies' = [copies EXCEPT ![c] = IF delivered THEN @ + 1 ELSE @]
              /\ done \/ UNCHANGED <<left, background, result>>
        BY <1>2 DEF Submit, Attempt
    <2>2. /\ (IF delivered THEN copies[c] + 1 ELSE copies[c]) \in Nat
          /\ (IF delivered THEN copies[c] + 1 ELSE copies[c]) >= copies[c]
        BY <1>1
    <2> QED BY <2>1, <2>2
<1>3. CASE topic \notin topics
    BY <1>3 DEF Submit
<1> QED BY <1>2, <1>3

\* An awaited audit message is sent by a call whose transaction has landed.
LEMMA LogAwaitedKeeps ==
    ASSUME NEW S, Inv(S), NEW c \in Call, LogAwaited(c)
    PROVE  Inv(S)'
<1>1. /\ result[c] = "open" /\ left[c] # <<>> /\ Head(left[c]).do \in Auditing
      /\ asked' = asked /\ tx' = tx
    BY DEF LogAwaited, At, Running, Auditing, config
<1>2. /\ copies' = copies \/ \E n \in Nat : copies' = [copies EXCEPT ![c] = n]
      /\ (Goes(c) /\ UNCHANGED background) \/ UNCHANGED <<left, background, result>>
    BY SubmitEffect DEF LogAwaited, Inv
<1> QED BY <1>1, <1>2, AuditStep

\* So is what a call leaves to the background.
LEMMA StartKeeps ==
    ASSUME NEW S, Inv(S), NEW c \in Call, Start(c)
    PROVE  Inv(S)'
<1>1. /\ result[c] = "open" /\ left[c] # <<>> /\ Head(left[c]).do \in Auditing
      /\ asked' = asked /\ tx' = tx /\ copies' = copies /\ Goes(c)
    BY DEF Start, At, Running, Auditing, config
<1>2. background' = background \/ \E b : background' = [background EXCEPT ![c] = b]
    BY DEF Start
<1> QED BY <1>1, <1>2, AuditStep

\* What runs in the background was started by a call whose transaction has landed.
LEMMA LogInBackgroundKeeps ==
    ASSUME NEW S, Inv(S), NEW c \in Call, LogInBackground(c)
    PROVE  Inv(S)'
<1>0. /\ DOMAIN background = Call /\ copies \in [Call -> Nat]
      /\ background[c] # <<>> /\ CallIsSound(c)
    BY DEF Inv, Shape, LogInBackground
<1>1. asked' = asked /\ tx' = tx
    BY DEF LogInBackground, config
<1>2. tx[c] = "landed"
    BY <1>0 DEF CallIsSound
<1>3. /\ UNCHANGED <<left, result>>
      /\ background' = background \/ \E b : background' = [background EXCEPT ![c] = b]
      /\ copies' = copies \/ \E n \in Nat : copies' = [copies EXCEPT ![c] = n]
    <2>1. CASE Head(background[c]).do = "read"
        BY <2>1 DEF LogInBackground, NextInBackground
    <2>2. CASE Head(background[c]).do # "read"
        <3>1. Submit(c, Head(background[c]).topic, NextInBackground(c))
            BY <2>2 DEF LogInBackground
        <3>2. /\ copies' = copies \/ \E n \in Nat : copies' = [copies EXCEPT ![c] = n]
              /\ NextInBackground(c) \/ UNCHANGED <<left, background, result>>
            BY <3>1, SubmitEffect DEF Inv
        <3> QED BY <3>2 DEF NextInBackground
    <2> QED BY <2>1, <2>2
<1>4. Changing(c)' <=> Changing(c)
    BY <1>1 DEF Changing
<1>5. /\ Before(c) => Before(c)'
      /\ During(c) => During(c)'
      /\ Behind(c) => Behind(c)'
    BY <1>1, <1>3, <1>4 DEF Before, During, Behind
<1>6. CallIsSound(c)'
    BY <1>0, <1>1, <1>2, <1>3, <1>4, <1>5 DEF CallIsSound
<1>7. copies' \in [Call -> Nat] /\ \A d \in Call \ {c} : copies'[d] = copies[d]
    BY <1>0, <1>3
<1>8. DOMAIN background' = Call /\ \A d \in Call \ {c} : background'[d] = background[d]
    BY <1>0, <1>3
<1>9. Shape(S)' /\ \A d \in Call \ {c} : Same(d)
    BY <1>1, <1>3, <1>7, <1>8 DEF Inv, Shape, Same
<1> QED BY <1>1, <1>6, <1>9, OneMoves

\* A call that returns has changed what it was meant to.
LEMMA ReturnKeeps ==
    ASSUME NEW S, Inv(S), NEW c \in Call, Return(c)
    PROVE  Inv(S)'
<1>0. /\ result \in [Call -> {"open", "ok", "refused", "network", "unknown", "local"}]
      /\ CallIsSound(c) /\ result[c] = "open" /\ left[c] = <<>>
    BY DEF Inv, Shape, Return, Running
<1>1. asked' = asked /\ UNCHANGED <<left, tx, background, copies>>
    BY DEF Return, config
<1>2. Changing(c)' <=> Changing(c)
    BY <1>1 DEF Changing
<1>3. Behind(c) \/ (Before(c) /\ ~Changing(c))
    <2>1. 1 .. Len(<<>>) = {}
        OBVIOUS
    <2> QED BY <1>0, <2>1 DEF CallIsSound, Before, During
<1>4. result' \in [Call -> {"open", "ok", "refused", "network", "unknown", "local"}]
      /\ result'[c] = "ok" /\ \A d \in Call \ {c} : result'[d] = result[d]
    BY <1>0 DEF Return
<1>5. CallIsSound(c)'
    BY <1>0, <1>1, <1>2, <1>3, <1>4 DEF CallIsSound, Before, Behind
<1>6. Shape(S)' /\ \A d \in Call \ {c} : Same(d)
    BY <1>1, <1>4 DEF Inv, Shape, Same
<1> QED BY <1>1, <1>5, <1>6, OneMoves

\* The process ends, or nothing happens to its calls.
LEMMA NoneMoves ==
    ASSUME NEW S, Inv(S), UNCHANGED <<asked, left, result, tx, background, copies>>
    PROVE  Inv(S)'
BY DEF Inv, Shape, CallIsSound, Before, During, Behind, Changing

\* Every step keeps the invariant.
LEMMA InvStep == ASSUME NEW S PROVE Inv(S) /\ [Next]_vars => Inv(S)'
<1> SUFFICES ASSUME Inv(S), [Next]_vars PROVE Inv(S)'
    OBVIOUS
<1>1. ASSUME NEW c \in Call, Local(c) \/ Require(c) \/ Ask(c) PROVE Inv(S)'
    <2>1. /\ result[c] = "open" /\ left[c] # <<>>
          /\ Head(left[c]).do \notin Effect \cup Auditing
          /\ UNCHANGED <<asked, tx, background, copies>>
        BY <1>1 DEF Local, Require, Ask, At, Running, Effect, Auditing, config
    <2>2. Goes(c) \/ \E e \in {"refused", "network", "unknown", "local"} : Fails(c, e)
        BY <1>1, ErrorKinds DEF Local, Require, Ask
    <2> QED BY <2>1, <2>2, QuietStep
<1>2. ASSUME NEW c \in Call, Proceed(c) \/ ReceiptLost(c) PROVE Inv(S)'
    BY <1>1, <1>2, SendKeeps, ReceiptKeeps, StartKeeps, LogAwaitedKeeps, ReturnKeeps DEF Proceed
<1>3. CASE Output \/ Exit \/ Killed \/ UNCHANGED vars
    BY <1>3, NoneMoves DEF Output, Exit, Killed, vars, config
<1> QED BY <1>2, <1>3, DecideKeeps, LogInBackgroundKeeps DEF Next

\* A call starts before its transaction.
LEMMA InvInit == ASSUME NEW S, Disciplined(S) PROVE Init => Inv(S)
<1> SUFFICES ASSUME Init PROVE Inv(S)
    OBVIOUS
<1>1. /\ DOMAIN asked = Call /\ left = asked
      /\ \A c \in Call : asked[c] \in Seq(S) /\ AuditsComeLast(asked[c])
    BY ClientsAssumption DEF Init, Disciplined
<1>2. Shape(S)
    BY <1>1 DEF Init, Shape
<1>3. ASSUME NEW c \in Call PROVE CallIsSound(c)
    <2>1. Before(c)
        <3>1. DOMAIN asked[c] = 1 .. Len(asked[c])
            BY <1>1
        <3> QED BY <1>1, <3>1 DEF Init, Before, Changing, Effect
    <2>2. result[c] = "open" /\ tx[c] = "none" /\ background[c] = <<>> /\ copies[c] = 0
        BY DEF Init
    <2> QED BY <2>1, <2>2 DEF CallIsSound
<1> QED BY <1>2, <1>3 DEF Inv

-----------------------------------------------------------------------------
\* The audit trail tells of nothing that is not on the ledger.
THEOREM AuditsTrue == ASSUME NEW S, Disciplined(S) PROVE Spec => []AuditsAreTrue
<1>1. Inv(S) => AuditsAreTrue
    BY DEF Inv, Shape, CallIsSound, AuditsAreTrue
<1> QED BY <1>1, InvInit, InvStep, PTL DEF Spec

-----------------------------------------------------------------------------
(* Clients implements Operation *)

\* A call that has ended has ended; the network does not take a transaction back, nor a
\* topic a message.
LEMMA CallStep ==
    ASSUME NEW S, Inv(S), [Next]_vars
    PROVE  /\ asked' = asked
           /\ \/ /\ result' = result
                 /\ \/ /\ \A d \in Call : tx'[d] = "landed" <=> tx[d] = "landed"
                       /\ \A d \in Call : copies'[d] > 0 <=> copies[d] > 0
                    \/ \E c \in Call :
                          /\ tx[c] = "sent" /\ tx' = [tx EXCEPT ![c] = "landed"]
                          /\ copies' = copies
                    \/ \E c \in Call :
                          /\ tx' = tx /\ copies'[c] > 0
                          /\ \A d \in Call \ {c} : copies'[d] = copies[d]
              \/ \E c \in Call :
                    /\ result[c] = "open" /\ result'[c] # "open"
                    /\ \A d \in Call \ {c} : result'[d] = result[d]
                    /\ \A d \in Call : tx'[d] = "landed" <=> tx[d] = "landed"
                    /\ copies' = copies
<1>0. /\ result \in [Call -> {"open", "ok", "refused", "network", "unknown", "local"}]
      /\ tx \in [Call -> {"none", "sent", "landed", "failed"}]
      /\ copies \in [Call -> Nat]
    BY DEF Inv, Shape
<1>1. ASSUME NEW c \in Call, \E e \in {"refused", "network", "unknown", "local"} : Fails(c, e)
      PROVE  result'[c] # "open" /\ \A d \in Call \ {c} : result'[d] = result[d]
    BY <1>0, <1>1 DEF Fails
<1>2. ASSUME NEW c \in Call, Local(c) \/ Require(c) \/ Ask(c) \/ Receipt(c) \/ ReceiptLost(c)
      PROVE  /\ UNCHANGED <<asked, tx, copies>> /\ result[c] = "open"
             /\ Goes(c) \/ \E e \in {"refused", "network", "unknown", "local"} : Fails(c, e)
    BY <1>2, ErrorKinds DEF Local, Require, Ask, Receipt, ReceiptLost, At, Running, config
<1>3. ASSUME NEW c \in Call, Send(c)
      PROVE  /\ UNCHANGED <<asked, copies>> /\ result[c] = "open"
             /\ \A d \in Call : tx'[d] = "landed" <=> tx[d] = "landed"
             /\ \/ result' = result
                \/ \E e \in {"refused", "network", "unknown", "local"} : Fails(c, e)
    BY <1>0, <1>3, ErrorKinds DEF Send, At, Running, config
<1>4. ASSUME NEW c \in Call, Return(c)
      PROVE  /\ UNCHANGED <<asked, tx, copies>> /\ result[c] = "open" /\ result'[c] # "open"
             /\ \A d \in Call \ {c} : result'[d] = result[d]
    BY <1>0, <1>4 DEF Return, Running, config
<1>5. ASSUME NEW c \in Call, Decide(c)
      PROVE  /\ UNCHANGED <<asked, result, copies>> /\ tx[c] = "sent"
             /\ tx' = [tx EXCEPT ![c] = "landed"] \/ tx' = [tx EXCEPT ![c] = "failed"]
    BY <1>5 DEF Decide, config
<1>6. ASSUME NEW c \in Call, Start(c) PROVE UNCHANGED <<asked, result, tx, copies>>
    BY <1>6 DEF Start, Goes, config
<1>7. ASSUME NEW c \in Call, LogAwaited(c) \/ LogInBackground(c)
      PROVE  /\ UNCHANGED <<asked, result, tx>>
             /\ copies' = copies
                \/ \E n \in Nat : n >= copies[c] /\ copies' = [copies EXCEPT ![c] = n]
    <2>1. CASE LogAwaited(c)
        <3>1. Submit(c, Head(left[c]).topic, Goes(c) /\ UNCHANGED background)
            BY <2>1 DEF LogAwaited
        <3>2. /\ copies' = copies
                 \/ \E n \in Nat : n >= copies[c] /\ copies' = [copies EXCEPT ![c] = n]
              /\ (Goes(c) /\ UNCHANGED background) \/ UNCHANGED <<left, background, result>>
            BY <3>1, SubmitEffect DEF Inv
        <3> QED BY <2>1, <3>2 DEF LogAwaited, Goes, config
    <2>2. CASE LogInBackground(c)
        <3>1. CASE Head(background[c]).do = "read"
            BY <2>2, <3>1 DEF LogInBackground, NextInBackground, config
        <3>2. CASE Head(background[c]).do # "read"
            <4>1. Submit(c, Head(background[c]).topic, NextInBackground(c))
                BY <2>2, <3>2 DEF LogInBackground
            <4>2. /\ copies' = copies
                     \/ \E n \in Nat : n >= copies[c] /\ copies' = [copies EXCEPT ![c] = n]
                  /\ NextInBackground(c) \/ UNCHANGED <<left, background, result>>
                BY <4>1, SubmitEffect DEF Inv
            <4> QED BY <2>2, <4>2 DEF LogInBackground, NextInBackground, config
        <3> QED BY <3>1, <3>2
    <2> QED BY <1>7, <2>1, <2>2
<1>8. CASE Output \/ Exit \/ Killed \/ UNCHANGED vars
    BY <1>8 DEF Output, Exit, Killed, vars, config
<1>9. CASE \E c \in Call : Local(c) \/ Require(c) \/ Ask(c) \/ Receipt(c) \/ ReceiptLost(c)
    BY <1>1, <1>2, <1>9 DEF Goes
<1>10. CASE \E c \in Call : Send(c)
    BY <1>1, <1>3, <1>10
<1>11. CASE \E c \in Call : Return(c)
    BY <1>4, <1>11
<1>12. CASE \E c \in Call : Decide(c)
    BY <1>0, <1>5, <1>12
<1>13. CASE \E c \in Call : Start(c)
    BY <1>6, <1>13
<1>14. CASE \E c \in Call : LogAwaited(c) \/ LogInBackground(c)
    <2>1. PICK c \in Call : LogAwaited(c) \/ LogInBackground(c)
        BY <1>14
    <2>2. CASE copies' = copies
        BY <1>7, <2>1, <2>2
    <2>3. ASSUME NEW n \in Nat, n >= copies[c], copies' = [copies EXCEPT ![c] = n]
          PROVE  \/ \A d \in Call : copies'[d] > 0 <=> copies[d] > 0
                 \/ copies'[c] > 0 /\ \A d \in Call \ {c} : copies'[d] = copies[d]
        BY <1>0, <2>3
    <2> QED BY <1>7, <2>1, <2>2, <2>3
<1> QED BY <1>8, <1>9, <1>10, <1>11, <1>12, <1>13, <1>14 DEF Next, Proceed

\* Every step of a call is one of Operation's, or changes nothing a caller can see.
LEMMA OperationStep ==
    ASSUME NEW S, Inv(S), Inv(S)', [Next]_vars
    PROVE  [Abstract!Next]_Abstract!operationVars
<1> DEFINE Chg == {c \in Call : Changing(c)}
           Lnd == {c \in Call : tx[c] = "landed"}
           Out == [c \in Call |-> Outcome(c)]
           Aud == {c \in Call : copies[c] > 0}
<1>0. /\ result \in [Call -> {"open", "ok", "refused", "network", "unknown", "local"}]
      /\ tx \in [Call -> {"none", "sent", "landed", "failed"}]
      /\ \A c \in Call : CallIsSound(c) /\ CallIsSound(c)'
    BY DEF Inv, Shape
<1>1. asked' = asked /\ Chg' = Chg
    BY CallStep DEF Changing
<1>2. CASE result' = result
    <2>1. Out' = Out
        BY <1>2 DEF Outcome
    <2>2. CASE /\ \A d \in Call : tx'[d] = "landed" <=> tx[d] = "landed"
               /\ \A d \in Call : copies'[d] > 0 <=> copies[d] > 0
        <3>1. Lnd' = Lnd /\ Aud' = Aud
            BY <2>2
        <3> QED BY <1>1, <2>1, <3>1 DEF Abstract!operationVars
    <2>3. ASSUME NEW c \in Call, tx[c] = "sent", tx' = [tx EXCEPT ![c] = "landed"],
                 copies' = copies
          PROVE  Abstract!Land(c)
        <3>1. c \in Chg \ Lnd /\ Lnd' = Lnd \cup {c} /\ Aud' = Aud
            BY <1>0, <2>3 DEF CallIsSound
        <3>2. result[c] \in {"open", "network", "unknown"}
            BY <1>0, <2>3 DEF CallIsSound
        <3>3. Out[c] \in {"open", "unknown"}
            BY <3>2 DEF Outcome
        <3> QED BY <1>1, <2>1, <3>1, <3>3 DEF Abstract!Land
    <2>4. ASSUME NEW c \in Call, tx' = tx, copies'[c] > 0,
                 \A d \in Call \ {c} : copies'[d] = copies[d]
          PROVE  Abstract!Audit(c)
        <3>1. c \in Lnd
            BY <1>0, <2>4 DEF CallIsSound
        <3>2. Lnd' = Lnd /\ Aud' = Aud \cup {c}
            BY <2>4
        <3> QED BY <1>1, <2>1, <3>1, <3>2 DEF Abstract!Audit
    <2> QED BY <1>0, <1>2, <2>2, <2>3, <2>4, CallStep DEF Abstract!Next
<1>3. ASSUME NEW c \in Call, result[c] = "open", result'[c] # "open",
             \A d \in Call \ {c} : result'[d] = result[d],
             \A d \in Call : tx'[d] = "landed" <=> tx[d] = "landed", copies' = copies
      PROVE  \E o \in {"confirmed", "refused", "unknown"} : Abstract!Answer(c, o)
    <2>1. Lnd' = Lnd /\ Aud' = Aud
        BY <1>3
    <2>2. Out[c] = "open"
        BY <1>3 DEF Outcome
    <2>3. result'[c] \in {"ok", "refused", "network", "unknown", "local"}
        BY <1>3 DEF Inv, Shape
    <2>4. /\ Outcome(c)' \in {"confirmed", "refused", "unknown"}
          /\ Outcome(c)' = "confirmed" => result'[c] = "ok"
          /\ Outcome(c)' = "refused" => result'[c] \in {"refused", "local"}
        BY <2>3 DEF Outcome
    <2>5. \A d \in Call \ {c} : Outcome(d)' = Outcome(d)
        BY <1>3 DEF Outcome
    <2>6. Out' = [Out EXCEPT ![c] = Outcome(c)']
        BY <2>5
    <2>7. Outcome(c)' = "confirmed" => c \notin Chg \ Lnd
        BY <1>0, <1>1, <2>1, <2>4 DEF CallIsSound
    <2>8. Outcome(c)' = "refused" => c \notin Lnd
        BY <1>0, <2>1, <2>4 DEF CallIsSound
    <2>9. Abstract!Answer(c, Outcome(c)')
        BY <1>1, <2>1, <2>2, <2>6, <2>7, <2>8 DEF Abstract!Answer
    <2> QED BY <2>4, <2>9
<1> QED BY <1>2, <1>3, CallStep DEF Abstract!Next

\* A call keeps what module Operation promises: confirmed means done, refused means never.
THEOREM CallsAreOperations == ASSUME NEW S, Disciplined(S) PROVE Spec => ImplementsOperation
<1>1. Init => Abstract!Init
    BY DEF Init, Abstract!Init, Outcome
<1>2. Inv(S) /\ Inv(S)' /\ [Next]_vars => [Abstract!Next]_Abstract!operationVars
    BY OperationStep
<1> QED BY <1>1, <1>2, InvInit, InvStep, PTL DEF Spec, ImplementsOperation, Abstract!Spec

-----------------------------------------------------------------------------
(* The exit code *)

\* A command that has been given the code 0 was given it because all its calls succeeded;
\* what has ended stays ended, so that this remains so until the process is gone.
ZeroMeansOk ==
    /\ process \in [state : {"up", "exiting", "down"}, code : {0, 1, 130}]
    /\ host = "cli" /\ process.state # "up" /\ process.code = 0
           => \A c \in Call : result[c] = "ok"

\* Only three steps are about the process.
LEMMA ProcessStep ==
    ASSUME [Next]_vars
    PROVE  host' = host /\ (process' = process \/ Output \/ Exit \/ Killed)
<1>1. ASSUME NEW c \in Call, Proceed(c) PROVE host' = host /\ process' = process
    BY <1>1 DEF Proceed, Local, Require, Ask, Send, Receipt, Start, LogAwaited, Return, config
<1>2. ASSUME NEW c \in Call, ReceiptLost(c) \/ Decide(c) \/ LogInBackground(c)
      PROVE  host' = host /\ process' = process
    BY <1>2 DEF ReceiptLost, Decide, LogInBackground, config
<1>3. CASE Output \/ Exit \/ Killed \/ UNCHANGED vars
    BY <1>3 DEF Output, Exit, Killed, vars, config
<1> QED BY <1>1, <1>2, <1>3 DEF Next

\* The exit code is set once, from what the calls have ended in.
LEMMA ZeroMeansOkStep ==
    ASSUME NEW S, Inv(S), ZeroMeansOk, [Next]_vars
    PROVE  ZeroMeansOk'
<1>0. /\ process \in [state : {"up", "exiting", "down"}, code : {0, 1, 130}]
      /\ result \in [Call -> {"open", "ok", "refused", "network", "unknown", "local"}]
    BY DEF ZeroMeansOk, Inv, Shape
<1>1. \A c \in Call : result[c] = "ok" => result'[c] = "ok"
    BY CallStep
<1>2. host' = host
    BY ProcessStep
<1>3. CASE process' = process
    BY <1>0, <1>1, <1>2, <1>3 DEF ZeroMeansOk
<1>4. CASE Output
    <2>1. /\ result' = result
          /\ process' = [state |-> "exiting", code |-> IF \E c \in Call : Failed(c) THEN 1 ELSE 0]
        BY <1>4 DEF Output
    <2>2. ASSUME host = "cli", process'.code = 0, NEW c \in Call PROVE result[c] = "ok"
        <3>1. ~Failed(c)
            BY <2>1, <2>2
        <3> QED BY <2>2, <3>1 DEF Failed
    <2> QED BY <1>2, <2>1, <2>2 DEF ZeroMeansOk
<1>5. CASE Exit
    <2>1. /\ process' = [process EXCEPT !.state = "down"] /\ process.state = "exiting"
          /\ result' = result
        BY <1>5 DEF Exit
    <2>2. process'.code = process.code
        BY <1>0, <2>1
    <2>3. process' \in [state : {"up", "exiting", "down"}, code : {0, 1, 130}]
        BY <1>0, <2>1
    <2> QED BY <1>2, <2>1, <2>2, <2>3 DEF ZeroMeansOk
<1>6. CASE Killed
    BY <1>6 DEF Killed, ZeroMeansOk
<1> QED BY <1>3, <1>4, <1>5, <1>6, ProcessStep

\* A command that exits with 0 has done what it was asked for.
THEOREM ZeroIsHonest == ASSUME NEW S, Disciplined(S) PROVE Spec => []ExitCodeTells
<1>1. Init => ZeroMeansOk
    BY DEF Init, Up, ZeroMeansOk
<1>2. Inv(S) /\ ZeroMeansOk /\ [Next]_vars => ZeroMeansOk'
    BY ZeroMeansOkStep
<1>3. Inv(S) /\ ZeroMeansOk => ExitCodeTells
    BY DEF Inv, Shape, CallIsSound, ZeroMeansOk, ExitCodeTells
<1> QED BY <1>1, <1>2, <1>3, InvInit, InvStep, PTL DEF Spec

-----------------------------------------------------------------------------
(***************************************************************************)
(* The programs of the repository - the methods of the SDK, the commands   *)
(* of the CLI, the tools and `attestify ai` - do their change before they  *)
(* tell of it, so that the theorems above hold of processes that run them, *)
(* however many calls they make.                                           *)
(***************************************************************************)
Quiet == {Read, Peek, Query, Try, Encode, Options, Load, Model} \cup {Needs(r) : r \in Resolver}
Effects == {Transact, Execute}
Audits == {Log(t) : t \in Topic}
            \cup {Fork(<<Read, Log(t)>>) : t \in Topic} \cup {Fork(<<Log(t)>>) : t \in Topic}
Steps == Quiet \cup Effects \cup Audits

\* A program tells of its change once, with its last step.
AuditIsLast(p) == \A i \in 1 .. Len(p) : p[i].do \in Auditing => i = Len(p)

Good(p) == p \in Seq(Steps) /\ AuditsComeLast(p) /\ AuditIsLast(p)

RepositoryPrograms ==
    Methods \cup Commands \cup handleRequest \cup {Ai(t) : t \in Programs(getAttestifyTools)}

-----------------------------------------------------------------------------
\* Which steps change the ledger, and which tell of it.
LEMMA Kinds ==
    /\ \A x \in Quiet : x \in Steps /\ x.do \notin Effect \cup Auditing
    /\ \A x \in Effects : x \in Steps /\ x.do \in Effect /\ x.do \notin Auditing
    /\ \A x \in Audits : x \in Steps /\ x.do \in Auditing /\ x.do \notin Effect
BY DEF Steps, Quiet, Effects, Audits, Step, Read, Peek, Query, Try, Encode, Options, Load,
       Model, Needs,
       Transact, Execute, Log, Fork, Effect, Auditing

\* Nothing, a question, a change, and a change that is told of.
LEMMA ShortPrograms ==
    /\ Good(<<>>)
    /\ \A x \in Quiet \cup Effects : Good(<<x>>)
    /\ \A x \in Effects, y \in Audits : Good(<<x, y>>)
<1>1. Good(<<>>)
    BY DEF Good, AuditsComeLast, AuditIsLast
<1>2. ASSUME NEW x \in Quiet \cup Effects PROVE Good(<<x>>)
    <2>1. <<x>> \in Seq(Steps) /\ Len(<<x>>) = 1 /\ <<x>>[1] = x
        BY Kinds
    <2>2. x.do \notin Auditing
        BY Kinds
    <2>3. \A i \in 1 .. Len(<<x>>) : i = 1
        BY <2>1
    <2>4. 1 + 1 .. 1 = {}
        OBVIOUS
    <2> QED BY <2>1, <2>2, <2>3, <2>4 DEF Good, AuditsComeLast, AuditIsLast
<1>3. ASSUME NEW x \in Effects, NEW y \in Audits PROVE Good(<<x, y>>)
    <2> DEFINE p == <<x, y>>
    <2>1. p \in Seq(Steps) /\ Len(p) = 2 /\ p[1] = x /\ p[2] = y
        BY Kinds
    <2>2. x.do \in Effect /\ x.do \notin Auditing /\ y.do \in Auditing /\ y.do \notin Effect
        BY Kinds
    <2> HIDE DEF p
    <2>3. \A i \in 1 .. Len(p) : i = 1 \/ i = 2
        BY <2>1
    <2>4. \A j \in 1 + 1 .. Len(p) : j = 2
        BY <2>1
    <2>5. 1 \in 1 .. 2 - 1
        OBVIOUS
    <2>6. AuditsComeLast(p)
        BY <2>1, <2>2, <2>3, <2>4, <2>5 DEF AuditsComeLast
    <2>7. AuditIsLast(p)
        BY <2>1, <2>2, <2>3 DEF AuditIsLast, Effect, Auditing
    <2> QED BY <2>1, <2>6, <2>7 DEF Good, p
<1> QED BY <1>1, <1>2, <1>3

\* A step that neither changes nor tells of anything may come first.
LEMMA QuietFirst ==
    ASSUME NEW x \in Quiet, NEW p, Good(p)
    PROVE  Good(<<x>> \o p)
<1> DEFINE q == <<x>> \o p
<1>1. /\ p \in Seq(Steps) /\ q \in Seq(Steps) /\ Len(p) \in Nat /\ Len(q) = Len(p) + 1
      /\ q[1] = x /\ \A i \in 1 .. Len(p) : q[i + 1] = p[i]
    BY Kinds DEF Good
<1>2. AuditsComeLast(p) /\ x.do \notin Effect /\ x.do \notin Auditing
    BY Kinds DEF Good
<1> HIDE DEF q
<1>3. \A i \in 1 .. Len(q) : i = 1 \/ (i - 1 \in 1 .. Len(p) /\ q[i] = p[i - 1])
    <2> SUFFICES ASSUME NEW i \in 1 .. Len(q), i # 1 PROVE i - 1 \in 1 .. Len(p) /\ q[i] = p[i - 1]
        OBVIOUS
    <2>1. i - 1 \in 1 .. Len(p) /\ (i - 1) + 1 = i
        BY <1>1
    <2> QED BY <1>1, <2>1
<1>4. ASSUME NEW i \in 1 .. Len(q), q[i].do \in Effect, NEW j \in i + 1 .. Len(q)
      PROVE  q[j].do \in Auditing
    <2>1. i - 1 \in 1 .. Len(p) /\ p[i - 1].do \in Effect
        BY <1>1, <1>2, <1>3, <1>4
    <2>2. j \in 1 .. Len(q) /\ j # 1 /\ j - 1 \in (i - 1) + 1 .. Len(p)
        BY <1>1, <2>1
    <2> QED BY <1>2, <1>3, <2>1, <2>2 DEF AuditsComeLast
<1>5. ASSUME NEW i \in 1 .. Len(q), q[i].do \in Auditing
      PROVE  \E j \in 1 .. i - 1 : q[j].do \in Effect
    <2>1. i - 1 \in 1 .. Len(p) /\ p[i - 1].do \in Auditing
        BY <1>1, <1>2, <1>3, <1>5
    <2>2. PICK k \in 1 .. (i - 1) - 1 : p[k].do \in Effect
        BY <1>2, <2>1 DEF AuditsComeLast
    <2>3. k \in 1 .. Len(p) /\ k + 1 \in 1 .. i - 1
        BY <1>1, <2>1, <2>2
    <2> QED BY <1>1, <2>2, <2>3
<1>6. AuditsComeLast(q)
    BY <1>4, <1>5 DEF AuditsComeLast
<1>7. ASSUME NEW i \in 1 .. Len(q), q[i].do \in Auditing PROVE i = Len(q)
    <2>1. i - 1 \in 1 .. Len(p) /\ p[i - 1].do \in Auditing
        BY <1>1, <1>2, <1>3, <1>7
    <2>2. i - 1 = Len(p)
        BY <2>1 DEF Good, AuditIsLast
    <2> QED BY <1>1, <2>2
<1> QED BY <1>1, <1>6, <1>7 DEF Good, AuditIsLast, q

\* Two steps are the one after the other.
LEMMA Pair ==
    ASSUME NEW x \in Steps, NEW y \in Steps
    PROVE  <<x, y>> = <<x>> \o <<y>>
<1>1. /\ <<x>> \in Seq(Steps) /\ <<y>> \in Seq(Steps) /\ <<x, y>> \in Seq(Steps)
      /\ Len(<<x>>) = 1 /\ Len(<<y>>) = 1 /\ Len(<<x, y>>) = 2
    OBVIOUS
<1>2. /\ <<x>> \o <<y>> \in Seq(Steps) /\ Len(<<x>> \o <<y>>) = 2
      /\ (<<x>> \o <<y>>)[1] = x /\ (<<x>> \o <<y>>)[2] = y
    BY <1>1
<1>3. \A i \in 1 .. 2 : <<x, y>>[i] = (<<x>> \o <<y>>)[i]
    <2>1. \A i \in 1 .. 2 : i = 1 \/ i = 2
        OBVIOUS
    <2> QED BY <1>2, <2>1
<1> QED BY <1>1, <1>2, <1>3, SeqEqual

\* So may several.
LEMMA QuietPrefixes ==
    ASSUME NEW p, Good(p)
    PROVE  /\ \A x, y \in Quiet : Good(<<x, y>> \o p)
           /\ \A x, y, z \in Quiet : Good(<<x, y, z>> \o p)
<1>1. ASSUME NEW x \in Quiet, NEW y \in Quiet PROVE Good(<<x, y>> \o p)
    <2>1. Good(<<x>> \o (<<y>> \o p))
        BY QuietFirst
    <2>2. x \in Steps /\ y \in Steps /\ p \in Seq(Steps)
        BY Kinds DEF Good
    <2>3. <<x, y>> \o p = <<x>> \o (<<y>> \o p)
        <3>1. <<x>> \in Seq(Steps) /\ <<y>> \in Seq(Steps)
            BY <2>2
        <3> QED BY <2>2, <3>1, Pair, ConcatAssociative
    <2> QED BY <2>1, <2>3
<1>2. ASSUME NEW x \in Quiet, NEW y \in Quiet, NEW z \in Quiet PROVE Good(<<x, y, z>> \o p)
    <2>1. Good(<<x>> \o (<<y, z>> \o p))
        BY <1>1, QuietFirst
    <2>2. x \in Steps /\ y \in Steps /\ z \in Steps /\ p \in Seq(Steps)
        BY Kinds DEF Good
    <2>3. <<x, y, z>> \o p = <<x>> \o (<<y, z>> \o p)
        BY <2>2
    <2> QED BY <2>1, <2>3
<1> QED BY <1>1, <1>2

-----------------------------------------------------------------------------
\* Who is who among the steps of the repository.
LEMMA StepsOfMethods ==
    /\ Read \in Quiet /\ Peek \in Quiet /\ Query \in Quiet
    /\ Try \in Quiet /\ Encode \in Quiet
    /\ Options \in Quiet /\ Load \in Quiet /\ Model \in Quiet
    /\ requireWhitelistResolver \in Quiet /\ requireFeeResolver \in Quiet
    /\ requireTokenGatedResolver \in Quiet
    /\ Transact \in Effects /\ Execute \in Effects
    /\ Log("attestations") \in Audits /\ Fork(<<Read, Log("schemas")>>) \in Audits
    /\ Fork(<<Read, Log("attestations")>>) \in Audits /\ Fork(<<Log("attestations")>>) \in Audits
    /\ Fork(<<Log("authorities")>>) \in Audits
BY DEF Quiet, Effects, Audits, Topic, Resolver, requireWhitelistResolver, requireFeeResolver,
       requireTokenGatedResolver

\* A resolver that has to be configured is looked for before it is called or asked.
LEMMA Guarded ==
    ASSUME NEW n \in Quiet, NEW x \in Quiet \cup Effects
    PROVE  Good(<<n, x>>)
<1>1. Good(<<n>> \o <<x>>)
    BY ShortPrograms, QuietFirst
<1>2. <<n, x>> = <<n>> \o <<x>>
    BY Pair DEF Steps
<1> QED BY <1>1, <1>2

\* Every method of the SDK does its change, if any, before it tells of it.
LEMMA MethodsAreGood == \A m \in Methods : Good(m)
<1> USE ShortPrograms, StepsOfMethods, Guarded
<1>1. /\ Good(registerSchema) /\ Good(createAttestation) /\ Good(revokeAttestation)
      /\ Good(registerAuthority) /\ Good(attestOnBehalf) /\ Good(revokeOnBehalf)
    BY DEF registerSchema, createAttestation, revokeAttestation, registerAuthority,
           attestOnBehalf, revokeOnBehalf
<1>2. /\ Good(<<Read>>) /\ Good(<<Query>>) /\ Good(<<Try>>) /\ Good(<<Transact>>) /\ Good(<<Execute>>)
      /\ Good(<<>>)
    OBVIOUS
<1>3. \A n \in {requireWhitelistResolver, requireFeeResolver, requireTokenGatedResolver} :
          Good(<<n, Read>>) /\ Good(<<n, Transact>>)
    OBVIOUS
<1>4. Good(registerSchemaFromFile)
    BY <1>1, QuietFirst DEF registerSchemaFromFile, readSchemaFile
<1> HIDE ShortPrograms, StepsOfMethods, Guarded
<1>5. \A m \in Methods :
          \/ m \in {registerSchema, createAttestation, revokeAttestation, registerAuthority,
                    attestOnBehalf, revokeOnBehalf, registerSchemaFromFile}
          \/ m \in {<<Read>>, <<Query>>, <<Try>>, <<Transact>>, <<Execute>>, <<>>}
          \/ \E n \in {requireWhitelistResolver, requireFeeResolver, requireTokenGatedResolver} :
                 m \in {<<n, Read>>, <<n, Transact>>}
    BY ZenonT(60) DEF Methods, getSchema, getAttestation, getAuthority, setAuthorityVerification,
           listSchemas, listAttestations, getProfile, whitelistAdd, whitelistRemove,
           whitelistCheck, whitelistOwner, feeDeposit, feeSetFee, feeWithdraw, feeGetFee,
           feeGetBalance, feeOwner, tokenGatedSetConfig, tokenGatedGetConfig, tokenGatedOwner,
           tokenRewardSetConfig, tokenRewardGetConfig, tokenRewardGetDistributed,
           tokenRewardOwner, crossContractSetPipeline, crossContractGetPipeline,
           crossContractOwner, addDelegate, removeDelegate, isDelegate, getDelegates, mintNFT,
           scheduleRevocation, getScheduledRevocation, createMultiSigAuthority,
           getAccountKeyInfo, stakeTokens, unstakeTokens, getStake, uploadSchemaFile,
           readSchemaFile, fetchPaginated, fetchSingle, getFullProfile
<1> QED BY <1>1, <1>2, <1>3, <1>4, <1>5

\* Every command calls one method, or only asks.
LEMMA CommandsAreGood == \A m \in Commands : Good(m)
<1>1. \A m \in Methods : Good(Command(m))
    BY MethodsAreGood, StepsOfMethods, QuietPrefixes DEF Command, createService
<1>2. Good(HcsTopics) /\ Good(HcsMessages)
    BY ShortPrograms, StepsOfMethods, Guarded DEF HcsTopics, HcsMessages
<1>3. \A m \in Commands : (\E n \in Methods : m = Command(n)) \/ m \in {HcsTopics, HcsMessages}
    BY ZenonT(60) DEF Commands, Methods,
           SchemaCreate, SchemaFetch, SchemaList, AttestationCreate, AttestationFetch,
           AttestationList, AttestationRevoke, AuthorityRegister, AuthorityFetch,
           AuthorityVerify, Profile, WhitelistAdd, WhitelistRemove, WhitelistCheck,
           WhitelistOwner, FeeDeposit, FeeSetFee, FeeWithdraw, FeeGetFee, FeeBalance,
           FeeOwner, TokenGatedSetConfig, TokenGatedGetConfig, TokenGatedOwner, NftMint,
           DelegateAdd, DelegateRemove, DelegateCheck, DelegateList, DelegateAttest,
           DelegateRevoke, TokenRewardSetConfig, TokenRewardGetConfig,
           TokenRewardDistributed, TokenRewardOwner, CrossContractSetPipeline,
           CrossContractGetPipeline, CrossContractOwner, ScheduleRevoke, ScheduleStatus,
           MultisigCreate, MultisigInfo, StakingStake, StakingUnstake, StakingBalance,
           FileSchemaUpload, FileSchemaRead, FileSchemaRegister
<1> QED BY <1>1, <1>2, <1>3

\* A tool calls one method, after a question and an encoding at most.
LEMMA ToolsAreGood == \A p \in handleRequest : Good(p)
<1>1. Good(<<>>) /\ Good(<<Encode>>) /\ Good(createAttestation)
    BY ShortPrograms, StepsOfMethods, MethodsAreGood DEF Methods
<1>2. Good(<<Peek>> \o createAttestation) /\ Good(<<Peek, Encode>> \o createAttestation)
    BY <1>1, StepsOfMethods, QuietFirst, QuietPrefixes
<1>3. \A p \in handleRequest :
          \/ p \in Methods
          \/ p \in {<<>>, <<Encode>>, <<Peek>> \o createAttestation,
                   <<Peek, Encode>> \o createAttestation}
    BY ZenonT(60) DEF handleRequest, Programs, getAllTools, Methods, registerSchemaTool,
           getSchemaTool, listSchemasTool, createAttestationTool, getAttestationTool,
           revokeAttestationTool, listAttestationsTool, registerAuthorityTool,
           getAuthorityTool, getProfileTool, encodeDataTool, decodeDataTool,
           whitelistCheckTool, feeGetFeeTool, feeGetBalanceTool, mintNFTTool,
           scheduleRevocationTool
<1> QED BY <1>1, <1>2, <1>3, MethodsAreGood

\* Whatever the repository runs is disciplined.
LEMMA RepositoryIsGood == \A p \in RepositoryPrograms : Good(p)
<1>1. ASSUME NEW t \in Programs(getAttestifyTools) PROVE Good(Ai(t))
    <2>1. Good(t)
        BY <1>1, ToolsAreGood DEF handleRequest, getAttestifyTools
    <2> QED BY <2>1, StepsOfMethods, QuietPrefixes DEF Ai
<1> QED BY <1>1, MethodsAreGood, CommandsAreGood, ToolsAreGood DEF RepositoryPrograms

RunsTheRepository ==
    \A w \in Workload : \A c \in Call : w.run[c] \in RepositoryPrograms

-----------------------------------------------------------------------------
\* The audit trail of a process that runs the programs of the repository tells of nothing
\* that is not on the ledger.
THEOREM AuditTrailIsTrue == ASSUME RunsTheRepository PROVE Spec => []AuditsAreTrue
BY RepositoryIsGood, AuditsTrue DEF RunsTheRepository, Good, Disciplined

\* A command of the repository that exits with 0 has done what it was asked for.
THEOREM ExitCodeIsTrue == ASSUME RunsTheRepository PROVE Spec => []ExitCodeTells
BY RepositoryIsGood, ZeroIsHonest DEF RunsTheRepository, Good, Disciplined

\* What callers of the repository's programs may conclude is what module Operation says.
THEOREM ProgramsAreOperations == ASSUME RunsTheRepository PROVE Spec => ImplementsOperation
BY RepositoryIsGood, CallsAreOperations DEF RunsTheRepository, Good, Disciplined
-----------------------------------------------------------------------------
(* What is left of a call, and how often its message is sent *)

\* The steps left are the last steps of the program: the meaning of IsSuffix.
LEMMA SuffixMeans ==
    ASSUME NEW S, NEW s \in Seq(S), NEW t \in Seq(S)
    PROVE  IsSuffix(s, t) <=> /\ Len(s) <= Len(t)
                              /\ \A i \in 1 .. Len(s) : s[i] = t[i + (Len(t) - Len(s))]
<1> DEFINE n == Len(s)
           m == Len(t)
           rs == Reverse(s)
           rt == Reverse(t)
<1>1. n \in Nat /\ m \in Nat
    OBVIOUS
<1>2. /\ rs = [i \in 1 .. n |-> s[n - i + 1]] /\ rt = [i \in 1 .. m |-> t[m - i + 1]]
    BY DEF Reverse
<1>3. rs \in Seq(S) /\ rt \in Seq(S) /\ Len(rs) = n /\ Len(rt) = m
    <2>1. \A i \in 1 .. n : n - i + 1 \in 1 .. n
        BY <1>1
    <2>2. \A i \in 1 .. m : m - i + 1 \in 1 .. m
        BY <1>1
    <2> QED BY <1>1, <1>2, <2>1, <2>2
<1>4. IsSuffix(s, t) <=> n <= m /\ SubSeq(rs, 1, n) = SubSeq(rt, 1, n)
    BY <1>3 DEF IsSuffix, IsPrefix
<1>5. /\ \A i \in 1 .. n : rs[i] = s[n - i + 1]
      /\ \A i \in 1 .. m : rt[i] = t[m - i + 1]
    BY <1>2
<1> HIDE DEF n, m, rs, rt
<1>6. ASSUME n <= m
      PROVE  SubSeq(rs, 1, n) = SubSeq(rt, 1, n) <=> \A i \in 1 .. n : rs[i] = rt[i]
    <2>1. /\ SubSeq(rs, 1, n) \in Seq(S) /\ Len(SubSeq(rs, 1, n)) = n
          /\ \A i \in 1 .. n : SubSeq(rs, 1, n)[i] = rs[i]
        BY <1>1, <1>3
    <2>2. /\ SubSeq(rt, 1, n) \in Seq(S) /\ Len(SubSeq(rt, 1, n)) = n
          /\ \A i \in 1 .. n : SubSeq(rt, 1, n)[i] = rt[i]
        BY <1>1, <1>3, <1>6
    <2> QED BY <2>1, <2>2, SeqEqual
<1>7. ASSUME n <= m
      PROVE  (\A i \in 1 .. n : rs[i] = rt[i]) <=> \A i \in 1 .. n : s[i] = t[i + (m - n)]
    <2>1. ASSUME \A i \in 1 .. n : rs[i] = rt[i], NEW i \in 1 .. n
          PROVE  s[i] = t[i + (m - n)]
        <3>1. /\ n - i + 1 \in 1 .. n /\ n - i + 1 \in 1 .. m
              /\ n - (n - i + 1) + 1 = i /\ m - (n - i + 1) + 1 = i + (m - n)
            BY <1>1, <1>7
        <3>2. rs[n - i + 1] = s[i] /\ rt[n - i + 1] = t[i + (m - n)]
            BY <1>5, <3>1
        <3> QED BY <2>1, <3>1, <3>2
    <2>2. ASSUME \A i \in 1 .. n : s[i] = t[i + (m - n)], NEW i \in 1 .. n
          PROVE  rs[i] = rt[i]
        <3>1. /\ n - i + 1 \in 1 .. n /\ i \in 1 .. m /\ (n - i + 1) + (m - n) = m - i + 1
            BY <1>1, <1>7
        <3> QED BY <1>5, <2>2, <3>1
    <2> QED BY <2>1, <2>2
<1> QED BY <1>4, <1>6, <1>7 DEF n, m

\* What is left after a step is still the end of the program.
LEMMA TailIsSuffix ==
    ASSUME NEW S, NEW s \in Seq(S), NEW t \in Seq(S), IsSuffix(s, t)
    PROVE  /\ s # <<>> => IsSuffix(Tail(s), t)
           /\ IsSuffix(<<>>, t)
           /\ IsSuffix(t, t)
<1>1. Len(s) \in Nat /\ Len(t) \in Nat
    OBVIOUS
<1>2. /\ Len(s) <= Len(t) /\ \A i \in 1 .. Len(s) : s[i] = t[i + (Len(t) - Len(s))]
    BY SuffixMeans
<1>3. ASSUME s # <<>> PROVE IsSuffix(Tail(s), t)
    <2>1. /\ Tail(s) \in Seq(S) /\ Len(Tail(s)) = Len(s) - 1 /\ Len(s) >= 1
          /\ \A i \in 1 .. Len(Tail(s)) : Tail(s)[i] = s[i + 1]
        BY <1>3
    <2>2. ASSUME NEW i \in 1 .. Len(Tail(s))
          PROVE  Tail(s)[i] = t[i + (Len(t) - Len(Tail(s)))]
        <3>1. i + 1 \in 1 .. Len(s) /\ (i + 1) + (Len(t) - Len(s)) = i + (Len(t) - Len(Tail(s)))
            BY <1>1, <2>1
        <3> QED BY <1>2, <2>1, <3>1
    <2>3. PICK q : q = Tail(s)
        OBVIOUS
    <2>4. /\ q \in Seq(S) /\ Len(q) <= Len(t)
          /\ \A i \in 1 .. Len(q) : q[i] = t[i + (Len(t) - Len(q))]
        BY <1>1, <1>2, <2>1, <2>2, <2>3
    <2>5. IsSuffix(q, t)
        BY <2>4, SuffixMeans
    <2> QED BY <2>3, <2>5
<1>4. IsSuffix(<<>>, t)
    <2>1. PICK q : q = <<>>
        OBVIOUS
    <2>2. q \in Seq(S) /\ Len(q) = 0 /\ 1 .. Len(q) = {}
        BY <2>1
    <2>3. Len(q) <= Len(t) /\ \A i \in 1 .. Len(q) : q[i] = t[i + (Len(t) - Len(q))]
        BY <1>1, <2>2
    <2>4. IsSuffix(q, t)
        BY <2>2, <2>3, SuffixMeans
    <2> QED BY <2>1, <2>4
<1>5. IsSuffix(t, t)
    BY <1>1, SuffixMeans
<1> QED BY <1>3, <1>4, <1>5

Messages == {<<Log(t)>> : t \in Topic} \cup {<<Read, Log(t)>> : t \in Topic}

\* A copy of the message may be on the topic for every attempt that failed, and one for
\* the attempt that did not.
SendsOnce(c) ==
    /\ left[c] \in Seq(Steps) /\ asked[c] \in Seq(Steps)
    /\ AuditIsLast(left[c]) /\ IsSuffix(left[c], asked[c])
    /\ background[c] \in Messages \cup {<<>>}
    /\ background[c] # <<>> => left[c] = <<>>
    /\ tries[c] \in 0 .. MaxRetries - 1 /\ copies[c] \in Nat
    /\ copies[c] <= tries[c] + 1
    /\ left[c] # <<>> \/ background[c] # <<>> => copies[c] <= tries[c]

Bounded ==
    /\ DOMAIN left = Call /\ DOMAIN background = Call
    /\ tries \in [Call -> 0 .. MaxRetries - 1] /\ copies \in [Call -> Nat]
    /\ process \in [state : {"up", "exiting", "down"}, code : {0, 1, 130}]
    /\ \A c \in Call : SendsOnce(c)

\* Once a step is done its rest tells last as well; once the last is told nothing is left.
LEMMA AuditStaysLast ==
    ASSUME NEW S, NEW p \in Seq(S), AuditIsLast(p), p # <<>>
    PROVE  /\ AuditIsLast(Tail(p))
           /\ Head(p).do \in Auditing => Tail(p) = <<>>
<1>1. /\ Len(p) \in Nat /\ Len(p) >= 1 /\ Head(p) = p[1] /\ Len(Tail(p)) = Len(p) - 1
      /\ \A i \in 1 .. Len(Tail(p)) : Tail(p)[i] = p[i + 1]
      /\ Tail(p) \in Seq(S)
    OBVIOUS
<1>2. PICK q : q = Tail(p)
    OBVIOUS
<1>3. /\ q \in Seq(S) /\ Len(q) \in Nat /\ Len(q) = Len(p) - 1
      /\ \A i \in 1 .. Len(q) : q[i] = p[i + 1]
    BY <1>1, <1>2
<1>4. ASSUME NEW i \in 1 .. Len(q), q[i].do \in Auditing PROVE i = Len(q)
    <2>1. i + 1 \in 1 .. Len(p) /\ p[i + 1].do \in Auditing
        BY <1>1, <1>3, <1>4
    <2>2. \A k \in 1 .. Len(p) : p[k].do \in Auditing => k = Len(p)
        BY DEF AuditIsLast
    <2>3. i + 1 = Len(p)
        BY <2>1, <2>2
    <2>4. Len(p) \in Nat /\ Len(q) \in Nat /\ Len(q) = Len(p) - 1
        BY <1>1, <1>3
    <2> QED BY <2>3, <2>4
<1>5. ASSUME Head(p).do \in Auditing PROVE q = <<>>
    <2>1. 1 \in 1 .. Len(p) /\ p[1].do \in Auditing
        BY <1>1, <1>3, <1>5
    <2>2. \A k \in 1 .. Len(p) : p[k].do \in Auditing => k = Len(p)
        BY DEF AuditIsLast
    <2>3. 1 = Len(p)
        BY <2>1, <2>2
    <2>4. Len(q) = Len(p) - 1
        BY <1>3
    <2>5. q \in Seq(S) /\ Len(q) = 0
        BY <1>3, <2>3, <2>4
    <2> QED BY <2>5, EmptySeq
<1> QED BY <1>2, <1>4, <1>5 DEF AuditIsLast

Rests(d) == /\ left'[d] = left[d] /\ background'[d] = background[d]
            /\ tries'[d] = tries[d] /\ copies'[d] = copies[d]

\* It is enough to look at the call that moves.
LEMMA BoundedMoves ==
    ASSUME Bounded, NEW c \in Call, asked' = asked, process' = process,
           DOMAIN left' = Call, DOMAIN background' = Call,
           tries' \in [Call -> 0 .. MaxRetries - 1], copies' \in [Call -> Nat],
           \A d \in Call \ {c} : Rests(d), SendsOnce(c)'
    PROVE  Bounded'
<1> SUFFICES ASSUME NEW d \in Call, d # c PROVE SendsOnce(d)'
    BY DEF Bounded
<1>1. SendsOnce(d) /\ Rests(d)
    BY DEF Bounded
<1> QED BY <1>1 DEF SendsOnce, Rests, Steps, Messages

\* A step before the message leaves less to do, and ends it when it fails.
LEMMA StepBefore ==
    ASSUME Bounded, NEW c \in Call, asked' = asked, process' = process,
           UNCHANGED <<background, tries, copies>>,
           \/ left' = left
           \/ left[c] # <<>> /\ left' = [left EXCEPT ![c] = Tail(@)]
           \/ left[c] # <<>> /\ left' = [left EXCEPT ![c] = <<>>]
    PROVE  Bounded'
<1>1. /\ SendsOnce(c) /\ DOMAIN left = Call
    BY DEF Bounded
<1>2. /\ left[c] \in Seq(Steps) /\ asked[c] \in Seq(Steps) /\ IsSuffix(left[c], asked[c])
      /\ AuditIsLast(left[c])
    BY <1>1 DEF SendsOnce
<1>3. /\ DOMAIN left' = Call /\ \A d \in Call \ {c} : Rests(d)
    BY <1>1 DEF Rests, Bounded
<1>4. CASE left' = left
    BY <1>3, <1>4, BoundedMoves DEF Bounded, SendsOnce, Steps, Messages
<1>5. CASE left[c] # <<>> /\ left' = [left EXCEPT ![c] = Tail(@)]
    <2>1. left'[c] = Tail(left[c]) /\ Tail(left[c]) \in Seq(Steps)
        BY <1>1, <1>2, <1>5
    <2>2. AuditIsLast(Tail(left[c])) /\ IsSuffix(Tail(left[c]), asked[c])
        BY <1>2, <1>5, AuditStaysLast, TailIsSuffix
    <2>3. background[c] = <<>> /\ copies[c] <= tries[c]
        BY <1>1, <1>5 DEF SendsOnce
    <2>4. SendsOnce(c)'
        BY <1>1, <2>1, <2>2, <2>3 DEF SendsOnce, Steps, Messages
    <2> QED BY <1>3, <2>4, BoundedMoves DEF Bounded
<1>6. CASE left[c] # <<>> /\ left' = [left EXCEPT ![c] = <<>>]
    <2>1. left'[c] = <<>> /\ <<>> \in Seq(Steps)
        BY <1>1, <1>6
    <2>2. AuditIsLast(<<>>) /\ IsSuffix(<<>>, asked[c])
        BY <1>2, TailIsSuffix DEF AuditIsLast
    <2>3. background[c] = <<>>
        BY <1>1, <1>6 DEF SendsOnce
    <2>4. SendsOnce(c)'
        BY <1>1, <2>1, <2>2, <2>3 DEF SendsOnce, Steps, Messages
    <2> QED BY <1>3, <2>4, BoundedMoves DEF Bounded
<1> QED BY <1>4, <1>5, <1>6

\* An attempt that fails is counted; one that does not may have delivered one copy more.
LEMMA AttemptEffect ==
    ASSUME Bounded, NEW c \in Call, NEW topic, NEW ACTION done, Submit(c, topic, done),
           copies[c] <= tries[c]
    PROVE  /\ tries' \in [Call -> 0 .. MaxRetries - 1] /\ copies' \in [Call -> Nat]
           /\ \A d \in Call \ {c} : tries'[d] = tries[d] /\ copies'[d] = copies[d]
           /\ tries'[c] \in 0 .. MaxRetries - 1 /\ copies'[c] \in Nat
           /\ \/ copies'[c] <= tries'[c] /\ UNCHANGED <<left, background>>
              \/ copies'[c] <= tries'[c] + 1 /\ done
<1>1. /\ tries \in [Call -> 0 .. MaxRetries - 1] /\ copies \in [Call -> Nat]
      /\ tries[c] \in 0 .. MaxRetries - 1 /\ copies[c] \in Nat
    BY DEF Bounded, SendsOnce
<1>2. CASE topic \in topics
    <2>1. PICK delivered \in BOOLEAN, failed \in BOOLEAN :
              /\ copies' = [copies EXCEPT ![c] = IF delivered THEN @ + 1 ELSE @]
              /\ IF failed /\ tries[c] + 1 < MaxRetries
                 THEN tries' = [tries EXCEPT ![c] = @ + 1] /\ UNCHANGED <<left, background, result>>
                 ELSE tries' = tries /\ done
        BY <1>2 DEF Submit, Attempt
    <2>2. /\ copies' \in [Call -> Nat] /\ \A d \in Call \ {c} : copies'[d] = copies[d]
          /\ copies'[c] \in Nat /\ copies'[c] <= copies[c] + 1
        BY <1>1, <2>1
    <2>3. CASE failed /\ tries[c] + 1 < MaxRetries
        <3>1. tries' = [tries EXCEPT ![c] = tries[c] + 1] /\ UNCHANGED <<left, background>>
            BY <2>1, <2>3
        <3>2. /\ tries' \in [Call -> 0 .. MaxRetries - 1]
              /\ \A d \in Call \ {c} : tries'[d] = tries[d]
              /\ tries'[c] = tries[c] + 1
            BY <1>1, <2>3, <3>1 DEF MaxRetries
        <3> QED BY <1>1, <2>2, <2>3, <3>1, <3>2 DEF MaxRetries
    <2>4. CASE ~(failed /\ tries[c] + 1 < MaxRetries)
        <3>1. tries' = tries /\ done
            BY <2>1, <2>4
        <3> QED BY <1>1, <2>2, <3>1 DEF MaxRetries
    <2> QED BY <2>3, <2>4
<1>3. CASE topic \notin topics
    <2>1. done /\ UNCHANGED <<tries, copies>>
        BY <1>3 DEF Submit
    <2> QED BY <1>1, <2>1 DEF MaxRetries
<1> QED BY <1>2, <1>3

\* The message that is awaited is the last step.
LEMMA AwaitedOnce ==
    ASSUME Bounded, NEW c \in Call, LogAwaited(c)
    PROVE  Bounded'
<1> DEFINE done == Goes(c) /\ UNCHANGED background
<1>0. /\ SendsOnce(c) /\ DOMAIN left = Call /\ DOMAIN background = Call
      /\ left[c] # <<>> /\ Head(left[c]).do \in Auditing
      /\ UNCHANGED <<asked, process>>
    BY DEF Bounded, LogAwaited, At, Running, Auditing, config
<1>1. /\ left[c] \in Seq(Steps) /\ asked[c] \in Seq(Steps) /\ IsSuffix(left[c], asked[c])
      /\ AuditIsLast(left[c]) /\ background[c] = <<>> /\ copies[c] <= tries[c]
    BY <1>0 DEF SendsOnce
<1>2. Submit(c, Head(left[c]).topic, done)
    BY DEF LogAwaited
<1>3. /\ tries' \in [Call -> 0 .. MaxRetries - 1] /\ copies' \in [Call -> Nat]
      /\ \A d \in Call \ {c} : tries'[d] = tries[d] /\ copies'[d] = copies[d]
      /\ tries'[c] \in 0 .. MaxRetries - 1 /\ copies'[c] \in Nat
      /\ \/ copies'[c] <= tries'[c] /\ UNCHANGED <<left, background>>
         \/ copies'[c] <= tries'[c] + 1 /\ done
    <2> HIDE DEF done
    <2> QED BY <1>1, <1>2, AttemptEffect
<1>4. CASE copies'[c] <= tries'[c] /\ UNCHANGED <<left, background>>
    <2>1. SendsOnce(c)'
        BY <1>0, <1>1, <1>3, <1>4 DEF SendsOnce, Steps, Messages
    <2>2. \A d \in Call \ {c} : Rests(d)
        BY <1>3, <1>4 DEF Rests
    <2> QED BY <1>0, <1>3, <1>4, <2>1, <2>2, BoundedMoves
<1>5. CASE copies'[c] <= tries'[c] + 1 /\ done
    <2>1. left' = [left EXCEPT ![c] = Tail(@)] /\ background' = background
        BY <1>5 DEF Goes
    <2>2. left'[c] = <<>> /\ <<>> \in Seq(Steps)
        BY <1>0, <1>1, <2>1, AuditStaysLast
    <2>3. AuditIsLast(<<>>) /\ IsSuffix(<<>>, asked[c])
        BY <1>1, TailIsSuffix DEF AuditIsLast
    <2>4. SendsOnce(c)'
        BY <1>0, <1>1, <1>3, <1>5, <2>1, <2>2, <2>3 DEF SendsOnce, Steps, Messages
    <2>5. DOMAIN left' = Call /\ \A d \in Call \ {c} : Rests(d)
        BY <1>0, <1>3, <2>1 DEF Rests
    <2> QED BY <1>0, <1>3, <2>1, <2>4, <2>5, BoundedMoves
<1> QED BY <1>3, <1>4, <1>5

\* What is started without waiting is the last step too.
LEMMA StartedOnce ==
    ASSUME Bounded, NEW c \in Call, Start(c)
    PROVE  Bounded'
<1>0. /\ SendsOnce(c) /\ DOMAIN left = Call /\ DOMAIN background = Call
      /\ left[c] # <<>> /\ Head(left[c]).do = "fork"
      /\ UNCHANGED <<asked, process, tries, copies>>
      /\ left' = [left EXCEPT ![c] = Tail(@)]
      /\ background' = IF topics = {} THEN background
                       ELSE [background EXCEPT ![c] = Head(left[c]).background]
    BY DEF Bounded, Start, At, Running, Goes, config
<1>1. /\ left[c] \in Seq(Steps) /\ asked[c] \in Seq(Steps) /\ IsSuffix(left[c], asked[c])
      /\ AuditIsLast(left[c]) /\ background[c] = <<>> /\ copies[c] <= tries[c]
    BY <1>0 DEF SendsOnce
<1>2. Head(left[c]) \in Steps
    BY <1>0, <1>1
<1>3. Head(left[c]).background \in Messages
    BY <1>0, <1>2 DEF Steps, Quiet, Effects, Audits, Messages, Step, Read, Peek, Query, Try, Encode,
                      Options, Load, Model, Needs, Transact, Execute, Log, Fork
<1>4. left'[c] = <<>> /\ <<>> \in Seq(Steps) /\ AuditIsLast(<<>>) /\ IsSuffix(<<>>, asked[c])
    BY <1>0, <1>1, AuditStaysLast, TailIsSuffix DEF Auditing, AuditIsLast
<1>5. /\ DOMAIN left' = Call /\ DOMAIN background' = Call
      /\ background'[c] \in Messages \cup {<<>>}
      /\ \A d \in Call \ {c} : Rests(d)
    BY <1>0, <1>1, <1>3 DEF Rests
<1>6. SendsOnce(c)'
    BY <1>0, <1>1, <1>4, <1>5 DEF SendsOnce, Steps, Messages
<1> QED BY <1>0, <1>5, <1>6, BoundedMoves DEF Bounded

\* What runs in the background reads, and then tells.
LEMMA TellingEnds ==
    ASSUME NEW b \in Messages
    PROVE  /\ Tail(b) \in Messages \cup {<<>>}
           /\ Head(b).do # "read" => Tail(b) = <<>>
<1>1. PICK t \in Topic : b = <<Log(t)>> \/ b = <<Read, Log(t)>>
    BY DEF Messages
<1>2. CASE b = <<Log(t)>>
    <2>1. Tail(b) = <<>>
        BY <1>2, EmptySeq
    <2> QED BY <2>1
<1>3. CASE b = <<Read, Log(t)>>
    <2>1. Head(b) = Read
        BY <1>3
    <2>2. Tail(b) = <<Log(t)>>
        BY <1>3
    <2> QED BY <2>1, <2>2 DEF Messages, Read, Step
<1> QED BY <1>1, <1>2, <1>3

\* In the background one message is sent, and nothing is left of the call then.
LEMMA BehindOnce ==
    ASSUME Bounded, NEW c \in Call, LogInBackground(c)
    PROVE  Bounded'
<1> DEFINE done == NextInBackground(c)
<1>0. /\ SendsOnce(c) /\ DOMAIN left = Call /\ DOMAIN background = Call
      /\ background[c] # <<>> /\ UNCHANGED <<asked, process>>
    BY DEF Bounded, LogInBackground, config
<1>1. /\ left[c] = <<>> /\ left[c] \in Seq(Steps) /\ asked[c] \in Seq(Steps)
      /\ IsSuffix(left[c], asked[c]) /\ AuditIsLast(left[c])
      /\ background[c] \in Messages /\ copies[c] <= tries[c]
    BY <1>0 DEF SendsOnce
<1>2. /\ Tail(background[c]) \in Messages \cup {<<>>}
      /\ Head(background[c]).do # "read" => Tail(background[c]) = <<>>
    BY <1>1, TellingEnds
<1>4. CASE Head(background[c]).do = "read"
    <2>1. /\ UNCHANGED <<left, tries, copies>>
          /\ \/ background' = [background EXCEPT ![c] = Tail(@)]
             \/ background' = [background EXCEPT ![c] = <<>>]
        BY <1>4 DEF LogInBackground, NextInBackground
    <2>2. /\ DOMAIN background' = Call /\ background'[c] \in Messages \cup {<<>>}
          /\ \A d \in Call \ {c} : Rests(d)
        BY <1>0, <1>2, <2>1 DEF Rests
    <2>3. SendsOnce(c)'
        BY <1>0, <1>1, <2>1, <2>2 DEF SendsOnce, Steps, Messages
    <2> QED BY <1>0, <2>1, <2>2, <2>3, BoundedMoves DEF Bounded
<1>5. CASE Head(background[c]).do # "read"
    <2>1. Submit(c, Head(background[c]).topic, done)
        BY <1>5 DEF LogInBackground
    <2>2. /\ tries' \in [Call -> 0 .. MaxRetries - 1] /\ copies' \in [Call -> Nat]
          /\ \A d \in Call \ {c} : tries'[d] = tries[d] /\ copies'[d] = copies[d]
          /\ tries'[c] \in 0 .. MaxRetries - 1 /\ copies'[c] \in Nat
          /\ \/ copies'[c] <= tries'[c] /\ UNCHANGED <<left, background>>
             \/ copies'[c] <= tries'[c] + 1 /\ done
        <3> HIDE DEF done
        <3> QED BY <1>1, <2>1, AttemptEffect
    <2>3. CASE copies'[c] <= tries'[c] /\ UNCHANGED <<left, background>>
        <3>1. SendsOnce(c)'
            BY <1>0, <1>1, <2>2, <2>3 DEF SendsOnce, Steps, Messages
        <3>2. \A d \in Call \ {c} : Rests(d)
            BY <2>2, <2>3 DEF Rests
        <3> QED BY <1>0, <2>2, <2>3, <3>1, <3>2, BoundedMoves
    <2>4. CASE copies'[c] <= tries'[c] + 1 /\ done
        <3>1. background' = [background EXCEPT ![c] = Tail(@)] /\ left' = left
            BY <2>4 DEF NextInBackground
        <3>2. /\ DOMAIN background' = Call /\ background'[c] = <<>>
              /\ \A d \in Call \ {c} : Rests(d)
            BY <1>0, <1>2, <1>5, <2>2, <3>1 DEF Rests
        <3>3. SendsOnce(c)'
            BY <1>0, <1>1, <2>2, <2>4, <3>1, <3>2 DEF SendsOnce, Steps, Messages
        <3> QED BY <1>0, <2>2, <3>1, <3>2, <3>3, BoundedMoves
    <2> QED BY <2>2, <2>3, <2>4
<1> QED BY <1>4, <1>5

\* No call sends more than one message, and that no more often than submitMessage tries.
LEMMA BoundedStep == Bounded /\ [Next]_vars => Bounded'
<1> SUFFICES ASSUME Bounded, [Next]_vars PROVE Bounded'
    OBVIOUS
<1>1. ASSUME NEW c \in Call, Local(c) \/ Require(c) \/ Ask(c) \/ Receipt(c) \/ ReceiptLost(c)
      PROVE  Bounded'
    <2>1. /\ asked' = asked /\ process' = process /\ UNCHANGED <<background, tries, copies>>
          /\ left[c] # <<>> /\ (Goes(c) \/ \E e : Fails(c, e))
        BY <1>1 DEF Local, Require, Ask, Receipt, ReceiptLost, At, config
    <2>2. \/ left' = [left EXCEPT ![c] = Tail(@)]
          \/ left' = [left EXCEPT ![c] = <<>>]
        BY <2>1 DEF Goes, Fails
    <2> QED BY <2>1, <2>2, StepBefore
<1>2. ASSUME NEW c \in Call, Send(c) PROVE Bounded'
    <2>1. /\ asked' = asked /\ process' = process /\ UNCHANGED <<background, tries, copies>>
          /\ left[c] # <<>> /\ (left' = left \/ \E e : Fails(c, e))
        BY <1>2 DEF Send, At, config
    <2>2. left' = left \/ left' = [left EXCEPT ![c] = <<>>]
        BY <2>1 DEF Fails
    <2> QED BY <2>1, <2>2, StepBefore
<1>3. ASSUME NEW c \in Call, Decide(c) \/ Return(c) PROVE Bounded'
    BY <1>3, StepBefore DEF Decide, Return, config
<1>4. ASSUME NEW c \in Call, Start(c) \/ LogAwaited(c) \/ LogInBackground(c) PROVE Bounded'
    BY <1>4, StartedOnce, AwaitedOnce, BehindOnce
<1>5. CASE Output \/ Exit \/ Killed \/ UNCHANGED vars
    <2>1. /\ UNCHANGED <<asked, left, background, tries, copies>>
          /\ process' \in [state : {"up", "exiting", "down"}, code : {0, 1, 130}]
        BY <1>5 DEF Output, Exit, Killed, vars, config, Bounded
    <2>2. \A c \in Call : SendsOnce(c)'
        BY <2>1 DEF Bounded, SendsOnce
    <2> QED BY <2>1, <2>2 DEF Bounded
<1> QED BY <1>1, <1>2, <1>3, <1>4, <1>5 DEF Next, Proceed

\* Every variable keeps its type, what is left of a call is the end of its program, and no
\* audit message is sent more often than submitMessage tries.
THEOREM ClientsTypeCorrect == ASSUME RunsTheRepository PROVE Spec => []ClientsTypeOK
<1>1. Disciplined(Steps)
    BY RepositoryIsGood DEF RunsTheRepository, Good, Disciplined
<1>2. Init => Bounded
    <2> SUFFICES ASSUME Init PROVE Bounded
        OBVIOUS
    <2>1. PICK w \in Workload : asked = w.run
        BY DEF Init
    <2>2. DOMAIN asked = Call
        BY <2>1, ClientsAssumption
    <2>3. ASSUME NEW c \in Call PROVE SendsOnce(c)
        <3>1. asked[c] \in Seq(Steps) /\ AuditIsLast(asked[c])
            BY <2>1, RepositoryIsGood DEF RunsTheRepository, Good
        <3>2. IsSuffix(asked[c], asked[c])
            <4>1. <<>> \in Seq(Steps) /\ Len(<<>>) = 0 /\ 1 .. 0 = {} /\ Len(asked[c]) \in Nat
                BY <3>1
            <4> QED BY <3>1, <4>1, SuffixMeans
        <3>3. /\ left[c] = asked[c] /\ background[c] = <<>> /\ tries[c] = 0 /\ copies[c] = 0
            BY DEF Init
        <3> QED BY <3>1, <3>2, <3>3 DEF SendsOnce, MaxRetries
    <2>4. /\ tries \in [Call -> 0 .. MaxRetries - 1] /\ copies \in [Call -> Nat]
          /\ DOMAIN left = Call /\ DOMAIN background = Call
          /\ process \in [state : {"up", "exiting", "down"}, code : {0, 1, 130}]
        BY <2>2 DEF Init, Up, MaxRetries
    <2> QED BY <2>3, <2>4 DEF Bounded
<1>3. Inv(Steps) /\ Bounded => ClientsTypeOK
    <2> SUFFICES ASSUME Inv(Steps), Bounded PROVE ClientsTypeOK
        OBVIOUS
    <2>1. ASSUME NEW c \in Call
          PROVE  /\ IsSuffix(left[c], asked[c]) /\ tries[c] \in 0 .. MaxRetries - 1
                 /\ copies[c] \in 0 .. MaxRetries
        BY DEF Bounded, SendsOnce, MaxRetries
    <2>2. /\ result \in [Call -> {"open", "ok", "refused", "network", "unknown", "local"}]
          /\ tx \in [Call -> {"none", "sent", "landed", "failed"}]
          /\ tries \in [Call -> 0 .. MaxRetries - 1] /\ copies \in [Call -> Nat]
        BY DEF Inv, Shape, Bounded
    <2>3. copies \in [Call -> 0 .. MaxRetries]
        BY <2>1, <2>2
    <2>4. process.state \in {"up", "exiting", "down"} /\ process.code \in {0, 1, 130}
        BY DEF Bounded
    <2> QED BY <2>1, <2>2, <2>3, <2>4 DEF ClientsTypeOK
<1>4. Init => Inv(Steps)
    BY <1>1, InvInit
<1>5. Inv(Steps) /\ [Next]_vars => Inv(Steps)'
    BY InvStep
<1> QED BY <1>2, <1>3, <1>4, <1>5, BoundedStep, PTL DEF Spec
=============================================================================
