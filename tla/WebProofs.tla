----------------------------- MODULE WebProofs -----------------------------
(***************************************************************************)
(* Theorems about WebTab, for any pages whose lists and forms are built    *)
(* the way those of the repository are, any number of clicks, rows and     *)
(* inputs, and any wallet.                                                 *)
(***************************************************************************)
EXTENDS WebTab, SequenceTheorems, TLAPS

-----------------------------------------------------------------------------
(* The wallet: what it says, and what of it the page has not heard yet *)

Accounts == WalletAccount \cup {None}

OfAccount == {"accountsChanged", "eth_accounts", "eth_requestAccounts"}
OfChain   == {"chainChanged", "eth_chainId", "wallet_switchEthereumChain",
              "wallet_addEthereumChain"}

Message ==
    [kind : {"accountsChanged"}, by : {"event"}, value : Accounts]
    \cup [kind : {"eth_accounts"}, by : {"mount"}, value : Accounts]
    \cup [kind : {"eth_requestAccounts"}, by : {"connect"}, value : WalletAccount]
    \cup [kind : {"chainChanged"}, by : {"event"}, value : Chain]
    \cup [kind : {"eth_chainId"}, by : {"mount", "connect"}, value : Chain]
    \cup [kind : {"wallet_switchEthereumChain", "wallet_addEthereumChain"},
          by : {"connect", "switch"}, value : {Hedera}]
    \cup [kind : {"refused", "4902"}, by : {"connect", "switch"}, value : {None}]

Request ==
    [by : {"mount"}, method : {"eth_accounts", "eth_chainId"}]
    \cup [by : {"connect"}, method : {"eth_requestAccounts", "eth_chainId"}]
    \cup [by : {"connect", "switch"},
          method : {"wallet_switchEthereumChain", "wallet_addEthereumChain"}]

\* The last message of some kinds tells what is so now; if there is none, what the page
\* holds is so already, or it holds nothing.
Hears(q, kinds, now, held) ==
    /\ \A k \in 1 .. Len(q) :
          q[k].kind \in kinds /\ (\A j \in k + 1 .. Len(q) : q[j].kind \notin kinds)
              => q[k].value = now
    /\ (\A k \in 1 .. Len(q) : q[k].kind \notin kinds) => held \in {None, now}

\* The answer on mount repeats the message about the account before it; an empty answer
\* is ignored, and tells nothing new.
Repeats(q, held) ==
    \A k \in 1 .. Len(q) : q[k].kind = "eth_accounts" =>
        /\ (\A j \in 1 .. k - 1 : q[j].kind \notin OfAccount) => held \in {None, q[k].value}
        /\ \A i \in 1 .. k - 1 :
              q[i].kind \in OfAccount /\ (\A j \in i + 1 .. k - 1 : q[j].kind \notin OfAccount)
                  => q[i].value = q[k].value

WalletInv ==
    /\ extension \in [account : Accounts, chain : Chain]
    /\ channel \in Seq(Message) /\ requests \subseteq Request
    /\ address \in Accounts /\ chainId \in Chain \cup {None}
    /\ Hears(channel, OfAccount, extension.account, address)
    /\ Hears(channel, OfChain, extension.chain, chainId)
    /\ Repeats(channel, address)

\* A message of another kind is heard without effect.
LEMMA HearsOther ==
    ASSUME NEW q \in Seq(Message), NEW kinds, NEW now, NEW held,
           q # <<>>, Head(q).kind \notin kinds, Hears(q, kinds, now, held)
    PROVE  Hears(Tail(q), kinds, now, held)
<1>1. PICK r : r = Tail(q)
    OBVIOUS
<1>2. /\ Len(q) \in Nat /\ Len(q) >= 1 /\ Head(q) = q[1] /\ Len(r) \in Nat
      /\ Len(r) = Len(q) - 1 /\ \A i \in 1 .. Len(r) : r[i] = q[i + 1]
    BY <1>1
<1>3. \A i \in 1 .. Len(q) : i = 1 \/ (i - 1 \in 1 .. Len(r) /\ q[i] = r[i - 1])
    <2> SUFFICES ASSUME NEW i \in 1 .. Len(q), i # 1
                 PROVE  i - 1 \in 1 .. Len(r) /\ q[i] = r[i - 1]
        OBVIOUS
    <2>1. i - 1 \in 1 .. Len(r) /\ (i - 1) + 1 = i
        BY <1>2
    <2> QED BY <1>2, <2>1
<1>4. ASSUME NEW k \in 1 .. Len(r), r[k].kind \in kinds,
             \A j \in k + 1 .. Len(r) : r[j].kind \notin kinds
      PROVE  r[k].value = now
    <2>1. k + 1 \in 1 .. Len(q) /\ q[k + 1].kind \in kinds /\ q[k + 1].value = r[k].value
        BY <1>2, <1>4
    <2>2. ASSUME NEW j \in (k + 1) + 1 .. Len(q) PROVE q[j].kind \notin kinds
        <3>1. j \in 1 .. Len(q) /\ j # 1 /\ j - 1 \in k + 1 .. Len(r)
            BY <1>2
        <3> QED BY <1>3, <1>4, <3>1
    <2> QED BY <2>1, <2>2 DEF Hears
<1>5. ASSUME \A k \in 1 .. Len(r) : r[k].kind \notin kinds PROVE held \in {None, now}
    <2>1. \A k \in 1 .. Len(q) : q[k].kind \notin kinds
        BY <1>2, <1>3, <1>5
    <2> QED BY <2>1 DEF Hears
<1>6. Hears(r, kinds, now, held)
    BY <1>4, <1>5 DEF Hears
<1> QED BY <1>1, <1>6

\* A message of these kinds is believed.
LEMMA HearsThis ==
    ASSUME NEW q \in Seq(Message), NEW kinds, NEW now, NEW held, NEW next,
           q # <<>>, Head(q).kind \in kinds, Hears(q, kinds, now, held),
           next \in {None, Head(q).value}
    PROVE  Hears(Tail(q), kinds, now, next)
<1>1. PICK r : r = Tail(q)
    OBVIOUS
<1>2. /\ Len(q) \in Nat /\ Len(q) >= 1 /\ Head(q) = q[1] /\ Len(r) \in Nat
      /\ Len(r) = Len(q) - 1 /\ \A i \in 1 .. Len(r) : r[i] = q[i + 1]
    BY <1>1
<1>3. ASSUME NEW k \in 1 .. Len(q), NEW j \in k + 1 .. Len(q)
      PROVE  j - 1 \in k .. Len(r) /\ j - 1 \in 1 .. Len(r) /\ q[j] = r[j - 1]
    <2>1. j - 1 \in 1 .. Len(r) /\ j - 1 \in k .. Len(r) /\ (j - 1) + 1 = j
        BY <1>2
    <2> QED BY <1>2, <2>1
<1>4. ASSUME NEW k \in 1 .. Len(r), r[k].kind \in kinds,
             \A j \in k + 1 .. Len(r) : r[j].kind \notin kinds
      PROVE  r[k].value = now
    <2>1. k + 1 \in 1 .. Len(q) /\ q[k + 1].kind \in kinds /\ q[k + 1].value = r[k].value
        BY <1>2, <1>4
    <2>2. ASSUME NEW j \in (k + 1) + 1 .. Len(q) PROVE q[j].kind \notin kinds
        BY <1>3, <1>4, <2>1, <2>2
    <2> QED BY <2>1, <2>2 DEF Hears
<1>5. ASSUME \A k \in 1 .. Len(r) : r[k].kind \notin kinds PROVE next \in {None, now}
    <2>1. \A j \in 1 + 1 .. Len(q) : q[j].kind \notin kinds
        BY <1>2, <1>3, <1>5
    <2>2. 1 \in 1 .. Len(q) /\ q[1].kind \in kinds
        BY <1>2
    <2>3. q[1].value = now
        BY <2>1, <2>2 DEF Hears
    <2> QED BY <1>2, <2>3
<1>6. Hears(r, kinds, now, next)
    BY <1>4, <1>5 DEF Hears
<1> QED BY <1>1, <1>6

\* A new message of these kinds tells what is so now; one of another kind changes nothing.
LEMMA HearsNext ==
    ASSUME NEW q \in Seq(Message), NEW m \in Message, NEW kinds, NEW now, NEW then, NEW held,
           Hears(q, kinds, now, held),
           \/ m.kind \in kinds /\ m.value = then
           \/ m.kind \notin kinds /\ then = now
    PROVE  Hears(Append(q, m), kinds, then, held)
<1>1. PICK r : r = Append(q, m)
    OBVIOUS
<1>2. /\ Len(q) \in Nat /\ Len(r) = Len(q) + 1 /\ r[Len(q) + 1] = m
      /\ \A i \in 1 .. Len(q) : r[i] = q[i]
    BY <1>1
<1>3. ASSUME NEW k \in 1 .. Len(r), r[k].kind \in kinds,
             \A j \in k + 1 .. Len(r) : r[j].kind \notin kinds
      PROVE  r[k].value = then
    <2>1. CASE k = Len(q) + 1
        BY <1>2, <1>3, <2>1
    <2>2. CASE k # Len(q) + 1
        <3>1. k \in 1 .. Len(q) /\ r[k] = q[k] /\ Len(q) + 1 \in k + 1 .. Len(r)
            BY <1>2, <2>2
        <3>2. m.kind \notin kinds
            BY <1>2, <1>3, <3>1
        <3>3. ASSUME NEW j \in k + 1 .. Len(q) PROVE q[j].kind \notin kinds
            <4>1. j \in k + 1 .. Len(r) /\ j \in 1 .. Len(q)
                BY <1>2, <3>1
            <4> QED BY <1>2, <1>3, <4>1
        <3> QED BY <1>3, <3>1, <3>2, <3>3 DEF Hears
    <2> QED BY <2>1, <2>2
<1>4. ASSUME \A k \in 1 .. Len(r) : r[k].kind \notin kinds PROVE held \in {None, then}
    <2>1. m.kind \notin kinds
        BY <1>2, <1>4
    <2>2. \A k \in 1 .. Len(q) : q[k].kind \notin kinds
        BY <1>2, <1>4
    <2> QED BY <2>1, <2>2 DEF Hears
<1>5. Hears(r, kinds, then, held)
    BY <1>3, <1>4 DEF Hears
<1> QED BY <1>1, <1>5


\* The same of the answer that repeats.
LEMMA RepeatsTail ==
    ASSUME NEW q \in Seq(Message), NEW held, NEW next, q # <<>>, Repeats(q, held),
           \/ Head(q).kind \notin OfAccount /\ next = held
           \/ Head(q).kind \in OfAccount /\ next \in {None, Head(q).value}
    PROVE  Repeats(Tail(q), next)
<1>1. PICK r : r = Tail(q)
    OBVIOUS
<1>2. /\ Len(q) \in Nat /\ Len(q) >= 1 /\ Head(q) = q[1] /\ Len(r) \in Nat
      /\ Len(r) = Len(q) - 1 /\ \A i \in 1 .. Len(r) : r[i] = q[i + 1]
    BY <1>1
<1>3. ASSUME NEW k \in 1 .. Len(r), NEW j \in 1 .. k, j # 1
      PROVE  j - 1 \in 1 .. k - 1 /\ q[j] = r[j - 1]
    <2>1. j - 1 \in 1 .. k - 1 /\ j - 1 \in 1 .. Len(r) /\ (j - 1) + 1 = j
        BY <1>2, <1>3
    <2> QED BY <1>2, <2>1
<1>4. ASSUME NEW k \in 1 .. Len(r), r[k].kind = "eth_accounts",
             \A j \in 1 .. k - 1 : r[j].kind \notin OfAccount
      PROVE  next \in {None, r[k].value}
    <2>1. /\ k + 1 \in 1 .. Len(q) /\ q[k + 1] = r[k] /\ q[k + 1].kind = "eth_accounts"
          /\ (k + 1) - 1 = k
        BY <1>2, <1>4
    <2>2. ASSUME NEW j \in 1 .. k, j # 1 PROVE q[j].kind \notin OfAccount
        BY <1>3, <1>4, <2>2
    <2>3. CASE Head(q).kind \notin OfAccount /\ next = held
        <3>1. \A j \in 1 .. (k + 1) - 1 : q[j].kind \notin OfAccount
            BY <1>2, <2>1, <2>2, <2>3
        <3>2. held \in {None, q[k + 1].value}
            BY <2>1, <3>1 DEF Repeats
        <3> QED BY <2>1, <2>3, <3>2
    <2>4. CASE Head(q).kind \in OfAccount /\ next \in {None, Head(q).value}
        <3>1. 1 \in 1 .. (k + 1) - 1 /\ q[1].kind \in OfAccount
            BY <1>2, <2>4
        <3>2. \A j \in 1 + 1 .. (k + 1) - 1 : q[j].kind \notin OfAccount
            <4> SUFFICES ASSUME NEW j \in 1 + 1 .. (k + 1) - 1 PROVE q[j].kind \notin OfAccount
                OBVIOUS
            <4>1. j \in 1 .. k /\ j # 1
                BY <2>1
            <4> QED BY <2>2, <4>1
        <3>3. q[1].value = q[k + 1].value
            BY <2>1, <3>1, <3>2 DEF Repeats
        <3> QED BY <1>2, <2>1, <2>4, <3>3
    <2> QED BY <2>3, <2>4
<1>5. ASSUME NEW k \in 1 .. Len(r), r[k].kind = "eth_accounts", NEW i \in 1 .. k - 1,
             r[i].kind \in OfAccount, \A j \in i + 1 .. k - 1 : r[j].kind \notin OfAccount
      PROVE  r[i].value = r[k].value
    <2>1. /\ k + 1 \in 1 .. Len(q) /\ q[k + 1] = r[k] /\ i + 1 \in 1 .. (k + 1) - 1
          /\ i \in 1 .. Len(r) /\ q[i + 1] = r[i] /\ (k + 1) - 1 = k
        BY <1>2
    <2>2. ASSUME NEW j \in (i + 1) + 1 .. (k + 1) - 1 PROVE q[j].kind \notin OfAccount
        <3>1. j \in 1 .. k /\ j # 1 /\ j - 1 \in i + 1 .. k - 1
            BY <2>1
        <3> QED BY <1>3, <1>5, <3>1
    <2>3. q[i + 1].value = q[k + 1].value
        BY <1>5, <2>1, <2>2 DEF Repeats
    <2> QED BY <2>1, <2>3
<1>6. Repeats(r, next)
    BY <1>4, <1>5 DEF Repeats
<1> QED BY <1>1, <1>6

\* A new answer repeats what the last message about the account has said.
LEMMA RepeatsNext ==
    ASSUME NEW q \in Seq(Message), NEW m \in Message, NEW now, NEW held,
           Repeats(q, held), Hears(q, OfAccount, now, held),
           m.kind = "eth_accounts" => m.value = now
    PROVE  Repeats(Append(q, m), held)
<1>1. PICK r : r = Append(q, m)
    OBVIOUS
<1>2. /\ Len(q) \in Nat /\ Len(r) = Len(q) + 1 /\ r[Len(q) + 1] = m
      /\ \A i \in 1 .. Len(q) : r[i] = q[i]
    BY <1>1
<1>3. ASSUME NEW k \in 1 .. Len(r), r[k].kind = "eth_accounts"
      PROVE  /\ (\A j \in 1 .. k - 1 : r[j].kind \notin OfAccount) => held \in {None, r[k].value}
             /\ \A i \in 1 .. k - 1 :
                   r[i].kind \in OfAccount /\ (\A j \in i + 1 .. k - 1 : r[j].kind \notin OfAccount)
                       => r[i].value = r[k].value
    <2>1. \A j \in 1 .. k - 1 : j \in 1 .. Len(q) /\ r[j] = q[j]
        BY <1>2
    <2>2. CASE k = Len(q) + 1
        <3>1. r[k].value = now /\ k - 1 = Len(q)
            BY <1>2, <1>3, <2>2
        <3>2. (\A j \in 1 .. k - 1 : r[j].kind \notin OfAccount) => held \in {None, now}
            BY <2>1, <3>1 DEF Hears
        <3>3. ASSUME NEW i \in 1 .. k - 1, r[i].kind \in OfAccount,
                     \A j \in i + 1 .. k - 1 : r[j].kind \notin OfAccount
              PROVE  r[i].value = now
            <4>1. i \in 1 .. Len(q) /\ q[i].kind \in OfAccount /\ q[i].value = r[i].value
                BY <2>1, <3>3
            <4>2. \A j \in i + 1 .. Len(q) : q[j].kind \notin OfAccount
                <5> SUFFICES ASSUME NEW j \in i + 1 .. Len(q) PROVE q[j].kind \notin OfAccount
                    OBVIOUS
                <5>1. j \in 1 .. k - 1 /\ j \in i + 1 .. k - 1
                    BY <1>2, <3>1
                <5> QED BY <2>1, <3>3, <5>1
            <4> QED BY <4>1, <4>2 DEF Hears
        <3> QED BY <3>1, <3>2, <3>3
    <2>3. CASE k # Len(q) + 1
        <3>1. k \in 1 .. Len(q) /\ r[k] = q[k] /\ q[k].kind = "eth_accounts"
            BY <1>2, <1>3, <2>3
        <3>2. (\A j \in 1 .. k - 1 : r[j].kind \notin OfAccount) => held \in {None, r[k].value}
            BY <2>1, <3>1 DEF Repeats
        <3>3. ASSUME NEW i \in 1 .. k - 1, r[i].kind \in OfAccount,
                     \A j \in i + 1 .. k - 1 : r[j].kind \notin OfAccount
              PROVE  r[i].value = r[k].value
            <4>1. q[i].kind \in OfAccount /\ q[i].value = r[i].value
                BY <2>1, <3>3
            <4>2. \A j \in i + 1 .. k - 1 : q[j].kind \notin OfAccount
                <5> SUFFICES ASSUME NEW j \in i + 1 .. k - 1 PROVE q[j].kind \notin OfAccount
                    OBVIOUS
                <5>1. j \in 1 .. k - 1
                    OBVIOUS
                <5> QED BY <2>1, <3>3, <5>1
            <4> QED BY <3>1, <4>1, <4>2 DEF Repeats
        <3> QED BY <3>2, <3>3
    <2> QED BY <2>2, <2>3
<1>4. Repeats(r, held)
    BY <1>3 DEF Repeats
<1> QED BY <1>1, <1>4

\* Who forgets the wallet shows nothing that is not so.
LEMMA NothingIsTrue ==
    ASSUME NEW q, NEW kinds, NEW now, NEW held
    PROVE  /\ Hears(q, kinds, now, held) => Hears(q, kinds, now, None)
           /\ Repeats(q, held) => Repeats(q, None)
BY DEF Hears, Repeats

\* All three at once, for a message that is added.
LEMMA SaidNext ==
    ASSUME NEW q \in Seq(Message), NEW m \in Message,
           NEW account, NEW chain, NEW then, NEW thenChain, NEW held, NEW heldChain,
           Hears(q, OfAccount, account, held), Hears(q, OfChain, chain, heldChain),
           Repeats(q, held),
           \/ m.kind \in OfAccount /\ m.value = then
           \/ m.kind \notin OfAccount /\ then = account,
           \/ m.kind \in OfChain /\ m.value = thenChain
           \/ m.kind \notin OfChain /\ thenChain = chain,
           m.kind = "eth_accounts" => then = account
    PROVE  /\ Append(q, m) \in Seq(Message)
           /\ Hears(Append(q, m), OfAccount, then, held)
           /\ Hears(Append(q, m), OfChain, thenChain, heldChain)
           /\ Repeats(Append(q, m), held)
<1>1. Append(q, m) \in Seq(Message)
    OBVIOUS
<1>2. Hears(Append(q, m), OfAccount, then, held)
    BY HearsNext
<1>3. Hears(Append(q, m), OfChain, thenChain, heldChain)
    BY HearsNext
<1>4. m.kind = "eth_accounts" => m.value = account
    BY DEF OfAccount
<1>5. Repeats(Append(q, m), held)
    BY <1>4, RepeatsNext
<1> QED BY <1>1, <1>2, <1>3, <1>5

\* The extension tells of every change before anything else.
LEMMA ChangesAreTold ==
    ASSUME WalletInv, NEW next \in [account : Accounts, chain : Chain],
           next.account = extension.account \/ next.chain = extension.chain
    PROVE  LET q == channel \o Changed(next)
           IN /\ q \in Seq(Message)
              /\ Hears(q, OfAccount, next.account, address)
              /\ Hears(q, OfChain, next.chain, chainId)
              /\ Repeats(q, address)
<1> DEFINE a == Says("accountsChanged", "event", next.account)
           c == Says("chainChanged", "event", next.chain)
<1>1. /\ channel \in Seq(Message) /\ Repeats(channel, address)
      /\ Hears(channel, OfAccount, extension.account, address)
      /\ Hears(channel, OfChain, extension.chain, chainId)
    BY DEF WalletInv
<1>2. CASE next.account = extension.account /\ next.chain = extension.chain
    <2>1. Changed(next) = <<>>
        BY <1>2 DEF Changed
    <2>2. channel \o Changed(next) = channel
        BY <1>1, <2>1
    <2> QED BY <1>1, <1>2, <2>2
<1>3. CASE next.account # extension.account /\ next.chain = extension.chain
    <2>1. Changed(next) = <<a>>
        BY <1>3 DEF Changed
    <2>2. /\ a \in Message /\ a.kind \in OfAccount /\ a.value = next.account
          /\ a.kind \notin OfChain /\ a.kind # "eth_accounts"
        BY DEF Message, Says, OfAccount, OfChain
    <2>3. channel \o Changed(next) = Append(channel, a)
        BY <1>1, <2>1, <2>2
    <2> QED BY <1>1, <1>3, <2>2, <2>3, SaidNext
<1>4. CASE next.account = extension.account /\ next.chain # extension.chain
    <2>1. Changed(next) = <<c>>
        BY <1>4 DEF Changed
    <2>2. /\ c \in Message /\ c.kind \in OfChain /\ c.value = next.chain
          /\ c.kind \notin OfAccount /\ c.kind # "eth_accounts"
        BY DEF Message, Says, OfAccount, OfChain
    <2>3. channel \o Changed(next) = Append(channel, c)
        BY <1>1, <2>1, <2>2
    <2> QED BY <1>1, <1>4, <2>2, <2>3, SaidNext
<1> QED BY <1>2, <1>3, <1>4


-----------------------------------------------------------------------------
(* The wallet's steps *)

\* The user of the extension changes something.
LEMMA SwitchedKeeps ==
    ASSUME WalletInv, NEW next \in [account : Accounts, chain : Chain], SwitchedByUser(next)
    PROVE  WalletInv'
<1>1. /\ extension' = next /\ channel' = channel \o Changed(next)
      /\ UNCHANGED <<requests, address, chainId>>
      /\ next.account = extension.account \/ next.chain = extension.chain
    BY DEF SwitchedByUser
<1>2. /\ channel' \in Seq(Message) /\ Hears(channel', OfAccount, extension'.account, address)
      /\ Hears(channel', OfChain, extension'.chain, chainId) /\ Repeats(channel', address)
    BY <1>1, ChangesAreTold
<1> QED BY <1>1, <1>2 DEF WalletInv, Accounts, Message, Request, OfAccount, OfChain

\* A granted request: the changes it makes are told before its answer, which repeats them.
LEMMA GrantedKeeps ==
    ASSUME WalletInv, NEW r \in Request, NEW next \in [account : Accounts, chain : Chain],
           next.account = extension.account \/ next.chain = extension.chain,
           r.method = "eth_accounts" => next = extension,
           r.method = "eth_requestAccounts" => next.account \in WalletAccount,
           r.method \in {"wallet_switchEthereumChain", "wallet_addEthereumChain"}
               => next.chain = Hedera,
           Granted(r, next), requests' \subseteq requests, UNCHANGED <<address, chainId>>
    PROVE  WalletInv'
<1> DEFINE q == channel \o Changed(next)
           m == Says(r.method, r.by, IF r.method \in {"eth_accounts", "eth_requestAccounts"}
                                     THEN next.account ELSE next.chain)
<1>1. extension' = next /\ channel' = Append(q, m)
    BY DEF Granted
<1>2. /\ q \in Seq(Message) /\ Hears(q, OfAccount, next.account, address)
      /\ Hears(q, OfChain, next.chain, chainId) /\ Repeats(q, address)
    BY ChangesAreTold
<1>3. m \in Message
    BY DEF Message, Request, Says
<1>4. /\ \/ m.kind \in OfAccount /\ m.value = next.account
         \/ m.kind \notin OfAccount
      /\ \/ m.kind \in OfChain /\ m.value = next.chain
         \/ m.kind \notin OfChain
    BY DEF Says, OfAccount, OfChain, Request
<1> HIDE DEF q, m
<1>5. /\ Append(q, m) \in Seq(Message) /\ Hears(Append(q, m), OfAccount, next.account, address)
      /\ Hears(Append(q, m), OfChain, next.chain, chainId) /\ Repeats(Append(q, m), address)
    BY <1>2, <1>3, <1>4, SaidNext
<1> QED BY <1>1, <1>5 DEF WalletInv, Accounts, Message, Request, OfAccount, OfChain

\* A refusal changes nothing, and is a message about nothing.
LEMMA RefusedKeeps ==
    ASSUME WalletInv, NEW r \in Request, r.by # "mount", r.method # "eth_chainId",
           NEW error \in {"refused", "4902"}, channel' = Append(channel, Says(error, r.by, None)),
           requests' \subseteq requests, UNCHANGED <<extension, address, chainId>>
    PROVE  WalletInv'
<1> DEFINE m == Says(error, r.by, None)
<1>1. /\ m \in Message /\ m.kind \notin OfAccount /\ m.kind \notin OfChain
      /\ m.kind # "eth_accounts"
    BY DEF Message, Request, Says, OfAccount, OfChain
<1>2. /\ channel \in Seq(Message) /\ Repeats(channel, address)
      /\ Hears(channel, OfAccount, extension.account, address)
      /\ Hears(channel, OfChain, extension.chain, chainId)
    BY DEF WalletInv
<1> HIDE DEF m
<1>3. /\ Append(channel, m) \in Seq(Message) /\ Repeats(Append(channel, m), address)
      /\ Hears(Append(channel, m), OfAccount, extension.account, address)
      /\ Hears(Append(channel, m), OfChain, extension.chain, chainId)
    BY <1>1, <1>2, SaidNext
<1>4. channel' = Append(channel, m)
    BY DEF m
<1> QED BY <1>3, <1>4 DEF WalletInv, Accounts, Message, Request, OfAccount, OfChain

\* An answer of the extension.
LEMMA WalletAnswersKeeps ==
    ASSUME WalletInv, NEW r \in requests, WalletAnswers(r)
    PROVE  WalletInv'
<1>1. /\ r \in Request /\ requests' \subseteq requests /\ UNCHANGED <<address, chainId>>
      /\ extension \in [account : Accounts, chain : Chain]
    BY DEF WalletAnswers, WalletInv
<1>2. CASE r.method \in {"eth_accounts", "eth_chainId"} /\ Granted(r, extension)
    BY <1>1, <1>2, GrantedKeeps
<1>3. ASSUME r.method = "eth_requestAccounts", NEW a \in WalletAccount,
             Granted(r, [extension EXCEPT !.account = a])
      PROVE  WalletInv'
    <2>1. PICK next : next = [extension EXCEPT !.account = a]
        OBVIOUS
    <2>2. /\ next \in [account : Accounts, chain : Chain] /\ next.account = a
          /\ next.chain = extension.chain
        BY <1>1, <2>1 DEF Accounts
    <2> QED BY <1>1, <1>3, <2>1, <2>2, GrantedKeeps
<1>4. ASSUME r.method \in {"wallet_switchEthereumChain", "wallet_addEthereumChain"},
             Granted(r, [extension EXCEPT !.chain = Hedera])
      PROVE  WalletInv'
    <2>1. PICK next : next = [extension EXCEPT !.chain = Hedera]
        OBVIOUS
    <2>2. /\ next \in [account : Accounts, chain : Chain] /\ next.chain = Hedera
          /\ next.account = extension.account
        BY <1>1, <2>1, WalletAssumption
    <2> QED BY <1>1, <1>4, <2>1, <2>2, GrantedKeeps
<1>5. ASSUME r.by # "mount", r.method # "eth_chainId", extension' = extension,
             NEW error \in {"refused", "4902"}, channel' = Append(channel, Says(error, r.by, None))
      PROVE  WalletInv'
    BY <1>1, <1>5, RefusedKeeps
<1> QED BY <1>2, <1>3, <1>4, <1>5 DEF WalletAnswers

\* What a message does to what the page shows.
LEMMA DeliverEffect ==
    ASSUME WalletInv, Deliver
    PROVE  /\ channel # <<>> /\ Head(channel) \in Message
           /\ channel' = Tail(channel) /\ extension' = extension
           /\ \/ /\ Head(channel).kind \in OfAccount /\ chainId' = chainId
                 /\ \/ address' = Head(channel).value
                    \/ /\ Head(channel).kind = "eth_accounts" /\ Head(channel).value = None
                       /\ address' = address
              \/ /\ Head(channel).kind \in OfChain /\ address' = address
                 /\ chainId' = Head(channel).value
              \/ /\ Head(channel).kind \notin OfAccount /\ Head(channel).kind \notin OfChain
                 /\ address' = address /\ chainId' = chainId
           /\ requests' \subseteq Request
<1>1. channel # <<>> /\ channel' = Tail(channel) /\ extension' = extension
    BY DEF Deliver
<1>2. PICK m : m = Head(channel)
    OBVIOUS
<1>3. m \in Message /\ requests \subseteq Request
    BY <1>1, <1>2 DEF WalletInv
<1>4. \/ m.kind = "accountsChanged" /\ AccountsChanged(m)
      \/ Told(m) \/ Connecting(m) \/ Switching(m)
    BY <1>2 DEF Deliver
<1>5. CASE m.kind = "accountsChanged" /\ AccountsChanged(m)
    BY <1>1, <1>2, <1>3, <1>5 DEF AccountsChanged, OfAccount
<1>6. CASE Told(m)
    BY <1>1, <1>2, <1>3, <1>6 DEF Told, Message, OfAccount, OfChain
<1>7. CASE Connecting(m)
    <2>1. Ask("connect", "eth_chainId") \in Request
          /\ Ask("connect", "wallet_switchEthereumChain") \in Request
        BY DEF Ask, Request
    <2> QED BY <1>1, <1>2, <1>3, <1>7, <2>1 DEF Connecting, ConnectEnds, OfAccount, OfChain
<1>8. CASE Switching(m)
    <2>1. m.kind = "4902" => Ask(m.by, "wallet_addEthereumChain") \in Request
        BY <1>3 DEF Ask, Request, Message
    <2>2. m.kind \in {"wallet_switchEthereumChain", "wallet_addEthereumChain"} => m.value = Hedera
        BY <1>3 DEF Message
    <2> QED BY <1>1, <1>2, <1>3, <1>8, <2>1, <2>2 DEF Switching, ConnectEnds, OfAccount, OfChain
<1> QED BY <1>4, <1>5, <1>6, <1>7, <1>8

\* A message is heard: what is behind it is still to be believed, or it is so now.
LEMMA DeliverKeeps == ASSUME WalletInv, Deliver PROVE WalletInv'
<1> DEFINE m == Head(channel)
<1>0. /\ extension \in [account : Accounts, chain : Chain] /\ channel \in Seq(Message)
      /\ address \in Accounts /\ chainId \in Chain \cup {None}
      /\ Hears(channel, OfAccount, extension.account, address)
      /\ Hears(channel, OfChain, extension.chain, chainId)
      /\ Repeats(channel, address)
    BY DEF WalletInv
<1>1. /\ channel # <<>> /\ m \in Message /\ channel' = Tail(channel) /\ extension' = extension
      /\ requests' \subseteq Request /\ Tail(channel) \in Seq(Message)
    BY <1>0, DeliverEffect
<1>2. CASE m.kind \in OfAccount
    <2>1. m.kind \notin OfChain /\ m.value \in Accounts
        BY <1>1, <1>2 DEF OfAccount, OfChain, Message, Accounts
    <2>2. /\ chainId' = chainId
          /\ \/ address' = m.value
             \/ m.kind = "eth_accounts" /\ m.value = None /\ address' = address
        BY <1>2, <2>1, DeliverEffect
    <2>3. address' \in {None, m.value} /\ address' \in Accounts
        <3>1. CASE address' = m.value
            BY <2>1, <3>1
        <3>2. CASE m.kind = "eth_accounts" /\ m.value = None /\ address' = address
            <4>1. 1 \in 1 .. Len(channel) /\ channel[1] = m /\ 1 .. 1 - 1 = {}
                BY <1>0, <1>1
            <4>2. address \in {None, m.value}
                BY <1>0, <3>2, <4>1 DEF Repeats
            <4> QED BY <1>0, <3>2, <4>2
        <3> QED BY <2>2, <3>1, <3>2
    <2>4. Hears(Tail(channel), OfAccount, extension.account, address')
        BY <1>0, <1>1, <1>2, <2>3, HearsThis
    <2>5. Hears(Tail(channel), OfChain, extension.chain, chainId)
        BY <1>0, <1>1, <2>1, HearsOther
    <2>6. Repeats(Tail(channel), address')
        BY <1>0, <1>1, <1>2, <2>3, RepeatsTail
    <2> QED BY <1>0, <1>1, <2>2, <2>3, <2>4, <2>5, <2>6
            DEF WalletInv, Accounts, Message, Request, OfAccount, OfChain
<1>3. CASE m.kind \notin OfAccount
    <2>1. /\ address' = address
          /\ \/ m.kind \in OfChain /\ chainId' = m.value
             \/ m.kind \notin OfChain /\ chainId' = chainId
        BY <1>3, DeliverEffect
    <2>2. chainId' \in Chain \cup {None}
        BY <1>0, <1>1, <2>1, WalletAssumption DEF Message, OfChain, Accounts
    <2>3. Hears(Tail(channel), OfAccount, extension.account, address)
        BY <1>0, <1>1, <1>3, HearsOther
    <2>4. Hears(Tail(channel), OfChain, extension.chain, chainId')
        BY <1>0, <1>1, <2>1, HearsThis, HearsOther
    <2>5. Repeats(Tail(channel), address)
        BY <1>0, <1>1, <1>3, RepeatsTail
    <2> QED BY <1>0, <1>1, <2>1, <2>2, <2>3, <2>4, <2>5
            DEF WalletInv, Accounts, Message, Request, OfAccount, OfChain
<1> QED BY <1>2, <1>3

\* What the button asks for or forgets.
LEMMA ButtonKeeps ==
    ASSUME WalletInv, Connect \/ Switch \/ Disconnect
    PROVE  WalletInv'
<1>1. CASE Connect \/ Switch
    <2>1. /\ UNCHANGED <<extension, channel, address, chainId>>
          /\ requests' \subseteq requests \cup {Ask("connect", "eth_requestAccounts"),
                                                Ask("switch", "wallet_switchEthereumChain")}
        BY <1>1 DEF Connect, Switch
    <2>2. /\ Ask("connect", "eth_requestAccounts") \in Request
          /\ Ask("switch", "wallet_switchEthereumChain") \in Request
        BY DEF Ask, Request
    <2> QED BY <2>1, <2>2 DEF WalletInv, Accounts, Message, Request, OfAccount, OfChain
<1>2. CASE Disconnect
    <2>1. /\ UNCHANGED <<extension, channel, requests>> /\ address' = None /\ chainId' = None
        BY <1>2 DEF Disconnect
    <2>2. /\ Hears(channel, OfAccount, extension.account, None)
          /\ Hears(channel, OfChain, extension.chain, None) /\ Repeats(channel, None)
        BY NothingIsTrue DEF WalletInv
    <2> QED BY <2>1, <2>2 DEF WalletInv, Accounts, Message, Request, OfAccount, OfChain
<1> QED BY <1>1, <1>2

\* Every step of a tab keeps what the page has been told of the wallet true.
LEMMA WalletInvStep == WalletInv /\ [Next]_vars => WalletInv'
<1> SUFFICES ASSUME WalletInv, [Next]_vars PROVE WalletInv'
    OBVIOUS
<1>1. CASE UNCHANGED <<extension, channel, requests, address, chainId>>
    BY <1>1 DEF WalletInv, Accounts, Message, Request, OfAccount, OfChain
<1>2. CASE UseWallet
    <2>1. ASSUME NEW next \in [account : WalletAccount \cup {None}, chain : Chain],
                 SwitchedByUser(next)
          PROVE  WalletInv'
        BY <2>1, SwitchedKeeps DEF Accounts
    <2> QED BY <1>2, <2>1, ButtonKeeps DEF UseWallet
<1>3. CASE WalletStep
    BY <1>3, DeliverKeeps, WalletAnswersKeeps DEF WalletStep
<1>4. CASE UNCHANGED vars
    BY <1>1, <1>4 DEF vars, walletVars
<1>5. CASE UNCHANGED walletVars
    BY <1>1, <1>5 DEF walletVars
<1>6. Next => UseWallet \/ WalletStep \/ UNCHANGED walletVars
    BY DEF Next, Arrives, Serve, Effects, Refetch, Turn, HandleSearch, SelectTopic, UseForm,
           Handle, Decides, NewRow
<1> QED BY <1>2, <1>3, <1>4, <1>5, <1>6

\* When it is mounted the page has asked, and shows nothing; or it has been told before.
LEMMA WalletInvInit == Init => WalletInv
<1> SUFFICES ASSUME Init PROVE WalletInv
    OBVIOUS
<1>0. /\ <<>> \in Seq(Message) /\ 1 .. Len(<<>>) = {}
    OBVIOUS
<1>1. \A kinds, now, held : held \in {None, now} => Hears(<<>>, kinds, now, held)
    BY <1>0 DEF Hears
<1>2. \A held : Repeats(<<>>, held)
    BY <1>0 DEF Repeats
<1>3. CASE WalletInit
    <2>1. /\ extension \in [account : Accounts, chain : Chain] /\ channel = <<>>
          /\ requests = {Ask("mount", "eth_accounts"), Ask("mount", "eth_chainId")}
          /\ address = None /\ chainId = None
        BY <1>3 DEF WalletInit, Accounts
    <2>2. requests \subseteq Request
        BY <2>1 DEF Ask, Request
    <2> QED BY <1>0, <1>1, <1>2, <2>1, <2>2 DEF WalletInv, Accounts
<1>4. CASE Connected
    <2>1. PICK a \in WalletAccount : a = CHOOSE x \in WalletAccount : TRUE
        BY WalletAssumption
    <2>2. /\ extension = [account |-> a, chain |-> Hedera] /\ channel = <<>> /\ requests = {}
          /\ address = extension.account /\ chainId = Hedera
        BY <1>4, <2>1 DEF Connected
    <2>3. /\ extension \in [account : Accounts, chain : Chain] /\ extension.account = a
          /\ extension.chain = Hedera /\ address \in Accounts /\ chainId \in Chain
        BY <2>1, <2>2, WalletAssumption DEF Accounts
    <2> QED BY <1>0, <1>1, <1>2, <2>2, <2>3 DEF WalletInv
<1> QED BY <1>3, <1>4 DEF Init

\* What the page shows of the wallet is what the wallet has, as soon as it has heard all
\* it was told.
THEOREM WalletIsTrue == Spec => []WalletIsShown
<1>1. WalletInv => WalletIsShown
    <2> SUFFICES ASSUME WalletInv, channel = <<>>
                 PROVE  address \in {None, extension.account} /\ chainId \in {None, extension.chain}
        BY DEF WalletIsShown
    <2>1. 1 .. Len(channel) = {}
        OBVIOUS
    <2> QED BY <2>1 DEF WalletInv, Hears
<1> QED BY <1>1, WalletInvInit, WalletInvStep, PTL DEF Spec


-----------------------------------------------------------------------------
(* The views and the requests under way *)

\* The fields of a view, and of a request.
IsView(w) ==
    /\ w = [asked |-> w.asked, number |-> w.number, loading |-> w.loading, error |-> w.error,
            shown |-> w.shown, top |-> w.top, total |-> w.total]
    /\ w.number \in Nat /\ w.loading \in BOOLEAN /\ w.error \in BOOLEAN

IsFlight(f) ==
    /\ f = [view |-> f.view, request |-> f.request, number |-> f.number,
            top |-> f.top, total |-> f.total]
    /\ f.view \in Views /\ f.number \in Nat

\* A number is given to one request, and no later one has been given yet.
Numbered ==
    /\ \A f \in flights : f.number <= view[f.view].number
    /\ \A f, g \in flights : f.view = g.view /\ f.number = g.number => f = g

\* The request that is not cancelled is the one the hook has asked for last, and the hook
\* is busy as long as it is under way, and not longer.
Awaited ==
    /\ \A f \in flights : f.view \in Hooked /\ f.number = view[f.view].number
           => f.request = view[f.view].asked /\ view[f.view].loading
    /\ \A v \in Hooked : view[v].loading /\ view[v].number > 0
           => \E f \in flights : f.view = v /\ f.number = view[v].number
    /\ \A v \in Views : view[v].loading /\ view[v].number > 0
           => \E f \in flights : f.view = v

ViewsInv ==
    /\ page \in Pages
    /\ DOMAIN view = Views
    /\ \A v \in Views : IsView(view[v])
    /\ \A f \in flights : IsFlight(f)
    /\ Numbered
    /\ Awaited

\* What an effect does to the views.
LEMMA FetchEffect ==
    ASSUME ViewsInv, NEW vs \in SUBSET Views, Fetch(vs, Requests)
    PROVE  /\ DOMAIN view' = Views
           /\ \A v \in vs :
                 view'[v] = [asked |-> Wanted(v), number |-> view[v].number + 1,
                             loading |-> TRUE, error |-> FALSE, shown |-> view[v].shown,
                             top |-> view[v].top, total |-> view[v].total]
           /\ \A v \in Views \ vs : view'[v] = view[v]
           /\ flights' = flights \cup {Flight(v, Wanted(v), view[v].number + 1) : v \in vs}
           /\ rows' = rows
<1>1. /\ view' = [v \in Views |->
                    IF v \in vs THEN [view[v] EXCEPT !.asked = Requests[v], !.number = @ + 1,
                                                     !.loading = TRUE, !.error = FALSE]
                    ELSE view[v]]
      /\ flights' = flights \cup {Flight(v, Requests[v], view[v].number + 1) : v \in vs}
      /\ rows' = rows
    BY DEF Fetch, ViewsInv
<1>2. \A v \in vs : Requests[v] = Wanted(v)
    BY DEF Requests
<1>3. ASSUME NEW v \in vs
      PROVE  view'[v] = [asked |-> Wanted(v), number |-> view[v].number + 1,
                         loading |-> TRUE, error |-> FALSE, shown |-> view[v].shown,
                         top |-> view[v].top, total |-> view[v].total]
    <2>1. PICK w : w = view[v]
        OBVIOUS
    <2>2. w = [asked |-> w.asked, number |-> w.number, loading |-> w.loading, error |-> w.error,
               shown |-> w.shown, top |-> w.top, total |-> w.total]
        BY <2>1 DEF ViewsInv, IsView
    <2>3. view'[v] = [w EXCEPT !.asked = Wanted(v), !.number = w.number + 1,
                               !.loading = TRUE, !.error = FALSE]
        BY <1>1, <1>2, <2>1
    <2>4. PICK x : x = Wanted(v)
        OBVIOUS
    <2>5. view'[v] = [asked |-> x, number |-> w.number + 1, loading |-> TRUE, error |-> FALSE,
                      shown |-> w.shown, top |-> w.top, total |-> w.total]
        BY <2>2, <2>3, <2>4
    <2> QED BY <2>1, <2>4, <2>5
<1>4. {Flight(v, Requests[v], view[v].number + 1) : v \in vs}
        = {Flight(v, Wanted(v), view[v].number + 1) : v \in vs}
    BY <1>2
<1> QED BY <1>1, <1>3, <1>4

\* An effect starts requests of new numbers, and the views they are for are busy.
LEMMA FetchKeeps ==
    ASSUME ViewsInv, NEW vs \in SUBSET Views, Fetch(vs, Requests), page' = page
    PROVE  ViewsInv'
<1>0. /\ Views' = Views /\ Hooked' = Hooked /\ Hooked \subseteq Views
    BY DEF Views, Hooked
<1>1. /\ DOMAIN view' = Views
      /\ \A v \in vs :
            view'[v] = [asked |-> Wanted(v), number |-> view[v].number + 1,
                        loading |-> TRUE, error |-> FALSE, shown |-> view[v].shown,
                        top |-> view[v].top, total |-> view[v].total]
      /\ \A v \in Views \ vs : view'[v] = view[v]
      /\ flights' = flights \cup {Flight(v, Wanted(v), view[v].number + 1) : v \in vs}
    BY FetchEffect
<1>2. \A v \in Views : IsView(view[v]) /\ view[v].number \in Nat
    BY DEF ViewsInv, IsView
<1>3. ASSUME NEW v \in vs
      PROVE  /\ view'[v].asked = Wanted(v) /\ view'[v].number = view[v].number + 1
             /\ view'[v].loading = TRUE /\ IsView(view'[v])
    <2>1. PICK w, u, x : w = view'[v] /\ u = view[v] /\ x = Wanted(v)
        OBVIOUS
    <2>2. /\ w = [asked |-> x, number |-> u.number + 1, loading |-> TRUE, error |-> FALSE,
                  shown |-> u.shown, top |-> u.top, total |-> u.total]
          /\ u.number \in Nat
        BY <1>1, <1>2, <2>1
    <2>3. w.asked = x /\ w.number = u.number + 1 /\ w.loading = TRUE /\ IsView(w)
        BY <2>2 DEF IsView
    <2> QED BY <2>1, <2>3
<1>4. \A f \in flights : IsFlight(f) /\ f.view \in Views /\ f.number \in Nat
                         /\ f.number <= view[f.view].number
    BY DEF ViewsInv, Numbered, IsFlight
<1>5. ASSUME NEW f \in flights', f \notin flights
      PROVE  \E v \in vs : /\ f.view = v /\ f.request = Wanted(v)
                           /\ f.number = view[v].number + 1
                           /\ IsFlight(f) /\ f = Flight(v, Wanted(v), view[v].number + 1)
    <2>1. PICK v \in vs : f = Flight(v, Wanted(v), view[v].number + 1)
        BY <1>1, <1>5
    <2> QED BY <1>2, <2>1 DEF Flight, IsFlight
<1>6. (\A v \in Views : IsView(view[v]))' /\ (\A f \in flights : IsFlight(f))'
    <2>1. ASSUME NEW v \in Views PROVE IsView(view'[v])
        BY <1>1, <1>2, <1>3
    <2>2. ASSUME NEW f \in flights' PROVE IsFlight(f)'
        <3>1. IsFlight(f)
            BY <1>4, <1>5
        <3> QED BY <1>0, <3>1 DEF IsFlight
    <2> QED BY <1>0, <2>1, <2>2
<1>7. Numbered'
    <2>1. ASSUME NEW f \in flights'
          PROVE  /\ f.view \in Views /\ f.number \in Nat /\ f.number <= view'[f.view].number
                 /\ f \in flights \/ (f.view \in vs /\ f.number = view[f.view].number + 1)
        <3>1. CASE f \in flights
            <4>1. /\ f.number <= view[f.view].number /\ view[f.view].number \in Nat
                  /\ f.number \in Nat /\ f.view \in Views
                BY <1>2, <1>4, <3>1
            <4>2. view'[f.view].number \in {view[f.view].number, view[f.view].number + 1}
                BY <1>1, <1>3, <4>1
            <4> QED BY <3>1, <4>1, <4>2
        <3>2. CASE f \notin flights
            <4>1. PICK v \in vs : f.view = v /\ f.number = view[v].number + 1
                BY <1>5, <3>2
            <4>2. v \in Views /\ view[v].number \in Nat /\ view'[v].number = view[v].number + 1
                BY <1>2, <1>3
            <4> QED BY <4>1, <4>2
        <3> QED BY <3>1, <3>2
    <2>2. ASSUME NEW f \in flights', NEW g \in flights', f.view = g.view, f.number = g.number
          PROVE  f = g
        <3>1. CASE f \in flights /\ g \in flights
            BY <2>2, <3>1 DEF ViewsInv, Numbered
        <3>2. CASE f \notin flights /\ g \notin flights
            <4>1. PICK v \in vs : f.view = v /\ f = Flight(v, Wanted(v), view[v].number + 1)
                BY <1>5, <3>2
            <4>2. PICK w \in vs : g.view = w /\ g = Flight(w, Wanted(w), view[w].number + 1)
                BY <1>5, <3>2
            <4> QED BY <2>2, <4>1, <4>2
        <3>3. CASE f \in flights /\ g \notin flights
            <4>1. g.view \in Views /\ g.number = view[g.view].number + 1
                BY <1>5, <3>3
            <4>2. f.number <= view[f.view].number /\ view[f.view].number \in Nat /\ f.number \in Nat
                BY <1>2, <1>4, <3>3
            <4> QED BY <2>2, <4>1, <4>2
        <3>4. CASE f \notin flights /\ g \in flights
            <4>1. f.view \in Views /\ f.number = view[f.view].number + 1
                BY <1>5, <3>4
            <4>2. g.number <= view[g.view].number /\ view[g.view].number \in Nat /\ g.number \in Nat
                BY <1>2, <1>4, <3>4
            <4> QED BY <2>2, <4>1, <4>2
        <3> QED BY <3>1, <3>2, <3>3, <3>4
    <2> QED BY <2>1, <2>2 DEF Numbered
<1>8. Awaited'
    <2>1. ASSUME NEW f \in flights', f.view \in Hooked, f.number = view'[f.view].number
          PROVE  f.request = view'[f.view].asked /\ view'[f.view].loading
        <3>1. CASE f \in flights
            <4>1. /\ f.number <= view[f.view].number /\ view[f.view].number \in Nat
                  /\ f.number \in Nat /\ f.view \in Views
                BY <1>2, <1>4, <3>1
            <4>1a. f.view \in vs => view'[f.view].number = view[f.view].number + 1
                BY <1>3
            <4>1b. f.view \notin vs
                BY <2>1, <4>1, <4>1a
            <4>2. view'[f.view] = view[f.view]
                BY <1>1, <4>1, <4>1b
            <4> QED BY <2>1, <3>1, <4>2 DEF ViewsInv, Awaited
        <3>2. CASE f \notin flights
            <4>1. PICK v \in vs : f.view = v /\ f.request = Wanted(v)
                BY <1>5, <3>2
            <4> QED BY <1>3, <4>1
        <3> QED BY <3>1, <3>2
    <2>2. ASSUME NEW v \in vs
          PROVE  \E f \in flights' : f.view = v /\ f.number = view'[v].number
        <3>1. Flight(v, Wanted(v), view[v].number + 1) \in flights'
            BY <1>1
        <3>2. /\ Flight(v, Wanted(v), view[v].number + 1).view = v
              /\ Flight(v, Wanted(v), view[v].number + 1).number = view[v].number + 1
            BY DEF Flight
        <3> QED BY <1>3, <3>1, <3>2
    <2>3. ASSUME NEW v \in Hooked, view'[v].loading, view'[v].number > 0
          PROVE  \E f \in flights' : f.view = v /\ f.number = view'[v].number
        <3>1. CASE v \in vs
            BY <2>2, <3>1
        <3>2. CASE v \notin vs
            <4>1. view'[v] = view[v]
                BY <1>0, <1>1, <3>2
            <4>2. PICK f \in flights : f.view = v /\ f.number = view[v].number
                BY <2>3, <4>1 DEF ViewsInv, Awaited
            <4> QED BY <1>1, <4>1, <4>2
        <3> QED BY <3>1, <3>2
    <2>4. ASSUME NEW v \in Views, view'[v].loading, view'[v].number > 0
          PROVE  \E f \in flights' : f.view = v
        <3>1. CASE v \in vs
            BY <2>2, <3>1
        <3>2. CASE v \notin vs
            <4>1. view'[v] = view[v]
                BY <1>0, <1>1, <3>2
            <4>2. PICK f \in flights : f.view = v
                BY <2>4, <4>1 DEF ViewsInv, Awaited
            <4> QED BY <1>1, <4>2
        <3> QED BY <3>1, <3>2
    <2> QED BY <1>0, <2>1, <2>3, <2>4 DEF Awaited
<1> QED BY <1>0, <1>1, <1>6, <1>7, <1>8 DEF ViewsInv

\* What the end of a request makes of a view.
Answered(w, f, ok) ==
    [asked |-> w.asked, number |-> w.number, loading |-> FALSE, error |-> ~ok,
     shown |-> IF ok THEN [request |-> f.request, number |-> f.number] ELSE w.shown,
     top |-> IF ok THEN f.top ELSE w.top, total |-> IF ok THEN f.total ELSE w.total]

\* The view after an answer, field by field.
LEMMA AnsweredIs ==
    ASSUME NEW w, IsView(w), NEW f, NEW ok \in BOOLEAN
    PROVE  [(IF ok THEN Shows(f, w) ELSE w) EXCEPT !.loading = FALSE, !.error = ~ok]
               = Answered(w, f, ok)
<1>0. PICK a, n, l, e, s, t, m :
          w = [asked |-> a, number |-> n, loading |-> l, error |-> e, shown |-> s,
               top |-> t, total |-> m]
    BY DEF IsView
<1>1. CASE ok = TRUE
    <2>1. PICK x, y, z : x = [request |-> f.request, number |-> f.number] /\ y = f.top /\ z = f.total
        OBVIOUS
    <2>2. Shows(f, w) = [w EXCEPT !.shown = x, !.top = y, !.total = z]
        BY <2>1 DEF Shows
    <2>3. PICK u : u = Shows(f, w)
        OBVIOUS
    <2>4. u = [asked |-> a, number |-> n, loading |-> l, error |-> e, shown |-> x,
               top |-> y, total |-> z]
        BY <1>0, <2>2, <2>3
    <2>5. Answered(w, f, TRUE) = [asked |-> w.asked, number |-> w.number, loading |-> FALSE,
                                  error |-> FALSE, shown |-> x, top |-> y, total |-> z]
        BY <2>1 DEF Answered
    <2>6. w.asked = a /\ w.number = n
        BY <1>0
    <2>7. ASSUME NEW v, v = [u EXCEPT !.loading = FALSE, !.error = FALSE]
          PROVE  v = [asked |-> a, number |-> n, loading |-> FALSE, error |-> FALSE, shown |-> x,
                      top |-> y, total |-> z]
        BY <2>4, <2>7
    <2>8. [(IF ok THEN Shows(f, w) ELSE w) EXCEPT !.loading = FALSE, !.error = ~ok]
            = [u EXCEPT !.loading = FALSE, !.error = FALSE]
        BY <1>1, <2>3
    <2> QED BY <1>1, <2>5, <2>6, <2>7, <2>8
<1>2. CASE ok = FALSE
    <2>1. Answered(w, f, FALSE) = [asked |-> w.asked, number |-> w.number, loading |-> FALSE,
                                   error |-> TRUE, shown |-> w.shown, top |-> w.top,
                                   total |-> w.total]
        BY DEF Answered
    <2>2. w.asked = a /\ w.number = n /\ w.shown = s /\ w.top = t /\ w.total = m
        BY <1>0
    <2>3. ASSUME NEW v, v = [w EXCEPT !.loading = FALSE, !.error = TRUE]
          PROVE  v = [asked |-> a, number |-> n, loading |-> FALSE, error |-> TRUE, shown |-> s,
                      top |-> t, total |-> m]
        BY <1>0, <2>3
    <2>4. [(IF ok THEN Shows(f, w) ELSE w) EXCEPT !.loading = FALSE, !.error = ~ok]
            = [w EXCEPT !.loading = FALSE, !.error = TRUE]
        BY <1>2
    <2> QED BY <1>2, <2>1, <2>2, <2>3, <2>4
<1> QED BY <1>1, <1>2

\* The end of a request changes its view alone, and, of a hook, only when it is the latest.
LEMMA ArrivesEffect ==
    ASSUME ViewsInv, NEW f \in flights, Arrives(f)
    PROVE  /\ page' = page /\ rows' = rows /\ flights' = flights \ {f}
           /\ DOMAIN view' = Views
           /\ \A v \in Views : v # f.view => view'[v] = view[v]
           /\ f.view \in Hooked /\ f.number # view[f.view].number => view' = view
           /\ f.view \in Hooked /\ f.number = view[f.view].number =>
                 \E ok \in BOOLEAN :
                    /\ view' = [view EXCEPT ![f.view] = Answered(view[f.view], f, ok)]
                    /\ ok => (Listed => Served(f)) \/ Immediate(f)
                    /\ IF ok THEN Follow(f) ELSE seen' = seen
           /\ IsView(view'[f.view])
           /\ view'[f.view].asked = view[f.view].asked
           /\ view'[f.view].number = view[f.view].number
           /\ f.view \in Hooked \/ ~view'[f.view].loading
<1>0. f.view \in Views /\ DOMAIN view = Views /\ IsView(view[f.view])
    BY DEF ViewsInv, IsFlight
<1>1. page' = page
    BY DEF Arrives, formVars
<1>2. PICK w : w = view[f.view]
    OBVIOUS
<1>3. CASE f.view \in Hooked
    <2>1. PICK ok \in BOOLEAN :
             /\ UseIndexer(f, ok) /\ (ok => (Listed => Served(f)) \/ Immediate(f))
             /\ IF ok THEN Follow(f) ELSE seen' = seen
        BY <1>3 DEF Arrives, Hooked
    <2>2. rows' = rows /\ flights' = flights \ {f}
        BY <2>1 DEF UseIndexer
    <2>3. CASE Cancelled(f)
        <3>1. view' = view /\ f.number # view[f.view].number
            BY <2>1, <2>3 DEF UseIndexer, Cancelled
        <3> QED BY <1>0, <1>1, <1>3, <2>2, <3>1
    <2>4. CASE ~Cancelled(f)
        <3>1. view' = [view EXCEPT ![f.view] =
                          [(IF ok THEN Shows(f, w) ELSE w) EXCEPT !.loading = FALSE, !.error = ~ok]]
            BY <1>2, <2>1, <2>4 DEF UseIndexer
        <3>0a. IsView(w)
            BY <1>0, <1>2
        <3>1a. [(IF ok THEN Shows(f, w) ELSE w) EXCEPT !.loading = FALSE, !.error = ~ok]
                   = Answered(w, f, ok)
            BY <3>0a, AnsweredIs, Zenon
        <3>2. view' = [view EXCEPT ![f.view] = Answered(w, f, ok)] /\ f.number = w.number
            BY <1>2, <2>4, <3>1, <3>1a DEF Cancelled
        <3>3. PICK u : u = view'[f.view]
            OBVIOUS
        <3>4. u = Answered(w, f, ok)
            BY <1>0, <3>2, <3>3
        <3>5. w.number \in Nat
            BY <1>0, <1>2 DEF IsView
        <3>6. IsView(u) /\ u.asked = w.asked /\ u.number = w.number /\ ~u.loading
            BY <3>4, <3>5 DEF IsView, Answered
        <3>7. DOMAIN view' = Views /\ \A v \in Views : v # f.view => view'[v] = view[v]
            BY <1>0, <3>2
        <3> QED BY <1>1, <1>2, <1>3, <2>1, <2>2, <3>2, <3>3, <3>6, <3>7
    <2> QED BY <2>3, <2>4
<1>4. CASE f.view \notin Hooked
    <2>1. PICK ok \in BOOLEAN : OwnFetch(f, ok, page.views[f.view].hook = "click")
        BY <1>0, <1>4 DEF Arrives, Hooked
    <2>2. PICK x : x = IF ok THEN Shows(f, w)
                       ELSE IF page.views[f.view].hook = "click"
                            THEN [w EXCEPT !.shown = Mounted("effect").shown] ELSE w
        OBVIOUS
    <2>3. rows' = rows /\ flights' = flights \ {f}
          /\ view' = [view EXCEPT ![f.view] = [x EXCEPT !.loading = FALSE]]
        BY <1>2, <2>1, <2>2 DEF OwnFetch
    <2>4. PICK a, n, l, e, s, t, m :
              /\ w = [asked |-> a, number |-> n, loading |-> l, error |-> e, shown |-> s,
                      top |-> t, total |-> m]
              /\ n \in Nat /\ e \in BOOLEAN
        BY <1>0, <1>2 DEF IsView
    <2>5. PICK b, r, k : x = [asked |-> a, number |-> n, loading |-> l, error |-> e, shown |-> b,
                              top |-> r, total |-> k]
        <3>1. PICK y, z, q : /\ y = [request |-> f.request, number |-> f.number]
                             /\ z = f.top /\ q = f.total
            OBVIOUS
        <3>2. Shows(f, w) = [w EXCEPT !.shown = y, !.top = z, !.total = q]
            BY <3>1 DEF Shows
        <3>3. ASSUME NEW v, v = [w EXCEPT !.shown = y, !.top = z, !.total = q]
              PROVE  v = [asked |-> a, number |-> n, loading |-> l, error |-> e, shown |-> y,
                          top |-> z, total |-> q]
            BY <2>4, <3>3
        <3>4. PICK c : c = Mounted("effect").shown
            OBVIOUS
        <3>5. ASSUME NEW v, v = [w EXCEPT !.shown = c]
              PROVE  v = [asked |-> a, number |-> n, loading |-> l, error |-> e, shown |-> c,
                          top |-> t, total |-> m]
            BY <2>4, <3>5
        <3> QED BY <2>2, <2>4, <3>2, <3>3, <3>4, <3>5
    <2>6. PICK u : u = view'[f.view]
        OBVIOUS
    <2>7. u = [x EXCEPT !.loading = FALSE]
        BY <1>0, <2>3, <2>6
    <2>7a. u = [asked |-> a, number |-> n, loading |-> FALSE, error |-> e, shown |-> b,
               top |-> r, total |-> k]
        BY <2>5, <2>7
    <2>8. IsView(u) /\ u.asked = a /\ u.number = n /\ ~u.loading
        BY <2>4, <2>7a DEF IsView
    <2>9. DOMAIN view' = Views /\ \A v \in Views : v # f.view => view'[v] = view[v]
        BY <1>0, <2>3
    <2> QED BY <1>1, <1>2, <1>4, <2>3, <2>4, <2>6, <2>8, <2>9
<1> QED BY <1>3, <1>4

\* An answer that arrives ends the waiting of its own view and of no other; where a hook has
\* gone on to a later request, the answer to that one is still under way.
LEMMA ArrivesKeeps ==
    ASSUME ViewsInv, NEW f \in flights, Arrives(f)
    PROVE  ViewsInv'
<1>0. /\ Views' = Views /\ Hooked' = Hooked /\ Hooked \subseteq Views /\ page' = page
      /\ flights' = flights \ {f} /\ DOMAIN view' = Views /\ f.view \in Views
      /\ \A v \in Views : v # f.view => view'[v] = view[v]
    BY ArrivesEffect DEF ViewsInv, IsFlight, Views, Hooked
<1>1. /\ IsView(view'[f.view])
      /\ view'[f.view].asked = view[f.view].asked /\ view'[f.view].number = view[f.view].number
      /\ f.view \in Hooked \/ ~view'[f.view].loading
      /\ f.view \in Hooked /\ f.number # view[f.view].number => view' = view
    BY ArrivesEffect
<1>2. f.view \in Hooked /\ f.number = view[f.view].number => ~view'[f.view].loading
    <2>1. SUFFICES ASSUME f.view \in Hooked, f.number = view[f.view].number
                   PROVE  ~view'[f.view].loading
        OBVIOUS
    <2>2. PICK ok \in BOOLEAN :
              view' = [view EXCEPT ![f.view] = Answered(view[f.view], f, ok)]
        BY <2>1, ArrivesEffect
    <2>3. view'[f.view] = Answered(view[f.view], f, ok)
        BY <1>0, <2>2 DEF ViewsInv
    <2> QED BY <2>3 DEF Answered
<1>3. \A v \in Views : /\ IsView(view'[v]) /\ view'[v].asked = view[v].asked
                       /\ view'[v].number = view[v].number
    BY <1>0, <1>1 DEF ViewsInv
<1>4. \A g \in flights' : g \in flights /\ IsFlight(g) /\ g.view \in Views
    BY <1>0 DEF ViewsInv, IsFlight
<1>5. (\A v \in Views : IsView(view[v]))' /\ (\A g \in flights : IsFlight(g))'
    BY <1>0, <1>3, <1>4 DEF IsFlight
<1>6. Numbered'
    BY <1>3, <1>4 DEF ViewsInv, Numbered
<1>7. Awaited'
    <2>1. ASSUME NEW g \in flights', g.view \in Hooked, g.number = view'[g.view].number
          PROVE  g.request = view'[g.view].asked /\ view'[g.view].loading
        <3>1. /\ g \in flights /\ g # f /\ g.number = view[g.view].number
              /\ g.request = view[g.view].asked /\ view[g.view].loading
            BY <1>0, <1>3, <1>4, <2>1 DEF ViewsInv, Awaited
        <3>2. CASE g.view = f.view
            <4>1. f.number # view[f.view].number
                BY <3>1, <3>2 DEF ViewsInv, Numbered
            <4> QED BY <1>1, <2>1, <3>1, <3>2, <4>1
        <3>3. CASE g.view # f.view
            BY <1>0, <1>4, <3>1, <3>3
        <3> QED BY <3>2, <3>3
    <2>2. ASSUME NEW v \in Hooked, view'[v].loading, view'[v].number > 0
          PROVE  \E g \in flights' : g.view = v /\ g.number = view'[v].number
        <3>1. view[v].loading /\ ~(v = f.view /\ f.number = view[v].number)
            BY <1>0, <1>1, <1>2, <2>2
        <3>2. view'[v].number = view[v].number
            BY <1>0, <1>3
        <3>3. PICK g \in flights : g.view = v /\ g.number = view[v].number
            BY <2>2, <3>1, <3>2 DEF ViewsInv, Awaited
        <3> QED BY <1>0, <3>1, <3>2, <3>3
    <2>3. ASSUME NEW v \in Views, view'[v].loading, view'[v].number > 0
          PROVE  \E g \in flights' : g.view = v
        <3>1. CASE v \in Hooked
            BY <2>2, <2>3, <3>1
        <3>2. CASE v \notin Hooked
            <4>1. v # f.view
                BY <1>1, <2>3, <3>2
            <4>2. view'[v] = view[v]
                BY <1>0, <4>1
            <4>3. PICK g \in flights : g.view = v
                BY <2>3, <4>2 DEF ViewsInv, Awaited
            <4> QED BY <1>0, <4>1, <4>3
        <3> QED BY <3>1, <3>2
    <2> QED BY <1>0, <2>1, <2>2, <2>3 DEF Awaited
<1> QED BY <1>0, <1>5, <1>6, <1>7 DEF ViewsInv

\* A step of the API leaves a request what it was.
LEMMA ServeEffect ==
    ASSUME ViewsInv, NEW f \in flights, Serve(f)
    PROVE  /\ page' = page /\ rows' = rows /\ view' = view
           /\ \E g : /\ flights' = (flights \ {f}) \cup {g}
                     /\ IsFlight(g) /\ g.view = f.view /\ g.number = f.number
                     /\ g.request = f.request
                     /\ g.top \in {f.top, IF rows > f.request.offset
                                          THEN rows - f.request.offset ELSE 0}
                     /\ g.total \in {f.total, rows}
                     /\ g.top # f.top => f.top = Unread
<1>1. page' = page /\ rows' = rows /\ view' = view
    BY DEF Serve, formVars, FindMany, Count
<1>2. PICK n, r, k, t, m : f = [view |-> n, request |-> r, number |-> k, top |-> t, total |-> m]
    BY DEF ViewsInv, IsFlight
<1>3. n \in Views /\ k \in Nat /\ f.view = n /\ f.number = k /\ f.request = r
      /\ f.top = t /\ f.total = m
    BY <1>2 DEF ViewsInv, IsFlight
<1>4. PICK h : h = IF rows > f.request.offset THEN rows - f.request.offset ELSE 0
    OBVIOUS
<1>5. CASE FindMany(f)
    <2>1. PICK g : g = [f EXCEPT !.top = h]
        OBVIOUS
    <2>2. flights' = (flights \ {f}) \cup {g} /\ f.top = Unread
        BY <1>4, <1>5, <2>1 DEF FindMany, Advance
    <2>3. g = [view |-> n, request |-> r, number |-> k, top |-> h, total |-> m]
        BY <1>2, <2>1
    <2> QED BY <1>1, <1>3, <1>4, <2>2, <2>3 DEF IsFlight
<1>6. CASE Count(f)
    <2>1. PICK g : g = [f EXCEPT !.total = rows]
        OBVIOUS
    <2>2. flights' = (flights \ {f}) \cup {g}
        BY <1>6, <2>1 DEF Count, Advance
    <2>3. g = [view |-> n, request |-> r, number |-> k, top |-> t, total |-> rows]
        BY <1>2, <2>1
    <2> QED BY <1>1, <1>3, <2>2, <2>3 DEF IsFlight
<1> QED BY <1>5, <1>6 DEF Serve

\* What the API does to a request under way changes neither its view nor its number.
LEMMA ServeKeeps ==
    ASSUME ViewsInv, NEW f \in flights, Serve(f)
    PROVE  ViewsInv'
<1>1. PICK g : /\ page' = page /\ view' = view /\ flights' = (flights \ {f}) \cup {g}
               /\ IsFlight(g) /\ g.view = f.view /\ g.number = f.number /\ g.request = f.request
    BY ServeEffect
<1>2. Views' = Views /\ Hooked' = Hooked
    BY <1>1 DEF Views, Hooked
<1>3. \A e \in flights' : \E d \in flights : /\ d.view = e.view /\ d.number = e.number
                                             /\ d.request = e.request
                                             /\ e = d \/ (e = g /\ d = f)
    BY <1>1
<1>4. \A d \in flights : \E e \in flights' : d.view = e.view /\ d.number = e.number
    BY <1>1
<1>5. (\A e \in flights : IsFlight(e))'
    BY <1>1, <1>2 DEF ViewsInv, IsFlight
<1>6. Numbered'
    BY <1>1, <1>3 DEF ViewsInv, Numbered
<1>7. Awaited'
    <2>1. ASSUME NEW e \in flights', e.view \in Hooked, e.number = view[e.view].number
          PROVE  e.request = view[e.view].asked /\ view[e.view].loading
        BY <1>3, <2>1 DEF ViewsInv, Awaited
    <2>2. ASSUME NEW v \in Hooked, view[v].loading, view[v].number > 0
          PROVE  \E e \in flights' : e.view = v /\ e.number = view[v].number
        <3>1. PICK d \in flights : d.view = v /\ d.number = view[v].number
            BY <2>2 DEF ViewsInv, Awaited
        <3> QED BY <1>4, <3>1
    <2>3. ASSUME NEW v \in Views, view[v].loading, view[v].number > 0
          PROVE  \E e \in flights' : e.view = v
        <3>1. PICK d \in flights : d.view = v
            BY <2>3 DEF ViewsInv, Awaited
        <3> QED BY <1>4, <3>1
    <2> QED BY <1>1, <1>2, <2>1, <2>2, <2>3 DEF Awaited
<1> QED BY <1>1, <1>2, <1>5, <1>6, <1>7 DEF ViewsInv

\* To the views there are four kinds of steps.
LEMMA StepOfViews ==
    ASSUME ViewsInv, [Next]_vars
    PROVE  \/ \E f \in flights : Arrives(f)
           \/ \E f \in flights : Serve(f)
           \/ page' = page /\ \E vs \in SUBSET Views : vs # {} /\ Fetch(vs, Requests)
           \/ page' = page /\ view' = view /\ flights' = flights
<1>1. CASE Effects
    BY <1>1 DEF Effects, Due, formVars
<1>2. CASE \E v \in Views : Refetch(v)
    BY <1>2 DEF Refetch, UnchangedForm
<1>3. CASE \E j \in jobs : Handle(j)
    <2>1. PICK j \in jobs : Handle(j)
        BY <1>3
    <2>2. page' = page
        BY <2>1 DEF Handle
    <2>3. CASE UNCHANGED viewVars
        BY <2>2, <2>3 DEF viewVars
    <2>4. CASE Reload
        <3>1. 1 \in Views \/ Views = {}
            BY PagesAssumption DEF Views, ViewsInv, ViewsAreInOrder
        <3> QED BY <2>2, <2>4, <3>1 DEF Reload, viewVars
    <2> QED BY <2>1, <2>3, <2>4 DEF Handle
<1>4. CASE \/ Turn \/ \E q \in Search : HandleSearch(q)
           \/ \E t \in Selected : SelectTopic(t)
           \/ UseForm \/ \E t \in ledger : Decides(t)
           \/ UseWallet \/ WalletStep \/ NewRow
    BY <1>4 DEF Turn, HandleSearch, SelectTopic, UseForm, Decides, UseWallet, WalletStep, NewRow,
                viewVars, formVars, UnchangedForm, Indexed
<1>5. CASE UNCHANGED vars
    BY <1>5 DEF vars, formVars, viewVars
<1> QED BY <1>1, <1>2, <1>3, <1>4, <1>5 DEF Next

\* Fetching, serving and arriving keep the invariant of the views; nothing else touches them.
LEMMA ViewsInvStep == ViewsInv /\ [Next]_vars => ViewsInv'
<1> SUFFICES ASSUME ViewsInv, [Next]_vars PROVE ViewsInv'
    OBVIOUS
<1>1. CASE page' = page /\ view' = view /\ flights' = flights
    BY <1>1 DEF ViewsInv, Views, IsFlight, Numbered, Awaited, Hooked
<1>2. CASE page' = page /\ \E vs \in SUBSET Views : vs # {} /\ Fetch(vs, Requests)
    BY <1>2, FetchKeeps
<1> QED BY <1>1, <1>2, StepOfViews, ArrivesKeeps, ServeKeeps

\* A page just mounted has asked for nothing yet.
LEMMA ViewsInvInit == Init => ViewsInv
<1> SUFFICES ASSUME Init PROVE ViewsInv
    OBVIOUS
<1>1. /\ page \in Pages /\ flights = {}
      /\ view = [v \in Views |-> Mounted(page.views[v].hook)]
    BY DEF Init
<1>2. \A hook : IsView(Mounted(hook)) /\ Mounted(hook).number = 0
    BY DEF IsView, Mounted
<1> QED BY <1>1, <1>2 DEF ViewsInv, Numbered, Awaited, Hooked

\* What a hook shows when it is not busy is the answer to what it has asked for last.
THEOREM HooksShowLatest == Spec => ImplementsLatestAnswer
<1>1. Init => Latest!Init
    <2> SUFFICES ASSUME Init PROVE Latest!Init
        OBVIOUS
    <2>1. view = [v \in Views |-> Mounted(page.views[v].hook)]
        BY DEF Init
    <2>2. \A v \in Hooked : view[v].loading = TRUE
        BY <2>1 DEF Hooked, Mounted
    <2>3. \A v \in Hooked : Phase(v) = "busy"
        BY <2>2 DEF Phase
    <2> QED BY <2>3 DEF Latest!Init
<1>2. ViewsInv /\ [Next]_vars => [Latest!Next]_(Latest!latestVars)
    <2> SUFFICES ASSUME ViewsInv, [Next]_vars
                 PROVE  Latest!Next \/ UNCHANGED Latest!latestVars
        OBVIOUS
    <2> DEFINE AskedBy  == [v \in Hooked |-> [request |-> view[v].asked, number |-> view[v].number]]
               PhaseOf == [v \in Hooked |-> Phase(v)]
               ShownBy  == [v \in Hooked |-> view[v].shown]
    <2>0. page' = page
        BY StepOfViews, ArrivesEffect, ServeEffect
    <2>1. Hooked' = Hooked /\ Hooked \subseteq Views /\ Views' = Views
        BY <2>0 DEF Hooked, Views
    <2>2. CASE \A v \in Hooked : view'[v] = view[v]
        <3>1. \A v \in Hooked : Phase(v)' = Phase(v)
            BY <2>2 DEF Phase
        <3> QED BY <2>1, <2>2, <3>1 DEF Latest!latestVars
    <2>3. CASE \E vs \in SUBSET Views : vs # {} /\ Fetch(vs, Requests)
        <3>1. PICK vs \in SUBSET Views : Fetch(vs, Requests)
            BY <2>3
        <3>2. PICK us : us = vs \cap Hooked
            OBVIOUS
        <3>3. \A v \in Views \ vs : view'[v] = view[v]
            BY <3>1, FetchEffect
        <3>4. CASE us = {}
            BY <2>1, <2>2, <3>2, <3>3, <3>4
        <3>5. CASE us # {}
            <4>1. \A v \in us : /\ view'[v].number = view[v].number + 1
                                /\ view'[v].loading = TRUE /\ view'[v].shown = view[v].shown
                <5>1. SUFFICES ASSUME NEW v \in us
                               PROVE  /\ view'[v].number = view[v].number + 1
                                      /\ view'[v].loading = TRUE /\ view'[v].shown = view[v].shown
                    OBVIOUS
                <5>2. PICK w, x, u : w = view'[v] /\ x = Wanted(v) /\ u = view[v]
                    OBVIOUS
                <5>3. w = [asked |-> x, number |-> u.number + 1, loading |-> TRUE,
                           error |-> FALSE, shown |-> u.shown, top |-> u.top, total |-> u.total]
                    BY <3>1, <3>2, <5>2, FetchEffect
                <5>4. w.number = u.number + 1 /\ w.loading = TRUE /\ w.shown = u.shown
                    BY <5>3
                <5> QED BY <5>2, <5>4
            <4>2. \A v \in Hooked \ us : view'[v] = view[v]
                BY <2>1, <3>2, <3>3
            <4>3. \A v \in Hooked : view'[v].shown = view[v].shown
                BY <4>1, <4>2
            <4>4. \A v \in Hooked : Phase(v)' = IF v \in us THEN "busy" ELSE Phase(v)
                BY <4>1, <4>2 DEF Phase
            <4>5. Latest!Ask(us)
                <5>1. ASSUME NEW v \in Hooked
                      PROVE  IF v \in us
                             THEN AskedBy'[v].number = AskedBy[v].number + 1
                             ELSE AskedBy'[v] = AskedBy[v]
                    <6>1. /\ AskedBy[v] = [request |-> view[v].asked, number |-> view[v].number]
                          /\ AskedBy'[v] = [request |-> view'[v].asked, number |-> view'[v].number]
                        BY <2>1
                    <6>2. CASE v \in us
                        BY <4>1, <6>1, <6>2
                    <6>3. CASE v \notin us
                        BY <4>2, <6>1, <6>3
                    <6> QED BY <6>2, <6>3
                <5>2. PhaseOf' = [v \in Hooked |-> IF v \in us THEN "busy" ELSE PhaseOf[v]]
                    BY <2>1, <4>4
                <5>3. ShownBy' = ShownBy
                    BY <2>1, <4>3
                <5> QED BY <2>1, <5>1, <5>2, <5>3 DEF Latest!Ask
            <4> QED BY <2>1, <3>2, <3>5, <4>5 DEF Latest!Next
        <3> QED BY <3>4, <3>5
    <2>4. CASE \E f \in flights : Arrives(f)
        <3>1. PICK f \in flights : Arrives(f)
            BY <2>4
        <3>2. CASE f.view \notin Hooked \/ f.number # view[f.view].number
            <4>1. \A v \in Views : v # f.view => view'[v] = view[v]
                BY <3>1, ArrivesEffect
            <4>2. f.view \in Hooked => view' = view
                BY <3>1, <3>2, ArrivesEffect
            <4> QED BY <2>1, <2>2, <4>1, <4>2
        <3>3. CASE f.view \in Hooked /\ f.number = view[f.view].number
            <4>1. PICK ok \in BOOLEAN :
                      view' = [view EXCEPT ![f.view] = Answered(view[f.view], f, ok)]
                BY <3>1, <3>3, ArrivesEffect
            <4>2. PICK i, w : i = f.view /\ w = view[f.view]
                OBVIOUS
            <4>3. /\ i \in Hooked /\ f.request = w.asked /\ w.loading /\ f.number = w.number
                BY <3>3, <4>2 DEF ViewsInv, Awaited
            <4>4. view'[i] = Answered(w, f, ok)
                BY <2>1, <4>1, <4>2, <4>3 DEF ViewsInv
            <4>5. \A v \in Hooked : v # i => view'[v] = view[v] /\ Phase(v)' = Phase(v)
                BY <2>1, <4>1, <4>2 DEF ViewsInv, Phase
            <4>6. /\ view'[i].asked = w.asked /\ view'[i].number = w.number
                  /\ view'[i].loading = FALSE /\ view'[i].error = ~ok
                  /\ view'[i].shown = IF ok THEN [request |-> f.request, number |-> f.number]
                                      ELSE w.shown
                BY <4>4 DEF Answered
            <4>7. Phase(i) = "busy" /\ Phase(i)' = IF ok THEN "done" ELSE "error"
                BY <4>2, <4>3, <4>6 DEF Phase
            <4>8. \A v \in Hooked : /\ view'[v].asked = view[v].asked
                                    /\ view'[v].number = view[v].number
                BY <4>2, <4>5, <4>6
            <4>9. CASE ok
                <5>0. /\ PhaseOf' = [PhaseOf EXCEPT ![i] = "done"] /\ PhaseOf[i] = "busy"
                      /\ ShownBy' = [ShownBy EXCEPT ![i] = AskedBy[i]] /\ AskedBy' = AskedBy
                    <6>1. PhaseOf' = [PhaseOf EXCEPT ![i] = "done"] /\ PhaseOf[i] = "busy"
                        BY <2>1, <4>3, <4>5, <4>7, <4>9
                    <6>2. AskedBy' = AskedBy
                        BY <2>1, <4>8
                    <6>3. AskedBy[i] = [request |-> f.request, number |-> f.number]
                        BY <4>2, <4>3
                    <6>4. view'[i].shown = AskedBy[i]
                        BY <4>6, <4>9, <6>3
                    <6>5. ShownBy' = [ShownBy EXCEPT ![i] = AskedBy[i]]
                        BY <2>1, <4>3, <4>5, <6>4
                    <6> QED BY <6>1, <6>2, <6>5
                <5>1. Latest!Answer(i)
                    BY <5>0 DEF Latest!Answer
                <5> QED BY <2>1, <4>3, <5>1 DEF Latest!Next
            <4>10. CASE ~ok
                <5>1. Latest!Fail(i)
                    BY <2>1, <4>2, <4>3, <4>5, <4>6, <4>7, <4>8, <4>10 DEF Latest!Fail
                <5> QED BY <2>1, <4>3, <5>1 DEF Latest!Next
            <4> QED BY <4>9, <4>10
        <3> QED BY <3>2, <3>3
    <2>5. (\E f \in flights : Serve(f)) \/ view' = view => \A v \in Hooked : view'[v] = view[v]
        BY ServeEffect
    <2> QED BY <2>2, <2>3, <2>4, <2>5, StepOfViews
<1> QED BY <1>1, <1>2, ViewsInvInit, ViewsInvStep, PTL DEF Spec, ImplementsLatestAnswer, Latest!Spec

-----------------------------------------------------------------------------
(* The forms *)

\* What a job's handler does, and the flag it sets.
Kind(j)   == form.handlers[j.handler].does
FlagOf(j) == form.handlers[j.handler].flag

IsJob(j) ==
    /\ j = [handler |-> j.handler, input |-> j.input, number |-> j.number, stage |-> j.stage]
    /\ j.handler \in Handlers
    /\ \/ Kind(j) = "transact" /\ j.stage \in {"signer", "receipt"}
       \/ Kind(j) \in {"query", "advance"} /\ j.stage = "asking"

IsSent(t) == t = [number |-> t.number, input |-> t.input, state |-> t.state]

FormTyped ==
    /\ page \in Pages
    /\ step \in 0 .. form.last /\ input \in Input \cup {""}
    /\ status \in {"idle", "loading", "success", "error"}
    /\ \A j \in jobs : IsJob(j)
    /\ \A t \in ledger : IsSent(t)

\* A flag is set as long as the one job that has set it has not ended.
FlagsInv ==
    /\ "none" \notin busy /\ "status" \notin busy
    /\ \A flag \in busy : \E j \in jobs : FlagOf(j) = flag
    /\ \A j \in jobs : j.stage = "asking" /\ FlagOf(j) # "none" => FlagOf(j) \in busy
    /\ \A j, k \in jobs :
          (/\ j.stage = "asking" /\ k.stage = "asking"
           /\ FlagOf(j) = FlagOf(k) /\ FlagOf(j) # "none") => j = k

\* Who waits for a receipt has sent, and a form that is loading has a job to wait for.
SentInv ==
    /\ status = "loading" => \E j \in jobs : j.stage \in {"signer", "receipt"}
    /\ \A j \in jobs : j.stage = "receipt" => \E t \in ledger : t.number = j.number

\* A locked form has one transaction under way at most, with the fields on the page, and
\* stays at the step that sent it; its first step is left when what it loads is there.
LockedInv ==
    form.locked /\ form.last > 0 =>
        /\ \A j \in jobs : Kind(j) = "transact" =>
              status = "loading" /\ step = form.last - 1 /\ j.input = input
        /\ \A j, k \in jobs : Kind(j) = "transact" /\ Kind(k) = "transact" => j = k
        /\ \A j \in jobs : Kind(j) = "advance" => step = 0
        /\ step = form.last => \E t \in ledger : t.state = "landed" /\ t.input = input

FormInv == FormTyped /\ FlagsInv /\ SentInv /\ LockedInv

\* What is assumed of a form.
LEMMA FormFacts ==
    ASSUME page \in Pages
    PROVE  /\ form.last \in Nat
           /\ \A h \in Handlers :
                 /\ form.handlers[h].does = "transact" =>
                       form.handlers[h].flag = "status" /\ form.handlers[h].at + 1 = form.last
                 /\ form.handlers[h].does \in {"query", "advance"} =>
                       form.handlers[h].flag # "status"
                 /\ form.handlers[h].does = "advance" =>
                       /\ form.handlers[h].at = 0 /\ form.handlers[h].flag # "none"
                       /\ form.last > 1
           /\ \A g, h \in Handlers :
                 form.handlers[g].does = "advance" /\ form.handlers[h].does = "advance" => g = h
<1>1. FormIsInOrder(page)
    BY PagesAssumption
<1> DEFINE Of(kind) == {h \in DOMAIN page.form.handlers : page.form.handlers[h].does = kind}
<1>2. /\ page.form.last \in Nat
      /\ \A h \in Of("transact") : /\ page.form.handlers[h].flag = "status"
                                   /\ page.form.handlers[h].at + 1 = page.form.last
      /\ \A h \in Of("query") \cup Of("advance") : page.form.handlers[h].flag # "status"
      /\ \A h \in Of("advance") : /\ page.form.handlers[h].at = 0
                                  /\ page.form.handlers[h].flag # "none"
      /\ Of("advance") # {} => page.form.last > 1
      /\ \A g, h \in Of("advance") : g = h
    BY <1>1 DEF FormIsInOrder
<1>3. ASSUME NEW h \in Handlers
      PROVE  /\ form.handlers[h].does = "transact" =>
                   form.handlers[h].flag = "status" /\ form.handlers[h].at + 1 = form.last
             /\ form.handlers[h].does \in {"query", "advance"} =>
                   form.handlers[h].flag # "status"
             /\ form.handlers[h].does = "advance" =>
                   /\ form.handlers[h].at = 0 /\ form.handlers[h].flag # "none"
                   /\ form.last > 1
    BY <1>2 DEF form, Handlers
<1>4. ASSUME NEW g \in Handlers, NEW h \in Handlers,
             form.handlers[g].does = "advance", form.handlers[h].does = "advance"
      PROVE  g = h
    BY <1>2, <1>4 DEF form, Handlers
<1>5. form.last \in Nat
    BY <1>2 DEF form
<1> HIDE DEF Of
<1> QED BY <1>3, <1>4, <1>5

\* To the form there are nine kinds of steps.
LEMMA StepOfForm ==
    ASSUME [Next]_vars
    PROVE  /\ page' = page
           /\ \/ \E x \in Input : Edit(x)
              \/ Forward \/ Back \/ Reset
              \/ \E h \in Handlers : Click(h)
              \/ \E j \in jobs : Asked(j) \/ Sign(j) \/ Receipt(j)
              \/ \E t \in ledger : Consensus(t)
              \/ UNCHANGED <<step, input, status, busy, jobs, ledger>>
<1>1. CASE UNCHANGED <<page, formState, busy, jobs, ledger>>
    BY <1>1 DEF formState
<1>2. CASE UseForm
    BY <1>2 DEF UseForm
<1>3. CASE \E j \in jobs : Handle(j)
    BY <1>3 DEF Handle
<1>4. CASE \E t \in ledger : Decides(t)
    BY <1>4 DEF Decides
<1>5. CASE \/ \E f \in flights : Arrives(f) \/ Serve(f)
           \/ Effects \/ \E v \in Views : Refetch(v)
           \/ Turn \/ \E q \in Search : HandleSearch(q)
           \/ \E t \in Selected : SelectTopic(t)
           \/ UseWallet \/ WalletStep \/ NewRow
    BY <1>1, <1>5 DEF Arrives, Serve, Effects, Refetch, Turn, HandleSearch, SelectTopic, UseWallet,
                      WalletStep, NewRow, formVars, UnchangedForm
<1>6. CASE UNCHANGED vars
    BY <1>1, <1>6 DEF vars, formVars
<1> QED BY <1>2, <1>3, <1>4, <1>5, <1>6 DEF Next

\* Which jobs there are after a click, and after the end of what a job awaits.
LEMMA ClickEffect ==
    ASSUME FormTyped, NEW h \in Handlers, Click(h), page' = page
    PROVE  /\ step' = step /\ input' = input /\ ledger' = ledger
           /\ \/ /\ form.handlers[h].does = "transact" /\ status # "loading" /\ status' = "loading"
                 /\ step = form.last - 1 /\ busy' = busy
                 /\ \E j : /\ jobs' = jobs \cup {j} /\ IsJob(j)
                           /\ j.handler = h /\ j.input = input /\ j.stage = "signer"
              \/ /\ form.handlers[h].does \in {"query", "advance"} /\ status' = status
                 /\ form.handlers[h].flag \notin busy
                 /\ form.handlers[h].does = "advance" => step = 0
                 /\ busy' = busy \cup ({form.handlers[h].flag} \ {"none"})
                 /\ \E j : /\ jobs' = jobs \cup {j} /\ IsJob(j)
                           /\ j.handler = h /\ j.input = input /\ j.stage = "asking"
              \/ UNCHANGED <<status, busy, jobs>>
<1>0. step' = step /\ input' = input /\ ledger' = ledger /\ step = form.handlers[h].at
      /\ step \in 0 .. form.last
    BY DEF Click, FormTyped
<1>1. \A stage : /\ Job(h, stage).handler = h /\ Job(h, stage).input = input
                 /\ Job(h, stage).stage = stage
                 /\ Job(h, stage) = [handler |-> Job(h, stage).handler,
                                     input |-> Job(h, stage).input,
                                     number |-> Job(h, stage).number,
                                     stage |-> Job(h, stage).stage]
    BY DEF Job
<1>2. CASE form.handlers[h].does = "transact"
    <2>0. form.handlers[h].at + 1 = form.last /\ form.last \in Nat
        BY <1>2, FormFacts DEF FormTyped
    <2>1. step = form.last - 1
        BY <1>0, <2>0
    <2>2. IsJob(Job(h, "signer"))
        BY <1>1, <1>2 DEF IsJob, Kind
    <2> QED BY <1>0, <1>1, <1>2, <2>1, <2>2 DEF Click
<1>3. CASE form.handlers[h].does \in {"query", "advance"}
    <2>1. form.handlers[h].does = "advance" => step = 0
        BY <1>0, FormFacts DEF FormTyped
    <2>2. IsJob(Job(h, "asking"))
        BY <1>1, <1>3 DEF IsJob, Kind
    <2> QED BY <1>0, <1>1, <1>3, <2>1, <2>2 DEF Click
<1>4. CASE form.handlers[h].does \notin {"transact", "query", "advance"}
    BY <1>0, <1>4 DEF Click
<1> QED BY <1>2, <1>3, <1>4

\* The answer to a question of a form ends the question's job and its flag; it may advance
\* a form from its first step.
LEMMA AskedEffect ==
    ASSUME FormTyped, NEW j \in jobs, Asked(j)
    PROVE  /\ UNCHANGED <<input, status, ledger>>
           /\ IsJob(j) /\ j.stage = "asking" /\ Kind(j) \in {"query", "advance"}
           /\ jobs' = jobs \ {j} /\ busy' = busy \ {FlagOf(j)}
           /\ step' = step \/ (Kind(j) = "advance" /\ step' = 1 /\ form.last > 1)
<1>1. IsJob(j) /\ j.stage = "asking" /\ Kind(j) \in {"query", "advance"} /\ j.handler \in Handlers
    BY DEF Asked, FormTyped, IsJob
<1>2. Kind(j) = "advance" => form.handlers[j.handler].at = 0 /\ form.last > 1
    BY <1>1, FormFacts DEF Kind, FormTyped
<1>3. step' = step \/ (Kind(j) = "advance" /\ step' = 1 /\ form.last > 1)
    <2>1. \/ step' = IF Kind(j) = "advance" THEN form.handlers[j.handler].at + 1 ELSE step
          \/ step' = step
        BY DEF Asked, Kind
    <2> QED BY <1>2, <2>1
<1> QED BY <1>1, <1>3 DEF Asked, Done, FlagOf

\* The wallet's signer either sends the transaction of the job, which then waits for its
\* receipt, or ends the job in an error.
LEMMA SignEffect ==
    ASSUME FormTyped, NEW j \in jobs, Sign(j)
    PROVE  /\ UNCHANGED <<step, input, busy>>
           /\ IsJob(j) /\ j.stage = "signer" /\ Kind(j) = "transact" /\ FlagOf(j) = "status"
           /\ \/ /\ status' = status
                 /\ \E k : /\ jobs' = (jobs \ {j}) \cup {k} /\ IsJob(k)
                           /\ k.handler = j.handler /\ k.input = j.input
                           /\ k.number = j.number /\ k.stage = "receipt"
                 /\ ledger' = ledger \cup
                                 {[number |-> j.number, input |-> j.input, state |-> "sent"]}
              \/ status' = "error" /\ jobs' = jobs \ {j} /\ ledger' = ledger
<1>1. IsJob(j) /\ j.stage = "signer" /\ Kind(j) = "transact" /\ j.handler \in Handlers
    BY DEF Sign, FormTyped, IsJob
<1>2. FlagOf(j) = "status"
    BY <1>1, FormFacts DEF Kind, FlagOf, FormTyped
<1>3. PICK k : k = [j EXCEPT !.stage = "receipt"]
    OBVIOUS
<1>4. k = [handler |-> j.handler, input |-> j.input, number |-> j.number, stage |-> "receipt"]
    BY <1>1, <1>3 DEF IsJob
<1>5. IsJob(k) /\ k.handler = j.handler /\ k.input = j.input /\ k.number = j.number
      /\ k.stage = "receipt"
    BY <1>1, <1>4 DEF IsJob, Kind
<1> QED BY <1>1, <1>2, <1>3, <1>5 DEF Sign, Reaches, Refused, Done

\* A receipt ends its job: in success if the transaction landed, in an error otherwise.
LEMMA ReceiptEffect ==
    ASSUME FormTyped, NEW j \in jobs, Receipt(j)
    PROVE  /\ UNCHANGED <<input, busy, ledger>>
           /\ IsJob(j) /\ j.stage = "receipt" /\ Kind(j) = "transact" /\ FlagOf(j) = "status"
           /\ jobs' = jobs \ {j}
           /\ \/ /\ status' = "success" /\ step' = form.last
                 /\ [number |-> j.number, input |-> j.input, state |-> "landed"] \in ledger
              \/ status' = "error" /\ step' = step
<1>1. IsJob(j) /\ j.stage = "receipt" /\ Kind(j) = "transact" /\ j.handler \in Handlers
    BY DEF Receipt, FormTyped, IsJob
<1>2. FlagOf(j) = "status"
    BY <1>1, FormFacts DEF Kind, FlagOf, FormTyped
<1> QED BY <1>1, <1>2 DEF Receipt, Refused, Done

\* The network decides what was sent, and leaves its fields and number alone.
LEMMA ConsensusEffect ==
    ASSUME FormTyped, NEW t \in ledger, Consensus(t)
    PROVE  /\ UNCHANGED <<step, input, status, busy, jobs>> /\ t.state = "sent"
           /\ \E u : /\ ledger' = (ledger \ {t}) \cup {u}
                     /\ IsSent(u) /\ u.number = t.number /\ u.input = t.input
<1>1. PICK state \in {"landed", "failed"} :
          ledger' = (ledger \ {t}) \cup {[t EXCEPT !.state = state]}
    BY DEF Consensus
<1>2. PICK u : u = [t EXCEPT !.state = state]
    OBVIOUS
<1>3. u = [number |-> t.number, input |-> t.input, state |-> state]
    <2>1. PICK n, i, s : t = [number |-> n, input |-> i, state |-> s]
        BY DEF FormTyped, IsSent
    <2>2. u = [number |-> n, input |-> i, state |-> state]
        BY <1>2, <2>1
    <2> QED BY <2>1, <2>2
<1> QED BY <1>1, <1>2, <1>3 DEF Consensus, formState, IsSent

\* The kinds of steps that leave the jobs and what was sent to themselves.
FormMove == (\E x \in Input : Edit(x)) \/ Forward \/ Back \/ Reset

\* Moving about in a form ends no job and forgets no transaction that a job waits for.
LEMMA MoveEffect ==
    ASSUME FormMove
    PROVE  /\ UNCHANGED <<busy, jobs>>
           /\ status' \in {status, "idle"}
           /\ ledger' \subseteq ledger
           /\ \A t \in ledger : (\E j \in jobs : j.number = t.number) => t \in ledger'
BY DEF FormMove, Edit, Forward, Back, Reset

\* The types of a form are kept.
LEMMA FormTypedStep ==
    ASSUME FormTyped, [Next]_vars
    PROVE  FormTyped'
<1>0. page' = page /\ page \in Pages /\ form' = form /\ Handlers' = Handlers /\ form.last \in Nat
    BY StepOfForm, FormFacts DEF FormTyped, form, Handlers
<1>1. \A j : IsJob(j)' <=> IsJob(j)
    BY <1>0 DEF IsJob, Kind
<1>2. \A t : IsSent(t)' <=> IsSent(t)
    BY DEF IsSent
<1>3. SUFFICES /\ step' \in 0 .. form.last /\ input' \in Input \cup {""}
               /\ status' \in {"idle", "loading", "success", "error"}
               /\ \A j \in jobs' : IsJob(j)
               /\ \A t \in ledger' : IsSent(t)
    BY <1>0, <1>1, <1>2 DEF FormTyped
<1>3a. PICK last \in Nat : last = form.last /\ step \in 0 .. last
    BY <1>0 DEF FormTyped
<1>4. CASE FormMove
    <2>1. input' \in Input \cup {""}
        BY <1>4 DEF FormMove, Edit, Forward, Back, Reset, FormTyped
    <2>2. \/ step' = step \/ (step = last - 2 /\ step' = step + 1)
          \/ (step > 0 /\ step' = step - 1) \/ step' = 0
        BY <1>3a, <1>4 DEF FormMove, Edit, Forward, Back, Reset
    <2>3. step' \in 0 .. last
        BY <1>3a, <2>2
    <2> QED BY <1>3a, <1>4, <2>1, <2>3, MoveEffect DEF FormTyped
<1>5. CASE \E h \in Handlers : Click(h)
    <2>1. PICK h \in Handlers : Click(h)
        BY <1>5
    <2>2. /\ step' = step /\ input' = input /\ ledger' = ledger /\ status' \in {status, "loading"}
          /\ jobs' = jobs \/ \E j : jobs' = jobs \cup {j} /\ IsJob(j)
        BY <1>0, <2>1, ClickEffect
    <2> QED BY <2>2 DEF FormTyped
<1>6. CASE \E j \in jobs : Asked(j)
    <2>1. PICK j \in jobs : Asked(j)
        BY <1>6
    <2>2. /\ step' = step \/ (step' = 1 /\ form.last > 1)
          /\ UNCHANGED <<input, status, ledger>> /\ jobs' \subseteq jobs
        BY <2>1, AskedEffect
    <2>3. step' \in 0 .. last
        BY <1>3a, <2>2
    <2> QED BY <1>3a, <2>2, <2>3 DEF FormTyped
<1>7. CASE \E j \in jobs : Sign(j)
    <2>1. PICK j \in jobs : Sign(j)
        BY <1>7
    <2>2. /\ step' = step /\ input' = input /\ status' \in {status, "error"}
          /\ jobs' \subseteq jobs \/ \E k : jobs' \subseteq jobs \cup {k} /\ IsJob(k)
          /\ ledger' \subseteq ledger \cup
                {[number |-> j.number, input |-> j.input, state |-> "sent"]}
        BY <2>1, SignEffect
    <2>3. IsSent([number |-> j.number, input |-> j.input, state |-> "sent"])
        BY DEF IsSent
    <2> QED BY <2>2, <2>3 DEF FormTyped
<1>8. CASE \E j \in jobs : Receipt(j)
    <2>1. PICK j \in jobs : Receipt(j)
        BY <1>8
    <2>2. /\ step' \in {step, form.last} /\ UNCHANGED <<input, ledger>>
          /\ status' \in {"success", "error"} /\ jobs' \subseteq jobs
        BY <2>1, ReceiptEffect
    <2>3. step' \in 0 .. last
        BY <1>3a, <2>2
    <2> QED BY <1>3a, <2>2, <2>3 DEF FormTyped
<1>9. CASE \E t \in ledger : Consensus(t)
    <2>1. PICK t \in ledger : Consensus(t)
        BY <1>9
    <2>2. UNCHANGED <<step, input, status, jobs>>
          /\ \E u : ledger' \subseteq ledger \cup {u} /\ IsSent(u)
        BY <2>1, ConsensusEffect
    <2> QED BY <2>2 DEF FormTyped
<1>10. CASE UNCHANGED <<step, input, status, busy, jobs, ledger>>
    BY <1>10 DEF FormTyped
<1> QED BY <1>4, <1>5, <1>6, <1>7, <1>8, <1>9, <1>10, StepOfForm DEF FormMove

\* A flag stays set only as long as a job that will reset it.
LEMMA FlagsStep ==
    ASSUME FormTyped, FlagsInv, [Next]_vars
    PROVE  FlagsInv'
<1>0. page' = page /\ form' = form /\ Handlers' = Handlers
    BY StepOfForm DEF form, Handlers
<1>1. \A j : FlagOf(j)' = FlagOf(j)
    BY <1>0 DEF FlagOf
<1>2. SUFFICES /\ "none" \notin busy' /\ "status" \notin busy'
               /\ \A flag \in busy' : \E j \in jobs' : FlagOf(j) = flag
               /\ \A j \in jobs' : j.stage = "asking" /\ FlagOf(j) # "none" => FlagOf(j) \in busy'
               /\ \A j, k \in jobs' :
                     (/\ j.stage = "asking" /\ k.stage = "asking"
                      /\ FlagOf(j) = FlagOf(k) /\ FlagOf(j) # "none") => j = k
    BY <1>1 DEF FlagsInv
<1>3. CASE UNCHANGED <<busy, jobs>>
    BY <1>3 DEF FlagsInv
<1>4. CASE \E h \in Handlers : Click(h)
    <2>1. PICK h \in Handlers : Click(h)
        BY <1>4
    <2>2. CASE /\ form.handlers[h].does = "transact" /\ busy' = busy
               /\ \E j : jobs' = jobs \cup {j} /\ j.stage = "signer"
        BY <2>2 DEF FlagsInv
    <2>3. CASE /\ form.handlers[h].does \in {"query", "advance"}
               /\ form.handlers[h].flag \notin busy
               /\ busy' = busy \cup ({form.handlers[h].flag} \ {"none"})
               /\ \E j : jobs' = jobs \cup {j} /\ j.handler = h /\ j.stage = "asking"
        <3>1. PICK j : jobs' = jobs \cup {j} /\ j.handler = h /\ j.stage = "asking"
            BY <2>3
        <3>2. PICK flag : flag = form.handlers[h].flag
            OBVIOUS
        <3>3. /\ flag # "status" /\ flag \notin busy /\ FlagOf(j) = flag
              /\ busy' = busy \cup ({flag} \ {"none"})
            BY <2>3, <3>1, <3>2, FormFacts DEF FormTyped, FlagOf
        <3>4. "none" \notin busy' /\ "status" \notin busy'
            BY <3>3 DEF FlagsInv
        <3>5. \A x \in busy' : \E k \in jobs' : FlagOf(k) = x
            BY <3>1, <3>3 DEF FlagsInv
        <3>6. \A k \in jobs' : k.stage = "asking" /\ FlagOf(k) # "none" => FlagOf(k) \in busy'
            BY <3>1, <3>3 DEF FlagsInv
        <3>7. ASSUME NEW k \in jobs', NEW l \in jobs', k.stage = "asking", l.stage = "asking",
                     FlagOf(k) = FlagOf(l), FlagOf(k) # "none"
              PROVE  k = l
            BY <3>1, <3>3, <3>7 DEF FlagsInv
        <3> QED BY <3>4, <3>5, <3>6, <3>7
    <2> QED BY <1>0, <1>3, <2>1, <2>2, <2>3, ClickEffect
<1>5. CASE \E j \in jobs : Asked(j)
    <2>1. PICK j \in jobs : Asked(j)
        BY <1>5
    <2>2. j.stage = "asking" /\ jobs' = jobs \ {j} /\ busy' = busy \ {FlagOf(j)}
        BY <2>1, AskedEffect
    <2>3. \A flag \in busy' : \E k \in jobs' : FlagOf(k) = flag
        BY <2>2 DEF FlagsInv
    <2>4. \A k \in jobs' : k.stage = "asking" /\ FlagOf(k) # "none" => FlagOf(k) \in busy'
        BY <2>2 DEF FlagsInv
    <2> QED BY <2>2, <2>3, <2>4 DEF FlagsInv
<1>6. CASE \E j \in jobs : Sign(j) \/ Receipt(j)
    <2>1. PICK j \in jobs : Sign(j) \/ Receipt(j)
        BY <1>6
    <2>2. /\ busy' = busy /\ FlagOf(j) = "status"
          /\ \/ jobs' = jobs \ {j}
             \/ \E k : jobs' = (jobs \ {j}) \cup {k} /\ k.stage = "receipt"
        BY <2>1, SignEffect, ReceiptEffect
    <2>3. \A flag \in busy' : \E k \in jobs' : FlagOf(k) = flag
        <3>1. SUFFICES ASSUME NEW flag \in busy PROVE \E k \in jobs' : FlagOf(k) = flag
            BY <2>2
        <3>2. PICK k \in jobs : FlagOf(k) = flag
            BY DEF FlagsInv
        <3>3. k # j
            BY <2>2, <3>2 DEF FlagsInv
        <3> QED BY <2>2, <3>2, <3>3
    <2> QED BY <2>2, <2>3 DEF FlagsInv
<1>7. (\E t \in ledger : Consensus(t)) \/ FormMove => UNCHANGED <<busy, jobs>>
    BY ConsensusEffect, MoveEffect
<1> QED BY <1>3, <1>4, <1>5, <1>6, <1>7, StepOfForm DEF FormMove

\* A transaction whose receipt is awaited is not forgotten, and a form that is loading waits
\* for a job.
LEMMA SentStep ==
    ASSUME FormTyped, SentInv, [Next]_vars
    PROVE  SentInv'
<1>0. page' = page
    BY StepOfForm
<1>1. CASE FormMove
    BY <1>1, MoveEffect DEF SentInv
<1>2. CASE \E h \in Handlers : Click(h)
    <2>1. PICK h \in Handlers : Click(h)
        BY <1>2
    <2>2. /\ ledger' = ledger
          /\ \/ /\ status' = "loading"
                /\ \E j : jobs' = jobs \cup {j} /\ j.stage = "signer"
             \/ /\ status' = status
                /\ \E j : jobs' = jobs \cup {j} /\ j.stage = "asking"
             \/ UNCHANGED <<status, jobs>>
        BY <1>0, <2>1, ClickEffect
    <2> QED BY <2>2 DEF SentInv
<1>3. CASE \E j \in jobs : Asked(j)
    <2>1. PICK j \in jobs : /\ UNCHANGED <<status, ledger>> /\ j.stage = "asking"
                            /\ jobs' = jobs \ {j}
        BY <1>3, AskedEffect
    <2> QED BY <2>1 DEF SentInv
<1>4. CASE \E j \in jobs : Sign(j)
    <2>1. PICK j \in jobs : Sign(j)
        BY <1>4
    <2>2. PICK u : u = [number |-> j.number, input |-> j.input, state |-> "sent"]
        OBVIOUS
    <2>3. u.number = j.number
        BY <2>2
    <2>4. CASE \E k : /\ jobs' = (jobs \ {j}) \cup {k} /\ k.number = j.number
                      /\ k.stage = "receipt" /\ ledger' = ledger \cup {u}
        BY <2>3, <2>4 DEF SentInv
    <2>5. CASE status' = "error" /\ jobs' = jobs \ {j} /\ ledger' = ledger
        BY <2>5 DEF SentInv
    <2> QED BY <2>1, <2>2, <2>4, <2>5, SignEffect
<1>5. CASE \E j \in jobs : Receipt(j)
    <2>1. status' # "loading" /\ jobs' \subseteq jobs /\ ledger' = ledger
        BY <1>5, ReceiptEffect
    <2> QED BY <2>1 DEF SentInv
<1>6. CASE \E t \in ledger : Consensus(t)
    <2>1. PICK t \in ledger : Consensus(t)
        BY <1>6
    <2>2. PICK u : ledger' = (ledger \ {t}) \cup {u} /\ u.number = t.number
        BY <2>1, ConsensusEffect
    <2>3. UNCHANGED <<status, jobs>>
        BY <2>1, ConsensusEffect
    <2> QED BY <2>2, <2>3 DEF SentInv
<1>7. CASE UNCHANGED <<step, input, status, busy, jobs, ledger>>
    BY <1>7 DEF SentInv
<1> QED BY <1>1, <1>2, <1>3, <1>4, <1>5, <1>6, <1>7, StepOfForm DEF FormMove

\* While a transaction is awaited by a form that locks its way back, neither the step nor
\* the fields change.
LEMMA LockedStep ==
    ASSUME FormTyped, FlagsInv, LockedInv, [Next]_vars
    PROVE  LockedInv'
<1>0. page' = page /\ form' = form /\ Handlers' = Handlers
    BY StepOfForm DEF form, Handlers
<1>1. \A j : Kind(j)' = Kind(j)
    BY <1>0 DEF Kind
<1>2. SUFFICES ASSUME form.locked, form.last > 0
               PROVE  /\ \A j \in jobs' : Kind(j) = "transact" =>
                            status' = "loading" /\ step' = form.last - 1 /\ j.input = input'
                      /\ \A j, k \in jobs' : Kind(j) = "transact" /\ Kind(k) = "transact" => j = k
                      /\ \A j \in jobs' : Kind(j) = "advance" => step' = 0
                      /\ step' = form.last =>
                            \E t \in ledger' : t.state = "landed" /\ t.input = input'
    BY <1>0, <1>1 DEF LockedInv
<1>3. PICK last \in Nat : last = form.last /\ last > 0 /\ step \in 0 .. last
    BY <1>2, FormFacts DEF FormTyped
<1>4. /\ \A j \in jobs : Kind(j) = "transact" =>
            status = "loading" /\ step = last - 1 /\ j.input = input
      /\ \A j, k \in jobs : Kind(j) = "transact" /\ Kind(k) = "transact" => j = k
      /\ \A j \in jobs : Kind(j) = "advance" => step = 0
      /\ step = last => \E t \in ledger : t.state = "landed" /\ t.input = input
    BY <1>2, <1>3 DEF LockedInv
<1>5. \A j \in jobs : /\ IsJob(j) /\ j.handler \in Handlers
                      /\ Kind(j) = "advance" => j.stage = "asking"
    BY DEF FormTyped, IsJob
<1>6. \A j \in jobs : Kind(j) = "advance" => last > 1 /\ FlagOf(j) # "none"
    BY <1>3, <1>5, FormFacts DEF FormTyped, Kind, FlagOf
\* Two jobs of a handler with a flag are one.
<1>7. \A j, k \in jobs : Kind(j) = "advance" /\ Kind(k) = "advance" => j = k
    <2>1. SUFFICES ASSUME NEW j \in jobs, NEW k \in jobs, Kind(j) = "advance", Kind(k) = "advance"
                   PROVE  j = k
        OBVIOUS
    <2>2. j.handler = k.handler
        BY <1>5, <2>1, FormFacts DEF FormTyped, Kind
    <2>3. FlagOf(j) = FlagOf(k)
        BY <2>2 DEF FlagOf
    <2> QED BY <1>5, <1>6, <2>1, <2>3 DEF FlagsInv
<1>8. CASE \E x \in Input : Edit(x)
    <2>1. step < last - 1 /\ step' = step /\ jobs' = jobs /\ ledger' = ledger
        BY <1>3, <1>8 DEF Edit
    <2> QED BY <1>3, <1>4, <2>1
<1>9. CASE Forward
    <2>1. /\ step = last - 2 /\ step' = step + 1 /\ jobs' = jobs /\ input' = input
          /\ \A h \in Handlers : form.handlers[h].does # "advance" \/ step # 0
        BY <1>3, <1>9 DEF Forward
    <2>2. \A j \in jobs : Kind(j) # "advance" /\ Kind(j) # "transact"
        BY <1>3, <1>4, <1>5, <2>1 DEF Kind
    <2> QED BY <1>3, <2>1, <2>2
<1>10. CASE Back
    <2>1. /\ step > 0 /\ step < last /\ status # "loading" /\ step' = step - 1 /\ jobs' = jobs
        BY <1>2, <1>3, <1>10 DEF Back
    <2>2. \A j \in jobs : Kind(j) # "advance" /\ Kind(j) # "transact"
        BY <1>3, <1>4, <2>1
    <2> QED BY <1>3, <2>1, <2>2
<1>11. CASE Reset
    <2>1. step = last /\ step' = 0 /\ jobs' = jobs
        BY <1>3, <1>11 DEF Reset
    <2>2. \A j \in jobs : Kind(j) # "advance" /\ Kind(j) # "transact"
        BY <1>3, <1>4, <2>1
    <2> QED BY <1>3, <2>1, <2>2
<1>12. CASE \E h \in Handlers : Click(h)
    <2>1. PICK h \in Handlers : Click(h)
        BY <1>12
    <2>2. step' = step /\ input' = input /\ ledger' = ledger
        BY <1>0, <2>1, ClickEffect
    <2>3. CASE /\ form.handlers[h].does = "transact" /\ status # "loading" /\ status' = "loading"
               /\ step = last - 1
               /\ \E j : jobs' = jobs \cup {j} /\ j.handler = h /\ j.input = input
        <3>1. PICK j : jobs' = jobs \cup {j} /\ j.handler = h /\ j.input = input
            BY <2>3
        <3>2. Kind(j) = "transact" /\ \A k \in jobs : Kind(k) # "transact"
            BY <1>4, <2>3, <3>1 DEF Kind
        <3> QED BY <1>3, <1>4, <2>2, <2>3, <3>1, <3>2
    <2>4. CASE /\ form.handlers[h].does \in {"query", "advance"} /\ status' = status
               /\ form.handlers[h].does = "advance" => step = 0
               /\ \E j : jobs' = jobs \cup {j} /\ j.handler = h
        <3>1. PICK j : jobs' = jobs \cup {j} /\ j.handler = h
            BY <2>4
        <3>2. Kind(j) # "transact" /\ (Kind(j) = "advance" => step = 0)
            BY <2>4, <3>1 DEF Kind
        <3> QED BY <1>3, <1>4, <2>2, <2>4, <3>1, <3>2
    <2>5. CASE UNCHANGED <<status, jobs>>
        BY <1>3, <1>4, <2>2, <2>5
    <2> QED BY <1>0, <1>3, <2>1, <2>3, <2>4, <2>5, ClickEffect
<1>13. CASE \E j \in jobs : Asked(j)
    <2>1. PICK j \in jobs : Asked(j)
        BY <1>13
    <2>2. /\ UNCHANGED <<input, status, ledger>> /\ jobs' = jobs \ {j}
          /\ step' = step \/ (Kind(j) = "advance" /\ step' = 1)
        BY <2>1, AskedEffect
    <2>3. CASE step' = step
        BY <1>3, <1>4, <2>2, <2>3
    <2>4. CASE Kind(j) = "advance" /\ step' = 1
        <3>1. last > 1 /\ step = 0
            BY <1>4, <1>6, <2>4
        <3>2. \A k \in jobs' : Kind(k) # "advance" /\ Kind(k) # "transact"
            BY <1>3, <1>4, <1>7, <2>2, <2>4, <3>1
        <3> QED BY <1>3, <2>4, <3>1, <3>2
    <2> QED BY <2>2, <2>3, <2>4
<1>14. CASE \E j \in jobs : Sign(j)
    <2>1. PICK j \in jobs : Sign(j)
        BY <1>14
    <2>2. step' = step /\ input' = input /\ Kind(j) = "transact"
        BY <2>1, SignEffect
    <2>3. CASE \E k : /\ jobs' = (jobs \ {j}) \cup {k} /\ k.handler = j.handler
                      /\ k.input = j.input /\ status' = status /\ ledger \subseteq ledger'
        <3>1. PICK k : jobs' = (jobs \ {j}) \cup {k} /\ k.handler = j.handler /\ k.input = j.input
            BY <2>3
        <3>2. Kind(k) = "transact"
            BY <2>2, <3>1 DEF Kind
        <3>3. /\ status' = "loading" /\ step = last - 1 /\ k.input = input
              /\ \A l \in jobs \ {j} : Kind(l) # "transact"
            BY <1>4, <2>2, <2>3, <3>1
        <3> QED BY <1>3, <1>4, <2>2, <2>3, <3>1, <3>2, <3>3
    <2>4. CASE jobs' = jobs \ {j} /\ ledger' = ledger
        <3>1. \A l \in jobs' : Kind(l) # "transact"
            BY <1>4, <2>2, <2>4
        <3> QED BY <1>3, <1>4, <2>2, <2>4, <3>1
    <2> QED BY <2>1, <2>3, <2>4, SignEffect
<1>15. CASE \E j \in jobs : Receipt(j)
    <2>1. PICK j \in jobs : Receipt(j)
        BY <1>15
    <2>2. input' = input /\ ledger' = ledger /\ Kind(j) = "transact" /\ jobs' = jobs \ {j}
        BY <2>1, ReceiptEffect
    <2>3. /\ step = last - 1 /\ j.input = input
          /\ \A k \in jobs' : Kind(k) # "transact"
        BY <1>4, <2>2
    <2>4. CASE step' = step
        BY <1>3, <1>4, <2>2, <2>3, <2>4
    <2>5. CASE /\ step' = last
               /\ [number |-> j.number, input |-> j.input, state |-> "landed"] \in ledger
        <3>1. \E t \in ledger : t.state = "landed" /\ t.input = input
            BY <2>3, <2>5
        <3>2. \A k \in jobs' : Kind(k) # "advance"
            BY <1>4, <1>6, <2>2, <2>3
        <3> QED BY <1>3, <2>2, <2>3, <3>1, <3>2
    <2> QED BY <1>3, <2>1, <2>4, <2>5, ReceiptEffect
<1>16. CASE \E t \in ledger : Consensus(t)
    <2>1. PICK t \in ledger : Consensus(t)
        BY <1>16
    <2>2. /\ UNCHANGED <<step, input, status, jobs>> /\ t.state = "sent"
          /\ ledger \ {t} \subseteq ledger'
        BY <2>1, ConsensusEffect
    <2>3. step = last => \E u \in ledger' : u.state = "landed" /\ u.input = input
        BY <1>4, <2>2
    <2> QED BY <1>3, <1>4, <2>2, <2>3
<1>17. CASE UNCHANGED <<step, input, status, busy, jobs, ledger>>
    BY <1>3, <1>4, <1>17
<1> QED BY <1>8, <1>9, <1>10, <1>11, <1>12, <1>13, <1>14, <1>15, <1>16, <1>17, StepOfForm

\* Every step of a tab keeps its form in order.
LEMMA FormInvStep == FormInv /\ [Next]_vars => FormInv'
BY FormTypedStep, FlagsStep, SentStep, LockedStep DEF FormInv

\* A form starts empty.
LEMMA FormInvInit == Init => FormInv
<1> SUFFICES ASSUME Init PROVE FormInv
    OBVIOUS
<1>1. /\ page \in Pages /\ step = 0 /\ input = "" /\ status = "idle" /\ busy = {}
      /\ jobs = {} /\ ledger = {}
    BY DEF Init, FormInit
<1>2. PICK last \in Nat : last = form.last
    BY <1>1, FormFacts
<1>2a. step = 0
    BY <1>1
<1>3. FormTyped
    <2>1. step \in 0 .. form.last
        BY <1>2, <1>2a
    <2>2. input \in Input \cup {""} /\ status \in {"idle", "loading", "success", "error"}
        BY <1>1
    <2>3. (\A j \in jobs : IsJob(j)) /\ (\A t \in ledger : IsSent(t))
        BY <1>1
    <2> QED BY <1>1, <2>1, <2>2, <2>3 DEF FormTyped
<1>4. FlagsInv /\ SentInv
    BY <1>1 DEF FlagsInv, SentInv
<1>5. LockedInv
    <2>1. form.last > 0 => step # form.last
        BY <1>2, <1>2a
    <2>2. \A j \in jobs : FALSE
        BY <1>1
    <2> QED BY <2>1, <2>2 DEF LockedInv
<1> QED BY <1>3, <1>4, <1>5 DEF FormInv

\* Who sees "complete" on a form that locks its way back has sent what is on the page,
\* and it has landed.
THEOREM FormsCompleteTruly == Spec => []CompletionsAreTrue
<1>1. FormInv => CompletionsAreTrue
    <2> SUFFICES ASSUME FormInv, form.locked, form.last > 0, step = form.last
                 PROVE  /\ \E t \in ledger : t.state = "landed" /\ t.input = input
                        /\ \A j \in jobs : form.handlers[j.handler].does # "transact"
        BY DEF CompletionsAreTrue
    <2>1. form.last \in Nat
        BY FormFacts DEF FormInv, FormTyped
    <2> QED BY <2>1 DEF FormInv, LockedInv, Kind
<1> QED BY <1>1, FormInvInit, FormInvStep, PTL DEF Spec

-----------------------------------------------------------------------------
(* A walk through a list *)

WalkTyped ==
    /\ offset \in Nat /\ rows \in Nat /\ known \in 0 .. rows /\ seen \subseteq 1 .. rows
    /\ \A f \in flights : /\ f.request.offset \in Nat
                          /\ f.request.route = page.views[f.view].route
                          /\ f.top \in -1 .. rows /\ f.total \in -1 .. rows

\* Of the rows that were there when the walk began, those above row top have been seen, and
\* row top is on the page of the list it is at, or further up than that.
SeenAbove(top) == \A n \in 1 .. known : n > top => n \in seen
OnPage(top)    == top = 0 \/ top + offset <= rows

\* The newest rows, as many as the offset says, have been seen; so have those above the
\* page that is being loaded; and so have the rows of a page that is shown.
WalkInv ==
    Listed =>
        /\ SeenAbove(rows - offset)
        /\ view[1].asked = Wanted(1) =>
              \A f \in flights :
                 f.view = 1 /\ f.number = view[1].number /\ f.top # Unread =>
                    SeenAbove(f.top) /\ OnPage(f.top)
        /\ view[1].asked = Wanted(1) /\ IsShown(1) =>
              /\ view[1].top \in Nat /\ view[1].total \in Nat
              /\ SeenAbove(view[1].top - PageSize) /\ OnPage(view[1].top)

\* What is assumed of a list, and what it asks for.
LEMMA ListFacts ==
    ASSUME page \in Pages
    PROVE  /\ Listed => /\ 1 \in Hooked /\ 1 \in Views /\ page.views[1].key = "search"
                        /\ page.views[1].hook = "paginated"
                        /\ page.views[1].route \in Lists
                        /\ Wanted(1) = [route |-> page.views[1].route, of |-> search,
                                        offset |-> offset]
           /\ \A v \in Views : page.views[v].key = "search" => v = 1 /\ Listed
           /\ Limit(PageSize) = PageSize /\ PageSize \in Nat /\ PageSize > 0
<1>1. ViewsAreInOrder(page)
    BY PagesAssumption
<1>2. Listed => 1 \in Views /\ page.views[1].key = "search"
    BY <1>1 DEF Listed, ViewsAreInOrder, Views
<1>3. \A v \in Views : page.views[v].key = "search" =>
         v = 1 /\ page.views[v].hook = "paginated" /\ page.views[v].route \in Lists
    BY <1>1 DEF ViewsAreInOrder, Views
<1>4. \A v \in Views : page.views # <<>>
    BY DEF Views
<1>5. PageSize \in 1 .. 200
    BY WebAssumption
<1>6. Limit(PageSize) = PageSize
    BY <1>5 DEF Limit
<1>7. Listed => Wanted(1) = [route |-> page.views[1].route, of |-> search, offset |-> offset]
    BY <1>2 DEF Wanted, Key
<1>8. \A v \in Views : page.views[v].key = "search" => v = 1 /\ Listed
    BY <1>2, <1>3, <1>4 DEF Listed
<1>9. Listed => /\ 1 \in Hooked /\ 1 \in Views /\ page.views[1].key = "search"
                /\ page.views[1].hook = "paginated" /\ page.views[1].route \in Lists
    BY <1>2, <1>3 DEF Hooked
<1> QED BY <1>5, <1>6, <1>7, <1>8, <1>9

\* To a list there are seven kinds of steps.
LEMMA StepOfWalk ==
    ASSUME ViewsInv, [Next]_vars
    PROVE  /\ page' = page
           /\ \/ \E f \in flights : Arrives(f)
              \/ \E f \in flights : Serve(f)
              \/ \E vs \in SUBSET Views : Fetch(vs, Requests) /\ UNCHANGED listVars
              \/ Turn
              \/ \E q \in Search : HandleSearch(q)
              \/ NewRow
              \/ UNCHANGED <<view, flights, rows, offset, search, known, seen>>
<1>0. page' = page
    BY StepOfForm
<1>1. CASE Effects
    BY <1>0, <1>1 DEF Effects, Due
<1>2. CASE \E v \in Views : Refetch(v)
    BY <1>0, <1>2 DEF Refetch
<1>3. CASE \E j \in jobs : Handle(j)
    <2>1. PICK j \in jobs : Handle(j)
        BY <1>3
    <2>2. UNCHANGED listVars
        BY <2>1 DEF Handle
    <2>3. CASE UNCHANGED viewVars
        BY <1>0, <2>2, <2>3 DEF viewVars, listVars
    <2>4. CASE Reload
        <3>1. 1 \in Views \/ Views = {}
            BY PagesAssumption DEF Views, ViewsInv, ViewsAreInOrder
        <3> QED BY <1>0, <2>2, <2>4, <3>1 DEF Reload, viewVars, listVars
    <2> QED BY <2>1, <2>3, <2>4 DEF Handle
<1>4. CASE \/ \E t \in Selected : SelectTopic(t)
           \/ UseForm \/ \E t \in ledger : Decides(t)
           \/ UseWallet \/ WalletStep
    BY <1>0, <1>4 DEF SelectTopic, UseForm, Decides, UseWallet, WalletStep, viewVars, listVars
<1>5. CASE UNCHANGED vars
    BY <1>0, <1>5 DEF vars, viewVars, listVars
<1>6. CASE \E f \in flights : Arrives(f) \/ Serve(f)
    BY <1>0, <1>6
<1>7. CASE Turn \/ NewRow \/ \E q \in Search : HandleSearch(q)
    BY <1>0, <1>7
<1> QED BY <1>1, <1>2, <1>3, <1>4, <1>5, <1>6, <1>7 DEF Next

\* What an answer adds to what has been seen.
LEMMA FollowEffect ==
    ASSUME ViewsInv, WalkTyped, NEW f \in flights, Arrives(f)
    PROVE  /\ UNCHANGED <<page, rows, offset, search, known>>
           /\ seen \subseteq seen' /\ seen' \subseteq 1 .. rows
           /\ flights' \subseteq flights
<1>1. UNCHANGED <<page, offset, search, known>>
    BY DEF Arrives, formVars
<1>2. rows' = rows /\ flights' \subseteq flights
    BY ArrivesEffect
<1>3. seen' \in {seen, seen \cup Page(f.top, PageSize)}
    BY DEF Arrives, Follow
<1>4. Page(f.top, PageSize) \subseteq 1 .. rows
    <2>1. f.top \in -1 .. rows /\ rows \in Nat
        BY DEF WalkTyped
    <2>2. \A n \in 1 .. f.top : n \in 1 .. rows
        BY <2>1
    <2> QED BY <2>2 DEF Page
<1> QED BY <1>1, <1>2, <1>3, <1>4 DEF WalkTyped

\* The types of a walk through the pages of a list are kept.
LEMMA WalkTypedStep ==
    ASSUME ViewsInv, WalkTyped, [Next]_vars
    PROVE  WalkTyped'
<1>0. page' = page /\ page \in Pages /\ DOMAIN view = Views
    BY StepOfWalk DEF ViewsInv
<1>1. CASE \E f \in flights : Arrives(f)
    BY <1>1, FollowEffect DEF WalkTyped
<1>2. CASE \E f \in flights : Serve(f)
    <2>1. PICK f \in flights : Serve(f)
        BY <1>2
    <2>2. PICK g : /\ rows' = rows /\ flights' = (flights \ {f}) \cup {g}
                   /\ g.view = f.view /\ g.request = f.request
                   /\ g.top \in {f.top, IF rows > f.request.offset
                                        THEN rows - f.request.offset ELSE 0}
                   /\ g.total \in {f.total, rows}
        BY <2>1, ServeEffect
    <2>3. UNCHANGED <<offset, known, seen>>
        BY <2>1 DEF Serve, listVars
    <2>4. /\ f.request.offset \in Nat /\ f.request.route = page.views[f.view].route
          /\ f.top \in -1 .. rows /\ f.total \in -1 .. rows /\ rows \in Nat
        BY DEF WalkTyped
    <2>5. g.top \in -1 .. rows /\ g.total \in -1 .. rows
        BY <2>2, <2>4
    <2> QED BY <1>0, <2>2, <2>3, <2>4, <2>5 DEF WalkTyped
<1>3. CASE \E vs \in SUBSET Views : Fetch(vs, Requests) /\ UNCHANGED listVars
    <2>1. PICK vs \in SUBSET Views : Fetch(vs, Requests) /\ UNCHANGED listVars
        BY <1>3
    <2>2. /\ rows' = rows /\ UNCHANGED <<offset, known, seen>>
          /\ flights' = flights \cup {Flight(v, Wanted(v), view[v].number + 1) : v \in vs}
        BY <2>1, FetchEffect DEF listVars
    <2>3. ASSUME NEW f \in flights', f \notin flights
          PROVE  /\ f.request.offset \in Nat /\ f.request.route = page.views[f.view].route
                 /\ f.top \in -1 .. rows /\ f.total \in -1 .. rows
        <3>1. PICK v \in vs : f = Flight(v, Wanted(v), view[v].number + 1)
            BY <2>2, <2>3
        <3>2. f.view = v /\ f.request = Wanted(v) /\ f.top = -1 /\ f.total = -1
            BY <3>1 DEF Flight, Unread
        <3>3. /\ Wanted(v).offset = IF page.views[v].key = "search" THEN offset ELSE 0
              /\ Wanted(v).route = page.views[v].route
            BY DEF Wanted
        <3>4. Wanted(v).offset \in Nat
            BY <3>3 DEF WalkTyped
        <3>5. -1 \in -1 .. rows
            BY DEF WalkTyped
        <3> QED BY <3>2, <3>3, <3>4, <3>5
    <2> QED BY <1>0, <2>2, <2>3 DEF WalkTyped
<1>4. CASE Turn
    <2>1. /\ UNCHANGED <<rows, flights, known, seen>>
          /\ offset' \in {offset + PageSize, IF offset > PageSize THEN offset - PageSize ELSE 0}
        BY <1>4 DEF Turn, viewVars
    <2>2. offset' \in Nat
        BY <1>0, <2>1, ListFacts DEF WalkTyped
    <2> QED BY <1>0, <2>1, <2>2 DEF WalkTyped
<1>5. CASE \E q \in Search : HandleSearch(q)
    <2>1. /\ UNCHANGED <<rows, flights>> /\ offset' = 0
          /\ known' \in {known, rows} /\ seen' \in {seen, {}}
        BY <1>5 DEF HandleSearch, viewVars
    <2> QED BY <1>0, <2>1 DEF WalkTyped
<1>6. CASE NewRow
    <2>1. rows' = rows + 1 /\ UNCHANGED <<flights, offset, known, seen>>
        BY <1>6 DEF NewRow, Indexed, listVars
    <2>2. rows \in Nat /\ \A x \in -1 .. rows : x \in -1 .. rows + 1
        BY DEF WalkTyped
    <2>3. \A f \in flights : f.top \in -1 .. rows + 1 /\ f.total \in -1 .. rows + 1
        BY <2>2 DEF WalkTyped
    <2>4. known \in 0 .. rows + 1 /\ seen \subseteq 1 .. rows + 1 /\ rows + 1 \in Nat
        BY DEF WalkTyped
    <2> QED BY <1>0, <2>1, <2>3, <2>4 DEF WalkTyped
<1>7. CASE UNCHANGED <<view, flights, rows, offset, search, known, seen>>
    BY <1>0, <1>7 DEF WalkTyped
<1> QED BY <1>1, <1>2, <1>3, <1>4, <1>5, <1>6, <1>7, StepOfWalk

\* A visitor turns a page, or searches, after the list has asked for what is wanted.
LEMMA ClicksAfterEffects ==
    ASSUME ViewsInv, Listed, Clicks
    PROVE  view[1].asked = Wanted(1)
<1>1. /\ 1 \in Views /\ page.views[1].hook = "paginated" /\ page.views[1].route \in Lists
    BY ListFacts DEF ViewsInv
<1>2. page.views[1].hook # "click" /\ page.views[1].route # "/hcs/messages/:topicId"
    BY <1>1 DEF Lists
<1> QED BY <1>1, <1>2 DEF Clicks, Due

\* Every step of a walk keeps its invariant: rows only come, and only at the top.
LEMMA WalkInvStep ==
    ASSUME ViewsInv, WalkTyped, WalkInv, [Next]_vars
    PROVE  WalkInv'
<1>0. page' = page /\ page \in Pages /\ DOMAIN view = Views /\ Views' = Views
    BY StepOfWalk DEF ViewsInv, Views
<1>1. Listed' = Listed
    BY <1>0 DEF Listed
<1> DEFINE ToSee(p)  == \A n \in 1 .. known' : n > p => n \in seen'
           Paged(p)  == p = 0 \/ p + offset' <= rows'
           Loading   == \A f \in flights' :
                           f.view = 1 /\ f.number = view'[1].number /\ f.top # Unread =>
                              ToSee(f.top) /\ Paged(f.top)
           Showing   == /\ view'[1].top \in Nat /\ view'[1].total \in Nat
                        /\ ToSee(view'[1].top - PageSize) /\ Paged(view'[1].top)
           Shown(w)  == ~w.loading /\ ~w.error /\ w.total # Unread
           Ask1(s, o) == [route |-> page.views[1].route, of |-> s, offset |-> o]
<1>2. SUFFICES ASSUME Listed
               PROVE  /\ ToSee(rows' - offset')
                      /\ view'[1].asked = Ask1(search', offset') =>
                            Loading /\ (Shown(view'[1]) => Showing)
    <2>1. Listed => Wanted(1)' = Ask1(search', offset')
        BY <1>0, ListFacts DEF Wanted, Key
    <2>2. \A p : SeenAbove(p)' <=> \A n \in 1 .. known' : n > p => n \in seen'
        BY DEF SeenAbove
    <2> QED BY <1>1, <2>1 DEF WalkInv, SeenAbove, OnPage, IsShown
<1>3. /\ 1 \in Hooked /\ 1 \in Views /\ page.views[1].key = "search"
      /\ page.views[1].route \in Lists /\ Wanted(1) = Ask1(search, offset)
      /\ \A v \in Views : page.views[v].key = "search" => v = 1
      /\ Limit(PageSize) = PageSize /\ PageSize \in Nat /\ PageSize > 0
    BY <1>0, <1>2, ListFacts
<1>4. offset \in Nat /\ rows \in Nat /\ known \in 0 .. rows
    BY DEF WalkTyped
<1>5. \A n \in 1 .. known : n > rows - offset => n \in seen
    BY <1>2 DEF WalkInv, SeenAbove
<1>6. view[1].asked = Ask1(search, offset) =>
         \A f \in flights :
            f.view = 1 /\ f.number = view[1].number /\ f.top # Unread =>
               /\ \A n \in 1 .. known : n > f.top => n \in seen
               /\ f.top = 0 \/ f.top + offset <= rows
    BY <1>2, <1>3 DEF WalkInv, SeenAbove, OnPage
<1>7. view[1].asked = Ask1(search, offset) /\ Shown(view[1]) =>
         /\ view[1].top \in Nat /\ view[1].total \in Nat
         /\ \A n \in 1 .. known : n > view[1].top - PageSize => n \in seen
         /\ view[1].top = 0 \/ view[1].top + offset <= rows
    BY <1>2, <1>3 DEF WalkInv, SeenAbove, OnPage, IsShown
\* Steps that change nothing but what has been seen, and other views.
<1>8. ASSUME UNCHANGED <<rows, offset, search, known>>, seen \subseteq seen',
             view'[1] = view[1],
             \A f \in flights' : f.view = 1 => f \in flights
      PROVE  /\ ToSee(rows' - offset')
             /\ view'[1].asked = Ask1(search', offset') =>
                   Loading /\ (Shown(view'[1]) => Showing)
    <2>1. ToSee(rows' - offset')
        BY <1>5, <1>8
    <2>2. ASSUME view'[1].asked = Ask1(search', offset') PROVE Loading
        BY <1>6, <1>8, <2>2
    <2>3. ASSUME view'[1].asked = Ask1(search', offset'), Shown(view'[1]) PROVE Showing
        BY <1>7, <1>8, <2>3
    <2> QED BY <2>1, <2>2, <2>3
<1>9. CASE \E f \in flights : Arrives(f)
    <2>1. PICK f \in flights : Arrives(f)
        BY <1>9
    <2>2. /\ UNCHANGED <<rows, offset, search, known>> /\ seen \subseteq seen'
          /\ flights' = flights \ {f}
        BY <2>1, FollowEffect, ArrivesEffect
    <2>3. CASE f.view # 1 \/ f.number # view[1].number
        <3>1. view'[1] = view[1]
            BY <1>3, <2>1, <2>3, ArrivesEffect
        <3> QED BY <1>8, <2>2, <3>1
    <2>4. CASE f.view = 1 /\ f.number = view[1].number
        <3>1. PICK ok \in BOOLEAN :
                 /\ view' = [view EXCEPT ![f.view] = Answered(view[f.view], f, ok)]
                 /\ ok => (Listed => Served(f)) \/ Immediate(f)
                 /\ IF ok THEN Follow(f) ELSE seen' = seen
            BY <1>3, <2>1, <2>4, ArrivesEffect
        <3>2. view'[1] = Answered(view[1], f, ok)
            BY <1>0, <1>3, <2>4, <3>1
        <3>3. /\ view'[1].asked = view[1].asked /\ view'[1].number = view[1].number
              /\ view'[1].error = ~ok
              /\ ok => view'[1].top = f.top /\ view'[1].total = f.total
            BY <3>2 DEF Answered
        <3>4. \A g \in flights' : ~(g.view = 1 /\ g.number = view'[1].number)
            BY <2>1, <2>2, <2>4, <3>3 DEF ViewsInv, Numbered
        <3>5. ASSUME view'[1].asked = Ask1(search', offset'), Shown(view'[1])
              PROVE  Showing
            <4>1. ok /\ view[1].asked = Ask1(search, offset)
                BY <2>2, <3>3, <3>5
            <4>2. f.request = Wanted(1)
                BY <1>3, <2>4, <4>1 DEF ViewsInv, Awaited
            <4>3. Served(f) /\ ~Immediate(f)
                BY <1>2, <1>3, <2>4, <3>1, <4>1 DEF Immediate
            <4>4. f.request.route = page.views[1].route
                  /\ f.top \in -1 .. rows /\ f.total \in -1 .. rows
                BY <2>4 DEF WalkTyped
            <4>5. f.top # -1 /\ f.total # -1
                BY <1>3, <4>3, <4>4 DEF Served, Unread
            <4>6. f.top \in Nat /\ f.total \in Nat
                BY <1>4, <4>4, <4>5
            <4>7. /\ \A n \in 1 .. known : n > f.top => n \in seen
                  /\ f.top = 0 \/ f.top + offset <= rows
                BY <1>6, <2>4, <4>1, <4>5 DEF Unread
            <4>8. seen' = seen \cup Page(f.top, PageSize)
                BY <1>3, <2>4, <3>1, <4>1, <4>2 DEF Follow, Cancelled
            <4>9. \A n \in 1 .. known : n > f.top - PageSize => n \in seen'
                <5>1. SUFFICES ASSUME NEW n \in 1 .. known, n > f.top - PageSize
                               PROVE  n \in seen'
                    OBVIOUS
                <5>2. CASE n > f.top
                    BY <4>7, <4>8, <5>2
                <5>3. CASE n <= f.top
                    <6>1. n \in 1 .. f.top /\ n > f.top - Limit(PageSize)
                        BY <1>3, <1>4, <4>6, <5>1, <5>3
                    <6> QED BY <4>8, <6>1 DEF Page
                <5> QED BY <1>4, <4>6, <5>2, <5>3
            <4> QED BY <2>2, <3>3, <4>1, <4>6, <4>7, <4>9
        <3>6. ToSee(rows' - offset')
            BY <1>5, <2>2
        <3> QED BY <3>4, <3>5, <3>6
    <2> QED BY <2>3, <2>4
<1>10. CASE \E f \in flights : Serve(f)
    <2>1. PICK f \in flights : Serve(f)
        BY <1>10
    <2>2. PICK g : /\ rows' = rows /\ view' = view /\ flights' = (flights \ {f}) \cup {g}
                   /\ g.view = f.view /\ g.number = f.number
                   /\ g.top \in {f.top, IF rows > f.request.offset
                                        THEN rows - f.request.offset ELSE 0}
        BY <2>1, ServeEffect
    <2>3. UNCHANGED <<offset, search, known, seen>>
        BY <2>1 DEF Serve, listVars
    <2>4. ASSUME view[1].asked = Ask1(search, offset), g.view = 1, g.number = view[1].number,
                 g.top # Unread
          PROVE  /\ \A n \in 1 .. known : n > g.top => n \in seen
                 /\ g.top = 0 \/ g.top + offset <= rows
        <3>1. f.request = Ask1(search, offset)
            <4>1. f.view = 1 /\ f.number = view[1].number
                BY <2>2, <2>4
            <4>2. Awaited
                BY DEF ViewsInv
            <4>3. f.request = view[1].asked
                BY <1>3, <4>1, <4>2 DEF Awaited
            <4> QED BY <2>4, <4>3
        <3>2. f.request.offset = offset
            BY <3>1
        <3>3. CASE g.top = f.top
            BY <1>6, <2>2, <2>4, <3>3
        <3>4. CASE g.top = IF rows > offset THEN rows - offset ELSE 0
            BY <1>4, <1>5, <3>4
        <3> QED BY <2>2, <3>2, <3>3, <3>4
    <2>5. ASSUME view'[1].asked = Ask1(search', offset') PROVE Loading
        <3>1. SUFFICES ASSUME NEW h \in flights', h.view = 1, h.number = view'[1].number,
                              h.top # Unread
                       PROVE  ToSee(h.top) /\ Paged(h.top)
            OBVIOUS
        <3>2. CASE h = g
            BY <2>2, <2>3, <2>4, <2>5, <3>1, <3>2
        <3>3. CASE h \in flights
            BY <1>6, <2>2, <2>3, <2>5, <3>1, <3>3
        <3> QED BY <2>2, <3>2, <3>3
    <2>6. ASSUME view'[1].asked = Ask1(search', offset'), Shown(view'[1]) PROVE Showing
        BY <1>7, <2>2, <2>3, <2>6
    <2>7. ToSee(rows' - offset')
        BY <1>5, <2>2, <2>3
    <2> QED BY <2>5, <2>6, <2>7
<1>11. CASE \E vs \in SUBSET Views : Fetch(vs, Requests) /\ UNCHANGED listVars
    <2>1. PICK vs \in SUBSET Views : Fetch(vs, Requests) /\ UNCHANGED listVars
        BY <1>11
    <2>2. UNCHANGED <<rows, offset, search, known, seen>>
        BY <2>1, FetchEffect DEF listVars
    <2>3. flights' = flights \cup {Flight(v, Wanted(v), view[v].number + 1) : v \in vs}
        BY <2>1, FetchEffect
    <2>4. \A f \in flights' : f \in flights \/ (f.view \in vs /\ f.top = Unread)
        BY <2>3 DEF Flight
    <2>5. CASE 1 \notin vs
        <3>1. view'[1] = view[1]
            BY <1>3, <2>1, <2>5, FetchEffect
        <3> QED BY <1>8, <2>2, <2>4, <2>5, <3>1
    <2>6. CASE 1 \in vs
        <3>1. PICK w, u, x : w = view'[1] /\ u = view[1] /\ x = Wanted(1)
            OBVIOUS
        <3>2. w = [asked |-> x, number |-> u.number + 1, loading |-> TRUE, error |-> FALSE,
                   shown |-> u.shown, top |-> u.top, total |-> u.total]
            BY <2>1, <2>6, <3>1, FetchEffect
        <3>3. w.loading = TRUE /\ w.number = u.number + 1 /\ u.number \in Nat
            BY <1>3, <3>1, <3>2 DEF ViewsInv, IsView
        <3>4. \A f \in flights : f.view = 1 => f.number <= u.number /\ f.number \in Nat
            BY <3>1 DEF ViewsInv, Numbered, IsFlight
        <3>5. \A f \in flights' : f.view = 1 /\ f.number = w.number => f.top = Unread
            BY <2>4, <3>3, <3>4
        <3>6. ToSee(rows' - offset')
            BY <1>5, <2>2
        <3> QED BY <3>1, <3>3, <3>5, <3>6
    <2> QED BY <2>5, <2>6
<1>12. CASE Turn
    <2>1. /\ UNCHANGED <<rows, flights, view, search, known, seen>>
          /\ IsShown(1) /\ Clicks
          /\ \/ offset' = offset + PageSize
             \/ offset > 0 /\ offset' = IF offset > PageSize THEN offset - PageSize ELSE 0
        BY <1>12 DEF Turn, viewVars
    <2>2. view[1].asked = Ask1(search, offset)
        BY <1>2, <1>3, <2>1, ClicksAfterEffects
    <2>3. offset' # offset
        BY <1>3, <1>4, <2>1
    <2>4. view'[1].asked # Ask1(search', offset')
        BY <2>1, <2>2, <2>3
    <2>5. PICK top \in Nat : /\ top = 0 \/ top + offset <= rows
                             /\ \A n \in 1 .. known : n > top - PageSize => n \in seen
        BY <1>7, <2>1, <2>2 DEF IsShown
    <2>6. ASSUME NEW n \in 1 .. known, n > rows - offset' PROVE n \in seen
        <3>1. CASE offset' = offset + PageSize
            <4>1. n > top - PageSize
                BY <1>3, <1>4, <2>5, <2>6, <3>1
            <4> QED BY <2>5, <4>1
        <3>2. CASE offset > 0 /\ offset' = IF offset > PageSize THEN offset - PageSize ELSE 0
            <4>1. n > rows - offset
                BY <1>3, <1>4, <2>6, <3>2
            <4> QED BY <1>5, <4>1
        <3> QED BY <2>1, <3>1, <3>2
    <2>7. ToSee(rows' - offset')
        BY <2>1, <2>6
    <2> QED BY <2>4, <2>7
<1>13. CASE \E q \in Search : HandleSearch(q)
    <2>1. PICK q \in Search : HandleSearch(q)
        BY <1>13
    <2>2. /\ UNCHANGED <<rows, flights, view>> /\ offset' = 0 /\ search' = q /\ Clicks
          /\ IF q # search THEN known' = rows ELSE known' = known /\ seen' = seen
        BY <2>1 DEF HandleSearch, viewVars
    <2>3. view[1].asked = Ask1(search, offset)
        BY <1>2, <1>3, <2>2, ClicksAfterEffects
    <2>4. ToSee(rows' - offset')
        BY <1>4, <2>2
    <2>5. CASE q = search /\ offset = 0
        BY <1>8, <2>2, <2>5
    <2>6. CASE q # search \/ offset # 0
        <3>1. view'[1].asked # Ask1(search', offset')
            BY <2>2, <2>3, <2>6
        <3> QED BY <2>4, <3>1
    <2> QED BY <2>5, <2>6
<1>14. CASE NewRow
    <2>1. rows' = rows + 1 /\ UNCHANGED <<flights, view, offset, search, known, seen>>
        BY <1>14 DEF NewRow, Indexed, listVars
    <2>2. \A p \in Int : p = 0 \/ p + offset <= rows => p = 0 \/ p + offset <= rows + 1
        BY <1>4
    <2>3. ToSee(rows' - offset')
        BY <1>4, <1>5, <2>1
    <2>4. ASSUME view'[1].asked = Ask1(search', offset') PROVE Loading
        <3>1. SUFFICES ASSUME NEW h \in flights, h.view = 1, h.number = view[1].number,
                              h.top # Unread
                       PROVE  ToSee(h.top) /\ Paged(h.top)
            BY <2>1
        <3>2. h.top \in Int
            BY <1>4 DEF WalkTyped
        <3> QED BY <1>6, <2>1, <2>2, <2>4, <3>1, <3>2
    <2>5. ASSUME view'[1].asked = Ask1(search', offset'), Shown(view'[1]) PROVE Showing
        BY <1>7, <2>1, <2>2, <2>5
    <2> QED BY <2>3, <2>4, <2>5
<1>15. CASE UNCHANGED <<view, flights, rows, offset, search, known, seen>>
    BY <1>8, <1>15
<1> QED BY <1>9, <1>10, <1>11, <1>12, <1>13, <1>14, <1>15, StepOfWalk

\* A walk starts at the first page, with nothing seen and nothing under way.
LEMMA WalkInit == Init => WalkTyped /\ WalkInv
<1> SUFFICES ASSUME Init PROVE WalkTyped /\ WalkInv
    OBVIOUS
<1>1. /\ page \in Pages /\ rows = InitialRows /\ flights = {} /\ offset = 0 /\ known = rows
      /\ seen = {} /\ view = [v \in Views |-> Mounted(page.views[v].hook)]
    BY DEF Init
<1>2. rows \in Nat
    BY <1>1, WebAssumption
<1>3. WalkTyped
    BY <1>1, <1>2 DEF WalkTyped
<1>4. SeenAbove(rows - offset)
    BY <1>1, <1>2 DEF SeenAbove
<1>5. Listed => view[1].loading
    <2>1. Listed => 1 \in Views /\ page.views[1].hook = "paginated"
        BY <1>1, ListFacts
    <2> QED BY <1>1, <2>1 DEF Mounted
<1>6. WalkInv
    BY <1>1, <1>4, <1>5 DEF WalkInv, IsShown
<1> QED BY <1>3, <1>6

\* Who turns the pages of a list to its end has seen every row that was there when the
\* walk began.
THEOREM WalkIsComplete == Spec => []WalkMissesNothing
<1> DEFINE Inv == ViewsInv /\ WalkTyped /\ WalkInv
<1>1. Inv => WalkMissesNothing
    <2> SUFFICES ASSUME ViewsInv, WalkTyped, WalkInv, Listed, IsShown(1),
                        view[1].asked = Wanted(1), ~HasNext,
                        view[1].top = 0 \/ view[1].top + offset <= view[1].total,
                        NEW n \in 1 .. known
                 PROVE  n \in seen
        BY DEF WalkMissesNothing
    <2>1. PICK top, total : /\ top = view[1].top /\ total = view[1].total
                            /\ top \in Nat /\ total \in Nat /\ SeenAbove(top - PageSize)
        BY DEF WalkInv
    <2>2. PageSize \in Nat /\ PageSize > 0 /\ offset \in Nat /\ known \in Nat
        BY ListFacts DEF ViewsInv, WalkTyped
    <2>3. total <= offset + PageSize
        BY <2>1, <2>2 DEF HasNext
    <2>4. n > top - PageSize
        BY <2>1, <2>2, <2>3
    <2> QED BY <2>1, <2>4 DEF SeenAbove
<1>2. Init => Inv
    BY ViewsInvInit, WalkInit
<1>3. Inv /\ [Next]_vars => Inv'
    BY ViewsInvStep, WalkTypedStep, WalkInvStep
<1> QED BY <1>1, <1>2, <1>3, PTL DEF Spec

-----------------------------------------------------------------------------
\* The variables keep their types, no flag of a form and no spinner of a hook is set
\* without something under way that resets it, and who waits for a receipt has sent.
THEOREM TabTypeCorrect == Spec => []WebTypeOK
<1> DEFINE Inv == ViewsInv /\ WalletInv /\ FormInv /\ WalkTyped
<1>1. Inv => WebTypeOK
    <2> SUFFICES ASSUME Inv PROVE WebTypeOK
        OBVIOUS
    <2>1. /\ step \in 0 .. form.last /\ input \in Input \cup {""}
          /\ status \in {"idle", "loading", "success", "error"}
        BY DEF FormInv, FormTyped
    <2>2. status = "loading" => \E j \in jobs : j.stage \in {"signer", "receipt"}
        BY DEF FormInv, SentInv
    <2>3. \A flag \in busy : \E j \in jobs : form.handlers[j.handler].flag = flag
        BY DEF FormInv, FlagsInv, FlagOf
    <2>4. \A j \in jobs : j.stage = "receipt" => \E t \in ledger : t.number = j.number
        BY DEF FormInv, SentInv
    <2>5. \A f \in flights : f.view \in Views /\ f.number <= view[f.view].number
        BY DEF ViewsInv, IsFlight, Numbered
    <2>6. \A v \in Views : view[v].loading /\ view[v].number > 0 => \E f \in flights : f.view = v
        BY DEF ViewsInv, Awaited
    <2>7. address \in WalletAccount \cup {None} /\ chainId \in Chain \cup {None}
        BY DEF WalletInv, Accounts
    <2>8. seen \subseteq 1 .. rows /\ known \in 0 .. rows
        BY DEF WalkTyped
    <2> QED BY <2>1, <2>2, <2>3, <2>4, <2>5, <2>6, <2>7, <2>8 DEF WebTypeOK
<1>2. Init => Inv
    BY ViewsInvInit, WalletInvInit, FormInvInit, WalkInit
<1>3. Inv /\ [Next]_vars => Inv'
    BY ViewsInvStep, WalletInvStep, FormInvStep, WalkTypedStep
<1> QED BY <1>1, <1>2, <1>3, PTL DEF Spec
=============================================================================
