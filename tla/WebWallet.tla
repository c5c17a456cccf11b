----------------------------- MODULE WebWallet -----------------------------
(***************************************************************************)
(* The hook useWallet and the ConnectButton, with the wallet extension     *)
(* (external) on the other side.  The extension answers requests and tells *)
(* of changes over one channel, in order.  Its user decides whether a      *)
(* request is granted.                                                     *)
(***************************************************************************)
EXTENDS Sequences

CONSTANTS WalletAccount, Chain, Hedera, None

ASSUME WalletAssumption ==
    WalletAccount # {} /\ Hedera \in Chain /\ None \notin WalletAccount \cup Chain

VARIABLES extension,  \* the account it exposes to the page, or None, and its chain
          channel,    \* what it has sent to the page
          requests,   \* what the page has asked: who asks for what
          address, chainId, \* the state of the hook
          connecting  \* of the button

walletVars == <<extension, channel, requests, address, chainId, connecting>>

Ask(by, method) == [by |-> by, method |-> method]
Says(kind, by, value) == [kind |-> kind, by |-> by, value |-> value]

\* The hook is mounted: it listens, and asks for what was granted before.
WalletInit ==
    /\ extension \in [account : WalletAccount \cup {None}, chain : Chain]
    /\ channel = <<>>
    /\ requests = {Ask("mount", "eth_accounts"), Ask("mount", "eth_chainId")}
    /\ address = None /\ chainId = None
    /\ connecting = FALSE

\* Or it has done so, and was told.
Connected ==
    /\ extension = [account |-> CHOOSE a \in WalletAccount : TRUE, chain |-> Hedera]
    /\ channel = <<>> /\ requests = {}
    /\ address = extension.account /\ chainId = Hedera
    /\ connecting = FALSE

-----------------------------------------------------------------------------
(* The extension *)

Changed(next) ==
    (IF next.account # extension.account
     THEN <<Says("accountsChanged", "event", next.account)>> ELSE <<>>)
    \o IF next.chain # extension.chain
       THEN <<Says("chainChanged", "event", next.chain)>> ELSE <<>>

\* Its user selects another account or chain, or disconnects the site.
SwitchedByUser(next) ==
    /\ next # extension
    /\ next.account = extension.account \/ next.chain = extension.chain
    /\ extension' = next
    /\ channel' = channel \o Changed(next)
    /\ UNCHANGED <<requests, address, chainId, connecting>>

Granted(r, next) ==
    /\ extension' = next
    /\ channel' = Append(channel \o Changed(next),
          Says(r.method, r.by, IF r.method \in {"eth_accounts", "eth_requestAccounts"}
                               THEN next.account ELSE next.chain))

\* An answer.  A chain the extension does not know is refused with code 4902; adding it
\* selects it.
WalletAnswers(r) ==
    /\ r \in requests
    /\ requests' = requests \ {r}
    /\ \/ r.method \in {"eth_accounts", "eth_chainId"} /\ Granted(r, extension)
       \/ /\ r.method = "eth_requestAccounts"
          /\ \E a \in WalletAccount : /\ extension.account \in {None, a}
                                      /\ Granted(r, [extension EXCEPT !.account = a])
       \/ /\ r.method \in {"wallet_switchEthereumChain", "wallet_addEthereumChain"}
          /\ Granted(r, [extension EXCEPT !.chain = Hedera])
       \/ /\ r.by # "mount" /\ r.method # "eth_chainId"
          /\ extension' = extension
          /\ \E error \in {"refused"} \cup IF r.method = "wallet_switchEthereumChain"
                                           THEN {"4902"} ELSE {} :
                channel' = Append(channel, Says(error, r.by, None))
    /\ UNCHANGED <<address, chainId, connecting>>

-----------------------------------------------------------------------------
(* The page *)

\* handleConnect, disconnect and switchToHederaTestnet, as the button offers them.
Connect == /\ address = None /\ ~connecting
           /\ connecting' = TRUE
           /\ requests' = requests \cup {Ask("connect", "eth_requestAccounts")}
           /\ UNCHANGED <<extension, channel, address, chainId>>

Disconnect == /\ address # None /\ chainId = Hedera
              /\ address' = None /\ chainId' = None
              /\ UNCHANGED <<extension, channel, requests, connecting>>

Switch == /\ address # None /\ chainId # Hedera
          /\ \A r \in requests : r.by # "switch"
          /\ \A i \in DOMAIN channel : channel[i].by # "switch"
          /\ requests' = requests \cup {Ask("switch", "wallet_switchEthereumChain")}
          /\ UNCHANGED <<extension, channel, address, chainId, connecting>>

ConnectEnds(m) == connecting' = (connecting /\ m.by # "connect")

\* A fault for the runs to find: an empty list of accounts is not taken as a
\* disconnection.
AccountsChanged_NotEmpty(m) ==
    /\ address' = IF m.value = None THEN address ELSE m.value
    /\ UNCHANGED <<chainId, connecting, requests>>

\* handleAccountsChanged
AccountsChanged(m) == address' = m.value /\ UNCHANGED <<chainId, connecting, requests>>

\* handleChainChanged, and the answers on mount: an empty list changes nothing
Told(m) ==
    /\ m.by \in {"event", "mount"} /\ m.kind # "accountsChanged"
    /\ IF m.kind = "eth_accounts"
       THEN address' = (IF m.value # None THEN m.value ELSE address) /\ UNCHANGED chainId
       ELSE chainId' = m.value /\ UNCHANGED address
    /\ UNCHANGED <<connecting, requests>>

\* connect, after each await
Connecting(m) ==
    /\ m.by = "connect"
    /\ \/ /\ m.kind = "eth_requestAccounts"
          /\ address' = m.value
          /\ requests' = requests \cup {Ask("connect", "eth_chainId")}
          /\ UNCHANGED <<chainId, connecting>>
       \/ /\ m.kind = "eth_chainId"
          /\ chainId' = m.value
          /\ IF m.value = Hedera THEN ConnectEnds(m) /\ UNCHANGED requests
             ELSE /\ requests' = requests \cup {Ask("connect", "wallet_switchEthereumChain")}
                  /\ UNCHANGED connecting
          /\ UNCHANGED address

\* switchToHederaTestnet, after each await
Switching(m) ==
    /\ \/ /\ m.kind \in {"wallet_switchEthereumChain", "wallet_addEthereumChain"}
          /\ chainId' = Hedera /\ ConnectEnds(m) /\ UNCHANGED requests
       \/ /\ m.kind = "4902"
          /\ requests' = requests \cup {Ask(m.by, "wallet_addEthereumChain")}
          /\ UNCHANGED <<chainId, connecting>>
       \/ m.kind = "refused" /\ ConnectEnds(m) /\ UNCHANGED <<chainId, requests>>
    /\ UNCHANGED address

Deliver ==
    /\ channel # <<>>
    /\ channel' = Tail(channel)
    /\ LET m == Head(channel)
       IN \/ m.kind = "accountsChanged" /\ AccountsChanged(m)
          \/ Told(m) \/ Connecting(m) \/ Switching(m)
    /\ UNCHANGED extension

\* What the page shows of the wallet is what the wallet has, as soon as the page has
\* heard all it was told; it may show nothing.
WalletIsShown ==
    channel = <<>> => /\ address \in {None, extension.account}
                      /\ chainId \in {None, extension.chain}
============================================================================
