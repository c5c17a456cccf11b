------------------------------ MODULE WebPages ------------------------------
(***************************************************************************)
(* The pages of apps/web: which requests each makes for which key, and in  *)
(* which steps and with which handlers its form is filled in.  Layout and  *)
(* the texts are left out.  Modules DataView, WebForms and WebTab say what *)
(* the parts do.                                                           *)
(***************************************************************************)
EXTENDS Integers, Sequences

\* Uses of the hooks, and of effects or functions of the page's own.
Hook(kind, route, key) == [hook |-> kind, route |-> route, key |-> key]
Single(route, key)    == Hook("single", route, key)     \* useIndexer
Paginated(route, key) == Hook("paginated", route, key)  \* usePaginatedIndexer
OnMount(route, key)   == Hook("effect", route, key)     \* a function run by useEffect
OnClick(route, key)   == Hook("click", route, key)      \* and one run by a button

\* A handler is shown at a step of the form, may need a connected wallet, and is disabled
\* while its flag is set; "none" is a handler that can always be clicked.
Handler(does, at, flag) == [does |-> does, at |-> at, flag |-> flag]
Transaction(at) == Handler("transact", at, "status")   \* getSigner, the call, wait()
Query(at, flag) == Handler("query", at, flag)          \* questions, then a result
Simulation      == Handler("query", 0, "loading")      \* a timer instead of the network

\* Steps 0 .. last.  locked: no way back while a transaction is awaited.  wrapped: shown
\* to a connected visitor only.  clears: "another one" empties the fields.
Form(last, locked, wrapped, clears, handlers) ==
    [last |-> last, locked |-> locked, wrapped |-> wrapped, clears |-> clears,
     handlers |-> handlers]
NoForm == Form(0, TRUE, FALSE, FALSE, <<>>)

Explorer(views)      == [kind |-> "explorer", views |-> views, form |-> NoForm]
Locked(views, h)     == [kind |-> "sandbox", views |-> views, form |-> Form(2, TRUE, TRUE, TRUE, h)]
Unlocked(views, h)   == [kind |-> "sandbox", views |-> views, form |-> Form(2, FALSE, TRUE, FALSE, h)]
Lookup(wrapped, h)   == [kind |-> "query", views |-> <<>>, form |-> Form(0, TRUE, wrapped, FALSE, h)]

-----------------------------------------------------------------------------
(* The explorer *)

SchemasPage      == Explorer(<<Paginated("/schemas", "search")>>)
AttestationsPage == Explorer(<<Paginated("/attestations", "search")>>)
AuthoritiesPage  == Explorer(<<Paginated("/authorities", "search")>>)

SchemaDetailPage == Explorer(<<Single("/schemas/:uid", "uid"),
                               Paginated("/attestations", "uid")>>)
AttestationDetailPage == Explorer(<<Single("/attestations/:uid", "uid"),
                                    Single("/schemas/:uid", "schemaUid")>>)
AuthorityDetailPage == Explorer(<<Single("/authorities/:address", "uid"),
                                  Paginated("/schemas", "uid"),
                                  Paginated("/attestations", "uid")>>)

AuditLogPage == Explorer(<<OnMount("/hcs/topics", "topic"), OnMount("/hcs/messages/:topicId", "topic")>>)

ProfilePage == [kind |-> "profile", form |-> NoForm,
                views |-> <<Single("/authorities/:address", "address"),
                            Paginated("/schemas", "address"),
                            Paginated("/attestations", "address"),
                            Paginated("/attestations", "address")>>]

(* The sandbox: forms that end in a transaction *)

RevokePage            == Locked(<<>>, [handleRevoke |-> Transaction(1)])
RegisterAuthorityPage == Locked(<<>>, [handleRegister |-> Transaction(1)])
VerifyAuthorityPage   == Locked(<<>>, [handleVerify |-> Transaction(1)])
SchemaBuilderPage     == Locked(<<>>, [handleDeploy |-> Transaction(1)])
WhitelistManagerPage  == Locked(<<>>, [handleSubmit |-> Transaction(1),
                                       handleCheck |-> Query(0, "checkLoading")])
FeeResolverPage == Locked(<<OnMount("contract", "address")>>, [handleDeposit |-> Transaction(1)])
TokenGatedPage  == Locked(<<OnMount("contract", "none")>>, [handleSubmit |-> Transaction(1)])

\* Loading the schema is the first step.
CreateAttestationPage ==
    [kind |-> "sandbox", views |-> <<>>,
     form |-> Form(3, TRUE, TRUE, TRUE, [handleLoadSchema |-> Handler("advance", 0, "loadingSchema"),
                                         handleSubmit |-> Transaction(2)])]

DelegatedAttestationPage == Unlocked(<<>>, [handleSubmit |-> Transaction(1),
                                            handleCheck |-> Query(0, "checkLoading")])
DelegatedRevocationPage  == Unlocked(<<>>, [handleSubmit |-> Transaction(1)])
CrossContractPage        == Unlocked(<<OnClick("contract", "input")>>,
                                     [handleSubmit |-> Transaction(1)])
TokenRewardPage          == Unlocked(<<OnClick("contract", "input")>>,
                                     [handleSubmit |-> Transaction(1),
                                      handleCheckDistributed |-> Query(0, "none")])

(* The sandbox: questions *)

LookupPage             == Lookup(TRUE, [handleLookup |-> Query(0, "loading")])
SearchPage             == Lookup(FALSE, [handleSearch |-> Query(0, "searching")])
SchemaAttestationsPage == Lookup(FALSE, [handleSearch |-> Query(0, "loading")])
WalletSchemasPage      == Lookup(FALSE, [handleSearch |-> Query(0, "loading")])
WalletAttestationsPage == Lookup(FALSE, [handleSearch |-> Query(0, "loading")])
VerifyHCSProofPage     == Lookup(TRUE, [handleVerify |-> Query(0, "loading")])
AgentChatPage          == Lookup(FALSE, [sendMessage |-> Query(0, "loading"),
                                         clearChat |-> Handler("clear", 0, "none")])

(* The sandbox: what the browser cannot do is only shown *)

NFTCredentialPage       == Lookup(TRUE, [handleLookup |-> Query(0, "lookupLoading"),
                                         handleMint |-> Simulation])
ScheduledRevocationPage == Lookup(TRUE, [handleLookup |-> Query(0, "lookupLoading"),
                                         handleSchedule |-> Simulation])
FileSchemaPage          == Lookup(FALSE, [handleUpload |-> Simulation, handleRead |-> Simulation,
                                          handleRegister |-> Simulation])
MultiSigAuthorityPage   == Lookup(FALSE, [handleCreate |-> Simulation,
                                          handleLookup |-> Query(0, "loading")])
TokenStakingPage        == Lookup(FALSE, [handleStake |-> Simulation, handleUnstake |-> Simulation,
                                          handleCheckBalance |-> Simulation])
=============================================================================
