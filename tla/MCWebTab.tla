------------------------------ MODULE MCWebTab ------------------------------
(* The pages of the web application, for TLC. *)
EXTENDS WebTab

Explorers == {SchemasPage, AttestationsPage, AuthoritiesPage, SchemaDetailPage,
              AttestationDetailPage, AuthorityDetailPage, AuditLogPage, ProfilePage}

Sandboxes == {RevokePage, RegisterAuthorityPage, VerifyAuthorityPage, SchemaBuilderPage,
              WhitelistManagerPage, FeeResolverPage, TokenGatedPage, CreateAttestationPage,
              DelegatedAttestationPage, DelegatedRevocationPage, CrossContractPage,
              TokenRewardPage}

Questions == {LookupPage, SearchPage, SchemaAttestationsPage, WalletSchemasPage,
              WalletAttestationsPage, VerifyHCSProofPage, AgentChatPage, NFTCredentialPage,
              ScheduledRevocationPage, FileSchemaPage, MultiSigAuthorityPage, TokenStakingPage}

MCPages == Explorers \cup Sandboxes \cup Questions
MCWalletPages == {ProfilePage, RevokePage}
\* Pages of one shape are not all tried for as long.
MCMaxClicks ==
    [p \in MCPages |-> IF p = ProfilePage THEN 1
                      ELSE IF p \in {AttestationsPage, AuthoritiesPage} THEN 2
                      ELSE IF p \in Explorers \cup {RevokePage} THEN 3 ELSE 5]
=============================================================================
