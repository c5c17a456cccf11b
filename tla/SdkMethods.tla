----------------------------- MODULE SdkMethods -----------------------------
(***************************************************************************)
(* packages/sdk: what each method of HederaAttestService awaits, in order. *)
(* A method is the sequence of its steps; module Clients says what a step  *)
(* does and how it may fail.  Arguments and results are left out.          *)
(***************************************************************************)
EXTENDS Sequences

Step(kind) == [do |-> kind]

Read     == Step("read")      \* a question to a contract
Peek     == Step("peek")      \* the same, where a failed answer counts as an empty one
Query    == Step("query")     \* one to the indexer, the mirror node or a Hedera service
Try      == Step("try")       \* the same, where a failed answer counts as an empty one
Encode   == Step("encode")    \* SchemaEncoder on given data
Transact == Step("transact")  \* a contract call: sent, then awaited with wait()
Execute  == Step("execute")   \* a native transaction: execute(), then getReceipt()
Needs(resolver)  == [do |-> "needs", resolver |-> resolver]
Log(topic)       == [do |-> "log", topic |-> topic]
Fork(background) == [do |-> "fork", background |-> background]

Resolver == {"whitelist", "fee", "tokenGated"}
Topic == {"schemas", "attestations", "authorities"}

-----------------------------------------------------------------------------
(* Schemas and attestations *)

registerSchema == <<Transact, Fork(<<Read, Log("schemas")>>)>>
getSchema == <<Read>>

createAttestation == <<Transact, Fork(<<Read, Log("attestations")>>)>>
getAttestation == <<Read>>

\* A fault for the runs to find: the audit message is sent before the revocation.
revokeAttestation_LogFirst == <<Fork(<<Log("attestations")>>), Transact>>

revokeAttestation == <<Transact, Fork(<<Log("attestations")>>)>>

(* Authorities *)

registerAuthority == <<Transact, Fork(<<Log("authorities")>>)>>
getAuthority == <<Read>>
setAuthorityVerification == <<Transact>>

(* Queries of the indexer *)

listSchemas == <<Query>>
listAttestations == <<Query>>
getProfile == <<Try>>

\* The methods of IndexerClient are one of these, but for its own getProfile, which
\* awaits four and takes one that failed as empty.
fetchPaginated == <<Query>>
fetchSingle == <<Query>>
getFullProfile == <<Try>>

(* Resolvers: three are configured with the service, two are named in the call *)

requireWhitelistResolver == Needs("whitelist")
whitelistAdd == <<requireWhitelistResolver, Transact>>
whitelistRemove == <<requireWhitelistResolver, Transact>>
whitelistCheck == <<requireWhitelistResolver, Read>>
whitelistOwner == <<requireWhitelistResolver, Read>>

requireFeeResolver == Needs("fee")
feeDeposit == <<requireFeeResolver, Transact>>
feeSetFee == <<requireFeeResolver, Transact>>
feeWithdraw == <<requireFeeResolver, Transact>>
feeGetFee == <<requireFeeResolver, Read>>
feeGetBalance == <<requireFeeResolver, Read>>
feeOwner == <<requireFeeResolver, Read>>

requireTokenGatedResolver == Needs("tokenGated")
tokenGatedSetConfig == <<requireTokenGatedResolver, Transact>>
tokenGatedGetConfig == <<requireTokenGatedResolver, Read>>
tokenGatedOwner == <<requireTokenGatedResolver, Read>>

tokenRewardSetConfig == <<Transact>>
tokenRewardGetConfig == <<Read>>
tokenRewardGetDistributed == <<Read>>
tokenRewardOwner == <<Read>>

crossContractSetPipeline == <<Transact>>
crossContractGetPipeline == <<Read>>
crossContractOwner == <<Read>>

(* Delegation: the audit message is awaited here, and names the authority given *)

addDelegate == <<Transact>>
removeDelegate == <<Transact>>
isDelegate == <<Read>>
getDelegates == <<Read>>
attestOnBehalf == <<Transact, Log("attestations")>>
revokeOnBehalf == <<Transact, Log("attestations")>>

(* Native services of Hedera *)

mintNFT == <<Execute>>
scheduleRevocation == <<Execute>>
getScheduledRevocation == <<Query>>
createMultiSigAuthority == <<Execute>>
getAccountKeyInfo == <<Query>>
stakeTokens == <<Execute>>
unstakeTokens == <<>>
getStake == <<Query>>
uploadSchemaFile == <<Execute>>
readSchemaFile == <<Query>>
registerSchemaFromFile == readSchemaFile \o registerSchema

Methods ==
    {registerSchema, getSchema, createAttestation, getAttestation, revokeAttestation,
     registerAuthority, getAuthority, setAuthorityVerification, listSchemas, listAttestations,
     getProfile, whitelistAdd, whitelistRemove, whitelistCheck, whitelistOwner, feeDeposit,
     feeSetFee, feeWithdraw, feeGetFee, feeGetBalance, feeOwner, tokenGatedSetConfig,
     tokenGatedGetConfig, tokenGatedOwner, tokenRewardSetConfig, tokenRewardGetConfig,
     tokenRewardGetDistributed, tokenRewardOwner, crossContractSetPipeline,
     crossContractGetPipeline, crossContractOwner, addDelegate, removeDelegate, isDelegate,
     getDelegates, attestOnBehalf, revokeOnBehalf, mintNFT, scheduleRevocation,
     getScheduledRevocation, createMultiSigAuthority, getAccountKeyInfo, stakeTokens,
     unstakeTokens, getStake, uploadSchemaFile, readSchemaFile, registerSchemaFromFile,
     fetchPaginated, fetchSingle, getFullProfile}
=============================================================================
