---------------------------- MODULE CliCommands ----------------------------
(***************************************************************************)
(* packages/cli: the commands.  Each checks its options, loads the         *)
(* configuration from the environment, calls one method of the SDK and     *)
(* prints the result; module Clients models the process around it.         *)
(***************************************************************************)
EXTENDS SdkMethods

Options == Step("options")  \* required options, numbers and JSON files: thrown before any call
Load    == Step("load")     \* loadConfig: the account and its key are in the environment

createService == Load
Command(method) == <<Options, createService>> \o method

SchemaCreate == Command(registerSchema)
SchemaFetch == Command(getSchema)
SchemaList == Command(listSchemas)

AttestationCreate == Command(createAttestation)
AttestationFetch == Command(getAttestation)
AttestationList == Command(listAttestations)
AttestationRevoke == Command(revokeAttestation)

AuthorityRegister == Command(registerAuthority)
AuthorityFetch == Command(getAuthority)
AuthorityVerify == Command(setAuthorityVerification)
Profile == Command(getProfile)

\* Without topics an error is printed, but the exit code stays 0.
HcsTopics == <<Load>>
\* Reads the mirror node itself: no account is needed.
HcsMessages == <<Options, Query>>

WhitelistAdd == Command(whitelistAdd)
WhitelistRemove == Command(whitelistRemove)
WhitelistCheck == Command(whitelistCheck)
WhitelistOwner == Command(whitelistOwner)

FeeDeposit == Command(feeDeposit)
FeeSetFee == Command(feeSetFee)
FeeWithdraw == Command(feeWithdraw)
FeeGetFee == Command(feeGetFee)
FeeBalance == Command(feeGetBalance)
FeeOwner == Command(feeOwner)

TokenGatedSetConfig == Command(tokenGatedSetConfig)
TokenGatedGetConfig == Command(tokenGatedGetConfig)
TokenGatedOwner == Command(tokenGatedOwner)

NftMint == Command(mintNFT)

DelegateAdd == Command(addDelegate)
DelegateRemove == Command(removeDelegate)
DelegateCheck == Command(isDelegate)
DelegateList == Command(getDelegates)
DelegateAttest == Command(attestOnBehalf)
DelegateRevoke == Command(revokeOnBehalf)

TokenRewardSetConfig == Command(tokenRewardSetConfig)
TokenRewardGetConfig == Command(tokenRewardGetConfig)
TokenRewardDistributed == Command(tokenRewardGetDistributed)
TokenRewardOwner == Command(tokenRewardOwner)

CrossContractSetPipeline == Command(crossContractSetPipeline)
CrossContractGetPipeline == Command(crossContractGetPipeline)
CrossContractOwner == Command(crossContractOwner)

ScheduleRevoke == Command(scheduleRevocation)
ScheduleStatus == Command(getScheduledRevocation)

MultisigCreate == Command(createMultiSigAuthority)
MultisigInfo == Command(getAccountKeyInfo)

StakingStake == Command(stakeTokens)
StakingUnstake == Command(unstakeTokens)
StakingBalance == Command(getStake)

FileSchemaUpload == Command(uploadSchemaFile)
FileSchemaRead == Command(readSchemaFile)
FileSchemaRegister == Command(registerSchemaFromFile)

\* `attestify ai`: the key of the model is checked first, and its calls may fail.
Model == Step("model")
Ai(tool) == <<Options, Load, Model>> \o tool

Commands ==
    {SchemaCreate, SchemaFetch, SchemaList, AttestationCreate, AttestationFetch,
     AttestationList, AttestationRevoke, AuthorityRegister, AuthorityFetch, AuthorityVerify,
     Profile, HcsTopics, HcsMessages, WhitelistAdd, WhitelistRemove, WhitelistCheck,
     WhitelistOwner, FeeDeposit, FeeSetFee, FeeWithdraw, FeeGetFee, FeeBalance, FeeOwner,
     TokenGatedSetConfig, TokenGatedGetConfig, TokenGatedOwner, NftMint, DelegateAdd,
     DelegateRemove, DelegateCheck, DelegateList, DelegateAttest, DelegateRevoke,
     TokenRewardSetConfig, TokenRewardGetConfig, TokenRewardDistributed, TokenRewardOwner,
     CrossContractSetPipeline, CrossContractGetPipeline, CrossContractOwner, ScheduleRevoke,
     ScheduleStatus, MultisigCreate, MultisigInfo, StakingStake, StakingUnstake,
     StakingBalance, FileSchemaUpload, FileSchemaRead, FileSchemaRegister}
=============================================================================
