----------------------------- MODULE AgentTools -----------------------------
(***************************************************************************)
(* bounty/agent attestify-tools.ts, which packages/sdk ai.ts repeats: the  *)
(* tools that a model, or a client of the MCP server, may call.  A tool is *)
(* the set of programs its arguments may select.  It turns failures of the *)
(* SDK into text, so that a tool call itself does not fail.                *)
(***************************************************************************)
EXTENDS SdkMethods

registerSchemaTool == {registerSchema}
getSchemaTool == {getSchema}
listSchemasTool == {listSchemas}

\* Data that is not hex is encoded with the schema; a schema that cannot be read leaves
\* the data as it is.
createAttestationTool ==
    {createAttestation, <<Peek>> \o createAttestation, <<Peek, Encode>> \o createAttestation}

getAttestationTool == {getAttestation}
revokeAttestationTool == {revokeAttestation}
listAttestationsTool == {listAttestations}
registerAuthorityTool == {registerAuthority}
getAuthorityTool == {getAuthority}
getProfileTool == {getProfile}
encodeDataTool == {<<Encode>>}
decodeDataTool == {<<Encode>>}
whitelistCheckTool == {whitelistCheck}
feeGetFeeTool == {feeGetFee}
feeGetBalanceTool == {feeGetBalance}
mintNFTTool == {mintNFT}
scheduleRevocationTool == {scheduleRevocation}

getAllTools ==
    {registerSchemaTool, getSchemaTool, listSchemasTool, createAttestationTool,
     getAttestationTool, revokeAttestationTool, listAttestationsTool, registerAuthorityTool,
     getAuthorityTool, getProfileTool, encodeDataTool, decodeDataTool, whitelistCheckTool,
     feeGetFeeTool, feeGetBalanceTool, mintNFTTool, scheduleRevocationTool}

\* getAttestifyTools of the SDK: the same tools, made for a configuration.
getAttestifyTools == getAllTools

Programs(tools) == UNION tools

\* mcp-server.ts handleRequest: a request for anything but a tool is answered at once.
handleRequest == Programs(getAllTools) \cup {<<>>}
=============================================================================
