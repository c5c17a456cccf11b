---------------------------- MODULE MCResolvers ----------------------------
(* Small instances of Resolvers. *)
EXTENDS Resolvers

CONSTANTS alice, bob, wallet, text, hbar, gold

\* A pipeline charges twice before the gates are asked, and rewards twice; another asks
\* itself.
Pipelines == {<<feeResolver, feeResolver, whitelistResolver, tokenGatedResolver,
                tokenRewardResolver, tokenRewardResolver>>,
              <<crossContractResolver>>}
============================================================================
