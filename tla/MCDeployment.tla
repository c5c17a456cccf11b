---------------------------- MODULE MCDeployment ----------------------------
(* Small instances of Deployment. *)
EXTENDS Deployment

CONSTANTS alice, wallet, text

=============================================================================
