----------------------- MODULE MCAttestationService -----------------------
(* Small instances of AttestationService. *)
EXTENDS AttestationService

CONSTANTS alice, bob, carol, wallet, registry, text

===========================================================================
