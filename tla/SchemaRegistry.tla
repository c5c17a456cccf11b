--------------------------- MODULE SchemaRegistry ---------------------------
(***************************************************************************)
(* SchemaRegistry.sol: schemas are registered once, under the hash of      *)
(* their definition, resolver and revocable flag, and never change.        *)
(***************************************************************************)
EXTENDS Chain

CONSTANTS Definition,   \* schema definition strings
          Contract,     \* addresses that may be named as a resolver
          Conforming,   \* those whose supportsInterface answers true for IResolver
          NoResolver    \* address(0)

ASSUME RegistryAssumption == Conforming \subseteq Contract /\ NoResolver \notin Contract

VARIABLE schemas        \* _schemas, on the UIDs whose timestamp is not 0

\* keccak256 of the three, taken as collision free
GenerateSchemaUID(definition, resolver, revocable) ==
    [definition |-> definition, resolver |-> resolver, revocable |-> revocable]

SchemaUID == [definition : Definition, resolver : Contract \cup {NoResolver},
              revocable : BOOLEAN]

SchemaRecord == [definition : Definition, authority : Account,
                 resolver : Contract \cup {NoResolver}, revocable : BOOLEAN,
                 timestamp : Nat \ {0}]

RegistryInit == schemas = <<>>

\* A fault for the runs to find: only the same caller's schema is a duplicate.
IsDuplicate_SameCaller(uid, caller) ==
    uid \in DOMAIN schemas /\ schemas[uid].authority = caller

\* SchemaAlreadyExists, whoever registered it
IsDuplicate(uid, caller) == uid \in DOMAIN schemas

SchemaExists(uid) == uid \in DOMAIN schemas

\* supportsInterface answers false, is missing, or reverts: InvalidResolver
CheckResolver(resolver) == resolver = NoResolver \/ resolver \in Conforming

Register(caller, definition, resolver, revocable) ==
    LET uid == GenerateSchemaUID(definition, resolver, revocable) IN
    /\ ~IsDuplicate(uid, caller)
    /\ CheckResolver(resolver)
    /\ schemas' = Put(schemas, uid, [definition |-> definition, authority |-> caller,
                                     resolver |-> resolver, revocable |-> revocable,
                                     timestamp |-> now])
    /\ Emit([type |-> "SchemaRegistered", uid |-> uid, authority |-> caller,
             resolver |-> resolver])
    /\ UNCHANGED now

RegistryNext ==
    \E caller \in Account, definition \in Definition,
       resolver \in Contract \cup {NoResolver}, revocable \in BOOLEAN :
        Register(caller, definition, resolver, revocable)
=============================================================================
