------------------------------- MODULE Chain -------------------------------
(***************************************************************************)
(* What the contracts of Attestify see of the Hedera network: the          *)
(* timestamp of the current block and the log their events are appended    *)
(* to.  A transaction is atomic: it runs to its end, or reverts and leaves *)
(* no trace, so it is one step here and a revert is no step at all.        *)
(***************************************************************************)
EXTENDS Naturals, Sequences

CONSTANTS Account,    \* addresses that send transactions
          Deployer,   \* the one that deployed the contracts: admin and owner
          Subject,    \* addresses attested about
          MaxTime,    \* bound: the last block timestamp explored
          MaxEvents   \* bound: the number of events explored

ASSUME ChainAssumption ==
    Deployer \in Account /\ MaxTime \in Nat \ {0} /\ MaxEvents \in Nat

VARIABLES now,        \* block.timestamp, never 0
          log         \* every event emitted so far, oldest first

chainVars == <<now, log>>

\* A Solidity mapping, kept on the keys ever written, with v stored at k.
Put(mapping, k, v) ==
    [x \in DOMAIN mapping \cup {k} |-> IF x = k THEN v ELSE mapping[x]]

ChainInit == now = 1 /\ log = <<>>

\* emit e, in a transaction
Emit(e) == Len(log) < MaxEvents /\ log' = Append(log, e)

\* A new block.  Timestamps are in seconds, so two blocks may carry the same.
AdvanceTime == now' \in now .. MaxTime /\ UNCHANGED log
============================================================================
