----------------------------- MODULE SMTRegistry -----------------------------
(***************************************************************************)
(* The SMTRegistry smart contract: the root of the tree of valid           *)
(* nullifiers, the round of its last update, and a count of the updates.   *)
(***************************************************************************)
EXTENDS Naturals

CONSTANTS
  Roots,       \* 32-byte roots
  Accounts,    \* accounts that may hold the issuer role
  MaxUpdates,  \* bound of the model: updates counted
  MaxRound     \* bound of the model: the chain's rounds

VARIABLES
  issuer, smt_root, last_updated_round, update_count,
  round        \* Global.round

vars == <<issuer, smt_root, last_updated_round, update_count, round>>

TypeOK ==
  /\ issuer \in Accounts
  /\ smt_root \in Roots
  /\ last_updated_round \in Nat
  /\ update_count \in Nat
  /\ round \in Nat

\* create(initial_root)
Init ==
  /\ issuer \in Accounts
  /\ smt_root \in Roots
  /\ round = 0
  /\ last_updated_round = round
  /\ update_count = 0

-----------------------------------------------------------------------------
update_root(sender, new_root) ==
  /\ update_count < MaxUpdates
  /\ sender = issuer
  /\ smt_root' = new_root
  /\ last_updated_round' = round
  /\ update_count' = update_count + 1
  /\ UNCHANGED <<issuer, round>>

update_issuer(sender, new) ==
  /\ sender = issuer
  /\ issuer' = new
  /\ UNCHANGED <<smt_root, last_updated_round, update_count, round>>

\* The chain moves on; several calls may share a round.
NextRound ==
  /\ round < MaxRound
  /\ round' = round + 1
  /\ UNCHANGED <<issuer, smt_root, last_updated_round, update_count>>

Next ==
  \/ \E sender \in Accounts :
       \/ \E new_root \in Roots : update_root(sender, new_root)
       \/ \E new \in Accounts : update_issuer(sender, new)
  \/ NextRound

Spec == Init /\ [][Next]_vars
=============================================================================
