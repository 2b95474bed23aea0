-------------------------- MODULE NullifierRegistry --------------------------
(***************************************************************************)
(* The NullifierRegistry smart contract: a box per registered nullifier,   *)
(* holding the wallet it is bound to, and a counter of the boxes.  A       *)
(* contract call is atomic: an assertion that fails undoes the whole call, *)
(* so a refused call is no step at all and only calls that succeed appear. *)
(***************************************************************************)
EXTENDS Naturals, LedgerConstants

VARIABLES
  issuer,            \* the only account whose writes succeed
  total_registered,  \* the contract's own count of its boxes
  nullifiers         \* the BoxMap: nullifier -> wallet, or Absent

vars == <<issuer, total_registered, nullifiers>>

TypeOK ==
  /\ issuer \in Accounts
  /\ total_registered \in Nat
  /\ nullifiers \in [Nullifiers -> Wallets \cup {Absent}]

\* Mutated forms of definitions below: the bugs the properties must catch.
is_registered_Never(n) == FALSE
Decremented_Guarded(t) == IF t > 1 THEN t - 1 ELSE t

-----------------------------------------------------------------------------
is_registered(n) == nullifiers[n] # Absent

Registered == {n \in Nullifiers : nullifiers[n] # Absent}

\* The counter never wraps below zero: the contract tests it first.
Decremented(t) == IF t > 0 THEN t - 1 ELSE t

\* create(): whoever deploys the contract is its issuer.
Init ==
  /\ issuer \in Accounts
  /\ total_registered = 0
  /\ nullifiers = [n \in Nullifiers |-> Absent]

register(sender, n, w) ==
  /\ sender = issuer
  /\ ~is_registered(n)
  /\ nullifiers' = [nullifiers EXCEPT ![n] = w]
  /\ total_registered' = total_registered + 1
  /\ UNCHANGED issuer

invalidate(sender, n) ==
  /\ sender = issuer
  /\ is_registered(n)
  /\ nullifiers' = [nullifiers EXCEPT ![n] = Absent]
  /\ total_registered' = Decremented(total_registered)
  /\ UNCHANGED issuer

update_issuer(sender, new) ==
  /\ sender = issuer
  /\ issuer' = new
  /\ UNCHANGED <<total_registered, nullifiers>>

Next ==
  \E sender \in Accounts :
    \/ \E n \in Nullifiers, w \in Wallets : register(sender, n, w)
    \/ \E n \in Nullifiers : invalidate(sender, n)
    \/ \E new \in Accounts : update_issuer(sender, new)

Spec == Init /\ [][Next]_vars

-----------------------------------------------------------------------------
\* The counter is exactly the number of boxes, so verify_kyc and dApps that
\* read total_registered are told the truth and the guarded decrement of
\* invalidate() never hides a missing increment.
TotalMatchesBoxes == total_registered = Cardinality(Registered)

\* A bound nullifier is never handed to another wallet: its box can be
\* deleted by invalidate(), but not overwritten by a second register().
BindingNeverMoves ==
  [][\A n \in Registered : nullifiers'[n] \in {nullifiers[n], Absent}]_vars

=============================================================================
