---------------------------- MODULE KYCBoxStorage ----------------------------
(***************************************************************************)
(* The KYCBoxStorage smart contract: a box of ciphertext per nullifier and *)
(* a counter of the boxes.  Unlike a registration a blob may be written    *)
(* over, so the counter must tell a new box from an old one.  A call whose *)
(* assertion fails is undone by the ledger and is no step.                 *)
(***************************************************************************)
EXTENDS Naturals, LedgerConstants

VARIABLES
  issuer,       \* the deployer: this contract has no update_issuer
  total_blobs,  \* the contract's own count of its boxes
  blobs         \* the BoxMap: nullifier -> blob, or Absent

vars == <<issuer, total_blobs, blobs>>

TypeOK ==
  /\ issuer \in Accounts
  /\ total_blobs \in Nat
  /\ blobs \in [Nullifiers -> Blobs \cup {Absent}]

\* create()
Init ==
  /\ issuer \in Accounts
  /\ total_blobs = 0
  /\ blobs = [n \in Nullifiers |-> Absent]

-----------------------------------------------------------------------------
\* Mutated forms of definitions below: the bugs the properties must catch.

-----------------------------------------------------------------------------
has_blob(n) == blobs[n] # Absent

Stored == {n \in Nullifiers : has_blob(n)}

\* is_new is read before the box is written.
CountedIn(n) == IF has_blob(n) THEN total_blobs ELSE total_blobs + 1

CountedOut(t) == IF t > 0 THEN t - 1 ELSE t

store_blob(sender, n, b) ==
  /\ sender = issuer
  /\ blobs' = [blobs EXCEPT ![n] = b]
  /\ total_blobs' = CountedIn(n)
  /\ UNCHANGED issuer

delete_blob(sender, n) ==
  /\ sender = issuer
  /\ has_blob(n)
  /\ blobs' = [blobs EXCEPT ![n] = Absent]
  /\ total_blobs' = CountedOut(total_blobs)
  /\ UNCHANGED issuer

Next ==
  \E sender \in Accounts, n \in Nullifiers :
    \/ \E b \in Blobs : store_blob(sender, n, b)
    \/ delete_blob(sender, n)

Spec == Init /\ [][Next]_vars

-----------------------------------------------------------------------------
\* However often blobs are stored, written over, deleted and stored again,
\* the counter is the number of boxes.
TotalMatchesBlobs == total_blobs = Cardinality(Stored)

=============================================================================
