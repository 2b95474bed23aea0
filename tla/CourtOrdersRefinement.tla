------------------------ MODULE CourtOrdersRefinement ------------------------
(***************************************************************************)
(* The court order service keeps the promise of CourtOrderPromise: voters, *)
(* shares, blobs and the clock are forgotten, votes become two counts.     *)
(***************************************************************************)
EXTENDS CourtOrders

Promise == INSTANCE CourtOrderPromise
  WITH Quorum <- THRESHOLD,
       Veto <- TOTAL_CUSTODIANS - THRESHOLD + 1,
       phase <- status,
       ayes <- [o \in Orders |-> Ayes(o)],
       noes <- [o \in Orders |-> Noes(o)],
       revealed <- [o \in Orders |-> decrypted_identity[o] \in Blobs]

\* Every step of the service is a step of the promise or invisible to it:
\* settled orders stay settled, no vote moves two counts or skips a threshold,
\* and the identity appears only in the very step that approves the order.
KeepsPromise == Promise!Spec

=============================================================================
