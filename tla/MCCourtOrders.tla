---------------------------- MODULE MCCourtOrders ----------------------------
(* Instances of the court order service for TLC. *)
EXTENDS CourtOrdersRefinement, TLC

\* Custodians are interchangeable: no definition names one of them.
CustodianSymmetry == Permutations(Custodians)

============================================================================
