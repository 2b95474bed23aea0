---------------------------- MODULE MCKYCBackend -----------------------------
(* Instances of the backend for TLC. *)
EXTENDS KYCBackend, TLC

\* Wallets, and orders, are interchangeable: no definition names one of them.
InstanceSymmetry == Permutations(Wallets) \cup Permutations(Orders)

=============================================================================
