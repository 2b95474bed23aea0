---------------------------- MODULE MCIdentityKeys ----------------------------
(* Instances of the issuer key's life for TLC. *)
EXTENDS IdentityKeys, TLC

\* Keys, and persons, are interchangeable: no definition names one of them.
InstanceSymmetry == Permutations(Keys) \cup Permutations(Persons)
=============================================================================
