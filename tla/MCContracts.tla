----------------------------- MODULE MCContracts -----------------------------
(***************************************************************************)
(* The four smart contracts, for TLC.  They never call each other and      *)
(* share no state, so their joint behaviours say nothing that the          *)
(* behaviours of each one do not: a behaviour here runs one of them, named *)
(* by the variable called, and leaves the other three as deployed.         *)
(***************************************************************************)
EXTENDS CredentialManager

CONSTANTS Roots, MaxUpdates, MaxRound

VARIABLES
  called,                                      \* the contract this behaviour runs
  total_registered, nullifiers,                \* NullifierRegistry
  total_blobs, blobs,                          \* KYCBoxStorage
  smt_root, last_updated_round, update_count,  \* SMTRegistry
  round

NR == INSTANCE NullifierRegistry
BS == INSTANCE KYCBoxStorage
SR == INSTANCE SMTRegistry

asaVars == <<asa_created, total_issued, total_revoked, reserve, holding, frozen, closed_out>>
registryVars == <<total_registered, nullifiers>>
blobVars == <<total_blobs, blobs>>
rootVars == <<smt_root, last_updated_round, update_count, round>>

MCInit ==
  /\ called \in {"CredentialManager", "NullifierRegistry", "KYCBoxStorage", "SMTRegistry"}
  /\ Init /\ NR!Init /\ BS!Init /\ SR!Init

CallCredentialManager ==
  /\ called = "CredentialManager"
  /\ Next
  /\ UNCHANGED <<called, registryVars, blobVars, rootVars>>

CallNullifierRegistry ==
  /\ called = "NullifierRegistry"
  /\ NR!Next
  /\ UNCHANGED <<called, asaVars, blobVars, rootVars>>

CallKYCBoxStorage ==
  /\ called = "KYCBoxStorage"
  /\ BS!Next
  /\ UNCHANGED <<called, asaVars, registryVars, rootVars>>

CallSMTRegistry ==
  /\ called = "SMTRegistry"
  /\ SR!Next
  /\ UNCHANGED <<called, asaVars, registryVars, blobVars>>

MCNext ==
  \/ CallCredentialManager
  \/ CallNullifierRegistry
  \/ CallKYCBoxStorage
  \/ CallSMTRegistry

MCSpec == MCInit /\ [][MCNext]_<<vars, called, registryVars, blobVars, rootVars>>

-----------------------------------------------------------------------------
\* NullifierRegistry and KYCBoxStorage: total_registered and total_blobs are
\* exactly the numbers of their boxes.
TotalMatchesBoxes == NR!TotalMatchesBoxes /\ BS!TotalMatchesBlobs

=============================================================================
