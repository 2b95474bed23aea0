--------------------------- MODULE LedgerConstants ---------------------------
(***************************************************************************)
(* What the smart contracts keep in their boxes and who calls them: the    *)
(* parameters the contract modules share.                                  *)
(***************************************************************************)
EXTENDS FiniteSets

CONSTANTS
  Nullifiers,  \* box keys (32-byte nullifiers)
  Wallets,     \* addresses a nullifier can be bound to
  Blobs,       \* ciphertexts; an empty one is a blob like any other
  Accounts,    \* accounts that may hold the issuer role
  Absent       \* "there is no such box"

ASSUME NullifiersFinite == IsFiniteSet(Nullifiers)
ASSUME WalletsFinite == IsFiniteSet(Wallets)
ASSUME AbsentIsNoWallet == Absent \notin Wallets
ASSUME AbsentIsNoBlob == Absent \notin Blobs

=============================================================================
