-------------------------- MODULE CredentialManager --------------------------
(***************************************************************************)
(* The CredentialManager smart contract and the credential asset it        *)
(* creates: an Algorand standard asset, frozen by default, whose whole     *)
(* supply starts with the contract.  Issuing thaws the wallet's holding,   *)
(* moves one unit and freezes it again in one atomic call; revoking claws  *)
(* one unit back.  A wallet opts in to the asset and may close its holding *)
(* out to the creator, frozen or not: that the ledger decides, not the     *)
(* contract.                                                               *)
(***************************************************************************)
EXTENDS Integers, Functions, LedgerConstants

CONSTANTS
  Total,      \* the asset's supply (1_000_000_000 in the code)
  MaxIssued,  \* bound of the model: credentials issued
  NotIn       \* "this account has not opted in"

ASSUME TotalAssumption == Total \in Nat
ASSUME NotInIsNoAmount == NotIn \notin Nat

VARIABLES
  issuer,
  asa_created,    \* credential_asa_id # 0
  total_issued,
  total_revoked,
  reserve,        \* units the contract's own account holds
  holding,        \* per wallet: units held, or NotIn
  frozen,         \* per wallet: is its holding frozen?
  closed_out      \* units wallets sent back by closing their holding

vars == <<issuer, asa_created, total_issued, total_revoked, reserve, holding,
          frozen, closed_out>>

TypeOK ==
  /\ issuer \in Accounts
  /\ asa_created \in BOOLEAN
  /\ total_issued \in Nat
  /\ total_revoked \in Nat
  /\ reserve \in Nat
  /\ holding \in [Wallets -> Nat \cup {NotIn}]
  /\ frozen \in [Wallets -> BOOLEAN]
  /\ closed_out \in Nat

\* create()
Init ==
  /\ issuer \in Accounts
  /\ asa_created = FALSE
  /\ total_issued = 0
  /\ total_revoked = 0
  /\ reserve = 0
  /\ holding = [w \in Wallets |-> NotIn]
  /\ frozen = [w \in Wallets |-> FALSE]
  /\ closed_out = 0

-----------------------------------------------------------------------------
\* Mutated forms of definitions below: the bugs the properties must catch.
FrozenAfterIssue_Thawed(w) == [frozen EXCEPT ![w] = FALSE]
Revoked_Uncounted(t) == t

-----------------------------------------------------------------------------
OptedIn(w) == asa_created /\ holding[w] # NotIn

initialize_asa(sender) ==
  /\ sender = issuer
  /\ ~asa_created
  /\ asa_created' = TRUE
  /\ reserve' = Total
  /\ UNCHANGED <<issuer, total_issued, total_revoked, holding, frozen, closed_out>>

\* The last of the three inner transactions; the first one thaws.
FrozenAfterIssue(w) == [frozen EXCEPT ![w] = TRUE]

\* The freeze transactions fail for an account that has not opted in, the
\* transfer when the supply is used up.  The nullifier is only a note.
issue_credential(sender, w) ==
  /\ total_issued < MaxIssued
  /\ sender = issuer
  /\ OptedIn(w)
  /\ reserve > 0
  /\ reserve' = reserve - 1
  /\ holding' = [holding EXCEPT ![w] = @ + 1]
  /\ frozen' = FrozenAfterIssue(w)
  /\ total_issued' = total_issued + 1
  /\ UNCHANGED <<issuer, asa_created, total_revoked, closed_out>>

ClawedBack(w) == reserve + 1

Revoked(t) == t + 1

\* A clawback moves a frozen unit, and fails when the wallet holds none.
revoke_credential(sender, w) ==
  /\ sender = issuer
  /\ OptedIn(w)
  /\ holding[w] > 0
  /\ reserve' = ClawedBack(w)
  /\ holding' = [holding EXCEPT ![w] = @ - 1]
  /\ total_revoked' = Revoked(total_revoked)
  /\ UNCHANGED <<issuer, asa_created, total_issued, frozen, closed_out>>

update_issuer(sender, new) ==
  /\ sender = issuer
  /\ issuer' = new
  /\ UNCHANGED <<asa_created, total_issued, total_revoked, reserve, holding,
                 frozen, closed_out>>

\* The ledger: a wallet opts in, with its holding frozen from the start.
opt_in(w) ==
  /\ asa_created
  /\ holding[w] = NotIn
  /\ holding' = [holding EXCEPT ![w] = 0]
  /\ frozen' = [frozen EXCEPT ![w] = TRUE]
  /\ UNCHANGED <<issuer, asa_created, total_issued, total_revoked, reserve, closed_out>>

\* The ledger: a wallet gives its whole holding back to the creator.
close_out(w) ==
  /\ OptedIn(w)
  /\ reserve' = reserve + holding[w]
  /\ closed_out' = closed_out + holding[w]
  /\ holding' = [holding EXCEPT ![w] = NotIn]
  /\ frozen' = [frozen EXCEPT ![w] = FALSE]
  /\ UNCHANGED <<issuer, asa_created, total_issued, total_revoked>>

\* The ledger: a payment between wallets needs both holdings thawed.
Payable(v, w) ==
  /\ OptedIn(v) /\ OptedIn(w)
  /\ holding[v] > 0
  /\ ~frozen[v] /\ ~frozen[w]

Next ==
  \/ \E sender \in Accounts :
       \/ initialize_asa(sender)
       \/ \E w \in Wallets : issue_credential(sender, w)
       \/ \E w \in Wallets : revoke_credential(sender, w)
       \/ \E new \in Accounts : update_issuer(sender, new)
  \/ \E w \in Wallets : opt_in(w)
  \/ \E w \in Wallets : close_out(w)

Spec == Init /\ [][Next]_vars

-----------------------------------------------------------------------------
Units(w) == IF holding[w] = NotIn THEN 0 ELSE holding[w]

Outstanding == FoldFunction(+, 0, [w \in Wallets |-> Units(w)])

\* The two counters tell how many credentials are out, but for those that
\* wallets gave back by closing their holding, which no counter records.
CountersExplainCredentials == total_issued - total_revoked = Outstanding + closed_out

\* "Non-transferable": between calls a wallet cannot pass its credential on.
NonTransferable == \A v, w \in Wallets : ~Payable(v, w)

=============================================================================
