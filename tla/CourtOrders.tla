----------------------------- MODULE CourtOrders -----------------------------
(***************************************************************************)
(* The court order service of the backend: an order to reveal and revoke   *)
(* the identity behind a nullifier collects custodian votes until enough   *)
(* of them approve (the issuer key is then rebuilt from their Shamir       *)
(* shares and the identity decrypted), too many reject, or it expires.     *)
(*                                                                         *)
(* Each backend handler runs to completion without yielding, so a call is  *)
(* one step.  An order whose time is up stays "pending" in the store until *)
(* the next call that goes through get_order writes "expired".             *)
(***************************************************************************)
EXTENDS Integers, FiniteSets

CONSTANTS
  Orders,            \* order ids create_court_order can draw
  Custodians,        \* custodian ids (wallet addresses or names) that vote
  Nums,              \* custodian numbers VoteRequest admits (1..5)
  ShareHolders,      \* numbers init_shamir_shares was given a share for
  Nullifiers,        \* nullifier strings orders and blobs are keyed by
  Blobs,             \* encrypted identities
  Garbled,           \* those among them that no key decrypts
  TOTAL_CUSTODIANS,  \* 5 in the code
  THRESHOLD,         \* 3 in the code
  TTL,               \* lifetime of an order (48 hours)
  MaxTime,           \* bound of the model: the clock stops here
  None, Note, Err    \* no dict; the "no blob" note; the {"error"} dict

ASSUME ThresholdAssumption ==
  /\ TOTAL_CUSTODIANS \in Nat
  /\ THRESHOLD \in 1 .. TOTAL_CUSTODIANS
ASSUME TimeAssumption == TTL \in Nat /\ MaxTime \in Nat
ASSUME OutcomesDiffer == {None, Note, Err} \cap Blobs = {} /\ None \notin {Note, Err}

VARIABLES
  status,              \* per order: "none" before creation, then CourtOrderStatus
  nullifier_hex,       \* per order: the nullifier to revoke
  encrypted_blob,      \* per order: the blob given at creation, or None
  expires_at,          \* per order
  votes,               \* per order: the votes counted so far
  decrypted_identity,  \* per order: None, Note, Err or the decrypted blob
  identity_blobs,      \* the ECIES service's store: nullifier -> blob or None
  now                  \* time.time()

vars == <<status, nullifier_hex, encrypted_blob, expires_at, votes,
          decrypted_identity, identity_blobs, now>>

Statuses == {"none", "pending", "approved", "rejected", "executed", "expired"}

Votes == [custodian_id : Custodians, custodian_num : Nums, approved : BOOLEAN]

TypeOK ==
  /\ status \in [Orders -> Statuses]
  /\ nullifier_hex \in [Orders -> Nullifiers \cup {None}]
  /\ encrypted_blob \in [Orders -> Blobs \cup {None}]
  /\ expires_at \in [Orders -> Nat]
  /\ votes \in [Orders -> SUBSET Votes]
  /\ decrypted_identity \in [Orders -> Blobs \cup {None, Note, Err}]
  /\ identity_blobs \in [Nullifiers -> Blobs \cup {None}]
  /\ now \in Nat

Init ==
  /\ status = [o \in Orders |-> "none"]
  /\ nullifier_hex = [o \in Orders |-> None]
  /\ encrypted_blob = [o \in Orders |-> None]
  /\ expires_at = [o \in Orders |-> 0]
  /\ votes = [o \in Orders |-> {}]
  /\ decrypted_identity = [o \in Orders |-> None]
  /\ identity_blobs = [n \in Nullifiers |-> None]
  /\ now = 0

-----------------------------------------------------------------------------
\* Mutated forms of definitions below: the bugs the properties must catch.
Refreshed_Never(o) == status[o]
Refreshed_Misspelt(o) ==
  IF status[o] = "pending" /\ now > expires_at[o] THEN "timeout" ELSE status[o]
HasVoted_Unchecked(o, id) == FALSE
Decision_RejectEarly(yes, no) ==
  CASE yes >= THRESHOLD -> "approved"
    [] yes < THRESHOLD /\ no >= TOTAL_CUSTODIANS - THRESHOLD -> "rejected"
    [] OTHER -> "pending"
Cleared_Kept(o) == decrypted_identity

-----------------------------------------------------------------------------
Known(o) == status[o] # "none"

Approvals(cast) == {v \in cast : v.approved}
Rejections(cast) == {v \in cast : ~v.approved}

\* get_order: the status a caller sees, and what it writes back.
Refreshed(o) ==
  IF status[o] = "pending" /\ now > expires_at[o] THEN "expired" ELSE status[o]

HasVoted(o, id) == \E v \in votes[o] : v.custodian_id = id

\* The thresholds of cast_vote, tested in this order.
Decision(yes, no) ==
  CASE yes >= THRESHOLD -> "approved"
    [] yes < THRESHOLD /\ no > TOTAL_CUSTODIANS - THRESHOLD -> "rejected"
    [] OTHER -> "pending"

\* Lagrange interpolation gives the key back from THRESHOLD distinct share
\* indices.  A repeated index makes denominators zero and yields another key.
RightKey(nums) == Cardinality(nums) >= THRESHOLD

\* The order's own blob, else the one stored at registration.
BlobFor(o) ==
  IF encrypted_blob[o] # None THEN encrypted_blob[o]
  ELSE IF nullifier_hex[o] \in Nullifiers THEN identity_blobs[nullifier_hex[o]]
  ELSE None

\* What _try_reconstruct_and_decrypt leaves in decrypted_identity, given the
\* approving votes.  It takes the first THRESHOLD of them, which are all of
\* them: the order stops being pending with its THRESHOLD-th approval.
Disclosure(o, approving) ==
  LET nums == {v.custodian_num : v \in approving}
      blob == BlobFor(o)
  IN  CASE ~(nums \subseteq ShareHolders) -> None
        [] nums \subseteq ShareHolders /\ blob = None -> Note
        [] /\ nums \subseteq ShareHolders
           /\ blob # None
           /\ RightKey(nums) /\ blob \notin Garbled -> blob
        [] OTHER -> Err

-----------------------------------------------------------------------------
\* POST /court-order: a fresh id, an expiry, no votes.  The guard on the clock
\* is a bound of the model: every order can live out its time before MaxTime.
create_court_order(o, n, b) ==
  /\ ~Known(o)
  /\ now + TTL < MaxTime
  /\ status' = [status EXCEPT ![o] = "pending"]
  /\ nullifier_hex' = [nullifier_hex EXCEPT ![o] = n]
  /\ encrypted_blob' = [encrypted_blob EXCEPT ![o] = b]
  /\ expires_at' = [expires_at EXCEPT ![o] = now + TTL]
  /\ UNCHANGED <<votes, decrypted_identity, identity_blobs, now>>

\* The write get_order makes when an order's time is up.
Touch(o) == status' = [status EXCEPT ![o] = Refreshed(o)]

\* GET /court-order/{id}: refreshes the order and returns its fields, with the
\* identity as long as there is one.
get_court_order(o) ==
  /\ Known(o)
  /\ Touch(o)
  /\ UNCHANGED <<nullifier_hex, encrypted_blob, expires_at, votes,
                 decrypted_identity, identity_blobs, now>>

\* cast_vote on an order that still takes votes, by an id that has not voted.
\* The number is not checked: two ids may vote with the same number.
RecordVote(o, id, num, approved) ==
  /\ Known(o)
  /\ Refreshed(o) = "pending"
  /\ ~HasVoted(o, id)
  /\ LET cast == votes[o] \cup {[custodian_id |-> id, custodian_num |-> num,
                                 approved |-> approved]}
         decision == Decision(Cardinality(Approvals(cast)),
                              Cardinality(Rejections(cast)))
     IN  /\ votes' = [votes EXCEPT ![o] = cast]
         /\ status' = [status EXCEPT ![o] = decision]
         /\ decrypted_identity' =
              [decrypted_identity EXCEPT
                 ![o] = IF decision = "approved"
                        THEN Disclosure(o, Approvals(cast)) ELSE @]
  /\ UNCHANGED <<nullifier_hex, encrypted_blob, expires_at,
                 identity_blobs, now>>

\* cast_vote raising ValueError: nothing is recorded, but the refresh stands.
RefuseVote(o, id) ==
  /\ Known(o)
  /\ Refreshed(o) # "pending" \/ HasVoted(o, id)
  /\ Touch(o)
  /\ UNCHANGED <<nullifier_hex, encrypted_blob, expires_at, votes,
                 decrypted_identity, identity_blobs, now>>

Cleared(o) == [decrypted_identity EXCEPT ![o] = None]

\* execute_revocation: called once the nullifier is invalidated on chain.  It
\* does not look at the status itself.
execute_revocation(o) ==
  /\ Known(o)
  /\ status' = [status EXCEPT ![o] = "executed"]
  /\ decrypted_identity' = Cleared(o)
  /\ UNCHANGED <<nullifier_hex, encrypted_blob, expires_at, votes,
                 identity_blobs, now>>

\* POST /court-order/{id}/execute whose invalidation is confirmed.
execute_court_order(o) ==
  /\ Refreshed(o) = "approved"
  /\ execute_revocation(o)

\* store_identity_blob, called by the registration handler.
store_identity_blob(n, b) ==
  /\ identity_blobs' = [identity_blobs EXCEPT ![n] = b]
  /\ UNCHANGED <<status, nullifier_hex, encrypted_blob, expires_at, votes,
                 decrypted_identity, now>>

Tick ==
  /\ now < MaxTime
  /\ now' = now + 1
  /\ UNCHANGED <<status, nullifier_hex, encrypted_blob, expires_at, votes,
                 decrypted_identity, identity_blobs>>

OrderStep(o) ==
  \/ \E n \in Nullifiers, b \in Blobs \cup {None} : create_court_order(o, n, b)
  \/ get_court_order(o)
  \/ \E id \in Custodians, num \in Nums, approved \in BOOLEAN :
       RecordVote(o, id, num, approved)
  \/ \E id \in Custodians : RefuseVote(o, id)
  \/ execute_court_order(o)

Next ==
  \/ \E o \in Orders : OrderStep(o)
  \/ \E n \in Nullifiers, b \in Blobs : store_identity_blob(n, b)
  \/ Tick

Spec == Init /\ [][Next]_vars

-----------------------------------------------------------------------------
Ayes(o) == Cardinality(Approvals(votes[o]))
Noes(o) == Cardinality(Rejections(votes[o]))

\* The votes an order may hold in each status.
TallyFits(o) ==
  /\ status[o] = "none" => votes[o] = {}
  /\ status[o] \in {"pending", "expired"} =>
       Ayes(o) < THRESHOLD /\ Noes(o) <= TOTAL_CUSTODIANS - THRESHOLD
  /\ status[o] \in {"approved", "executed"} =>
       Ayes(o) = THRESHOLD /\ Noes(o) <= TOTAL_CUSTODIANS - THRESHOLD
  /\ status[o] = "rejected" =>
       Ayes(o) < THRESHOLD /\ Noes(o) = TOTAL_CUSTODIANS - THRESHOLD + 1

\* An order is decided by the votes it holds, and by exactly as many as the
\* thresholds ask for: no vote is counted after the decision, an approved
\* order was never rejectable, and a pending or expired one was undecided.
DecidedByThreshold == \A o \in Orders : TallyFits(o)

\* No custodian id is counted twice on an order, for or against.
OneVotePerId ==
  \A o \in Orders : \A u, v \in votes[o] :
    u.custodian_id = v.custodian_id => u = v

\* Decrypted data is in memory only between approval and execution: a
\* rejected, expired or executed order holds none.
IdentityOnlyWhileApproved ==
  \A o \in Orders : decrypted_identity[o] # None => status[o] = "approved"

\* A vote is recorded only while the order's time is running, although the
\* stored status can still read "pending" afterwards.
NoLateVote ==
  [][\A o \in Orders : votes'[o] # votes[o] => now <= expires_at[o]]_vars

-----------------------------------------------------------------------------
\* What the code's own words say and the code does not do.

\* "On 3+ approvals, automatically reconstructs key and decrypts identity":
\* an approved order with a readable blob in hand shows the identity.
ApprovalDecrypts ==
  \A o \in Orders :
    status[o] = "approved" => decrypted_identity[o] # Err

=============================================================================
