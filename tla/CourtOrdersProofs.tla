-------------------------- MODULE CourtOrdersProofs --------------------------
(***************************************************************************)
(* TLAPS proofs about the court order service, for every number of orders, *)
(* custodians, shares and blobs, and every threshold.                      *)
(*                                                                         *)
(* The tally of an order is only a number if its votes are finitely many,  *)
(* and a vote only raises it if it is new, which is what OneVotePerId's    *)
(* guard gives; a non-empty decrypted_identity must be tied to the status  *)
(* for the disclosure argument.  IInv collects exactly these facts.        *)
(***************************************************************************)
EXTENDS CourtOrdersRefinement, FiniteSetTheorems, TLAPS

VotesFinite == \A o \in Orders : IsFiniteSet(votes[o])

IInv ==
  /\ TypeOK
  /\ VotesFinite
  /\ DecidedByThreshold
  /\ OneVotePerId
  /\ IdentityOnlyWhileApproved

-----------------------------------------------------------------------------
(* Counting votes. *)

LEMMA TallyIsNatural ==
  ASSUME NEW S, IsFiniteSet(S)
  PROVE  /\ IsFiniteSet(Approvals(S)) /\ Cardinality(Approvals(S)) \in Nat
         /\ IsFiniteSet(Rejections(S)) /\ Cardinality(Rejections(S)) \in Nat
<1>1. Approvals(S) \in SUBSET S /\ Rejections(S) \in SUBSET S
  BY DEF Approvals, Rejections
<1>2. IsFiniteSet(Approvals(S)) /\ IsFiniteSet(Rejections(S))
  BY <1>1, FS_Subset
<1>3. QED
  BY <1>2, FS_CardinalityType

LEMMA NoVotesTally ==
  Cardinality(Approvals({})) = 0 /\ Cardinality(Rejections({})) = 0
<1>1. Approvals({}) = {} /\ Rejections({}) = {}
  BY DEF Approvals, Rejections
<1>2. QED
  BY <1>1, FS_EmptySet

\* A new vote raises one of the two counts by one and leaves the other alone.
LEMMA TallyOfNewVote ==
  ASSUME NEW S, IsFiniteSet(S), NEW v, v.approved \in BOOLEAN, v \notin S
  PROVE  /\ IsFiniteSet(S \cup {v})
         /\ v.approved =>
              /\ Cardinality(Approvals(S \cup {v})) = Cardinality(Approvals(S)) + 1
              /\ Rejections(S \cup {v}) = Rejections(S)
         /\ ~v.approved =>
              /\ Approvals(S \cup {v}) = Approvals(S)
              /\ Cardinality(Rejections(S \cup {v})) = Cardinality(Rejections(S)) + 1
<1>1. IsFiniteSet(S \cup {v})
  BY FS_AddElement
<1>2. ASSUME v.approved
      PROVE  /\ Cardinality(Approvals(S \cup {v})) = Cardinality(Approvals(S)) + 1
             /\ Rejections(S \cup {v}) = Rejections(S)
  <2>1. Approvals(S \cup {v}) = Approvals(S) \cup {v} /\ v \notin Approvals(S)
    BY <1>2 DEF Approvals
  <2>2. Rejections(S \cup {v}) = Rejections(S)
    BY <1>2 DEF Rejections
  <2>3. QED
    BY <2>1, <2>2, TallyIsNatural, FS_AddElement
<1>3. ASSUME ~v.approved
      PROVE  /\ Approvals(S \cup {v}) = Approvals(S)
             /\ Cardinality(Rejections(S \cup {v})) = Cardinality(Rejections(S)) + 1
  <2>1. Rejections(S \cup {v}) = Rejections(S) \cup {v} /\ v \notin Rejections(S)
    BY <1>3 DEF Rejections
  <2>2. Approvals(S \cup {v}) = Approvals(S)
    BY <1>3 DEF Approvals
  <2>3. QED
    BY <2>1, <2>2, TallyIsNatural, FS_AddElement
<1>4. QED
  BY <1>1, <1>2, <1>3

-----------------------------------------------------------------------------
(* What a recorded vote does, order by order. *)

LEMMA DisclosureType ==
  ASSUME TypeOK, NEW o \in Orders, NEW A
  PROVE  Disclosure(o, A) \in Blobs \cup {None, Note, Err}
<1>1. BlobFor(o) \in Blobs \cup {None}
  BY DEF TypeOK, BlobFor
<1>2. QED
  BY <1>1 DEF Disclosure

LEMMA DecisionCases ==
  ASSUME NEW yes \in Nat, NEW no \in Nat
  PROVE  /\ Decision(yes, no) \in {"pending", "approved", "rejected"}
         /\ Decision(yes, no) = "approved" <=> yes >= THRESHOLD
         /\ Decision(yes, no) = "rejected" <=>
              yes < THRESHOLD /\ no > TOTAL_CUSTODIANS - THRESHOLD
BY ThresholdAssumption DEF Decision

\* The effect of counting `vote' on order o: `cast' are its votes afterwards,
\* `yes' and `no' its tallies.
Counted(o, vote, cast, yes, no) ==
  /\ status[o] = "pending"
  /\ decrypted_identity[o] = None
  /\ cast = votes[o] \cup {vote}
  /\ yes = Cardinality(Approvals(cast))
  /\ no = Cardinality(Rejections(cast))
  /\ cast \in SUBSET Votes
  /\ IsFiniteSet(cast)
  /\ votes' = [votes EXCEPT ![o] = cast]
  /\ yes \in Nat /\ no \in Nat /\ Ayes(o) \in Nat /\ Noes(o) \in Nat
  /\ \/ yes = Ayes(o) + 1 /\ no = Noes(o)
     \/ yes = Ayes(o) /\ no = Noes(o) + 1
  /\ status' = [status EXCEPT ![o] = Decision(yes, no)]
  /\ decrypted_identity' =
       [decrypted_identity EXCEPT
          ![o] = IF Decision(yes, no) = "approved"
                 THEN Disclosure(o, Approvals(cast)) ELSE @]

LEMMA VoteEffect ==
  ASSUME IInv, NEW o \in Orders, NEW id \in Custodians, NEW num \in Nums,
         NEW approved \in BOOLEAN, RecordVote(o, id, num, approved)
  PROVE  \E vote, cast, yes, no :
           vote.custodian_id = id /\ Counted(o, vote, cast, yes, no)
<1>a. PICK vote : vote = [custodian_id |-> id, custodian_num |-> num,
                          approved |-> approved]
  OBVIOUS
<1>b. PICK cast : cast = votes[o] \cup {vote}
  OBVIOUS
<1>c. PICK yes, no : yes = Cardinality(Approvals(cast)) /\ no = Cardinality(Rejections(cast))
  OBVIOUS
<1>1. status[o] = "pending"
  BY DEF RecordVote, Refreshed
<1>2. decrypted_identity[o] = None
  BY <1>1 DEF IInv, IdentityOnlyWhileApproved
<1>3. vote \in Votes /\ vote.approved = approved /\ vote \notin votes[o]
  BY <1>a DEF Votes, RecordVote, HasVoted
<1>4. cast \in SUBSET Votes
  BY <1>b, <1>3 DEF IInv, TypeOK
<1>5. IsFiniteSet(votes[o])
  BY DEF IInv, VotesFinite
<1>6. IsFiniteSet(cast)
  BY <1>b, <1>5, FS_AddElement
<1>7. \/ yes = Ayes(o) + 1 /\ no = Noes(o)
      \/ yes = Ayes(o) /\ no = Noes(o) + 1
  BY <1>b, <1>c, <1>3, <1>5, TallyOfNewVote DEF Ayes, Noes
<1>8. yes \in Nat /\ no \in Nat /\ Ayes(o) \in Nat /\ Noes(o) \in Nat
  BY <1>c, <1>5, <1>6, TallyIsNatural DEF Ayes, Noes
<1>9. /\ votes' = [votes EXCEPT ![o] = cast]
      /\ status' = [status EXCEPT ![o] = Decision(yes, no)]
      /\ decrypted_identity' =
           [decrypted_identity EXCEPT
              ![o] = IF Decision(yes, no) = "approved"
                     THEN Disclosure(o, Approvals(cast)) ELSE @]
  BY <1>a, <1>b, <1>c DEF RecordVote
<1>10. Counted(o, vote, cast, yes, no)
  BY <1>b, <1>c, <1>1, <1>2, <1>4, <1>6, <1>7, <1>8, <1>9 DEF Counted
<1>11. QED
  BY <1>a, <1>10

-----------------------------------------------------------------------------
(* Every operation keeps the invariant. *)

\* Recording a vote: the only operation that moves tallies and discloses.
LEMMA RecordVoteKeepsIInv ==
  ASSUME IInv, NEW o \in Orders, NEW id \in Custodians, NEW num \in Nums,
         NEW approved \in BOOLEAN, RecordVote(o, id, num, approved)
  PROVE  IInv'
<1>a. PICK vote, cast, yes, no :
        vote.custodian_id = id /\ Counted(o, vote, cast, yes, no)
  BY VoteEffect
<1>b. PICK decision : decision = Decision(yes, no)
  OBVIOUS
<1>1. /\ status[o] = "pending" /\ decrypted_identity[o] = None
      /\ cast = votes[o] \cup {vote}
      /\ yes = Cardinality(Approvals(cast)) /\ no = Cardinality(Rejections(cast))
      /\ cast \in SUBSET Votes /\ IsFiniteSet(cast)
      /\ votes' = [votes EXCEPT ![o] = cast]
      /\ yes \in Nat /\ no \in Nat /\ Ayes(o) \in Nat /\ Noes(o) \in Nat
      /\ \/ yes = Ayes(o) + 1 /\ no = Noes(o)
         \/ yes = Ayes(o) /\ no = Noes(o) + 1
      /\ status' = [status EXCEPT ![o] = decision]
      /\ decrypted_identity' =
           [decrypted_identity EXCEPT
              ![o] = IF decision = "approved"
                     THEN Disclosure(o, Approvals(cast)) ELSE @]
  BY <1>a, <1>b DEF Counted
<1>2. /\ decision \in {"pending", "approved", "rejected"}
      /\ decision = "approved" <=> yes >= THRESHOLD
      /\ decision = "rejected" <=> yes < THRESHOLD /\ no > TOTAL_CUSTODIANS - THRESHOLD
  BY <1>1, <1>b, DecisionCases
<1>3. Disclosure(o, Approvals(cast)) \in Blobs \cup {None, Note, Err}
  BY DisclosureType DEF IInv
<1>4. /\ status'[o] = decision
      /\ votes'[o] = cast
      /\ decrypted_identity'[o] = IF decision = "approved"
                                  THEN Disclosure(o, Approvals(cast)) ELSE None
  BY <1>1 DEF IInv, TypeOK
<1>5. \A p \in Orders : p # o => /\ votes'[p] = votes[p]
                                /\ status'[p] = status[p]
                                /\ decrypted_identity'[p] = decrypted_identity[p]
  BY <1>1 DEF IInv, TypeOK
<1>6. TypeOK'
  <2>1. status' \in [Orders -> Statuses]
    BY <1>1, <1>2 DEF IInv, TypeOK, Statuses
  <2>2. votes' \in [Orders -> SUBSET Votes]
    BY <1>1 DEF IInv, TypeOK
  <2>3. decrypted_identity' \in [Orders -> Blobs \cup {None, Note, Err}]
    BY <1>1, <1>3 DEF IInv, TypeOK
  <2>4. QED
    BY <2>1, <2>2, <2>3 DEF IInv, TypeOK, RecordVote
<1>7. VotesFinite'
  BY <1>1, <1>5 DEF IInv, VotesFinite
<1>8. DecidedByThreshold'
  <2>1. SUFFICES ASSUME NEW p \in Orders PROVE TallyFits(p)'
    BY DEF DecidedByThreshold
  <2>2. CASE p # o
    BY <1>5, <2>2 DEF IInv, DecidedByThreshold, TallyFits, Ayes, Noes,
                      Approvals, Rejections
  <2>3. CASE p = o
    <3>1. Ayes(o) < THRESHOLD /\ Noes(o) <= TOTAL_CUSTODIANS - THRESHOLD
      BY <1>1 DEF IInv, DecidedByThreshold, TallyFits
    <3>2. /\ decision = "approved" =>
               yes = THRESHOLD /\ no <= TOTAL_CUSTODIANS - THRESHOLD
          /\ decision = "rejected" =>
               yes < THRESHOLD /\ no = TOTAL_CUSTODIANS - THRESHOLD + 1
          /\ decision = "pending" =>
               yes < THRESHOLD /\ no <= TOTAL_CUSTODIANS - THRESHOLD
      BY <1>1, <1>2, <3>1, ThresholdAssumption
    <3>3. Ayes(o)' = yes /\ Noes(o)' = no
      BY <1>1, <1>4 DEF Ayes, Noes, Approvals, Rejections
    <3>4. QED
      BY <1>2, <1>4, <2>3, <3>2, <3>3 DEF TallyFits
  <2>4. QED
    BY <2>2, <2>3
<1>9. OneVotePerId'
  <2>1. SUFFICES ASSUME NEW p \in Orders, NEW u \in votes'[p], NEW v \in votes'[p],
                        u.custodian_id = v.custodian_id
                 PROVE  u = v
    BY DEF OneVotePerId
  <2>2. CASE p # o
    BY <1>5, <2>1, <2>2 DEF IInv, OneVotePerId
  <2>3. CASE p = o
    <3>1. vote.custodian_id = id
      BY <1>a
    <3>2. \A w \in votes[o] : w.custodian_id # id
      BY DEF RecordVote, HasVoted
    <3>3. QED
      BY <1>1, <1>4, <2>1, <2>3, <3>1, <3>2 DEF IInv, OneVotePerId
  <2>4. QED
    BY <2>2, <2>3
<1>10. IdentityOnlyWhileApproved'
  BY <1>4, <1>5 DEF IInv, IdentityOnlyWhileApproved
<1>11. QED
  BY <1>6, <1>7, <1>8, <1>9, <1>10 DEF IInv

\* Operations that leave votes and identities alone and may only let a
\* pending order expire: get_order's lazy expiry, wherever it is called from.
LEMMA TouchKeepsIInv ==
  ASSUME IInv, NEW o \in Orders, Touch(o), TypeOK',
         UNCHANGED <<votes, decrypted_identity>>
  PROVE  IInv'
<1>1. /\ \A p \in Orders : p # o => status'[p] = status[p]
      /\ status'[o] = Refreshed(o)
      /\ \/ Refreshed(o) = status[o]
         \/ status[o] = "pending" /\ Refreshed(o) = "expired"
  BY DEF IInv, TypeOK, Touch, Refreshed
<1>2. \A p \in Orders : Ayes(p)' = Ayes(p) /\ Noes(p)' = Noes(p)
  BY DEF Ayes, Noes, Approvals, Rejections
<1>3. DecidedByThreshold'
  BY <1>1, <1>2 DEF IInv, DecidedByThreshold, TallyFits
<1>4. IdentityOnlyWhileApproved'
  BY <1>1 DEF IInv, IdentityOnlyWhileApproved
<1>5. VotesFinite' /\ OneVotePerId'
  BY DEF IInv, VotesFinite, OneVotePerId
<1>6. QED
  BY <1>3, <1>4, <1>5 DEF IInv

LEMMA CreateKeepsIInv ==
  ASSUME IInv, NEW o \in Orders, NEW n \in Nullifiers, NEW b \in Blobs \cup {None},
         create_court_order(o, n, b)
  PROVE  IInv'
<1>1. TypeOK'
  BY TimeAssumption DEF IInv, TypeOK, create_court_order, Statuses
<1>2. /\ status[o] = "none" /\ status'[o] = "pending" /\ votes'[o] = {}
      /\ \A p \in Orders : p # o => status'[p] = status[p]
      /\ UNCHANGED <<votes, decrypted_identity>>
  BY DEF IInv, TypeOK, create_court_order, Known, DecidedByThreshold, TallyFits
<1>3. \A p \in Orders : Ayes(p)' = Ayes(p) /\ Noes(p)' = Noes(p)
  BY <1>2 DEF Ayes, Noes, Approvals, Rejections
<1>4. Ayes(o)' = 0 /\ Noes(o)' = 0
  BY <1>2, NoVotesTally DEF Ayes, Noes, Approvals, Rejections
<1>5. DecidedByThreshold'
  BY <1>2, <1>3, <1>4, ThresholdAssumption DEF IInv, DecidedByThreshold, TallyFits
<1>6. IdentityOnlyWhileApproved'
  BY <1>2 DEF IInv, IdentityOnlyWhileApproved
<1>7. VotesFinite' /\ OneVotePerId'
  BY <1>2 DEF IInv, VotesFinite, OneVotePerId
<1>8. QED
  BY <1>1, <1>5, <1>6, <1>7 DEF IInv

LEMMA ExecuteKeepsIInv ==
  ASSUME IInv, NEW o \in Orders, execute_court_order(o)
  PROVE  IInv'
<1>1. status[o] = "approved"
  BY DEF execute_court_order, Refreshed
<1>2. TypeOK'
  BY DEF IInv, TypeOK, execute_court_order, execute_revocation, Cleared, Statuses
<1>3. /\ status'[o] = "executed" /\ decrypted_identity'[o] = None
      /\ \A p \in Orders : p # o => /\ status'[p] = status[p]
                                   /\ decrypted_identity'[p] = decrypted_identity[p]
      /\ votes' = votes
  BY DEF IInv, TypeOK, execute_court_order, execute_revocation, Cleared
<1>4. \A p \in Orders : Ayes(p)' = Ayes(p) /\ Noes(p)' = Noes(p)
  BY <1>3 DEF Ayes, Noes, Approvals, Rejections
<1>5. DecidedByThreshold'
  BY <1>1, <1>3, <1>4 DEF IInv, DecidedByThreshold, TallyFits
<1>6. IdentityOnlyWhileApproved'
  BY <1>1, <1>3 DEF IInv, IdentityOnlyWhileApproved
<1>7. VotesFinite' /\ OneVotePerId'
  BY <1>3 DEF IInv, VotesFinite, OneVotePerId
<1>8. QED
  BY <1>2, <1>5, <1>6, <1>7 DEF IInv

LEMMA InitEstablishesIInv == Init => IInv
<1>1. SUFFICES ASSUME Init PROVE IInv
  OBVIOUS
<1>2. TypeOK
  BY <1>1 DEF Init, TypeOK, Statuses
<1>3. VotesFinite
  BY <1>1, FS_EmptySet DEF Init, VotesFinite
<1>4. DecidedByThreshold
  BY <1>1 DEF Init, DecidedByThreshold, TallyFits
<1>5. OneVotePerId /\ IdentityOnlyWhileApproved
  BY <1>1 DEF Init, OneVotePerId, IdentityOnlyWhileApproved
<1>6. QED
  BY <1>2, <1>3, <1>4, <1>5 DEF IInv

\* Steps that do not concern any order's status, votes or identity.
LEMMA AsideKeepsIInv ==
  ASSUME IInv, TypeOK', UNCHANGED <<status, votes, decrypted_identity>>
  PROVE  IInv'
BY DEF IInv, VotesFinite, DecidedByThreshold, TallyFits, Ayes, Noes, Approvals,
       Rejections, OneVotePerId, IdentityOnlyWhileApproved

LEMMA NextKeepsIInv == IInv /\ [Next]_vars => IInv'
<1>1. SUFFICES ASSUME IInv, [Next]_vars PROVE IInv'
  OBVIOUS
<1>2. CASE UNCHANGED vars
  <2>1. TypeOK'
    BY <1>1, <1>2 DEF vars, IInv, TypeOK
  <2>2. QED
    BY <1>1, <1>2, <2>1, AsideKeepsIInv DEF vars
<1>3. ASSUME NEW o \in Orders, OrderStep(o) PROVE IInv'
  <2>1. CASE \E n \in Nullifiers, b \in Blobs \cup {None} : create_court_order(o, n, b)
    BY <1>1, <2>1, CreateKeepsIInv
  <2>2. CASE get_court_order(o)
    <3>1. TypeOK'
      BY <1>1, <2>2, TimeAssumption
      DEF IInv, TypeOK, get_court_order, Touch, Refreshed, Statuses
    <3>2. QED
      BY <1>1, <2>2, <3>1, TouchKeepsIInv DEF get_court_order
  <2>3. CASE \E id \in Custodians, num \in Nums, approved \in BOOLEAN :
               RecordVote(o, id, num, approved)
    BY <1>1, <2>3, RecordVoteKeepsIInv
  <2>4. CASE \E id \in Custodians : RefuseVote(o, id)
    <3>1. TypeOK'
      BY <1>1, <2>4 DEF IInv, TypeOK, RefuseVote, Touch, Refreshed, Statuses
    <3>2. QED
      BY <1>1, <2>4, <3>1, TouchKeepsIInv DEF RefuseVote
  <2>5. CASE execute_court_order(o)
    BY <1>1, <2>5, ExecuteKeepsIInv
  <2>6. QED
    BY <1>3, <2>1, <2>2, <2>3, <2>4, <2>5 DEF OrderStep
<1>4. ASSUME NEW n \in Nullifiers, NEW b \in Blobs, store_identity_blob(n, b)
      PROVE  IInv'
  <2>1. TypeOK'
    BY <1>1, <1>4 DEF IInv, TypeOK, store_identity_blob
  <2>2. QED
    BY <1>1, <1>4, <2>1, AsideKeepsIInv DEF store_identity_blob
<1>5. CASE Tick
  <2>1. TypeOK'
    BY <1>1, <1>5 DEF IInv, TypeOK, Tick
  <2>2. QED
    BY <1>1, <1>5, <2>1, AsideKeepsIInv DEF Tick
<1>6. QED
  BY <1>1, <1>2, <1>3, <1>4, <1>5 DEF Next

LEMMA IInvAlways == Spec => []IInv
BY InitEstablishesIInv, NextKeepsIInv, PTL DEF Spec

-----------------------------------------------------------------------------
(* The results. *)

\* Type correctness of the order store.
THEOREM TypeCorrect == Spec => []TypeOK
<1>1. IInv => TypeOK
  BY DEF IInv
<1>2. QED
  BY <1>1, IInvAlways, PTL

\* Whatever the thresholds and the interleaving of votes, reads, expiries and
\* executions, cast_vote decides an order at its deciding vote and never again.
THEOREM ThresholdsDecide == Spec => []DecidedByThreshold
<1>1. IInv => DecidedByThreshold
  BY DEF IInv
<1>2. QED
  BY <1>1, IInvAlways, PTL

\* cast_vote counts a custodian id at most once per order.
THEOREM NobodyVotesTwice == Spec => []OneVotePerId
<1>1. IInv => OneVotePerId
  BY DEF IInv
<1>2. QED
  BY <1>1, IInvAlways, PTL

\* Decrypted data exists only between approval and execution: cast_vote decrypts
\* in the step that approves, execute_revocation clears in the step that closes.
THEOREM IdentityGuarded == Spec => []IdentityOnlyWhileApproved
<1>1. IInv => IdentityOnlyWhileApproved
  BY DEF IInv
<1>2. QED
  BY <1>1, IInvAlways, PTL

\* The refresh inside cast_vote comes before the vote is recorded, so a vote
\* finds its order pending by the clock and not by the stored status only.
THEOREM VotesAreInTime == Spec => NoLateVote
<1> DEFINE InTime == \A o \in Orders : votes'[o] # votes[o] => now <= expires_at[o]
<1>1. TypeOK /\ [Next]_vars => [InTime]_vars
  <2>1. SUFFICES ASSUME TypeOK, Next, NEW p \in Orders, votes'[p] # votes[p]
                 PROVE  now <= expires_at[p]
    OBVIOUS
  <2>2. PICK o \in Orders, id \in Custodians, num \in Nums, approved \in BOOLEAN :
          RecordVote(o, id, num, approved)
    BY <2>1 DEF Next, OrderStep, create_court_order, get_court_order, RefuseVote,
                execute_court_order, execute_revocation, store_identity_blob, Tick
  <2>3. o = p
    BY <2>1, <2>2 DEF RecordVote, TypeOK
  <2>4. ~(status[p] = "pending" /\ now > expires_at[p]) /\ status[p] = "pending"
    BY <2>2, <2>3 DEF RecordVote, Refreshed
  <2>5. QED
    BY <2>1, <2>4 DEF TypeOK
<1>2. QED
  BY <1>1, TypeCorrect, PTL DEF Spec, NoLateVote

-----------------------------------------------------------------------------
(* The service implements CourtOrderPromise. *)

\* The abstract state read off the order store.
AyeCount == [o \in Orders |-> Ayes(o)]
NoCount == [o \in Orders |-> Noes(o)]
Readable == [o \in Orders |-> decrypted_identity[o] \in Blobs]

LEMMA InitIsPromised == Init => Promise!Init
<1>1. SUFFICES ASSUME Init PROVE Promise!Init
  OBVIOUS
<1>2. \A o \in Orders : Approvals(votes[o]) = {} /\ Rejections(votes[o]) = {}
  BY <1>1 DEF Init, Approvals, Rejections
<1>3. \A o \in Orders : Ayes(o) = 0 /\ Noes(o) = 0
  BY <1>2, FS_EmptySet DEF Ayes, Noes
<1>4. [o \in Orders |-> decrypted_identity[o] \in Blobs] = [o \in Orders |-> FALSE]
  <2>1. \A o \in Orders : decrypted_identity[o] \notin Blobs
    BY <1>1, OutcomesDiffer DEF Init
  <2>2. \A o \in Orders : (decrypted_identity[o] \in Blobs) = FALSE
    BY <2>1
  <2>3. QED
    BY <2>2, Zenon
<1>5. /\ [o \in Orders |-> Ayes(o)] = [o \in Orders |-> 0]
      /\ [o \in Orders |-> Noes(o)] = [o \in Orders |-> 0]
  BY <1>3
<1>6. status = [o \in Orders |-> "none"]
  BY <1>1 DEF Init
<1>7. QED
  BY <1>4, <1>5, <1>6 DEF Promise!Init

\* A step that touches neither status, votes nor identities is invisible.
LEMMA AsideIsInvisible ==
  ASSUME UNCHANGED <<status, votes, decrypted_identity>>
  PROVE  UNCHANGED Promise!vars
BY DEF Promise!vars, Ayes, Noes, Approvals, Rejections

\* get_order's lazy expiry is the abstract Lapse, or changes nothing.
LEMMA TouchIsLapse ==
  ASSUME IInv, NEW o \in Orders, Touch(o),
         UNCHANGED <<votes, decrypted_identity>>
  PROVE  Promise!Lapse(o) \/ UNCHANGED Promise!vars
<1>1. UNCHANGED <<AyeCount, NoCount, Readable>>
  BY DEF AyeCount, NoCount, Readable, Ayes, Noes, Approvals, Rejections
<1>2. CASE Refreshed(o) = status[o]
  <2>1. status' = status
    BY <1>2 DEF Touch, IInv, TypeOK
  <2>2. QED
    BY <2>1, AsideIsInvisible
<1>3. CASE Refreshed(o) # status[o]
  <2>1. status[o] = "pending" /\ Refreshed(o) = "expired"
    BY <1>3 DEF Refreshed
  <2>2. QED
    BY <1>1, <2>1 DEF Touch, Promise!Lapse, AyeCount, NoCount, Readable
<1>4. QED
  BY <1>2, <1>3

\* A counted vote is an abstract vote for or against, and the deciding one
\* is the abstract approval or rejection.
LEMMA VoteIsPromised ==
  ASSUME IInv, NEW o \in Orders, NEW vote, NEW cast, NEW yes, NEW no,
         Counted(o, vote, cast, yes, no)
  PROVE  Promise!Aye(o) \/ Promise!Approve(o) \/ Promise!No(o) \/ Promise!Reject(o)
<1>1. /\ status[o] = "pending" /\ decrypted_identity[o] = None
      /\ yes \in Nat /\ no \in Nat /\ Ayes(o) \in Nat /\ Noes(o) \in Nat
      /\ \/ yes = Ayes(o) + 1 /\ no = Noes(o)
         \/ yes = Ayes(o) /\ no = Noes(o) + 1
      /\ status' = [status EXCEPT ![o] = Decision(yes, no)]
      /\ votes' = [votes EXCEPT ![o] = cast]
  BY DEF Counted
<1>2. votes'[o] = cast /\ \A p \in Orders : p # o => votes'[p] = votes[p]
  BY <1>1 DEF IInv, TypeOK
<1>3. AyeCount' = [AyeCount EXCEPT ![o] = yes]
  <2>1. Ayes(o)' = yes
    BY <1>2 DEF Counted, Ayes, Approvals
  <2>2. \A p \in Orders : p # o => Ayes(p)' = Ayes(p)
    BY <1>2 DEF Ayes, Approvals
  <2>3. QED
    BY <2>1, <2>2 DEF AyeCount
<1>4. NoCount' = [NoCount EXCEPT ![o] = no]
  <2>1. Noes(o)' = no
    BY <1>2 DEF Counted, Noes, Rejections
  <2>2. \A p \in Orders : p # o => Noes(p)' = Noes(p)
    BY <1>2 DEF Noes, Rejections
  <2>3. QED
    BY <2>1, <2>2 DEF NoCount
<1>5. Ayes(o) < THRESHOLD /\ Noes(o) <= TOTAL_CUSTODIANS - THRESHOLD
  BY <1>1 DEF IInv, DecidedByThreshold, TallyFits
<1>6. /\ Decision(yes, no) \in {"pending", "approved", "rejected"}
      /\ Decision(yes, no) = "approved" <=> yes >= THRESHOLD
      /\ Decision(yes, no) = "rejected" <=>
           yes < THRESHOLD /\ no > TOTAL_CUSTODIANS - THRESHOLD
  BY <1>1, DecisionCases
<1>7. AyeCount[o] = Ayes(o) /\ NoCount[o] = Noes(o)
  BY DEF AyeCount, NoCount
<1>8. CASE Decision(yes, no) = "approved"
  <2>1. yes = Ayes(o) + 1 /\ no = Noes(o) /\ yes = THRESHOLD
    BY <1>1, <1>5, <1>6, <1>8, ThresholdAssumption
  <2>2. NoCount' = NoCount
    BY <1>4, <1>7, <2>1 DEF NoCount
  <2>3. \E r \in BOOLEAN : Readable' = [Readable EXCEPT ![o] = r]
    <3>1. \A p \in Orders : p # o => decrypted_identity'[p] = decrypted_identity[p]
      BY DEF Counted, IInv, TypeOK
    <3>2. Readable' = [Readable EXCEPT ![o] = decrypted_identity'[o] \in Blobs]
      BY <3>1, Zenon DEF Readable
    <3>3. (decrypted_identity'[o] \in Blobs) \in BOOLEAN
      OBVIOUS
    <3>4. QED
      BY <3>2, <3>3, Zenon
  <2>4. Promise!Approve(o)
    BY <1>1, <1>3, <1>7, <1>8, <2>1, <2>2, <2>3
    DEF Promise!Approve, AyeCount, NoCount, Readable
  <2>5. QED
    BY <2>4
<1>9. CASE Decision(yes, no) # "approved"
  <2>1. Readable' = Readable
    BY <1>9 DEF Counted, IInv, TypeOK, Readable
  <2>2. CASE Decision(yes, no) = "rejected"
    <3>1. yes = Ayes(o) /\ no = Noes(o) + 1 /\ no = TOTAL_CUSTODIANS - THRESHOLD + 1
      BY <1>1, <1>5, <1>6, <2>2, ThresholdAssumption
    <3>2. AyeCount' = AyeCount
      BY <1>3, <1>7, <3>1 DEF AyeCount
    <3>3. Promise!Reject(o)
      BY <1>1, <1>4, <1>7, <2>1, <2>2, <3>1, <3>2
      DEF Promise!Reject, AyeCount, NoCount, Readable
    <3>4. QED
      BY <3>3
  <2>3. CASE Decision(yes, no) = "pending"
    <3>1. status' = status
      BY <1>1, <2>3 DEF IInv, TypeOK
    <3>2. CASE yes = Ayes(o) + 1 /\ no = Noes(o)
      <4>1. NoCount' = NoCount
        BY <1>4, <1>7, <3>2 DEF NoCount
      <4>2. yes < THRESHOLD
        BY <1>1, <1>6, <2>3, ThresholdAssumption
      <4>3. Promise!Aye(o)
        BY <1>1, <1>3, <1>7, <2>1, <3>1, <3>2, <4>1, <4>2
        DEF Promise!Aye, AyeCount, NoCount, Readable
      <4>4. QED
        BY <4>3
    <3>3. CASE yes = Ayes(o) /\ no = Noes(o) + 1
      <4>1. AyeCount' = AyeCount
        BY <1>3, <1>7, <3>3 DEF AyeCount
      <4>2. no < TOTAL_CUSTODIANS - THRESHOLD + 1
        BY <1>1, <1>5, <1>6, <2>3, <3>3, ThresholdAssumption
      <4>3. Promise!No(o)
        BY <1>1, <1>4, <1>7, <2>1, <3>1, <3>3, <4>1, <4>2
        DEF Promise!No, AyeCount, NoCount, Readable
      <4>4. QED
        BY <4>3
    <3>4. QED
      BY <1>1, <3>2, <3>3
  <2>4. QED
    BY <1>6, <1>9, <2>2, <2>3
<1>10. QED
  BY <1>8, <1>9

LEMMA OrderStepIsPromised ==
  ASSUME IInv, NEW o \in Orders, OrderStep(o)
  PROVE  [Promise!Next]_(Promise!vars)
<1>1. CASE \E n \in Nullifiers, b \in Blobs \cup {None} : create_court_order(o, n, b)
  <2>1. /\ status[o] = "none" /\ status' = [status EXCEPT ![o] = "pending"]
        /\ UNCHANGED <<AyeCount, NoCount, Readable>>
    BY <1>1 DEF create_court_order, Known, AyeCount, NoCount, Readable, Ayes, Noes,
                Approvals, Rejections
  <2>2. Promise!Open(o)
    BY <2>1 DEF Promise!Open, AyeCount, NoCount, Readable
  <2>3. QED
    BY <2>2 DEF Promise!Next
<1>2. CASE get_court_order(o)
  BY <1>2, TouchIsLapse DEF get_court_order, Promise!Next
<1>3. CASE \E id \in Custodians, num \in Nums, approved \in BOOLEAN :
             RecordVote(o, id, num, approved)
  BY <1>3, VoteEffect, VoteIsPromised DEF Promise!Next
<1>4. CASE \E id \in Custodians : RefuseVote(o, id)
  BY <1>4, TouchIsLapse DEF RefuseVote, Promise!Next
<1>5. CASE execute_court_order(o)
  <2>1. /\ status[o] = "approved" /\ status' = [status EXCEPT ![o] = "executed"]
        /\ UNCHANGED <<AyeCount, NoCount>>
    BY <1>5 DEF execute_court_order, execute_revocation, Refreshed, AyeCount, NoCount,
                Ayes, Noes, Approvals, Rejections
  <2>2. Readable' = [Readable EXCEPT ![o] = FALSE]
    <3>1. decrypted_identity'[o] \notin Blobs
      BY <1>5, OutcomesDiffer
      DEF execute_court_order, execute_revocation, Cleared, IInv, TypeOK
    <3>2. \A p \in Orders : p # o => decrypted_identity'[p] = decrypted_identity[p]
      BY <1>5 DEF execute_court_order, execute_revocation, Cleared, IInv, TypeOK
    <3>3. (decrypted_identity'[o] \in Blobs) = FALSE
      BY <3>1
    <3>4. QED
      BY <3>2, <3>3, Zenon DEF Readable
  <2>3. Promise!Execute(o)
    BY <2>1, <2>2 DEF Promise!Execute, AyeCount, NoCount, Readable
  <2>4. QED
    BY <2>3 DEF Promise!Next
<1>6. QED
  BY <1>1, <1>2, <1>3, <1>4, <1>5 DEF OrderStep

\* Every behaviour of the court order service, with any thresholds, voters and
\* timing, is one CourtOrderPromise allows.
THEOREM ServiceKeepsPromise == Spec => KeepsPromise
<1>1. IInv /\ [Next]_vars => [Promise!Next]_(Promise!vars)
  <2>1. SUFFICES ASSUME IInv, [Next]_vars PROVE [Promise!Next]_(Promise!vars)
    OBVIOUS
  <2>2. CASE UNCHANGED <<status, votes, decrypted_identity>>
    BY <2>2, AsideIsInvisible
  <2>3. CASE \E o \in Orders : OrderStep(o)
    BY <2>1, <2>3, OrderStepIsPromised
  <2>4. QED
    BY <2>1, <2>2, <2>3 DEF Next, vars, store_identity_blob, Tick
<1>2. QED
  BY <1>1, InitIsPromised, IInvAlways, PTL DEF Spec, KeepsPromise, Promise!Spec

=============================================================================
