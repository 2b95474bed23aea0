---------------------------- MODULE FrontendProofs ----------------------------
(***************************************************************************)
(* TLAPS proofs about the two pages in the browser, and about the prover   *)
(* they share with the SDK.                                                *)
(*                                                                         *)
(* The dashboard: for any orders, custodians, thresholds and polls in      *)
(* flight, and any number of restarts of the backend; what the proofs use  *)
(* of the service is the invariant proved in CourtOrdersProofs.            *)
(*                                                                         *)
(* The KYC widget: for any files, wallets and bounds, however many parses  *)
(* and proof runs are in flight.                                           *)
(*                                                                         *)
(* The way from an identity to a verdict: for any field, hash constants,   *)
(* depth of the tree and callers.                                          *)
(***************************************************************************)
EXTENDS Dashboard, Widget, ProofPipeline, FiniteSetTheorems, WellFoundedInduction, TLAPS

Service == INSTANCE CourtOrdersProofs

-----------------------------------------------------------------------------
(* The service under the dashboard is the service that was proved about. *)

LEMMA SameCount == \A S : Court!Cardinality(S) = Cardinality(S) /\ Service!Cardinality(S) = Cardinality(S)
BY DEF Cardinality, Court!Cardinality, Service!Cardinality

LEMMA SameFinite == \A S : Service!IsFiniteSet(S) = IsFiniteSet(S)
BY DEF IsFiniteSet, Service!IsFiniteSet

LEMMA SameDecision == \A yes, no : Court!Decision(yes, no) = Service!Decision(yes, no)
BY DEF Court!Decision, Service!Decision

LEMMA SameDisclosure == \A o, approving : Court!Disclosure(o, approving) = Service!Disclosure(o, approving)
<1>1. \A o : Court!BlobFor(o) = Service!BlobFor(o)
  BY DEF Court!BlobFor, Service!BlobFor
<1>2. \A nums : Court!RightKey(nums) = Service!RightKey(nums)
  BY SameCount DEF Court!RightKey, Service!RightKey
<1>3. QED
  BY <1>1, <1>2 DEF Court!Disclosure, Service!Disclosure

LEMMA SameVote ==
  ASSUME NEW o, NEW id, NEW num, NEW approved, Court!RecordVote(o, id, num, approved)
  PROVE  Service!RecordVote(o, id, num, approved)
<1>1. \A cast : Court!Approvals(cast) = Service!Approvals(cast) /\ Court!Rejections(cast) = Service!Rejections(cast)
  BY DEF Court!Approvals, Service!Approvals, Court!Rejections, Service!Rejections
<1>2. \A cast : Court!Decision(Court!Cardinality(Court!Approvals(cast)), Court!Cardinality(Court!Rejections(cast)))
                = Service!Decision(Service!Cardinality(Service!Approvals(cast)),
                                   Service!Cardinality(Service!Rejections(cast)))
  BY <1>1, SameCount, SameDecision
<1>3. \A cast : Court!Disclosure(o, Court!Approvals(cast)) = Service!Disclosure(o, Service!Approvals(cast))
  BY <1>1, SameDisclosure
<1>4. Service!Known(o) /\ Service!Refreshed(o) = "pending" /\ ~Service!HasVoted(o, id)
  BY DEF Court!RecordVote, Court!Known, Service!Known, Court!Refreshed, Service!Refreshed, Court!HasVoted,
     Service!HasVoted
<1>5. QED
  BY <1>2, <1>3, <1>4 DEF Court!RecordVote, Service!RecordVote

LEMMA SameReads ==
  /\ \A o : Court!get_court_order(o) => Service!get_court_order(o)
  /\ \A o, id : Court!RefuseVote(o, id) => Service!RefuseVote(o, id)
BY DEF Court!get_court_order, Service!get_court_order, Court!RefuseVote, Service!RefuseVote, Court!Known,
   Service!Known, Court!Touch, Service!Touch, Court!Refreshed, Service!Refreshed, Court!HasVoted, Service!HasVoted

LEMMA SameWrites ==
  /\ \A o : Court!execute_court_order(o) => Service!execute_court_order(o)
  /\ \A o, n, b : Court!create_court_order(o, n, b) => Service!create_court_order(o, n, b)
  /\ \A n, b : Court!store_identity_blob(n, b) => Service!store_identity_blob(n, b)
  /\ Court!Tick => Service!Tick
BY DEF Court!execute_court_order, Service!execute_court_order, Court!execute_revocation, Service!execute_revocation,
   Court!Known, Service!Known, Court!Refreshed, Service!Refreshed, Court!Cleared, Service!Cleared,
   Court!create_court_order, Service!create_court_order, Court!store_identity_blob, Service!store_identity_blob,
   Court!Tick, Service!Tick

-----------------------------------------------------------------------------
(* What a step does to the service. *)

\* What the service does to orders that are there already.
Handles(o) ==
  \/ Service!get_court_order(o)
  \/ \E id \in Custodians, num \in Nums, approved \in BOOLEAN : Service!RecordVote(o, id, num, approved)
  \/ \E id \in Custodians : Service!RefuseVote(o, id)
  \/ Service!execute_court_order(o)

Serves ==
  /\ \/ UNCHANGED court
     \/ \E o \in Orders : Handles(o)
     \/ \E n \in Nullifiers, b \in Blobs : Service!store_identity_blob(n, b)
     \/ Service!Tick
  /\ UNCHANGED <<used, restarts, lost>>

\* A restart empties the stores; only the form adds an order.
LEMMA StepOnService ==
  ASSUME [Next]_vars, modal # None => modal.id \in Orders, loading => modal # None
  PROVE  \/ Restart
         \/ \E o \in Orders, n \in Nullifiers : submit(o, n)
         \/ Serves
<1>1. ASSUME UNCHANGED server PROVE Serves
  BY <1>1 DEF server, Serves
<1>2. ASSUME NEW o \in Orders, Handles(o), UNCHANGED <<used, restarts, lost>> PROVE Serves
  BY <1>2 DEF Serves
<1>3. ASSUME NEW o \in Orders, Get(o) PROVE Serves
  BY <1>1, <1>2, <1>3, SameReads DEF Get, Handles, server
<1>4. CASE \E i \in Slots : PollArrives(i) \/ PollFails(i)
  BY <1>1, <1>4 DEF PollArrives, PollFails
<1>5. CASE Poll \/ OpenArrives \/ OpenFails \/ Close \/ Reload
  BY <1>1, <1>5 DEF Poll, OpenArrives, OpenFails, Close, Reload
<1>6. ASSUME NEW o \in Orders, openOrder(o) PROVE Serves
  BY <1>3, <1>6 DEF openOrder
<1>7. ASSUME NEW approved \in BOOLEAN, castVote(approved) PROVE Serves
  <2>1. modal.id \in Orders /\ UNCHANGED <<used, restarts, lost>>
    BY <1>7 DEF castVote
  <2>2. CASE Court!RecordVote(modal.id, User, UserNum, approved)
    BY <1>2, <2>1, <2>2, SameVote, UserAssumption DEF Handles
  <2>3. CASE Court!RefuseVote(modal.id, User)
    BY <1>2, <2>1, <2>3, SameReads, UserAssumption DEF Handles
  <2>4. QED
    BY <1>1, <1>7, <2>1, <2>2, <2>3 DEF castVote, server
<1>8. ASSUME executeRevoke PROVE Serves
  <2>1. modal.id \in Orders /\ UNCHANGED <<used, restarts, lost>>
    BY <1>8 DEF executeRevoke
  <2>2. CASE Court!execute_court_order(modal.id)
    BY <1>2, <2>1, <2>2, SameWrites DEF Handles
  <2>3. QED
    BY <1>1, <1>8, <2>1, <2>2 DEF executeRevoke, server
<1>9. ASSUME Refetch PROVE Serves
  BY <1>1, <1>3, <1>9 DEF Refetch
<1>10. ASSUME Others PROVE Serves
  <2>1. UNCHANGED <<used, restarts, lost>>
    BY <1>10 DEF Others
  <2>2. ASSUME NEW o \in Orders, NEW id \in Custodians \ {User}, NEW num \in Nums, NEW approved \in BOOLEAN,
               Court!RecordVote(o, id, num, approved)
        PROVE  Serves
    BY <1>2, <2>1, <2>2, SameVote DEF Handles
  <2>3. ASSUME NEW o \in Orders, Court!get_court_order(o) \/ Court!execute_court_order(o) PROVE Serves
    BY <1>2, <2>1, <2>3, SameReads, SameWrites DEF Handles
  <2>4. ASSUME NEW n \in Nullifiers, NEW b \in Blobs, Court!store_identity_blob(n, b) PROVE Serves
    BY <2>1, <2>4, SameWrites DEF Serves
  <2>5. ASSUME Court!Tick PROVE Serves
    BY <2>1, <2>5 DEF Court!Tick, Service!Tick, Serves
  <2>6. QED
    BY <1>10, <2>2, <2>3, <2>4, <2>5 DEF Others
<1>11. ASSUME UNCHANGED vars PROVE Serves
  BY <1>1, <1>11 DEF vars
<1>12. QED
  BY <1>4, <1>5, <1>6, <1>7, <1>8, <1>9, <1>10, <1>11 DEF Next

LEMMA ServesIsStep == Serves => [Service!Next]_(Service!vars)
BY DEF Serves, Handles, Service!Next, Service!OrderStep, court, Service!vars

LEMMA SubmitIsStep == \A o \in Orders, n \in Nullifiers : submit(o, n) => Service!Next
BY SameWrites DEF submit, Service!Next, Service!OrderStep

LEMMA RestartKeepsService ==
  ASSUME Service!IInv, Restart
  PROVE  Service!IInv'
<1>1. \A o \in Orders : votes'[o] = {} /\ status'[o] = "none" /\ decrypted_identity'[o] = None
  BY DEF Restart
<1>2. Service!TypeOK'
  BY ServiceAssumption DEF Service!IInv, Service!TypeOK, Service!Statuses, Service!Votes, Restart
<1>3. Service!VotesFinite'
  BY <1>1, FS_EmptySet, SameFinite DEF Service!VotesFinite
<1>4. Service!OneVotePerId'
  BY <1>1 DEF Service!OneVotePerId
<1>5. Service!DecidedByThreshold'
  BY <1>1 DEF Service!DecidedByThreshold, Service!TallyFits
<1>6. Service!IdentityOnlyWhileApproved'
  BY <1>1 DEF Service!IdentityOnlyWhileApproved
<1>7. QED
  BY <1>2, <1>3, <1>4, <1>5, <1>6 DEF Service!IInv

LEMMA StepKeepsService ==
  ASSUME Service!IInv, [Next]_vars, modal # None => modal.id \in Orders, loading => modal # None
  PROVE  Service!IInv'
BY StepOnService, ServesIsStep, SubmitIsStep, RestartKeepsService, Service!NextKeepsIInv, ServiceAssumption

\* Votes are only added, none by who has one already, and a decision is never
\* taken back.
Progress(o) ==
  /\ votes[o] \subseteq votes'[o]
  /\ Own([votes |-> votes[o]]) # {} => Own([votes |-> votes'[o]]) = Own([votes |-> votes[o]])
  /\ status[o] # "none" <=> status'[o] # "none"
  /\ Precedes(status[o], status'[o])

LEMMA PrecedesIsOrder ==
  \A s : /\ Precedes(s, s)
         /\ \A t : \A u : Precedes(s, t) /\ Precedes(t, u) => Precedes(s, u)
<1>1. \A s : Rank(s) \in 0 .. 3
  BY DEF Rank
<1>2. QED
  BY <1>1 DEF Precedes

LEMMA ServesProgress ==
  ASSUME Service!IInv, Serves
  PROVE  \A o \in Orders : Progress(o)
<1> USE DEF Service!IInv, Service!TypeOK
<1>1. CASE UNCHANGED <<status, votes>>
  BY <1>1, PrecedesIsOrder DEF Progress
<1>2. ASSUME NEW q \in Orders, Service!Touch(q), UNCHANGED votes PROVE \A o \in Orders : Progress(o)
  BY <1>2 DEF Service!Touch, Service!Refreshed, Service!Statuses, Progress, Rank, Precedes
<1>3. ASSUME NEW q \in Orders, NEW id \in Custodians, NEW num \in Nums, NEW approved \in BOOLEAN,
             Service!RecordVote(q, id, num, approved)
      PROVE  \A o \in Orders : Progress(o)
  <2> DEFINE new == [custodian_id |-> id, custodian_num |-> num, approved |-> approved]
             cast == votes[q] \cup {new}
             d == Service!Decision(Service!Cardinality(Service!Approvals(cast)),
                                   Service!Cardinality(Service!Rejections(cast)))
  <2>1. status[q] = "pending" /\ \A v \in votes[q] : v.custodian_id # id
    BY <1>3 DEF Service!RecordVote, Service!Refreshed, Service!HasVoted
  <2>2. votes' = [votes EXCEPT ![q] = cast] /\ status' = [status EXCEPT ![q] = d]
    BY <1>3 DEF Service!RecordVote
  <2>3. d \in {"approved", "rejected", "pending"}
    BY DEF Service!Decision
  <2> HIDE DEF d
  <2>4. Own([votes |-> votes[q]]) # {} => Own([votes |-> cast]) = Own([votes |-> votes[q]])
    <3>1. HAVE Own([votes |-> votes[q]]) # {}
    <3>2. id # User
      BY <2>1, <3>1 DEF Own
    <3>3. QED
      BY <3>2 DEF Own
  <2> HIDE DEF cast
  <2>5. votes[q] \subseteq cast
    BY DEF cast
  <2>6. \A o \in Orders \ {q} : votes'[o] = votes[o] /\ status'[o] = status[o]
    BY <2>2
  <2>7. votes'[q] = cast /\ status'[q] = d
    BY <2>2
  <2>8. Progress(q)
    BY <2>1, <2>3, <2>4, <2>5, <2>7 DEF Progress, Rank, Precedes
  <2>9. QED
    BY <2>6, <2>8, PrecedesIsOrder DEF Progress
<1>4. ASSUME NEW q \in Orders, Service!execute_court_order(q) PROVE \A o \in Orders : Progress(o)
  BY <1>4 DEF Service!execute_court_order, Service!execute_revocation, Service!Known, Service!Statuses, Progress, Rank, Precedes,
     Service!Refreshed
<1>5. ASSUME NEW q \in Orders, Handles(q) PROVE \A o \in Orders : Progress(o)
  BY <1>2, <1>3, <1>4, <1>5 DEF Handles, Service!get_court_order, Service!RefuseVote
<1>6. QED
  BY <1>1, <1>5 DEF Serves, court, Service!store_identity_blob, Service!Tick

\* Votes that were added can only raise a count.
LEMMA MoreVotes ==
  ASSUME NEW S, NEW T, IsFiniteSet(T), S \subseteq T
  PROVE  /\ Cardinality(Court!Approvals(S)) \in Nat /\ Cardinality(Court!Rejections(S)) \in Nat
         /\ Cardinality(Court!Approvals(S)) <= Cardinality(Court!Approvals(T))
         /\ Cardinality(Court!Rejections(S)) <= Cardinality(Court!Rejections(T))
<1>1. Court!Approvals(S) \subseteq Court!Approvals(T) /\ Court!Approvals(T) \subseteq T
  BY DEF Court!Approvals
<1>2. Court!Rejections(S) \subseteq Court!Rejections(T) /\ Court!Rejections(T) \subseteq T
  BY DEF Court!Rejections
<1>3. IsFiniteSet(Court!Approvals(T)) /\ IsFiniteSet(Court!Rejections(T))
  BY <1>1, <1>2, FS_Subset
<1>4. IsFiniteSet(Court!Approvals(S)) /\ IsFiniteSet(Court!Rejections(S))
  BY <1>1, <1>2, <1>3, FS_Subset
<1>5. QED
  BY <1>1, <1>2, <1>3, <1>4, FS_Subset, FS_CardinalityType

-----------------------------------------------------------------------------
(* The invariant.                                                          *)

\* A summary, wherever it is, is of an order that was there, and is overtaken
\* but never ahead.
SumFits(s, o) ==
  /\ o \in used
  /\ restarts = 0 => status[o] # "none"
  /\ s.approvals \in Nat /\ s.approvals <= Cardinality(Court!Approvals(Had(o).votes))
  /\ s.rejections \in Nat /\ s.rejections <= Cardinality(Court!Rejections(Had(o).votes))
  /\ Precedes(s.status, Had(o).status)

\* So is a full copy of an order.
CopyFits(c) ==
  /\ c.id \in Orders \cap used
  /\ restarts = 0 => status[c.id] # "none"
  /\ c.votes \subseteq Had(c.id).votes
  /\ Precedes(c.status, Had(c.id).status)

DrawnOnce == restarts \in Nat /\ \A o \in Orders : status[o] # "none" => o \in used

\* What was had of an order can be counted.
HadFinite == \A o \in Orders : IsFiniteSet(Had(o).votes)
ListFits == \A o \in Orders : orders[o] # None => SumFits(orders[o], o)
PollsFit ==
  /\ polls = [i \in Slots |-> polls[i]]
  /\ \A i \in Slots : polls[i] # None => \A o \in Orders : polls[i][o] # None => SumFits(polls[i][o], o)
OpeningFits == opening \notin {None, Missing} => CopyFits(opening)
ModalFits == modal # None => CopyFits(modal)
BlankFits ==
  /\ loading => modal # None
  /\ opening = Missing /\ opening # None => restarts > 0
  /\ blank => restarts > 0

DashInv ==
  /\ Service!IInv /\ DrawnOnce /\ HadFinite
  /\ ListFits /\ PollsFit /\ OpeningFits /\ ModalFits /\ BlankFits

\* What any step leaves true of the orders, those that were drawn before it
\* above all.
Holds ==
  /\ used \subseteq used'
  /\ restarts' \in Nat /\ restarts <= restarts'
  /\ \A o \in used \cap Orders :
       /\ restarts' = 0 => (status[o] # "none" => status'[o] # "none")
       /\ status'[o] # "none" =>
            /\ status[o] # "none"
            /\ votes[o] \subseteq votes'[o]
            /\ Precedes(status[o], status'[o])
  /\ \A o \in Orders : status'[o] # "none" => o \in used'
  /\ \A o \in Orders : status'[o] = "none" => Had(o)' = Had(o)

LEMMA StepHolds ==
  ASSUME DashInv, [Next]_vars
  PROVE  Holds /\ Service!IInv'
<1> USE DEF DashInv, DrawnOnce, ModalFits, BlankFits
<1>1. (modal # None => modal.id \in Orders) /\ (loading => modal # None)
  BY DEF CopyFits
<1>2. Service!IInv'
  BY <1>1, StepKeepsService
<1>3. CASE Restart
  <2>1. ASSUME NEW o \in Orders PROVE Had(o)' = Had(o)
    <3>1. ~Court!Known(o)' /\ lost'[o] = Had(o)
      BY <1>3 DEF Restart, Court!Known
    <3>2. QED
      BY <3>1 DEF Had
  <2>2. QED
    BY <1>2, <1>3, <2>1 DEF Restart, Holds
<1>4. ASSUME NEW o \in Orders, NEW n \in Nullifiers, submit(o, n) PROVE Holds
  <2>1. ASSUME NEW q \in Orders, status'[q] = "none" PROVE Had(q)' = Had(q)
    <3>1. status[q] = "none" /\ lost' = lost
      BY <1>4, <2>1 DEF submit, Court!create_court_order, Service!IInv, Service!TypeOK
    <3>2. QED
      BY <2>1, <3>1 DEF Had, Court!Known
  <2>2. QED
    BY <1>4, <2>1, PrecedesIsOrder DEF submit, Court!create_court_order, Holds, Service!IInv, Service!TypeOK
<1>5. CASE Serves
  <2>1. \A o \in Orders : votes[o] \subseteq votes'[o] /\ (status[o] # "none" <=> status'[o] # "none")
                         /\ Precedes(status[o], status'[o])
    BY <1>5, ServesProgress DEF Progress
  <2>2. used' = used /\ restarts' = restarts /\ lost' = lost
    BY <1>5 DEF Serves
  <2>3. \A o \in Orders : status'[o] = "none" => Had(o)' = Had(o)
    BY <2>1, <2>2 DEF Had, Court!Known
  <2>4. QED
    BY <2>1, <2>2, <2>3, <1>2 DEF Holds
<1>6. QED
  BY <1>1, <1>2, <1>3, <1>4, <1>5, StepOnService

\* What was had of an order only grows, and can still be counted.
LEMMA HadGrows ==
  ASSUME DashInv, Holds, Service!IInv'
  PROVE  /\ HadFinite'
         /\ \A o \in Orders \cap used : /\ Had(o).votes \subseteq Had(o)'.votes
                                      /\ Precedes(Had(o).status, Had(o)'.status)
<1>1. ASSUME NEW o \in Orders
      PROVE  /\ IsFiniteSet(Had(o)'.votes)
             /\ o \in used => /\ Had(o).votes \subseteq Had(o)'.votes
                             /\ Precedes(Had(o).status, Had(o)'.status)
  <2>1. CASE status'[o] = "none"
    <3>1. Had(o)' = Had(o)
      BY <2>1 DEF Holds
    <3>2. IsFiniteSet(Had(o).votes)
      BY DEF DashInv, HadFinite
    <3>3. QED
      BY <3>1, <3>2, PrecedesIsOrder
  <2>2. CASE status'[o] # "none"
    <3>1. Had(o)'.votes = votes'[o] /\ Had(o)'.status = status'[o]
      BY <2>2 DEF Had, Court!Known
    <3>2. IsFiniteSet(votes'[o])
      BY SameFinite DEF Service!IInv, Service!VotesFinite
    <3>3. ASSUME o \in used
          PROVE  /\ Had(o).votes = votes[o] /\ Had(o).status = status[o]
                 /\ votes[o] \subseteq votes'[o] /\ Precedes(status[o], status'[o])
      BY <2>2, <3>3 DEF Holds, Had, Court!Known
    <3>4. QED
      BY <3>1, <3>2, <3>3
  <2>3. QED
    BY <2>1, <2>2
<1>2. QED
  BY <1>1 DEF HadFinite

LEMMA SumStays ==
  ASSUME DashInv, Holds, Service!IInv'
  PROVE  \A o \in Orders : \A s : SumFits(s, o) => SumFits(s, o)'
<1>1. TAKE o \in Orders
<1>1a. TAKE s
<1>2. HAVE SumFits(s, o)
<1>3. o \in used \cap Orders
  BY <1>2 DEF SumFits
<1>4. o \in used' /\ (restarts' = 0 => status'[o] # "none")
  BY <1>2, <1>3 DEF SumFits, Holds, DashInv, DrawnOnce
<1>5. /\ Had(o).votes \subseteq Had(o)'.votes /\ Precedes(Had(o).status, Had(o)'.status)
      /\ IsFiniteSet(Had(o)'.votes)
  BY <1>3, HadGrows DEF HadFinite
<1> DEFINE S == Had(o).votes
           T == Had(o)'.votes
<1>6. /\ Cardinality(Court!Approvals(S)) <= Cardinality(Court!Approvals(T))
      /\ Cardinality(Court!Rejections(S)) <= Cardinality(Court!Rejections(T))
      /\ Cardinality(Court!Approvals(S)) \in Nat /\ Cardinality(Court!Rejections(S)) \in Nat
      /\ Cardinality(Court!Approvals(T)) \in Nat /\ Cardinality(Court!Rejections(T)) \in Nat
  <2>1. S \subseteq T /\ IsFiniteSet(T)
    BY <1>5
  <2>2. IsFiniteSet(S)
    BY <2>1, FS_Subset
  <2> HIDE DEF S, T
  <2>3. QED
    BY <2>1, MoreVotes, <2>2
<1>7. /\ s.approvals \in Nat /\ s.approvals <= Cardinality(Court!Approvals(S))
      /\ s.rejections \in Nat /\ s.rejections <= Cardinality(Court!Rejections(S))
      /\ Precedes(s.status, Had(o).status)
  BY <1>2 DEF SumFits
<1>8. Precedes(s.status, Had(o)'.status)
  BY <1>5, <1>7, PrecedesIsOrder
<1>9. s.approvals <= Cardinality(Court!Approvals(T)) /\ s.rejections <= Cardinality(Court!Rejections(T))
  <2> HIDE DEF S, T
  <2>1. QED
    BY <1>6, <1>7
<1>10. QED
  BY <1>4, <1>7, <1>8, <1>9 DEF SumFits

LEMMA CopyStays ==
  ASSUME DashInv, Holds, Service!IInv'
  PROVE  \A c : CopyFits(c) => CopyFits(c)'
<1>1. TAKE c
<1>2. HAVE CopyFits(c)
<1>3. c.id \in Orders \cap used
  BY <1>2 DEF CopyFits
<1>4. restarts' = 0 => status'[c.id] # "none"
  BY <1>2, <1>3 DEF CopyFits, Holds, DashInv, DrawnOnce
<1>5. Had(c.id).votes \subseteq Had(c.id)'.votes /\ Precedes(Had(c.id).status, Had(c.id)'.status)
  BY <1>3, HadGrows
<1>6. Precedes(c.status, Had(c.id)'.status)
  BY <1>2, <1>5, PrecedesIsOrder DEF CopyFits
<1>7. QED
  BY <1>2, <1>3, <1>4, <1>5, <1>6 DEF CopyFits, Holds

\* The answer to a request for an order that was on the screen.
LEMMA AnswerFits ==
  ASSUME DashInv, Holds, Service!IInv', NEW o \in Orders \cap used, Get(o), restarts = 0 => status[o] # "none"
  PROVE  \A c : c = Answer(o) => /\ c = Missing => restarts > 0
                                 /\ c # Missing => CopyFits(c)'
<1>1. CASE status[o] = "none"
  BY <1>1 DEF Answer, Found, Court!Known, DashInv, DrawnOnce
<1>2. CASE status[o] # "none"
  <2>1. Answer(o) = [id |-> o, status |-> status'[o], votes |-> votes'[o], identity |-> decrypted_identity'[o]]
    BY <1>2 DEF Answer, Found, Court!Known
  <2>2. /\ status'[o] \in Court!Statuses /\ votes'[o] \subseteq Court!Votes
        /\ decrypted_identity'[o] \in Blobs \cup {None, Note, Err}
    BY DEF Service!IInv, Service!TypeOK, Court!Statuses, Service!Statuses, Court!Votes, Service!Votes
  <2>3. Answer(o) # Missing
    BY <2>1, <2>2, MissingAssumption DEF Copies
  <2>4. status'[o] # "none" /\ o \in used'
    BY <1>2 DEF Get, Court!get_court_order, Court!Touch, Court!Refreshed, Court!Known, DashInv, Service!IInv,
                Service!TypeOK, Holds
  <2>5. Had(o)'.votes = votes'[o] /\ Had(o)'.status = status'[o]
    BY <2>4 DEF Had, Court!Known
  <2>5a. \A c : c = Answer(o) => CopyFits(c)'
    BY <2>1, <2>4, <2>5, PrecedesIsOrder DEF CopyFits
  <2>6. QED
    BY <2>3, <2>5a
<1>3. QED
  BY <1>1, <1>2

\* Where what is on the screen, or on its way to it, comes from.
LEMMA ListComesFrom ==
  ASSUME [Next]_vars
  PROVE  orders' = orders \/ orders' = NoOrders \/ \E i \in Slots : polls[i] # None /\ orders' = polls[i]
BY DEF Next, vars, screen, Poll, PollArrives, PollFails, openOrder, OpenArrives, OpenFails, Close, Reload, castVote,
       executeRevoke, Refetch, submit, Others, Restart, Shown

LEMMA PollsComeFrom ==
  ASSUME [Next]_vars
  PROVE  \/ polls' = polls
         \/ polls' = [i \in Slots |-> None]
         \/ \E i \in Slots : polls' = [polls EXCEPT ![i] = None]
         \/ \E i \in Slots : polls' = [polls EXCEPT ![i] = list_court_orders]
BY DEF Next, vars, screen, Poll, PollArrives, PollFails, openOrder, OpenArrives, OpenFails, Close, Reload, castVote,
       executeRevoke, Refetch, submit, Others, Restart

LEMMA OpeningComesFrom ==
  ASSUME [Next]_vars
  PROVE  \/ opening' = opening
         \/ opening' = None
         \/ \E o \in Orders : orders[o] # None /\ Get(o) /\ opening' = Answer(o)
BY DEF Next, vars, screen, Poll, PollArrives, PollFails, openOrder, OpenArrives, OpenFails, Close, Reload, castVote,
       executeRevoke, Refetch, submit, Others, Restart

\* The screen goes blank on the body of a 404, and nothing else is shown then.
LEMMA ModalComesFrom ==
  ASSUME [Next]_vars, loading => modal # None
  PROVE  /\ \/ modal' = modal
            \/ modal' = None /\ ~loading'
            \/ opening \notin {None, Missing} /\ modal' = opening
            \/ /\ modal # None /\ Get(modal.id)
               /\ modal' = Answer(modal.id) /\ Answer(modal.id) # Missing /\ ~loading'
         /\ \/ blank' = blank
            \/ ~blank'
            \/ opening = Missing /\ opening # None
            \/ modal # None /\ Get(modal.id) /\ Answer(modal.id) = Missing
         /\ loading' => loading \/ modal # None
BY DEF Next, vars, screen, Poll, PollArrives, PollFails, openOrder, OpenArrives, OpenFails, Close, Reload, castVote,
       executeRevoke, Refetch, submit, Others, Restart, Rendered, Settled

LEMMA InitEstablishesDashInv == Init => DashInv
<1>1. Court!Init => Service!Init
  BY DEF Court!Init, Service!Init
<1>2. HAVE Init
<1>3. Service!IInv
  BY <1>1, <1>2, ServiceAssumption, Service!InitEstablishesIInv DEF Init
<1>4. QED
  <2>1. HadFinite
    BY <1>2, FS_EmptySet DEF Init, Court!Init, HadFinite, Had, Court!Known
  <2>2. QED
    BY <1>2, <1>3, <2>1 DEF Init, Court!Init, Empty, NoOrders, DashInv, DrawnOnce, ListFits, PollsFit, OpeningFits,
       ModalFits, BlankFits

LEMMA StepKeepsList ==
  ASSUME DashInv, Holds, Service!IInv', [Next]_vars
  PROVE  ListFits' /\ PollsFit'
<1>1. \A o \in Orders : \A s : SumFits(s, o) => SumFits(s, o)'
  BY SumStays
<1>2. ListFits'
  <2>1. \A o \in Orders : orders'[o] # None => SumFits(orders'[o], o)
    BY ListComesFrom DEF DashInv, ListFits, PollsFit, NoOrders
  <2>2. QED
    BY <1>1, <2>1 DEF ListFits, SumFits
<1>3. \A o \in Orders : list_court_orders[o] # None => SumFits(list_court_orders[o], o)
  <2>1. TAKE o \in Orders
  <2>2. HAVE list_court_orders[o] # None
  <2>3. status[o] # "none" /\ list_court_orders[o] = Summary(o)
    BY <2>2 DEF list_court_orders, Court!Known
  <2>4. IsFiniteSet(votes[o])
    BY SameFinite DEF DashInv, Service!IInv, Service!VotesFinite
  <2>5. Cardinality(Court!Approvals(votes[o])) \in Nat /\ Cardinality(Court!Rejections(votes[o])) \in Nat
    BY <2>4, MoreVotes
  <2>6. QED
    BY <2>3, <2>5, SameCount, PrecedesIsOrder DEF Summary, Court!Ayes, Court!Noes, SumFits, DashInv, DrawnOnce,
       Had, Court!Known
<1>4. /\ polls' = [i \in Slots |-> polls'[i]]
      /\ \A i \in Slots : polls'[i] # None => \A o \in Orders : polls'[i][o] # None => SumFits(polls'[i][o], o)
  BY <1>3, PollsComeFrom DEF DashInv, PollsFit
<1>5. PollsFit'
  BY <1>1, <1>4 DEF PollsFit, SumFits
<1>6. QED
  BY <1>2, <1>5

LEMMA StepKeepsCopies ==
  ASSUME DashInv, Holds, Service!IInv', [Next]_vars
  PROVE  OpeningFits' /\ ModalFits' /\ BlankFits'
<1>1. \A c : CopyFits(c) => CopyFits(c)'
  BY CopyStays
<1>2. restarts > 0 => restarts' > 0
  BY DEF DashInv, DrawnOnce, Holds
<1>3. ASSUME NEW o \in Orders, orders[o] # None, Get(o), opening' = Answer(o)
      PROVE  (opening' = Missing => restarts > 0) /\ (opening' # Missing => CopyFits(opening)')
  <2>1. o \in used /\ (restarts = 0 => status[o] # "none")
    BY <1>3 DEF DashInv, ListFits, SumFits
  <2>2. \A c : c = Answer(o) => (c = Missing => restarts > 0) /\ (c # Missing => CopyFits(c)')
    BY <1>3, <2>1, AnswerFits
  <2>3. QED
    BY <1>3, <2>2 DEF CopyFits
<1>4. ASSUME modal # None, Get(modal.id)
      PROVE  \A c : c = Answer(modal.id) => (c = Missing => restarts > 0) /\ (c # Missing => CopyFits(c)')
  <2>1. modal.id \in Orders \cap used /\ (restarts = 0 => status[modal.id] # "none")
    BY <1>4 DEF DashInv, ModalFits, CopyFits
  <2>2. QED
    BY <1>4, <2>1, AnswerFits
<1>5. OpeningFits'
  <2>1. CASE opening' = opening
    BY <1>1, <2>1 DEF DashInv, OpeningFits, CopyFits
  <2>2. CASE opening' = None
    BY <2>2 DEF OpeningFits
  <2>3. QED
    BY <1>3, <2>1, <2>2, OpeningComesFrom DEF OpeningFits
<1>6. ModalFits'
  <2>1. CASE modal' = modal
    BY <1>1, <2>1 DEF DashInv, ModalFits, CopyFits
  <2>2. CASE modal' = None
    BY <2>2 DEF ModalFits
  <2>3. CASE opening \notin {None, Missing} /\ modal' = opening
    BY <1>1, <2>3 DEF DashInv, OpeningFits, ModalFits, CopyFits
  <2>4. CASE modal # None /\ Get(modal.id) /\ modal' = Answer(modal.id) /\ Answer(modal.id) # Missing
    BY <1>4, <2>4 DEF ModalFits, CopyFits
  <2>5. QED
    BY <2>1, <2>2, <2>3, <2>4, ModalComesFrom DEF DashInv, BlankFits
<1>7. opening' = Missing /\ opening' # None => restarts' > 0
  BY <1>2, <1>3, OpeningComesFrom DEF DashInv, BlankFits
<1>8. blank' => restarts' > 0
  BY <1>2, <1>4, ModalComesFrom DEF DashInv, BlankFits
<1>9. loading' => modal' # None
  BY ModalComesFrom DEF DashInv, BlankFits
<1>10. QED
  BY <1>5, <1>6, <1>7, <1>8, <1>9 DEF BlankFits

\* No poll, answer, click, vote of others or restart breaks the invariant that
\* bounds what is shown, or on its way, by what the service knows.
THEOREM StepKeepsDashInv == DashInv /\ [Next]_vars => DashInv'
<1>1. SUFFICES ASSUME DashInv, [Next]_vars PROVE DashInv'
  OBVIOUS
<1>2. Holds /\ Service!IInv'
  BY <1>1, StepHolds
<1>3. DrawnOnce'
  BY <1>2 DEF Holds, DrawnOnce
<1>4. HadFinite'
  BY <1>1, <1>2, HadGrows
<1>5. QED
  BY <1>1, <1>2, <1>3, <1>4, StepKeepsList, StepKeepsCopies DEF DashInv

-----------------------------------------------------------------------------
(* The theorems.                                                           *)

\* The invariant holds in every reachable state of the page and the service.
THEOREM AlwaysDashInv == Spec => []DashInv
BY InitEstablishesDashInv, StepKeepsDashInv, PTL DEF Spec

\* Nothing a custodian sees is ahead of the backend, in whatever order the
\* answers to any number of polls arrive, nor of what it had of an order that a
\* restart took.
THEOREM NothingIsAhead == Spec => []NeverAhead
<1>1. DashInv => NeverAhead
  BY DEF DashInv, ListFits, SumFits, ModalFits, CopyFits, NeverAhead
<1>2. QED
  BY <1>1, AlwaysDashInv, PTL

\* The modal throws on the body of a 404 only, and an order that was on the
\* screen is missing only once the backend has restarted.
THEOREM BlankOnlyAfterRestart == Spec => []BlankHasReason
<1>1. DashInv => BlankHasReason
  BY DEF DashInv, BlankFits, BlankHasReason
<1>2. QED
  BY <1>1, AlwaysDashInv, PTL

\* The service has one vote per custodian for good, so a vote sent again from
\* a copy that does not show the first changes nothing.
THEOREM FirstVoteIsKept == Spec => FirstVoteStands
<1>1. ASSUME DashInv, [Next]_vars, NEW o \in Orders, Own([votes |-> votes[o]]) # {}, restarts' = restarts
      PROVE  Own([votes |-> votes'[o]]) = Own([votes |-> votes[o]])
  <2>1. (modal # None => modal.id \in Orders) /\ (loading => modal # None)
    BY <1>1 DEF DashInv, ModalFits, CopyFits, BlankFits
  <2>2. CASE Restart
    BY <1>1, <2>2 DEF Restart, DashInv, DrawnOnce
  <2>3. ASSUME NEW p \in Orders, NEW n \in Nullifiers, submit(p, n) PROVE votes' = votes
    BY <2>3 DEF submit, Court!create_court_order
  <2>4. CASE Serves
    BY <1>1, <2>4, ServesProgress DEF DashInv, Progress
  <2>5. QED
    BY <1>1, <2>1, <2>2, <2>3, <2>4, StepOnService
<1>2. DashInv /\ [Next]_vars =>
        [\A o \in Orders : Own([votes |-> votes[o]]) # {} /\ restarts' = restarts =>
           Own([votes |-> votes'[o]]) = Own([votes |-> votes[o]])]_vars
  BY <1>1
<1>3. QED
  BY <1>2, AlwaysDashInv, PTL DEF Spec, FirstVoteStands

-----------------------------------------------------------------------------
(* The widget. *)


Choice == [wallet : Wallets, secret : Nat]
Outcome == [nullifier : Files \X Nat, demo : BOOLEAN]

\* Every run is about a file that was confirmed, so about an adult's.
Run == [file : AdultFiles, wallet : Wallets, secret : Nat, mock : BOOLEAN,
        reply : {"none", "ok", "demo", "error"},
        pc : {"proving", "sent", "orphan", "answered", "over"}]

WidgetTypeOK ==
  /\ step \in {"upload", "parse", "secret", "prove", "done"}
  /\ aadhaar \in Files \cup {None}
  /\ walletData \in Choice \cup {None}
  /\ result \in Outcome \cup {None}
  /\ started \in BOOLEAN /\ error \in BOOLEAN
  /\ parsing \subseteq Files \X Nat
  /\ selects \in Nat /\ drawn \in Nat
  /\ runs \in Seq(Run)

\* From the parse step on there is an identity, and from the secret step on it
\* is the confirmed one: a late parse replaces it, but leads back to its step.
StepIsBacked ==
  /\ step \in {"parse", "secret", "prove"} => aadhaar # None
  /\ step \in {"secret", "prove"} => aadhaar = confirmed /\ confirmed \in AdultFiles
  /\ step = "prove" => walletData # None
  /\ step = "done" => result # None

IsRegistered(nullifier) == \E r \in registered : r[1] = nullifier

\* The backend says "ok" only after the transaction went in, and the registry
\* of the model forgets nothing.
OkIsRegistered ==
  \A i \in DOMAIN runs : runs[i].reply = "ok" => IsRegistered(Nullifier(runs[i]))

WidgetInv == WidgetTypeOK /\ StepIsBacked /\ OkIsRegistered /\ ResultIsRegistered

LEMMA InitEstablishesWidgetInv == WidgetInit => WidgetInv
<1>1. SUFFICES ASSUME WidgetInit PROVE WidgetInv
  OBVIOUS
<1>2. runs \in Seq(Run) /\ DOMAIN runs = {}
  BY <1>1 DEF WidgetInit
<1>3. WidgetTypeOK
  BY <1>1, <1>2 DEF WidgetInit, WidgetTypeOK
<1>4. StepIsBacked /\ OkIsRegistered /\ ResultIsRegistered
  BY <1>1, <1>2 DEF WidgetInit, StepIsBacked, OkIsRegistered, ResultIsRegistered
<1>5. QED
  BY <1>3, <1>4 DEF WidgetInv

\* Files chosen and parses that settle.
LEMMA ParsesKeepWidgetInv ==
  ASSUME WidgetInv,
         \/ \E f \in Files : SelectFile(f)
         \/ \E p \in parsing : ParseDone(p) \/ ParseFails(p)
  PROVE  WidgetInv'
<1>1. ASSUME NEW f \in Files, SelectFile(f) PROVE WidgetInv'
  <2>1. WidgetTypeOK'
    BY <1>1 DEF WidgetInv, WidgetTypeOK, SelectFile, shown
  <2>2. StepIsBacked' /\ OkIsRegistered' /\ ResultIsRegistered'
    BY <1>1 DEF WidgetInv, StepIsBacked, OkIsRegistered, ResultIsRegistered, IsRegistered, Nullifier, SelectFile, shown
  <2>3. QED
    BY <2>1, <2>2 DEF WidgetInv
<1>2. ASSUME NEW p \in parsing, ParseDone(p) PROVE WidgetInv'
  <2>1. p[1] \in Files /\ p[1] # None
    BY WidgetAssumption DEF WidgetInv, WidgetTypeOK
  <2>2. QED
    BY <1>2, <2>1 DEF WidgetInv, WidgetTypeOK, StepIsBacked, OkIsRegistered, ResultIsRegistered, IsRegistered,
       Nullifier, ParseDone, ParsedInto, ProofStageGone
<1>3. ASSUME NEW p \in parsing, ParseFails(p) PROVE WidgetInv'
  BY <1>3 DEF WidgetInv, WidgetTypeOK, StepIsBacked, OkIsRegistered, ResultIsRegistered, IsRegistered, Nullifier,
     ParseFails, shown
<1>4. QED
  BY <1>1, <1>2, <1>3

\* The steps the user takes without a run.
LEMMA UserKeepsWidgetInv ==
  ASSUME WidgetInv, Confirm \/ Back \/ reset \/ \E w \in Wallets : proceed(w)
  PROVE  WidgetInv'
<1>1. OkIsRegistered'
  BY DEF WidgetInv, OkIsRegistered, IsRegistered, Nullifier, Confirm, Back, reset, proceed
<1>2. CASE Confirm
  BY <1>1, <1>2 DEF WidgetInv, WidgetTypeOK, StepIsBacked, ResultIsRegistered, Confirm, Confirmable
<1>3. CASE Back
  BY <1>1, <1>3 DEF WidgetInv, WidgetTypeOK, StepIsBacked, ResultIsRegistered, Back
<1>4. CASE reset
  BY <1>1, <1>4 DEF WidgetInv, WidgetTypeOK, StepIsBacked, ResultIsRegistered, reset, AfterReset
<1>5. ASSUME NEW w \in Wallets, proceed(w) PROVE WidgetInv'
  <2>1. walletData' \in Choice /\ walletData' # None
    BY <1>5, WidgetAssumption DEF WidgetInv, WidgetTypeOK, Choice, proceed
  <2>2. QED
    <3>1. WidgetTypeOK'
      <4>1. /\ step' = "prove" /\ started' = FALSE /\ error' = FALSE
            /\ UNCHANGED <<aadhaar, result, parsing, selects, runs>>
        BY <1>5 DEF proceed, ProofStageGone
      <4>2. drawn' \in Nat
        BY <1>5 DEF proceed, WidgetInv, WidgetTypeOK
      <4>3. QED
        BY <2>1, <4>1, <4>2 DEF WidgetInv, WidgetTypeOK
    <3>2. StepIsBacked' /\ ResultIsRegistered'
      BY <1>5, <2>1 DEF WidgetInv, StepIsBacked, ResultIsRegistered, proceed
    <3>3. QED
      BY <1>1, <3>1, <3>2 DEF WidgetInv
<1>6. QED
  BY <1>2, <1>3, <1>4, <1>5

\* A run begins with the file on the screen, which is the confirmed one.
LEMMA RunKeepsWidgetInv ==
  ASSUME WidgetInv, run
  PROVE  WidgetInv'
<1> DEFINE new == [file |-> aadhaar, wallet |-> walletData.wallet, secret |-> walletData.secret,
                   mock |-> FALSE, reply |-> "none", pc |-> "proving"]
<1>1. new \in Run
  BY DEF WidgetInv, WidgetTypeOK, StepIsBacked, run, Run, Choice
<1>2. runs' = Append(runs, new)
  BY DEF run
<1> HIDE DEF new
<1>3. runs' \in Seq(Run) /\ Len(runs') = Len(runs) + 1
      /\ \A i \in DOMAIN runs' : IF i = Len(runs) + 1 THEN runs'[i] = new
                                  ELSE i \in DOMAIN runs /\ runs'[i] = runs[i]
  BY <1>1, <1>2 DEF WidgetInv, WidgetTypeOK
<1>4. WidgetTypeOK' /\ StepIsBacked' /\ ResultIsRegistered'
  BY <1>3 DEF WidgetInv, WidgetTypeOK, StepIsBacked, ResultIsRegistered, run
<1>5. new.reply # "ok"
  BY DEF new
<1>6. OkIsRegistered'
  BY <1>3, <1>5 DEF WidgetInv, OkIsRegistered, IsRegistered, Nullifier, run
<1>7. QED
  BY <1>4, <1>6 DEF WidgetInv

LEMMA ReloadKeepsWidgetInv ==
  ASSUME WidgetInv, ReloadPage
  PROVE  WidgetInv'
<1>1. DOMAIN runs' = DOMAIN runs
  BY DEF ReloadPage
<1>2. ASSUME NEW i \in DOMAIN runs
      PROVE  /\ runs'[i] \in Run
             /\ runs'[i].reply = runs[i].reply /\ Nullifier(runs'[i]) = Nullifier(runs[i])
  <2>1. runs[i] \in Run
    BY <1>2 DEF WidgetInv, WidgetTypeOK
  <2>2. runs'[i] = [runs[i] EXCEPT !.pc = IF @ \in {"sent", "orphan"} THEN "orphan" ELSE "over"]
    BY <1>2 DEF ReloadPage
  <2>3. QED
    BY <2>1, <2>2 DEF Run, Nullifier
<1>3. runs' \in Seq(Run)
  <2>1. runs' = [i \in 1 .. Len(runs) |-> runs'[i]] /\ Len(runs) \in Nat /\ DOMAIN runs = 1 .. Len(runs)
    BY <1>1 DEF WidgetInv, WidgetTypeOK, ReloadPage
  <2>2. QED
    BY <1>2, <2>1
<1>4. WidgetTypeOK' /\ StepIsBacked' /\ ResultIsRegistered'
  BY <1>3 DEF WidgetInv, WidgetTypeOK, StepIsBacked, ResultIsRegistered, ReloadPage, ProofStageGone
<1>5. OkIsRegistered'
  BY <1>1, <1>2 DEF WidgetInv, OkIsRegistered, IsRegistered, ReloadPage
<1>6. QED
  BY <1>4, <1>5 DEF WidgetInv

\* A step of run i replaces its record by one about the same file and secret,
\* which says "ok" only of a registered nullifier.
LEMMA OneRunChanges ==
  ASSUME WidgetInv, NEW i \in DOMAIN runs, NEW r \in Run, runs' = [runs EXCEPT ![i] = r],
         registered \subseteq registered',
         r.reply = "ok" => IsRegistered(Nullifier(r))'
  PROVE  runs' \in Seq(Run) /\ OkIsRegistered'
<1>1. runs' \in Seq(Run)
  BY DEF WidgetInv, WidgetTypeOK
<1>2. ASSUME NEW j \in DOMAIN runs', runs'[j].reply = "ok"
      PROVE  \E q \in registered' : q[1] = Nullifier(runs'[j])
  <2>1. CASE j = i
    BY <1>2, <2>1 DEF WidgetInv, WidgetTypeOK, IsRegistered, Nullifier
  <2>2. CASE j # i
    BY <1>2, <2>2 DEF WidgetInv, WidgetTypeOK, OkIsRegistered, IsRegistered, Nullifier
  <2>3. QED
    BY <2>1, <2>2
<1>3. QED
  BY <1>1, <1>2 DEF OkIsRegistered, IsRegistered, Nullifier

LEMMA RunsKeepWidgetInv ==
  ASSUME WidgetInv, NEW i \in DOMAIN runs, Proceeds(i)
  PROVE  WidgetInv'
<1> DEFINE Changed(r) == /\ r \in Run /\ runs' = [runs EXCEPT ![i] = r]
                         /\ r.reply = "ok" => IsRegistered(Nullifier(r))'
<1>1. runs[i] \in Run /\ (runs[i].reply = "ok" => IsRegistered(Nullifier(runs[i])))
  BY DEF WidgetInv, WidgetTypeOK, OkIsRegistered
<1>2. CASE Submit(i)
  <2>1. PICK mock \in BOOLEAN : runs' = [runs EXCEPT ![i].pc = "sent", ![i].mock = mock]
    BY <1>2 DEF Submit
  <2> DEFINE r == [runs[i] EXCEPT !.pc = "sent", !.mock = mock]
  <2>2. r \in Run /\ runs' = [runs EXCEPT ![i] = r] /\ Nullifier(r) = Nullifier(runs[i]) /\ r.reply = runs[i].reply
    <3>1. r \in Run /\ Nullifier(r) = Nullifier(runs[i]) /\ r.reply = runs[i].reply
      BY <1>1 DEF Run, Nullifier
    <3>2. runs \in Seq(Run)
      BY DEF WidgetInv, WidgetTypeOK
    <3>3. runs' = [runs EXCEPT ![i] = r]
      BY <2>1, <3>2
    <3>4. QED
      BY <3>1, <3>3
  <2>3. registered' = registered
    BY <1>2 DEF Submit
  <2> HIDE DEF r
  <2>4. runs' \in Seq(Run) /\ OkIsRegistered'
    BY <1>1, <2>2, <2>3, OneRunChanges DEF IsRegistered, Nullifier
  <2>5. QED
    BY <1>2, <2>4 DEF Submit, shown, WidgetInv, WidgetTypeOK, StepIsBacked, ResultIsRegistered
<1>3. CASE Register(i)
  <2>1. PICK reply \in {"ok", "demo", "error"} :
          /\ \/ registered' = registered \cup {<<Nullifier(runs[i]), runs[i].wallet>>}
             \/ reply # "ok" /\ UNCHANGED registered
          /\ runs' = [runs EXCEPT ![i].pc = IF @ = "sent" THEN "answered" ELSE "over", ![i].reply = reply]
    BY <1>3 DEF Register
  <2> DEFINE r == [runs[i] EXCEPT !.pc = IF @ = "sent" THEN "answered" ELSE "over", !.reply = reply]
  <2>2. r \in Run /\ runs' = [runs EXCEPT ![i] = r] /\ Nullifier(r) = Nullifier(runs[i]) /\ r.reply = reply
    BY <1>1, <2>1 DEF Run, WidgetInv, WidgetTypeOK, Nullifier
  <2>3. registered \subseteq registered'
    BY <2>1
  <2>4. reply = "ok" => \E q \in registered' : q[1] = Nullifier(runs[i])
    <3>1. HAVE reply = "ok"
    <3>2. <<Nullifier(runs[i]), runs[i].wallet>> \in registered'
      BY <2>1, <3>1
    <3>3. QED
      BY <3>2
  <2> HIDE DEF r
  <2>5. runs' \in Seq(Run) /\ OkIsRegistered'
    BY <2>2, <2>3, <2>4, OneRunChanges DEF IsRegistered, Nullifier
  <2>6. QED
    BY <1>3, <2>3, <2>5 DEF Register, shown, WidgetInv, WidgetTypeOK, StepIsBacked, ResultIsRegistered
<1>4. CASE Succeeds(i)
  <2> DEFINE r == [runs[i] EXCEPT !.pc = "over"]
  <2>1. r \in Run /\ runs' = [runs EXCEPT ![i] = r] /\ Nullifier(r) = Nullifier(runs[i]) /\ r.reply = runs[i].reply
    BY <1>1, <1>4 DEF Succeeds, Run, WidgetInv, WidgetTypeOK, Nullifier
  <2>2. registered' = registered
    BY <1>4 DEF Succeeds
  <2> HIDE DEF r
  <2>3. runs' \in Seq(Run) /\ OkIsRegistered'
    BY <1>1, <2>1, <2>2, OneRunChanges DEF IsRegistered, Nullifier
  <2>4. /\ result' \in Outcome /\ result' # None
        /\ ~result'.demo => \E q \in registered : q[1] = result'.nullifier
    <3>1. /\ result' = [nullifier |-> Nullifier(runs[i]), demo |-> runs[i].reply = "demo"]
          /\ runs[i].reply \in {"ok", "demo"}
      BY <1>4 DEF Succeeds, ResultOf
    <3>2. Nullifier(runs[i]) \in Files \X Nat
      BY <1>1, WidgetAssumption DEF Nullifier, Run
    <3>3. result' \in Outcome
      BY <3>1, <3>2 DEF Outcome
    <3>4. result' # None
      BY <3>3, WidgetAssumption DEF Outcome
    <3>5. result'.nullifier = Nullifier(runs[i]) /\ (~result'.demo => runs[i].reply = "ok")
      BY <3>1
    <3>6. QED
      BY <1>1, <2>2, <3>3, <3>4, <3>5 DEF IsRegistered
  <2>5. QED
    BY <1>4, <2>2, <2>3, <2>4 DEF Succeeds, ProofStageGone, WidgetInv, WidgetTypeOK, StepIsBacked, ResultIsRegistered,
       IsRegistered
<1>5. CASE Fails(i)
  <2> DEFINE r == [runs[i] EXCEPT !.pc = IF @ = "sent" THEN "orphan" ELSE "over"]
  <2>1. r \in Run /\ runs' = [runs EXCEPT ![i] = r] /\ Nullifier(r) = Nullifier(runs[i]) /\ r.reply = runs[i].reply
    BY <1>1, <1>5 DEF Fails, Run, WidgetInv, WidgetTypeOK, Nullifier
  <2>2. registered' = registered
    BY <1>5 DEF Fails
  <2> HIDE DEF r
  <2>3. runs' \in Seq(Run) /\ OkIsRegistered'
    BY <1>1, <2>1, <2>2, OneRunChanges DEF IsRegistered, Nullifier
  <2>4. error' \in BOOLEAN
    BY <1>5 DEF Fails, WidgetInv, WidgetTypeOK, Attached
  <2>5. QED
    BY <1>5, <2>2, <2>3, <2>4 DEF Fails, WidgetInv, WidgetTypeOK, StepIsBacked, ResultIsRegistered
<1>6. QED
  BY <1>2, <1>3, <1>4, <1>5 DEF Proceeds

LEMMA NextKeepsWidgetInv == WidgetInv /\ [WidgetNext]_widget => WidgetInv'
<1>1. SUFFICES ASSUME WidgetInv, [WidgetNext]_widget PROVE WidgetInv'
  OBVIOUS
<1>2. CASE UNCHANGED widget
  BY <1>1, <1>2 DEF widget, shown, WidgetInv, WidgetTypeOK, StepIsBacked, OkIsRegistered, ResultIsRegistered,
     IsRegistered, Nullifier
<1>3. CASE WidgetNext
  BY <1>1, <1>3, ParsesKeepWidgetInv, UserKeepsWidgetInv, RunKeepsWidgetInv, ReloadKeepsWidgetInv, RunsKeepWidgetInv DEF WidgetNext
<1>4. QED
  BY <1>1, <1>2, <1>3

LEMMA WidgetInvAlways == WidgetSpec => []WidgetInv
BY InitEstablishesWidgetInv, NextKeepsWidgetInv, PTL DEF WidgetSpec

\* Type correctness of the widget's state and of the runs in flight.
THEOREM WidgetTypes == WidgetSpec => []WidgetTypeOK
<1>1. WidgetInv => WidgetTypeOK
  BY DEF WidgetInv
<1>2. QED
  BY <1>1, WidgetInvAlways, PTL

\* Whichever parse or run settles in whichever step, the component the step
\* is drawn with has the state it is drawn from.
THEOREM CardIsNeverBlank == WidgetSpec => []NeverBlank
<1>1. WidgetInv => NeverBlank
  BY DEF WidgetInv, StepIsBacked, NeverBlank
<1>2. QED
  BY <1>1, WidgetInvAlways, PTL

\* Proofs are run about the identity that was confirmed, and only of adults.
THEOREM ConfirmedIsProved == WidgetSpec => []WhatWasConfirmed
<1>1. WidgetInv => WhatWasConfirmed
  <2>1. ASSUME WidgetInv, NEW i \in DOMAIN runs PROVE runs[i].file \in AdultFiles
    <3>1. runs[i] \in Run
      BY <2>1 DEF WidgetInv, WidgetTypeOK
    <3>2. QED
      BY <3>1 DEF Run
  <2>2. QED
    BY <2>1 DEF WidgetInv, StepIsBacked, WhatWasConfirmed
<1>2. QED
  BY <1>1, WidgetInvAlways, PTL

\* A result that is shown without the demo mark is in the registry, whichever
\* run it comes from and however late.
THEOREM RealResultIsRegistered == WidgetSpec => []ResultIsRegistered
<1>1. WidgetInv => ResultIsRegistered
  BY DEF WidgetInv
<1>2. QED
  BY <1>1, WidgetInvAlways, PTL

-----------------------------------------------------------------------------
(* The secrets of the runs. *)

\* The stage that is waiting for its button has a secret of its own: none of
\* the runs that were begun, over or not, has it.
SecretsApart ==
  /\ walletData # None => walletData.secret <= drawn
  /\ \A i \in DOMAIN runs : runs[i].secret <= drawn
  /\ step = "prove" /\ ~started => \A i \in DOMAIN runs : runs[i].secret # walletData.secret
  /\ OneRunPerSecret

\* A step that begins no run and draws no secret.
LEMMA SameSecrets ==
  ASSUME WidgetInv, SecretsApart, drawn' = drawn,
         walletData' = walletData \/ walletData' = None,
         DOMAIN runs' = DOMAIN runs, \A i \in DOMAIN runs : runs'[i].secret = runs[i].secret,
         step' = "prove" /\ ~started' => step = "prove" /\ ~started /\ walletData' = walletData
  PROVE  SecretsApart'
BY DEF SecretsApart, OneRunPerSecret

LEMMA RunKeepsOthers ==
  ASSUME WidgetInv, NEW i \in DOMAIN runs,
         \E pc, reply, mock : \/ runs' = [runs EXCEPT ![i].pc = pc]
                              \/ runs' = [runs EXCEPT ![i].pc = pc, ![i].mock = mock]
                              \/ runs' = [runs EXCEPT ![i].pc = pc, ![i].reply = reply]
  PROVE  DOMAIN runs' = DOMAIN runs /\ \A j \in DOMAIN runs : runs'[j].secret = runs[j].secret
<1>1. \A j \in DOMAIN runs : runs[j] \in Run
  BY DEF WidgetInv, WidgetTypeOK
<1>2. DOMAIN runs' = DOMAIN runs
  OBVIOUS
<1>3. \A j \in DOMAIN runs : runs'[j].secret = runs[j].secret
  BY <1>1 DEF Run
<1>4. QED
  BY <1>2, <1>3

LEMMA NextKeepsSecrets == WidgetInv /\ SecretsApart /\ [WidgetNext]_widget => SecretsApart'
<1> SUFFICES ASSUME WidgetInv, SecretsApart, [WidgetNext]_widget PROVE SecretsApart'
  OBVIOUS
<1>1. /\ drawn \in Nat /\ started \in BOOLEAN /\ walletData \in Choice \cup {None}
      /\ \A i \in DOMAIN runs : runs[i] \in Run
  BY DEF WidgetInv, WidgetTypeOK
<1>2. ASSUME NEW f \in Files, SelectFile(f) PROVE SecretsApart'
  BY <1>2, SameSecrets DEF SelectFile, shown
<1>3. ASSUME NEW p \in parsing, ParseDone(p) \/ ParseFails(p) PROVE SecretsApart'
  BY <1>3, SameSecrets DEF ParseDone, ParsedInto, ParseFails, shown
<1>4. CASE Confirm \/ Back \/ reset
  BY <1>4, SameSecrets DEF Confirm, Back, reset, AfterReset
<1>5. CASE ReloadPage
  <2>1. \A i \in DOMAIN runs : runs'[i].secret = runs[i].secret
    BY <1>1, <1>5 DEF ReloadPage, Run
  <2>2. QED
    BY <1>5, <2>1, SameSecrets DEF ReloadPage
<1>6. CASE run
  \* The secret of the new run is that of the stage, which no run had.
  <2> DEFINE new == [file |-> aadhaar, wallet |-> walletData.wallet, secret |-> walletData.secret,
                     mock |-> FALSE, reply |-> "none", pc |-> "proving"]
             n == Len(runs)
  <2>1. runs \in Seq(Run) /\ runs' = Append(runs, new)
    BY <1>6 DEF run, WidgetInv, WidgetTypeOK
  <2>2. n \in Nat /\ DOMAIN runs = 1 .. n /\ DOMAIN runs' = 1 .. (n + 1)
    BY <2>1
  <2>3. /\ \A i \in 1 .. n : runs'[i] = runs[i]
        /\ runs'[n + 1] = new
    BY <2>1
  <2> HIDE DEF n
  <2>4. new.secret = walletData.secret
    OBVIOUS
  <2> HIDE DEF new
  <2>5. /\ step = "prove" /\ ~started /\ started' /\ drawn' = drawn
        /\ walletData' = walletData /\ walletData # None
    BY <1>6 DEF run
  <2>6. \A i \in 1 .. (n + 1) : i = n + 1 \/ i \in 1 .. n
    BY <2>2
  <2>7. \A i \in 1 .. (n + 1) : runs'[i].secret <= drawn'
    BY <2>2, <2>3, <2>4, <2>5, <2>6 DEF SecretsApart
  <2>8. ASSUME NEW i \in 1 .. (n + 1), NEW j \in 1 .. (n + 1), runs'[i].secret = runs'[j].secret PROVE i = j
    BY <2>2, <2>3, <2>4, <2>5, <2>6, <2>8 DEF SecretsApart, OneRunPerSecret
  <2>9. QED
    BY <2>2, <2>5, <2>7, <2>8 DEF SecretsApart, OneRunPerSecret
<1>7. ASSUME NEW w \in Wallets, proceed(w) PROVE SecretsApart'
  \* The secret drawn is above those of all runs.
  <2>1. /\ runs' = runs /\ drawn' = drawn + 1 /\ walletData'.secret = drawn'
    BY <1>7 DEF proceed
  <2>2. \A i \in DOMAIN runs : runs[i].secret \in Nat /\ runs[i].secret <= drawn
    BY <1>1 DEF Run, SecretsApart
  <2>3. QED
    BY <1>1, <2>1, <2>2 DEF SecretsApart, OneRunPerSecret
<1>8. ASSUME NEW i \in DOMAIN runs, Proceeds(i) PROVE SecretsApart'
  <2>1. DOMAIN runs' = DOMAIN runs /\ \A j \in DOMAIN runs : runs'[j].secret = runs[j].secret
    <3>1. CASE Submit(i)
      BY <3>1, RunKeepsOthers DEF Submit
    <3>2. CASE Register(i)
      <4>1. PICK reply : runs' = [runs EXCEPT ![i].pc = IF @ = "sent" THEN "answered" ELSE "over",
                                              ![i].reply = reply]
        BY <3>2 DEF Register
      <4> DEFINE pc == IF runs[i].pc = "sent" THEN "answered" ELSE "over"
      <4>2. runs' = [runs EXCEPT ![i].pc = pc, ![i].reply = reply]
        BY <4>1
      <4> HIDE DEF pc
      <4>3. QED
        BY <4>2, RunKeepsOthers
    <3>3. CASE Succeeds(i)
      BY <3>3, RunKeepsOthers DEF Succeeds
    <3>4. CASE Fails(i)
      BY <3>4, RunKeepsOthers DEF Fails
    <3>5. QED
      BY <1>8, <3>1, <3>2, <3>3, <3>4 DEF Proceeds
  <2>2. /\ drawn' = drawn /\ walletData' = walletData
        /\ step' = "prove" /\ ~started' => step = "prove" /\ ~started
    <3>1. CASE Submit(i)
      BY <3>1 DEF Submit, shown
    <3>1a. CASE Register(i)
      <4>1. UNCHANGED <<shown, drawn>>
        BY <3>1a, Zenon DEF Register
      <4>2. QED
        BY <4>1 DEF shown
    <3>2. CASE Succeeds(i)
      BY <3>2 DEF Succeeds
    <3>3. CASE Fails(i)
      BY <3>3 DEF Fails
    <3>4. QED
      BY <1>8, <3>1, <3>1a, <3>2, <3>3 DEF Proceeds
  <2>3. QED
    BY <2>1, <2>2, SameSecrets
<1>9. CASE UNCHANGED widget
  BY <1>9, SameSecrets DEF widget, shown
<1>10. QED
  BY <1>2, <1>3, <1>4, <1>5, <1>6, <1>7, <1>8, <1>9 DEF WidgetNext

\* No nullifier goes to the backend from two runs of the widget, whichever
\* parses and runs overtake each other.
THEOREM SecretsAreRunOnce == WidgetSpec => []OneRunPerSecret
<1>1. WidgetInit => SecretsApart
  BY DEF WidgetInit, SecretsApart, OneRunPerSecret
<1>2. SecretsApart => OneRunPerSecret
  BY DEF SecretsApart
<1>3. QED
  BY <1>1, <1>2, WidgetInvAlways, NextKeepsSecrets, PTL DEF WidgetSpec

-----------------------------------------------------------------------------
(* The proof pipeline. *)

(* Loops and folds. *)

LEMMA NatInductionOnSet ==
  ASSUME NEW S, 0 \in S, \A n \in Nat : n \in S => n + 1 \in S
  PROVE  \A n \in Nat : n \in S
<1> DEFINE Rest == Nat \ S
<1>1. SUFFICES ASSUME Rest # {} PROVE FALSE
  OBVIOUS
<1>2. PICK x \in Rest : \A y \in Rest : ~(<<y, x>> \in OpToRel(<, Nat))
  BY <1>1, NatLessThanWellFounded, WFMin
<1>3. x # 0 /\ x - 1 \in Nat /\ x - 1 < x
  OBVIOUS
<1>4. x - 1 \notin Rest
  BY <1>2, <1>3 DEF OpToRel
<1>5. QED
  BY <1>3, <1>4

\* What a loop over 1 .. n computes in f, and a fold that takes the last member
\* of a set first computes in g, when both start from b and use the body G.
IsLoop(n, b, G, f) == \A i \in 0 .. n : f[i] = IF i = 0 THEN b ELSE G[<<i, f[i - 1]>>]
IsFold(n, b, G, g) ==
  \A s \in SUBSET (1 .. n) : g[s] = IF s = {} THEN b ELSE G[<<Max(s), g[s \ {Max(s)}]>>]

\* The same, where nothing is said of the values that G is not made for.
LoopOn(n, V, b, G, f) ==
  f[0] = b /\ \A i \in 1 .. n : f[i - 1] \in V => f[i] = G[<<i, f[i - 1]>>]
FoldOn(n, V, b, G, g) ==
  /\ g[{}] = b
  /\ \A s \in SUBSET (1 .. n) :
       s # {} /\ g[s \ {Max(s)}] \in V => g[s] = G[<<Max(s), g[s \ {Max(s)}]>>]

\* They compute the same.
Meet(n, V, f, g) == f[n] \in V /\ g[1 .. n] = f[n]

\* A loop over 1 .. n whose body G maps V to V computes something.
LEMMA LoopExists ==
  ASSUME NEW n \in Nat, NEW V, NEW b \in V, NEW G \in [(1 .. n) \X V -> V]
  PROVE  \E f \in [0 .. n -> V] : IsLoop(n, b, G, f)
<1> DEFINE Upto(f, m) == \A i \in 0 .. n : i <= m => f[i] = IF i = 0 THEN b ELSE G[<<i, f[i - 1]>>]
           S == {m \in Nat : \E f \in [0 .. n -> V] : Upto(f, m)}
<1>1. 0 \in S
  <2>1. [i \in 0 .. n |-> b] \in [0 .. n -> V] /\ Upto([i \in 0 .. n |-> b], 0)
    OBVIOUS
  <2> HIDE DEF Upto
  <2>2. QED
    BY <2>1
<1>2. ASSUME NEW m \in Nat, m \in S PROVE m + 1 \in S
  <2>1. PICK f \in [0 .. n -> V] : Upto(f, m)
    BY <1>2
  <2> DEFINE h == [i \in 0 .. n |-> IF i = m + 1 THEN G[<<i, f[i - 1]>>] ELSE f[i]]
  <2>2. h \in [0 .. n -> V]
    <3>1. m + 1 \in 0 .. n => m \in 0 .. n /\ G[<<m + 1, f[m]>>] \in V
      OBVIOUS
    <3>2. QED
      BY <3>1
  <2>3. Upto(h, m + 1)
    <3>1. SUFFICES ASSUME NEW i \in 0 .. n, i <= m + 1
                   PROVE  h[i] = IF i = 0 THEN b ELSE G[<<i, h[i - 1]>>]
      OBVIOUS
    <3>2. i # 0 => i - 1 \in 0 .. n /\ i - 1 # m + 1 /\ h[i - 1] = f[i - 1]
      BY <3>1
    <3>3. CASE i = m + 1
      BY <3>2, <3>3
    <3>4. CASE i # m + 1
      <4>1. f[i] = (IF i = 0 THEN b ELSE G[<<i, f[i - 1]>>]) /\ h[i] = f[i]
        BY <2>1, <3>1, <3>4
      <4>2. QED
        BY <3>2, <4>1
    <3>5. QED
      BY <3>3, <3>4
  <2> HIDE DEF Upto, h
  <2>4. QED
    BY <2>2, <2>3
<1>3. n \in S
  <2> HIDE DEF S
  <2>1. QED
    BY <1>1, <1>2, NatInductionOnSet
<1>4. PICK f \in [0 .. n -> V] : Upto(f, n)
  BY <1>3
<1>5. IsLoop(n, b, G, f)
  BY <1>4 DEF IsLoop
<1>6. QED
  BY <1>5

\* The next member of a set that a fold over a sequence takes.
LEMMA MaxIsLast ==
  ASSUME NEW n \in Nat, NEW s \in SUBSET (1 .. n), s # {}
  PROVE  Max(s) \in s /\ \A y \in s : y <= Max(s)
<1> DEFINE S == {m \in Nat : \A t \in SUBSET (1 .. m) : t # {} => \E x \in t : \A y \in t : x >= y}
<1>1. 0 \in S
  <2>1. \A t \in SUBSET (1 .. 0) : t = {}
    OBVIOUS
  <2>2. QED
    BY <2>1
<1>2. ASSUME NEW m \in Nat, m \in S PROVE m + 1 \in S
  <2>1. SUFFICES ASSUME NEW t \in SUBSET (1 .. (m + 1)), t # {} PROVE \E x \in t : \A y \in t : x >= y
    OBVIOUS
  <2>2. CASE m + 1 \in t
    BY <2>2
  <2>3. CASE m + 1 \notin t
    <3>1. t \in SUBSET (1 .. m)
      BY <2>3
    <3>2. QED
      BY <1>2, <2>1, <3>1
  <2>4. QED
    BY <2>2, <2>3
<1>3. n \in S
  <2> HIDE DEF S
  <2>1. QED
    BY <1>1, <1>2, NatInductionOnSet
<1>4. \E x \in s : \A y \in s : x >= y
  BY <1>3
<1>5. Max(s) \in s /\ \A y \in s : Max(s) >= y
  BY <1>4 DEF Max
<1>6. QED
  BY <1>5

LEMMA FoldExists ==
  ASSUME NEW n \in Nat, NEW V, NEW b \in V, NEW G \in [(1 .. n) \X V -> V]
  PROVE  \E g \in [SUBSET (1 .. n) -> V] : IsFold(n, b, G, g)
<1> DEFINE Upto(g, m) == \A s \in SUBSET (1 .. n) :
               s \subseteq 1 .. m => g[s] = IF s = {} THEN b ELSE G[<<Max(s), g[s \ {Max(s)}]>>]
           S == {m \in Nat : \E g \in [SUBSET (1 .. n) -> V] : Upto(g, m)}
<1>1. \A s \in SUBSET (1 .. n) : s # {} => Max(s) \in 1 .. n /\ s \ {Max(s)} \in SUBSET (1 .. n)
  BY MaxIsLast
<1>2. 0 \in S
  <2>1. \A s : s \subseteq 1 .. 0 => s = {}
    OBVIOUS
  <2>2. Upto([s \in SUBSET (1 .. n) |-> b], 0)
    BY <2>1
  <2>3. [s \in SUBSET (1 .. n) |-> b] \in [SUBSET (1 .. n) -> V]
    OBVIOUS
  <2> HIDE DEF Upto
  <2>4. QED
    BY <2>2, <2>3
<1>3. ASSUME NEW m \in Nat, m \in S PROVE m + 1 \in S
  <2>1. PICK g \in [SUBSET (1 .. n) -> V] : Upto(g, m)
    BY <1>3
  <2> DEFINE h == [s \in SUBSET (1 .. n) |-> IF s = {} THEN b ELSE G[<<Max(s), g[s \ {Max(s)}]>>]]
  <2>2. h \in [SUBSET (1 .. n) -> V]
    <3>1. \A s \in SUBSET (1 .. n) : s # {} => G[<<Max(s), g[s \ {Max(s)}]>>] \in V
      BY <1>1
    <3>2. QED
      BY <3>1
  <2>3. \A s \in SUBSET (1 .. n) : s \subseteq 1 .. m => h[s] = g[s]
    BY <2>1
  <2>4. ASSUME NEW s \in SUBSET (1 .. n), s \subseteq 1 .. (m + 1), s # {}
        PROVE  h[s \ {Max(s)}] = g[s \ {Max(s)}]
    <3>1. s \ {Max(s)} \in SUBSET (1 .. n) /\ Max(s) \in s /\ \A y \in s : y <= Max(s)
      BY <2>4, MaxIsLast
    <3>2. ASSUME NEW y \in s \ {Max(s)} PROVE y \in 1 .. m
      <4>1. y \in 1 .. (m + 1) /\ Max(s) \in 1 .. (m + 1) /\ y <= Max(s) /\ y # Max(s)
        BY <2>4, <3>1, <3>2
      <4>2. QED
        BY <4>1
    <3> HIDE DEF h
    <3>3. QED
      BY <2>3, <3>1, <3>2
  <2>5. Upto(h, m + 1)
    BY <2>4
  <2> HIDE DEF Upto, h
  <2>6. QED
    BY <2>2, <2>5
<1>4. n \in S
  <2> HIDE DEF S
  <2>1. QED
    BY <1>2, <1>3, NatInductionOnSet
<1>5. PICK g \in [SUBSET (1 .. n) -> V] : Upto(g, n)
  BY <1>4
<1>6. IsFold(n, b, G, g)
  BY <1>5 DEF IsFold
<1>7. QED
  BY <1>6

\* The recursive function of the prover and the fold of the circuit.
LEMMA FoldMeetsLoop ==
  ASSUME NEW n \in Nat, NEW V, NEW b \in V, NEW G \in [(1 .. n) \X V -> V],
         NEW f, LoopOn(n, V, b, G, f), NEW g, FoldOn(n, V, b, G, g)
  PROVE  Meet(n, V, f, g)
<1> DEFINE S == {i \in Nat : i <= n => f[i] \in V /\ g[1 .. i] = f[i]}
<1>0. /\ f[0] = b /\ \A i \in 1 .. n : f[i - 1] \in V => f[i] = G[<<i, f[i - 1]>>]
      /\ g[{}] = b
      /\ \A s \in SUBSET (1 .. n) :
           s # {} /\ g[s \ {Max(s)}] \in V => g[s] = G[<<Max(s), g[s \ {Max(s)}]>>]
  BY DEF LoopOn, FoldOn
<1>1. 0 \in S
  <2>1. 1 .. 0 = {}
    OBVIOUS
  <2>2. g[1 .. 0] = b
    BY <1>0, <2>1, Zenon
  <2>3. QED
    BY <1>0, <2>2
<1>2. ASSUME NEW i \in Nat, i \in S PROVE i + 1 \in S
  <2>1. SUFFICES ASSUME i + 1 <= n PROVE f[i + 1] \in V /\ g[1 .. (i + 1)] = f[i + 1]
    OBVIOUS
  <2>2. f[i] \in V /\ g[1 .. i] = f[i]
    BY <1>2, <2>1
  <2>3. f[i + 1] = G[<<i + 1, f[i]>>] /\ f[i + 1] \in V
    <3>1. i + 1 \in 1 .. n /\ (i + 1) - 1 = i
      BY <2>1
    <3>2. QED
      BY <1>0, <2>2, <3>1
  <2> DEFINE s == 1 .. (i + 1)
  <2>4. s \in SUBSET (1 .. n) /\ s # {} /\ i + 1 \in s /\ \A y \in s : y <= i + 1 /\ y \in Nat
    BY <2>1
  <2> HIDE DEF s
  <2>5. Max(s) = i + 1
    <3>1. Max(s) \in s /\ \A y \in s : y <= Max(s)
      BY <2>4, MaxIsLast
    <3>2. Max(s) \in Nat /\ Max(s) <= i + 1 /\ i + 1 <= Max(s)
      BY <2>4, <3>1
    <3>3. QED
      BY <3>2
  <2>6. g[s \ {i + 1}] = g[1 .. i]
    <3>1. s \ {i + 1} = 1 .. i
      BY DEF s
    <3>2. QED
      BY <3>1, Zenon
  <2>7. g[s] = G[<<i + 1, g[s \ {i + 1}]>>]
    BY <1>0, <2>2, <2>4, <2>5, <2>6
  <2>8. QED
    BY <2>2, <2>3, <2>6, <2>7 DEF s
<1>3. n \in S
  <2> HIDE DEF S
  <2>1. QED
    BY <1>1, <1>2, NatInductionOnSet
<1>4. QED
  BY <1>3 DEF Meet

-----------------------------------------------------------------------------
(* The prover's hashing is the circuit's. *)

LEMMA ModIsField == \A z \in Int : z % P \in Field
BY FieldAssumption DEF Field

LEMMA TimesIsField == \A a, b \in Int : Times(a, b) \in Field
<1>1. \A a, b \in Int : a * b \in Int
  OBVIOUS
<1>2. QED
  BY <1>1, ModIsField DEF Times

LEMMA FieldIsNat == Field \subseteq Nat /\ Field \subseteq Int
BY FieldAssumption DEF Field

\* Round i of the cipher, with key k.
RoundOf(k, i, v) == Times(Times(Times((v + k + MimcConstants[i]) % P, (v + k + MimcConstants[i]) % P),
                                Times((v + k + MimcConstants[i]) % P, (v + k + MimcConstants[i]) % P)),
                          (v + k + MimcConstants[i]) % P)

LEMMA RoundIsField ==
  ASSUME NEW k \in Nat, NEW i \in 1 .. Len(MimcConstants), NEW v \in Nat
  PROVE  RoundOf(k, i, v) \in Field
<1>1. MimcConstants[i] \in Int
  BY FieldAssumption
<1>2. (v + k + MimcConstants[i]) % P \in Int
  <2>1. v + k + MimcConstants[i] \in Int
    BY <1>1
  <2>2. QED
    BY <2>1, ModIsField, FieldIsNat
<1>3. QED
  BY <1>2, TimesIsField, FieldIsNat DEF RoundOf

Rounds(m, k, f) ==
  f = [i \in 0 .. Len(MimcConstants) |-> IF i = 0 THEN m ELSE RoundOf(k, i, f[i - 1])]

FoldedRounds(m, k, g) ==
  g = [s \in SUBSET (DOMAIN MimcConstants) |-> IF s = {} THEN m ELSE RoundOf(k, Max(s), g[s \ {Max(s)}])]

LEMMA EncryptUnfolded ==
  ASSUME NEW m, NEW k
  PROVE  /\ mimcEncrypt(m, k) = ((CHOOSE f : Rounds(m, k, f))[Len(MimcConstants)] + k) % P
         /\ MiMCEncrypt(m, k) = ((CHOOSE g : FoldedRounds(m, k, g))[DOMAIN MimcConstants] + k) % P
<1>1. mimcEncrypt(m, k) = ((CHOOSE f : Rounds(m, k, f))[Len(MimcConstants)] + k) % P
  BY DEF mimcEncrypt, Rounds, RoundOf, Power4
<1>2. MiMCEncrypt(m, k) = ((CHOOSE g : FoldedRounds(m, k, g))[DOMAIN MimcConstants] + k) % P
  BY DEF MiMCEncrypt, FoldedRounds, RoundOf, FoldLeft, MapThenFoldSet
<1>3. QED
  BY <1>1, <1>2

\* mimcEncrypt() of mimc.ts computes what the circuit's template constrains,
\* for messages and keys that exceed the field too.
\* The numbers a round takes and gives, as a set the provers need not look into.
Num == Nat

LEMMA EncryptAgrees ==
  ASSUME NEW m \in Nat, NEW k \in Nat
  PROVE  mimcEncrypt(m, k) \in Field /\ MiMCEncrypt(m, k) = mimcEncrypt(m, k)
<1> DEFINE f == CHOOSE f : Rounds(m, k, f)
           g == CHOOSE g : FoldedRounds(m, k, g)
<1>0. m \in Num /\ k \in Num
  BY DEF Num
<1>1. PICK n \in Nat : n = Len(MimcConstants) /\ DOMAIN MimcConstants = 1 .. n
  BY FieldAssumption
<1>2. PICK G \in [(1 .. n) \X Num -> Num] : \A i \in 1 .. n, v \in Num : G[<<i, v>>] = RoundOf(k, i, v)
  <2> DEFINE H == [p \in (1 .. n) \X Num |-> RoundOf(k, p[1], p[2])]
  <2>1. H \in [(1 .. n) \X Num -> Num] /\ \A i \in 1 .. n, v \in Num : H[<<i, v>>] = RoundOf(k, i, v)
    BY <1>1, RoundIsField, FieldIsNat DEF Num
  <2> HIDE DEF H
  <2>2. QED
    BY <2>1
<1>3. Rounds(m, k, f)
  <2>1. PICK h \in [0 .. n -> Num] : IsLoop(n, m, G, h)
    BY <1>0, <1>1, <1>2, LoopExists
  <2>2. \A i \in 0 .. n : i # 0 => i \in 1 .. n /\ h[i - 1] \in Num
    <3>1. \A i \in 0 .. n : i # 0 => i \in 1 .. n /\ i - 1 \in 0 .. n
      BY <1>1
    <3>2. QED
      BY <2>1, <3>1
  <2>3. \A i \in 0 .. n : i # 0 => G[<<i, h[i - 1]>>] = RoundOf(k, i, h[i - 1])
    BY <1>2, <2>2
  <2>4. Rounds(m, k, h)
    BY <1>1, <2>1, <2>3 DEF IsLoop, Rounds
  <2>5. QED
    BY <2>4
<1>4. FoldedRounds(m, k, g)
  <2>1. PICK h \in [SUBSET (1 .. n) -> Num] : IsFold(n, m, G, h)
    BY <1>0, <1>1, <1>2, FoldExists
  <2>2. \A s \in SUBSET (1 .. n) : s # {} => Max(s) \in 1 .. n /\ h[s \ {Max(s)}] \in Num
    BY <1>1, MaxIsLast
  <2>3. \A s \in SUBSET (1 .. n) : s # {} => G[<<Max(s), h[s \ {Max(s)}]>>] = RoundOf(k, Max(s), h[s \ {Max(s)}])
    BY <1>2, <2>2
  <2>4. FoldedRounds(m, k, h)
    BY <1>1, <2>1, <2>3 DEF IsFold, FoldedRounds
  <2>5. QED
    BY <2>4
<1> HIDE DEF f, g
<1>5. LoopOn(n, Num, m, G, f)
  BY <1>1, <1>2, <1>3 DEF LoopOn, Rounds
<1>6. FoldOn(n, Num, m, G, g)
  <2>1. \A s \in SUBSET (1 .. n) : s # {} => Max(s) \in 1 .. n
    BY <1>1, MaxIsLast
  <2>2. \A s \in SUBSET (1 .. n) : g[s] = IF s = {} THEN m ELSE RoundOf(k, Max(s), g[s \ {Max(s)}])
    BY <1>1, <1>4 DEF FoldedRounds
  <2>3. QED
    BY <1>2, <2>1, <2>2 DEF FoldOn
<1>7. f[n] \in Num /\ g[1 .. n] = f[n]
  <2>1. Meet(n, Num, f, g)
    BY <1>0, <1>1, <1>2, <1>5, <1>6, FoldMeetsLoop
  <2>2. QED
    BY <2>1 DEF Meet
<1>8. (f[n] + k) % P \in Field
  BY <1>7, ModIsField DEF Num
<1>9. QED
  BY <1>1, <1>7, <1>8, EncryptUnfolded DEF f, g

\* Absorbing the i-th input into the sponge's state, as the prover does it.
Absorb(ins, i, v) == (mimcEncrypt(ins[i], v) + v + ins[i]) % P

\* And as the circuit constrains it.
Absorbed(ins, i, v) == (MiMCEncrypt(ins[i], v) + v + ins[i]) % P

LEMMA AbsorbIsField ==
  ASSUME NEW ins \in Seq(Nat), NEW i \in 1 .. Len(ins), NEW v \in Nat
  PROVE  /\ Absorb(ins, i, v) \in Field
         /\ Absorbed(ins, i, v) = Absorb(ins, i, v)
<1>1. ins[i] \in Nat
  OBVIOUS
<1>2. mimcEncrypt(ins[i], v) \in Int /\ MiMCEncrypt(ins[i], v) = mimcEncrypt(ins[i], v)
  BY <1>1, EncryptAgrees, FieldIsNat
<1>3. mimcEncrypt(ins[i], v) + v + ins[i] \in Int
  BY <1>1, <1>2
<1>4. QED
  BY <1>2, <1>3, ModIsField DEF Absorb, Absorbed

Sponge(ins, f) == f = [i \in 0 .. Len(ins) |-> IF i = 0 THEN 0 ELSE Absorb(ins, i, f[i - 1])]

FoldedSponge(ins, g) ==
  g = [s \in SUBSET (DOMAIN ins) |->
        IF s = {} THEN 0 ELSE Absorbed(ins, Max(s), g[s \ {Max(s)}])]

LEMMA HashUnfolded ==
  ASSUME NEW ins
  PROVE  /\ mimcHash(ins) = (CHOOSE f : Sponge(ins, f))[Len(ins)]
         /\ MiMCHash(ins) = (CHOOSE g : FoldedSponge(ins, g))[DOMAIN ins]
<1>1. mimcHash(ins) = (CHOOSE f : Sponge(ins, f))[Len(ins)]
  BY DEF mimcHash, Sponge, Absorb
<1>2. MiMCHash(ins) = (CHOOSE g : FoldedSponge(ins, g))[DOMAIN ins]
  BY DEF MiMCHash, FoldedSponge, Absorbed, FoldLeft, MapThenFoldSet
<1>3. QED
  BY <1>1, <1>2

\* mimcHash() of mimc.ts computes the circuit's Miyaguchi-Preneel hash.
LEMMA HashAgrees ==
  ASSUME NEW ins \in Seq(Nat)
  PROVE  mimcHash(ins) \in Nat /\ MiMCHash(ins) = mimcHash(ins)
<1> DEFINE f == CHOOSE f : Sponge(ins, f)
           g == CHOOSE g : FoldedSponge(ins, g)
<1>0. 0 \in Num
  BY DEF Num
<1>1. PICK n \in Nat : n = Len(ins) /\ DOMAIN ins = 1 .. n
  OBVIOUS
<1>2. PICK G \in [(1 .. n) \X Num -> Num] : 
        \A i \in 1 .. n, v \in Num : G[<<i, v>>] = Absorb(ins, i, v) /\ G[<<i, v>>] = Absorbed(ins, i, v)
  <2> DEFINE H == [p \in (1 .. n) \X Num |-> Absorb(ins, p[1], p[2])]
  <2>1. /\ H \in [(1 .. n) \X Num -> Num] 
        /\ \A i \in 1 .. n, v \in Num : H[<<i, v>>] = Absorb(ins, i, v) /\ H[<<i, v>>] = Absorbed(ins, i, v)
    BY <1>1, AbsorbIsField, FieldIsNat DEF Num
  <2> HIDE DEF H
  <2>2. QED
    BY <2>1
<1>3. Sponge(ins, f)
  <2>1. PICK h \in [0 .. n -> Num] : IsLoop(n, 0, G, h)
    BY <1>0, <1>1, <1>2, LoopExists
  <2>2. \A i \in 0 .. n : i # 0 => i \in 1 .. n /\ h[i - 1] \in Num
    <3>1. \A i \in 0 .. n : i # 0 => i \in 1 .. n /\ i - 1 \in 0 .. n
      BY <1>1
    <3>2. QED
      BY <2>1, <3>1
  <2>3. \A i \in 0 .. n : i # 0 => G[<<i, h[i - 1]>>] = Absorb(ins, i, h[i - 1])
    BY <1>2, <2>2
  <2>4. Sponge(ins, h)
    BY <1>1, <2>1, <2>3 DEF IsLoop, Sponge
  <2>5. QED
    BY <2>4
<1>4. FoldedSponge(ins, g)
  <2>1. PICK h \in [SUBSET (1 .. n) -> Num] : IsFold(n, 0, G, h)
    BY <1>0, <1>1, <1>2, FoldExists
  <2>2. \A s \in SUBSET (1 .. n) : s # {} => Max(s) \in 1 .. n /\ h[s \ {Max(s)}] \in Num
    BY <1>1, MaxIsLast
  <2>3. \A s \in SUBSET (1 .. n) : s # {} => G[<<Max(s), h[s \ {Max(s)}]>>] = Absorbed(ins, Max(s), h[s \ {Max(s)}])
    BY <1>2, <2>2
  <2>4. FoldedSponge(ins, h)
    BY <1>1, <2>1, <2>3 DEF IsFold, FoldedSponge
  <2>5. QED
    BY <2>4
<1> HIDE DEF f, g
<1>5. LoopOn(n, Num, 0, G, f)
  <2>1. \A i \in 0 .. n : f[i] = IF i = 0 THEN 0 ELSE Absorb(ins, i, f[i - 1])
    BY <1>1, <1>3 DEF Sponge
  <2>2. 0 \in 0 .. n /\ \A i \in 1 .. n : i \in 0 .. n /\ i # 0
    BY <1>1
  <2>3. \A i \in 1 .. n : f[i - 1] \in Num => f[i] = G[<<i, f[i - 1]>>]
    BY <1>2, <2>1, <2>2
  <2>4. QED
    BY <2>1, <2>2, <2>3 DEF LoopOn
<1>6. FoldOn(n, Num, 0, G, g)
  <2>1. \A s \in SUBSET (1 .. n) : s # {} => Max(s) \in 1 .. n
    BY <1>1, MaxIsLast
  <2>2. \A s \in SUBSET (1 .. n) : g[s] = IF s = {} THEN 0 ELSE Absorbed(ins, Max(s), g[s \ {Max(s)}])
    BY <1>1, <1>4 DEF FoldedSponge
  <2>3. QED
    BY <1>2, <2>1, <2>2 DEF FoldOn
<1>7. f[n] \in Num /\ g[1 .. n] = f[n]
  <2>1. Meet(n, Num, f, g)
    BY <1>0, <1>1, <1>2, <1>5, <1>6, FoldMeetsLoop
  <2>2. QED
    BY <2>1 DEF Meet
<1>8. QED
  BY <1>1, <1>7, HashUnfolded DEF f, g, Num

LEMMA NodeIsParent ==
  ASSUME NEW v \in Nat, NEW sibling \in Nat, NEW p
  PROVE  Node(v, sibling, p) \in Nat /\ Parent(v, sibling, p) = Node(v, sibling, p)
<1>1. <<v, sibling>> \in Seq(Nat) /\ <<sibling, v>> \in Seq(Nat)
  OBVIOUS
<1>2. QED
  BY <1>1, HashAgrees DEF Node, Parent

\* A level of the path as the circuit's fold over the levels reaches it.
Level(siblings, pos, i, v) ==
  Parent(v, siblings[[j \in 1 .. SMT_DEPTH |-> j][i]], pos[[j \in 1 .. SMT_DEPTH |-> j][i]])

Path(leaf, siblings, pos, f) ==
  f = [i \in 0 .. SMT_DEPTH |-> IF i = 0 THEN leaf ELSE Node(f[i - 1], siblings[i], pos[i])]

FoldedPath(leaf, siblings, pos, g) ==
  g = [s \in SUBSET (1 .. SMT_DEPTH) |->
        IF s = {} THEN leaf ELSE Level(siblings, pos, Max(s), g[s \ {Max(s)}])]

LEMMA RootUnfolded ==
  ASSUME NEW leaf, NEW siblings, NEW pos
  PROVE  /\ computeMerkleRoot(leaf, siblings, pos) = (CHOOSE f : Path(leaf, siblings, pos, f))[SMT_DEPTH]
         /\ Root(leaf, siblings, pos) = (CHOOSE g : FoldedPath(leaf, siblings, pos, g))[1 .. SMT_DEPTH]
<1>1. computeMerkleRoot(leaf, siblings, pos) = (CHOOSE f : Path(leaf, siblings, pos, f))[SMT_DEPTH]
  BY DEF computeMerkleRoot, Path
<1>2. Root(leaf, siblings, pos) = (CHOOSE g : FoldedPath(leaf, siblings, pos, g))[1 .. SMT_DEPTH]
  <2>1. DOMAIN [i \in 1 .. SMT_DEPTH |-> i] = 1 .. SMT_DEPTH
    OBVIOUS
  <2>2. QED
    BY <2>1 DEF Root, FoldedPath, Level, FoldLeft, MapThenFoldSet
<1>3. QED
  BY <1>1, <1>2

\* The root the prover computes is the one the circuit's levels constrain,
\* whatever the leaf's position and its siblings.
LEMMA RootAgrees ==
  ASSUME NEW leaf \in Nat, NEW siblings \in [1 .. SMT_DEPTH -> Nat], NEW pos
  PROVE  Root(leaf, siblings, pos) = computeMerkleRoot(leaf, siblings, pos)
<1> DEFINE f == CHOOSE f : Path(leaf, siblings, pos, f)
           g == CHOOSE g : FoldedPath(leaf, siblings, pos, g)
<1>0. leaf \in Num
  BY DEF Num
<1>1. PICK n \in Nat : n = SMT_DEPTH
  BY FieldAssumption
<1>2. PICK G \in [(1 .. n) \X Num -> Num] : 
        \A i \in 1 .. n, v \in Num : /\ G[<<i, v>>] = Node(v, siblings[i], pos[i])
                                    /\ G[<<i, v>>] = Level(siblings, pos, i, v)
  <2> DEFINE H == [p \in (1 .. n) \X Num |-> Node(p[2], siblings[p[1]], pos[p[1]])]
  <2>1. /\ H \in [(1 .. n) \X Num -> Num] 
        /\ \A i \in 1 .. n, v \in Num : /\ H[<<i, v>>] = Node(v, siblings[i], pos[i])
                                       /\ H[<<i, v>>] = Level(siblings, pos, i, v)
    BY <1>1, NodeIsParent DEF Num, Level
  <2> HIDE DEF H
  <2>2. QED
    BY <2>1
<1>3. Path(leaf, siblings, pos, f)
  <2>1. PICK h \in [0 .. n -> Num] : IsLoop(n, leaf, G, h)
    BY <1>0, <1>1, <1>2, LoopExists
  <2>2. \A i \in 0 .. n : i # 0 => i \in 1 .. n /\ h[i - 1] \in Num
    <3>1. \A i \in 0 .. n : i # 0 => i \in 1 .. n /\ i - 1 \in 0 .. n
      BY <1>1
    <3>2. QED
      BY <2>1, <3>1
  <2>3. \A i \in 0 .. n : i # 0 => G[<<i, h[i - 1]>>] = Node(h[i - 1], siblings[i], pos[i])
    BY <1>2, <2>2
  <2>4. Path(leaf, siblings, pos, h)
    BY <1>1, <2>1, <2>3 DEF IsLoop, Path
  <2>5. QED
    BY <2>4
<1>4. FoldedPath(leaf, siblings, pos, g)
  <2>1. PICK h \in [SUBSET (1 .. n) -> Num] : IsFold(n, leaf, G, h)
    BY <1>0, <1>1, <1>2, FoldExists
  <2>2. \A s \in SUBSET (1 .. n) : s # {} => Max(s) \in 1 .. n /\ h[s \ {Max(s)}] \in Num
    BY <1>1, MaxIsLast
  <2>3. \A s \in SUBSET (1 .. n) : s # {} => G[<<Max(s), h[s \ {Max(s)}]>>] = Level(siblings, pos, Max(s), h[s \ {Max(s)}])
    BY <1>2, <2>2
  <2>4. FoldedPath(leaf, siblings, pos, h)
    BY <1>1, <2>1, <2>3 DEF IsFold, FoldedPath
  <2>5. QED
    BY <2>4
<1> HIDE DEF f, g
<1>5. LoopOn(n, Num, leaf, G, f)
  BY <1>1, <1>2, <1>3 DEF LoopOn, Path
<1>6. FoldOn(n, Num, leaf, G, g)
  <2>1. \A s \in SUBSET (1 .. n) : s # {} => Max(s) \in 1 .. n
    BY <1>1, MaxIsLast
  <2>2. \A s \in SUBSET (1 .. n) : g[s] = IF s = {} THEN leaf ELSE Level(siblings, pos, Max(s), g[s \ {Max(s)}])
    BY <1>1, <1>4 DEF FoldedPath
  <2>3. QED
    BY <1>2, <2>1, <2>2 DEF FoldOn
<1>7. f[n] \in Num /\ g[1 .. n] = f[n]
  <2>1. Meet(n, Num, f, g)
    BY <1>0, <1>1, <1>2, <1>5, <1>6, FoldMeetsLoop
  <2>2. QED
    BY <2>1 DEF Meet
<1>8. QED
  BY <1>1, <1>7, RootUnfolded DEF f, g, Num

-----------------------------------------------------------------------------
(* Ages. *)

LEMMA ModOfSmall ==
  /\ \A z \in 0 .. P - 1 : z % P = z
  /\ \A z \in -P .. -1 : z % P = z + P
<1>1. P \in Nat /\ P > 0
  BY FieldAssumption
<1>d. ASSUME NEW z \in Int
      PROVE  z % P \in 0 .. P - 1 /\ z \div P \in Int /\ z = P * (z \div P) + (z % P)
  BY <1>1
<1>u. ASSUME NEW q \in Int, NEW r \in 0 .. P - 1, NEW s \in 0 .. P - 1, P * q = r - s PROVE r = s
  <2>1. CASE q > 0
    <3>1. P * q >= P
      BY <1>1, <2>1
    <3>2. QED
      BY <1>1, <1>u, <3>1
  <2>2. CASE q < 0
    <3>1. P * q <= -P
      BY <1>1, <2>2
    <3>2. QED
      BY <1>1, <1>u, <3>1
  <2>3. CASE q = 0
    BY <1>1, <1>u, <2>3
  <2>4. QED
    BY <2>1, <2>2, <2>3
<1>2. ASSUME NEW z \in 0 .. P - 1 PROVE z % P = z
  <2>1. z \in Int
    BY <1>1
  <2>2. /\ z % P \in 0 .. P - 1 /\ z \div P \in Int
        /\ P * (z \div P) = z - (z % P)
    BY <1>1, <1>d, <2>1
  <2>3. QED
    BY <1>u, <2>2
<1>3. ASSUME NEW z \in -P .. -1 PROVE z % P = z + P
  <2>1. z \in Int /\ z + P \in 0 .. P - 1
    BY <1>1
  <2>2. z % P \in 0 .. P - 1 /\ z \div P \in Int /\ z = P * (z \div P) + (z % P)
    BY <1>d, <2>1
  <2>3. (z \div P) + 1 \in Int /\ P * ((z \div P) + 1) = P * (z \div P) + P
    BY <1>1, <2>2
  <2>4. P * ((z \div P) + 1) = (z + P) - (z % P)
    BY <1>1, <2>1, <2>2, <2>3
  <2>5. QED
    BY <1>u, <2>1, <2>2, <2>3, <2>4
<1>4. QED
  BY <1>2, <1>3

\* Bit 8 of the nine-bit difference is clear exactly for these field elements.
LEMMA GreaterEqThanIsRange ==
  ASSUME NEW a \in Field
  PROVE  GreaterEqThan(a, 18) <=> a \in 18 .. 273
<1> DEFINE v == 18 + 256 - (a + 1)
<1>1. a \in Int /\ a >= 0 /\ a < P /\ P > 512 /\ P \in Nat
  BY FieldAssumption DEF Field
<1>2. CASE a <= 273
  <2>1. v % P = 273 - a
    BY <1>1, <1>2, ModOfSmall
  <2>2. (v % P) % P = 273 - a
    BY <1>1, <1>2, <2>1, ModOfSmall
  <2>3. QED
    BY <1>1, <1>2, <2>1, <2>2 DEF GreaterEqThan, FitsNineBits
<1>3. CASE a > 273
  <2>1. v \in -P .. -1
    BY <1>1, <1>3
  <2>2. v % P = v + P
    BY <2>1, ModOfSmall
  <2>3. v + P >= 256
    BY <1>1
  <2>4. QED
    BY <1>1, <1>3, <2>2, <2>3 DEF GreaterEqThan
<1>4. QED
  BY <1>1, <1>2, <1>3

LEMMA GnarkRange ==
  ASSUME NEW a \in Field
  PROVE  (IsLessOrEqual(18, a) /\ IsLessOrEqual(a, 200)) <=> a \in 18 .. 200
<1>1. a \in Int /\ a >= 0 /\ a < P /\ P > 512 /\ P \in Nat
  BY FieldAssumption DEF Field
<1>2. a % P = a /\ 18 % P = 18 /\ 200 % P = 200
  BY <1>1, ModOfSmall
<1>3. QED
  BY <1>1, <1>2 DEF IsLessOrEqual

\* The field element a difference of years becomes: the difference itself, or,
\* for a birth year in the future, something above both circuits' ranges.
LEMMA AgeInField ==
  ASSUME NEW in \in ProveInputs
  PROVE  /\ Age(in) \in Int /\ AgeField(PrivateOf(in)) \in Field
         /\ Age(in) \in 0 .. P - 1 => AgeField(PrivateOf(in)) = Age(in)
         /\ Age(in) < 0 => AgeField(PrivateOf(in)) > 273
<1>1. in.dobYear \in Nat /\ in.currentYear \in Nat /\ in.dobYear \in Years /\ in.currentYear \in CurrentYears
  BY PipelineAssumption DEF ProveInputs
<1>2. Age(in) \in Int /\ AgeField(PrivateOf(in)) = Age(in) % P
  BY <1>1 DEF Age, AgeField, PrivateOf
<1>3. Age(in) > 273 - P
  BY <1>1, YearsFitField, FieldAssumption DEF Age
<1>4. AgeField(PrivateOf(in)) \in Field
  BY <1>2, ModIsField
<1>5. Age(in) \in 0 .. P - 1 => AgeField(PrivateOf(in)) = Age(in)
  BY <1>2, ModOfSmall
<1>6. ASSUME Age(in) < 0 PROVE AgeField(PrivateOf(in)) > 273
  <2>1. Age(in) \in -P .. -1
    BY <1>2, <1>3, <1>6, FieldAssumption
  <2>2. Age(in) % P = Age(in) + P
    BY <2>1, ModOfSmall
  <2>3. QED
    BY <1>2, <1>3, <2>2, FieldAssumption
<1>7. QED
  BY <1>2, <1>4, <1>5, <1>6

\* What that says of the ranges: Age is the difference, a the field element.
LEMMA RangesMeanAges ==
  ASSUME NEW age \in Int, NEW a \in Int, NEW p \in Int, p > 512,
         age \in 0 .. p - 1 => a = age, age < 0 => a > 273
  PROVE  /\ a \in 18 .. 273 => age >= 18
         /\ age \in 18 .. 150 => a \in 18 .. 273
         /\ age <= 200 => (a \in 18 .. 273 <=> a \in 18 .. 200)
OBVIOUS

LEMMA AgeInRange ==
  ASSUME NEW in \in ProveInputs
  PROVE  /\ AgeField(PrivateOf(in)) \in 18 .. 273 => Age(in) >= 18
         /\ Age(in) \in 18 .. 150 => AgeField(PrivateOf(in)) \in 18 .. 273
         /\ Age(in) <= 200 => (AgeField(PrivateOf(in)) \in 18 .. 273
                                  <=> AgeField(PrivateOf(in)) \in 18 .. 200)
<1>1. P \in Int /\ P > 512
  BY FieldAssumption
<1>2. AgeField(PrivateOf(in)) \in Int
  BY AgeInField, FieldIsNat
<1>3. /\ Age(in) \in Int
      /\ Age(in) \in 0 .. P - 1 => AgeField(PrivateOf(in)) = Age(in)
      /\ Age(in) < 0 => AgeField(PrivateOf(in)) > 273
  BY AgeInField
<1>4. QED
  BY <1>1, <1>2, <1>3, RangesMeanAges

-----------------------------------------------------------------------------
(* What the prover builds, and both circuits. *)

\* The prover's own claims, nullifier and root satisfy either circuit but for
\* the age: of the inputs, only the years decide.
LEMMA OnlyTheYearsDecide ==
  ASSUME NEW in \in ProveInputs
  PROVE  /\ CircomSatisfied(PublicOf(in), PrivateOf(in)) <=> AgeField(PrivateOf(in)) \in 18 .. 273
         /\ GnarkSatisfied(PublicOf(in), PrivateOf(in)) <=> AgeField(PrivateOf(in)) \in 18 .. 200
<1> DEFINE hashed == <<in.aadhaarHash, in.appId, in.walletSecret>>
<1>1. hashed \in Seq(Nat)
  <2>1. in.aadhaarHash \in Nat /\ in.appId \in Nat /\ in.walletSecret \in Nat
    BY PipelineAssumption DEF ProveInputs
  <2>2. QED
    BY <2>1
<1>2. mimcHash(hashed) \in Nat /\ MiMCHash(hashed) = mimcHash(hashed)
  BY <1>1, HashAgrees
<1>3. PublicOf(in).nullifier = mimcHash(hashed)
  BY DEF PublicOf, computeNullifier
<1>4. Claims(PublicOf(in), PrivateOf(in))
  BY <1>2, <1>3 DEF Claims, PublicOf, PrivateOf
<1>5. PublicOf(in).merkleRoot = Root(PublicOf(in).nullifier, PrivateOf(in).merkleSiblings, PrivateOf(in).merklePos)
  <2>1. in.merkleSiblings \in [1 .. SMT_DEPTH -> Nat]
    BY PipelineAssumption DEF ProveInputs
  <2>2. PublicOf(in).merkleRoot = computeMerkleRoot(mimcHash(hashed), in.merkleSiblings, in.merklePos)
    BY DEF PublicOf, computeNullifier
  <2>3. Root(mimcHash(hashed), in.merkleSiblings, in.merklePos)
          = computeMerkleRoot(mimcHash(hashed), in.merkleSiblings, in.merklePos)
    BY <1>2, <2>1, RootAgrees
  <2>4. QED
    BY <1>3, <2>2, <2>3 DEF PrivateOf
<1>6. AgeField(PrivateOf(in)) \in Field
  BY AgeInField
<1>7. QED
  BY <1>4, <1>5, <1>6, GreaterEqThanIsRange, GnarkRange DEF CircomSatisfied, GnarkSatisfied

Satisfied(in) == CircomSatisfied(PublicOf(in), PrivateOf(in))

-----------------------------------------------------------------------------
\* What is known of a request and of a verdict: how the proof came about and
\* which answer the verifiers must have given.
IInv ==
  /\ inputs \in ProveInputs \cup {None}
  /\ inputs = None => request = None /\ prover = "idle"
  /\ prover = "proved" => Satisfied(inputs)
  /\ prover = "unsatisfied" => ~Satisfied(inputs)
  /\ request # None => request = [pub |-> PublicOf(inputs), proved |-> prover = "proved"]
  /\ request = None => verdict = "none"
  /\ verdict = "none" => sdk_valid = FALSE
  /\ verdict # "none" => /\ verdict \in {"vk missing", "timed out", Verdict(request)}
                         /\ sdk_valid = verifyProof(request)

LEMMA InitEstablishesIInv == PipelineInit => IInv
BY DEF PipelineInit, IInv

LEMMA ProvingKeepsIInv ==
  ASSUME IInv, NEW in \in ProveInputs, generateProof(in)
  PROVE  IInv'
<1>1. inputs = None /\ request = None /\ verdict = "none"
  BY DEF IInv, generateProof
<1>2. inputs' = in /\ in # None /\ verdict' = "none" /\ sdk_valid' = sdk_valid /\ sdk_valid = FALSE
  BY <1>1, NoneIsNoInput DEF IInv, generateProof
<1>3. /\ prover' = "proved" => Satisfied(in)
      /\ prover' = "unsatisfied" => ~Satisfied(in)
  BY DEF generateProof, fullProve, Satisfied
<1>4. request' # None => request' = [pub |-> PublicOf(in), proved |-> prover' = "proved"]
  BY DEF generateProof
<1>5. QED
  BY <1>2, <1>3, <1>4 DEF IInv

LEMMA VerifyingKeepsIInv ==
  ASSUME IInv, verify_groth16_proof
  PROVE  IInv'
BY DEF IInv, verify_groth16_proof, Verdict, SnarkjsOK, ClaimsHold, AppMatches, verifyProof, Satisfied

LEMMA NextKeepsIInv == IInv /\ [PipelineNext]_pipeline => IInv'
<1>1. SUFFICES ASSUME IInv, [PipelineNext]_pipeline PROVE IInv'
  OBVIOUS
<1>2. CASE UNCHANGED pipeline
  BY <1>1, <1>2 DEF pipeline, IInv, verifyProof
<1>3. CASE PipelineNext
  BY <1>1, <1>3, ProvingKeepsIInv, VerifyingKeepsIInv DEF PipelineNext
<1>4. QED
  BY <1>1, <1>2, <1>3

LEMMA IInvAlways == PipelineSpec => []IInv
BY InitEstablishesIInv, NextKeepsIInv, PTL DEF PipelineSpec

\* A request the backend or the SDK accepts carries a proof that was made, for
\* this application; so the circuit was satisfied, and with it the nullifier's
\* equation, and the age, which no birth year can bring around the field.
THEOREM OnlyTheEntitled == PipelineSpec => []AcceptedIsEntitled
<1>1. IInv => AcceptedIsEntitled
  <2>1. SUFFICES ASSUME IInv, verdict = "valid" \/ sdk_valid
                 PROVE  /\ prover = "proved" /\ Age(inputs) >= 18
                        /\ request.pub.nullifier = MiMCHash(<<inputs.aadhaarHash, OwnApp, inputs.walletSecret>>)
    BY DEF AcceptedIsEntitled
  <2>2. /\ verdict # "none" /\ request # None /\ inputs \in ProveInputs
        /\ request = [pub |-> PublicOf(inputs), proved |-> prover = "proved"]
    BY <2>1 DEF IInv
  <2>3. request.proved /\ request.pub.appId = OwnApp
    BY <2>1, <2>2 DEF IInv, Verdict, SnarkjsOK, ClaimsHold, AppMatches, verifyProof
  <2>4. prover = "proved" /\ Satisfied(inputs)
    BY <2>1, <2>2, <2>3 DEF IInv
  <2>5. Age(inputs) >= 18
    <3>1. AgeField(PrivateOf(inputs)) \in 18 .. 273
      BY <2>2, <2>4, OnlyTheYearsDecide DEF Satisfied
    <3>2. QED
      BY <2>2, <3>1, AgeInRange
  <2>6. request.pub.nullifier = MiMCHash(<<inputs.aadhaarHash, OwnApp, inputs.walletSecret>>)
    <3>1. request.pub = PublicOf(inputs) /\ Claims(PublicOf(inputs), PrivateOf(inputs))
      BY <2>2, <2>4 DEF Satisfied, CircomSatisfied
    <3>2. PublicOf(inputs).appId = OwnApp
      BY <2>3, <3>1
    <3>3. PrivateOf(inputs).aadhaarHash = inputs.aadhaarHash /\ PrivateOf(inputs).walletSecret = inputs.walletSecret
      BY DEF PrivateOf
    <3>4. QED
      BY <3>1, <3>2, <3>3 DEF Claims
  <2>7. QED
    BY <2>4, <2>5, <2>6
<1>2. QED
  BY <1>1, IInvAlways, PTL

\* The prover's arithmetic is the circuit's, so an adult's inputs satisfy it,
\* and what was proved from them passes the checks after the proof's.
THEOREM AdultsPass == PipelineSpec => []AdultsGetThrough
<1>1. IInv => AdultsGetThrough
  <2>1. SUFFICES ASSUME IInv, inputs # None, inputs.appId = OwnApp, Age(inputs) \in 18 .. 150
                 PROVE  /\ prover # "unsatisfied"
                        /\ prover = "proved" => verdict \in {"none", "valid", "vk missing", "timed out"}
                        /\ verdict = "valid" => sdk_valid
    BY DEF AdultsGetThrough
  <2>2. inputs \in ProveInputs
    BY <2>1 DEF IInv
  <2>3. Satisfied(inputs)
    <3>1. AgeField(PrivateOf(inputs)) \in 18 .. 273
      BY <2>1, <2>2, AgeInRange
    <3>2. QED
      BY <2>2, <3>1, OnlyTheYearsDecide DEF Satisfied
  <2>4. ASSUME verdict # "none"
        PROVE  /\ request.pub = PublicOf(inputs) /\ (request.proved <=> prover = "proved")
               /\ verdict \in {"vk missing", "timed out", Verdict(request)} /\ sdk_valid = verifyProof(request)
    <3>1. request # None
      BY <2>1, <2>4, Zenon DEF IInv
    <3>2. request = [pub |-> PublicOf(inputs), proved |-> prover = "proved"]
      BY <2>1, <3>1 DEF IInv
    <3>3. request.pub = PublicOf(inputs)
      BY <3>2
    <3>4. request.proved <=> prover = "proved"
      BY <3>2
    <3>5. verdict \in {"vk missing", "timed out", Verdict(request)} /\ sdk_valid = verifyProof(request)
      BY <2>4, <2>1 DEF IInv
    <3>6. QED
      BY <3>3, <3>4, <3>5
  <2>5. ClaimsHold(PublicOf(inputs)) /\ AppMatches(PublicOf(inputs))
    BY <2>1 DEF ClaimsHold, AppMatches, PublicOf
  <2>6. prover = "proved" /\ verdict # "none" => Verdict(request) = "valid"
    BY <2>4, <2>5 DEF Verdict, SnarkjsOK
  <2>7. verdict = "valid" => sdk_valid
    BY <2>4, <2>5 DEF Verdict, SnarkjsOK, ClaimsHold, AppMatches, verifyProof
  <2>8. QED
    BY <2>1, <2>3, <2>4, <2>6, <2>7 DEF IInv
<1>2. QED
  BY <1>1, IInvAlways, PTL

\* Up to 200 years, and for every birth year in the future, the circuit proofs
\* are made with and its gnark form are satisfied by the same inputs.
THEOREM SameLogic == PipelineSpec => []CircuitsAgree
<1>1. IInv => CircuitsAgree
  <2>1. SUFFICES ASSUME IInv, inputs # None, Age(inputs) <= 200
                 PROVE  CircomSatisfied(PublicOf(inputs), PrivateOf(inputs))
                          <=> GnarkSatisfied(PublicOf(inputs), PrivateOf(inputs))
    BY DEF CircuitsAgree
  <2>2. inputs \in ProveInputs
    BY <2>1 DEF IInv
  <2>3. AgeField(PrivateOf(inputs)) \in 18 .. 273 <=> AgeField(PrivateOf(inputs)) \in 18 .. 200
    BY <2>1, <2>2, AgeInRange
  <2>4. QED
    BY <2>2, <2>3, OnlyTheYearsDecide
<1>2. QED
  BY <1>1, IInvAlways, PTL

=============================================================================
