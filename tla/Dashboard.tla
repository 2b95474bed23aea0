------------------------------ MODULE Dashboard ------------------------------
(***************************************************************************)
(* A custodian's dashboard over the court order service.  The list of      *)
(* orders is polled every five seconds without waiting for the poll        *)
(* before; an order that is opened is a copy, refreshed only after an      *)
(* action of its own; meanwhile the other custodians and the issuer act on *)
(* the orders, and the backend may restart without them.                   *)
(*                                                                         *)
(* A request is the moment the backend handles it; its answer arrives, or  *)
(* fails to, in a step of its own.                                         *)
(***************************************************************************)
EXTENDS Integers, FiniteSets, FrontendConstants

CONSTANTS
  Orders, Custodians, Nums, ShareHolders, Nullifiers, Blobs, Garbled,
  TOTAL_CUSTODIANS, THRESHOLD, TTL, MaxTime, Note, Err,   \* see CourtOrders
  User,       \* the custodian logged in
  UserNum,    \* and the number chosen at login
  Missing,    \* the body of a 404
  Slots,      \* polls in flight
  MaxRestarts \* bound of the model: restarts of the backend

ASSUME ServiceAssumption ==
  /\ TOTAL_CUSTODIANS \in Nat /\ THRESHOLD \in 1 .. TOTAL_CUSTODIANS
  /\ TTL \in Nat /\ MaxTime \in Nat
  /\ {None, Note, Err} \cap Blobs = {} /\ None \notin {Note, Err}
ASSUME UserAssumption == User \in Custodians /\ UserNum \in Nums

VARIABLES
  status, nullifier_hex, encrypted_blob, expires_at, votes,
  decrypted_identity, identity_blobs, now,   \* see CourtOrders
  used,      \* order ids drawn so far (random: never drawn again)
  restarts,
  lost,      \* history: per order, its status and votes as a restart found them
  orders,    \* the list on the screen: per order its summary, or None
  polls,     \* per slot: an answer on its way, or None
  opening,   \* the answer to openOrder on its way, or None
  modal,     \* the copy in the open OrderDetailModal, or None
  loading,   \* the modal waits for its fresh copy
  blank      \* rendering has thrown: nothing is on the screen

court == <<status, nullifier_hex, encrypted_blob, expires_at, votes,
           decrypted_identity, identity_blobs, now>>
server == <<court, used, restarts, lost>>
screen == <<orders, polls, opening, modal, loading, blank>>
vars == <<server, screen>>

Court == INSTANCE CourtOrders

\* What a 200 of GET /court-order/{id} shows.
Copies == [id : Orders, status : Court!Statuses, votes : SUBSET Court!Votes,
           identity : Blobs \cup {None, Note, Err}]

ASSUME MissingAssumption == Missing \notin Copies

NoOrders == [o \in Orders |-> None]
Empty == /\ orders = NoOrders
         /\ polls = [i \in Slots |-> None]
         /\ opening = None /\ modal = None /\ loading = FALSE /\ blank = FALSE

Init ==
  /\ Court!Init /\ used = {} /\ restarts = 0 /\ Empty
  /\ lost = [o \in Orders |-> [status |-> "none", votes |-> {}]]

-----------------------------------------------------------------------------
\* Mutated forms of definitions below: the bugs the properties must catch.
Summary_Swapped(o) ==
  [status |-> status[o], approvals |-> Court!Noes(o), rejections |-> Court!Ayes(o)]
Found_Timely(o) == Court!Known(o) /\ status'[o] # "expired"
Shown_Once(list) == IF orders = NoOrders THEN list ELSE orders

-----------------------------------------------------------------------------
(* What the backend answers. *)

\* _order_to_summary
Summary(o) == [status |-> status[o], approvals |-> Court!Ayes(o), rejections |-> Court!Noes(o)]

\* list_court_orders: no status is refreshed by it.
list_court_orders == [o \in Orders |-> IF Court!Known(o) THEN Summary(o) ELSE None]

Found(o) == Court!Known(o)

\* get_court_order's answer, of the state it leaves.
Answer(o) ==
  IF Found(o) THEN [id |-> o, status |-> status'[o], votes |-> votes'[o],
                    identity |-> decrypted_identity'[o]]
  ELSE Missing

\* GET /court-order/{id}
Get(o) ==
  /\ Court!get_court_order(o) \/ (~Court!Known(o) /\ UNCHANGED court)
  /\ UNCHANGED <<used, restarts, lost>>

-----------------------------------------------------------------------------
(* The screen. *)

Shown(list) == list

\* fetchOrders, every five seconds and after an action.
Poll ==
  /\ ~blank
  /\ \E i \in Slots : polls[i] = None /\ polls' = [polls EXCEPT ![i] = list_court_orders]
  /\ UNCHANGED <<server, orders, opening, modal, loading, blank>>

PollArrives(i) ==
  /\ polls[i] # None
  /\ polls' = [polls EXCEPT ![i] = None]
  /\ orders' = IF blank THEN orders ELSE Shown(polls[i])
  /\ UNCHANGED <<server, opening, modal, loading, blank>>

\* The error goes to the console.
PollFails(i) ==
  /\ polls[i] # None
  /\ polls' = [polls EXCEPT ![i] = None]
  /\ UNCHANGED <<server, orders, opening, modal, loading, blank>>

\* openOrder, from a row of the list; the open modal covers the list.
openOrder(o) ==
  /\ ~blank /\ modal = None /\ opening = None
  /\ orders[o] # None
  /\ Get(o)
  /\ opening' = Answer(o)
  /\ UNCHANGED <<orders, polls, modal, loading, blank>>

\* The modal renders order.id.slice: a 404's body has no id, and throws.
Rendered(copy) ==
  IF copy = Missing THEN blank' = TRUE /\ UNCHANGED modal
  ELSE modal' = copy /\ UNCHANGED blank

OpenArrives ==
  /\ opening # None /\ ~blank
  /\ opening' = None
  /\ Rendered(opening)
  /\ UNCHANGED <<server, orders, polls, loading>>

OpenFails ==
  /\ opening # None
  /\ opening' = None
  /\ UNCHANGED <<server, orders, polls, modal, loading, blank>>

\* A fresh copy that comes after the modal is closed goes nowhere.
Close ==
  /\ modal # None /\ ~blank
  /\ modal' = None /\ loading' = FALSE
  /\ UNCHANGED <<server, orders, polls, opening, blank>>

\* Starts over, with a new login as the same custodian.
Reload ==
  /\ blank
  /\ orders' = NoOrders /\ opening' = None /\ modal' = None
  /\ polls' = [i \in Slots |-> None]
  /\ loading' = FALSE /\ blank' = FALSE
  /\ UNCHANGED server

\* The user's votes in the copy: the buttons are there while there is none.
Own(copy) == {v \in copy.votes : v.custodian_id = User}

\* castVote: recorded or refused by what the backend has, not by the copy.
\* The answer may be lost on its way, and then the copy says nothing of it.
castVote(approved) ==
  /\ modal # None /\ ~loading /\ ~blank
  /\ modal.status = "pending" /\ Own(modal) = {}
  /\ \/ /\ Court!RecordVote(modal.id, User, UserNum, approved)
        /\ loading' \in BOOLEAN
     \/ /\ Court!RefuseVote(modal.id, User)
        /\ loading' = FALSE
     \/ /\ ~Court!Known(modal.id)
        /\ UNCHANGED court
        /\ loading' = FALSE
  /\ UNCHANGED <<used, restarts, lost, orders, polls, opening, modal, blank>>

\* executeRevoke: the issuer's key is in every dashboard.  The revocation on
\* chain may fail, or the answer get lost.
executeRevoke ==
  /\ modal # None /\ ~loading /\ ~blank
  /\ modal.status = "approved"
  /\ \/ Court!execute_court_order(modal.id) /\ loading' \in BOOLEAN
     \/ UNCHANGED court /\ loading' = FALSE
  /\ UNCHANGED <<used, restarts, lost, orders, polls, opening, modal, blank>>

Settled(answer) == FALSE

\* The second request of both, for a fresh copy of the order.
Refetch ==
  /\ loading /\ ~blank
  /\ \/ /\ Get(modal.id)
        /\ Rendered(Answer(modal.id))
        /\ loading' = Settled(modal.id)
     \/ /\ loading' = Settled(None)
        /\ UNCHANGED <<server, modal, blank>>
  /\ UNCHANGED <<orders, polls, opening>>

\* CreateOrderModal: the form has no field for a blob.
submit(o, n) ==
  /\ ~blank /\ o \notin used
  /\ Court!create_court_order(o, n, None)
  /\ used' = used \cup {o}
  /\ UNCHANGED <<restarts, lost, screen>>

-----------------------------------------------------------------------------
(* Everybody else. *)

Others ==
  /\ \/ \E o \in Orders, id \in Custodians \ {User}, num \in Nums, approved \in BOOLEAN :
          Court!RecordVote(o, id, num, approved)
     \/ \E o \in Orders : Court!get_court_order(o) \/ Court!execute_court_order(o)
     \/ \E n \in Nullifiers, b \in Blobs : Court!store_identity_blob(n, b)
     \/ Court!Tick
  /\ UNCHANGED <<used, restarts, lost, screen>>

\* What the backend has of an order, or had when it was last restarted.
Had(o) == IF Court!Known(o) THEN [status |-> status[o], votes |-> votes[o]] ELSE lost[o]

\* The backend starts again without orders and blobs.
Restart ==
  /\ restarts < MaxRestarts
  /\ restarts' = restarts + 1
  /\ lost' = [o \in Orders |-> Had(o)]
  /\ status' = [o \in Orders |-> "none"]
  /\ nullifier_hex' = [o \in Orders |-> None]
  /\ encrypted_blob' = [o \in Orders |-> None]
  /\ expires_at' = [o \in Orders |-> 0]
  /\ votes' = [o \in Orders |-> {}]
  /\ decrypted_identity' = [o \in Orders |-> None]
  /\ identity_blobs' = [n \in Nullifiers |-> None]
  /\ UNCHANGED <<now, used, screen>>

Next ==
  \/ Poll \/ \E i \in Slots : PollArrives(i) \/ PollFails(i)
  \/ \E o \in Orders : openOrder(o) \/ \E n \in Nullifiers : submit(o, n)
  \/ OpenArrives \/ OpenFails \/ Close \/ Reload
  \/ (\E approved \in BOOLEAN : castVote(approved)) \/ executeRevoke \/ Refetch
  \/ Others \/ Restart

Spec == Init /\ [][Next]_vars

\* The timer fires again and again, and a network that fails now and then
\* delivers now and then: an answer to a poll that keeps coming gets through.
\* A request is answered or runs into an error.
Fairness ==
  /\ WF_vars(Poll)
  /\ \A i \in Slots : SF_vars(PollArrives(i))
  /\ WF_vars(Refetch)

FairSpec == Spec /\ Fairness

-----------------------------------------------------------------------------
(* Properties. *)

Rank(s) == CASE s = "none" -> 0 [] s = "pending" -> 1 [] s = "executed" -> 3 [] OTHER -> 2

\* A decision is told late or as it is, never early and never as another.
Precedes(s, t) == s = t \/ Rank(s) < Rank(t)

\* Nothing on the screen is ahead of the backend, in whatever order answers
\* arrive: no list and no open copy counts a vote or tells a decision that the
\* backend does not have or, of an order that a restart took, did not have then.
NeverAhead ==
  \A o \in Orders :
    LET had == Had(o)
    IN /\ orders[o] # None =>
            /\ orders[o].approvals <= Cardinality(Court!Approvals(had.votes))
            /\ orders[o].rejections <= Cardinality(Court!Rejections(had.votes))
            /\ Precedes(orders[o].status, had.status)
       /\ modal # None /\ modal.id = o =>
            modal.votes \subseteq had.votes /\ Precedes(modal.status, had.status)

\* The screen goes blank only after the backend has restarted.
BlankHasReason == blank => restarts > 0

\* A vote repeated after a lost answer, even the other way round, leaves the
\* first one standing, alone.
FirstVoteStands ==
  [][\A o \in Orders : Own([votes |-> votes[o]]) # {} /\ restarts' = restarts =>
       Own([votes |-> votes'[o]]) = Own([votes |-> votes[o]])]_vars

\* What is decided for good reaches the list and stays there, unless the
\* backend restarts or the screen goes blank.
ListCatchesUp ==
  \A o \in Orders : \A s \in {"rejected", "expired", "executed"} :
    status[o] = s ~> \/ [](orders[o] # None /\ orders[o].status = s)
                     \/ blank \/ restarts > 0

=============================================================================
