--------------------------- MODULE KYCBackendProofs ---------------------------
(***************************************************************************)
(* TLAPS proofs about the backend over the chain, for every set of         *)
(* nullifiers, wallets, orders and blobs, any number of transactions and   *)
(* any number of restarts.                                                 *)
(***************************************************************************)
EXTENDS KYCBackend, FiniteSetTheorems, SequenceTheorems, TLAPS

LedgerTypes ==
  /\ nullifiers \in [BoxKeys -> Wallets \cup {Absent}]
  /\ txs \in Seq(Txs) /\ Len(txs) <= MaxTx
  /\ pool \subseteq DOMAIN txs /\ committed \subseteq DOMAIN txs
  /\ pool \cap committed = {}

\* Registrations, and no other calls, bind a wallet.
TxFits ==
  \A t \in DOMAIN txs :
    /\ txs[t].op = "register" <=> txs[t].by \in {"register", "sdk"}
    /\ txs[t].op = "register" => txs[t].w \in Wallets

LedgerInv == LedgerTypes /\ TxFits /\ HistoryExplainsBox

\* The worker waits for the very call its request asked for.
JobInv ==
  /\ job \in Jobs
  /\ job.step = "none" <=> job.kind = "idle"
  /\ job.step # "waiting" => job.tx = 0
  /\ job.step # "none" => job.n \in Nullifiers
  /\ job.kind = "register" => job.w \in Wallets
  /\ job.step = "waiting" => job.tx \in DOMAIN txs /\ txs[job.tx] = Call
  /\ job.kind = "execute" =>
       job.o \in Orders /\ status[job.o] # "none" /\ job.n = nullifier_hex[job.o]

KnownIsNamed == \A o \in Orders : status[o] # "none" => nullifier_hex[o] \in Nullifiers

OrderInv == KnownIsNamed /\ ExecutedMeansRevoked

\* What a registration brought is stored, or there is a reason: committed or not.
KeptOrExplained ==
  \A t \in DOMAIN txs :
    txs[t].by = "register" /\ txs[t].b # None =>
      \/ identity_blobs[txs[t].n] # None
      \/ reply[t] = "failure"
      \/ job.tx = t
      \/ crashes > 0

StoreInv == BlobWasRegistered /\ KeptOrExplained

-----------------------------------------------------------------------------
(* How a step may change the chain and the ledger. *)

Grows ==
  /\ DOMAIN txs \subseteq DOMAIN txs'
  /\ \A t \in DOMAIN txs : txs'[t] = txs[t]
  /\ committed \subseteq committed'

NewCall(tx) ==
  /\ tx \in Txs
  /\ tx.op = "register" <=> tx.by \in {"register", "sdk"}
  /\ tx.op = "register" => tx.w \in Wallets

LEMMA CallFits ==
  ASSUME JobInv, job.step = "checked"
  PROVE  NewCall(Call)
BY DEF JobInv, NewCall, Call, Jobs, Txs

LEMMA SdkCallFits ==
  ASSUME NEW n \in Nullifiers, NEW w \in Wallets
  PROVE  NewCall([op |-> "register", n |-> n, w |-> w, by |-> "sdk", b |-> None, o |-> None])
BY DEF NewCall, Txs

LEMMA StepOnLedger ==
  ASSUME JobInv, [Next]_vars
  PROVE  \/ \E tx : NewCall(tx) /\ Send(tx) /\ UNCHANGED chain
         \/ \E t \in pool : CommitTx(t) \/ DropTx(t)
         \/ UNCHANGED <<chain, ledger>>
<1>1. CASE ChainStep
  <2>1. CASE \E t \in pool : CommitTx(t) \/ DropTx(t)
    BY <2>1
  <2>2. ASSUME NEW n \in Nullifiers, NEW w \in Wallets, registerNullifier(n, w)
        PROVE  \E tx : NewCall(tx) /\ Send(tx) /\ UNCHANGED chain
    BY <2>2, SdkCallFits DEF registerNullifier
  <2>3. QED
    BY <1>1, <2>1, <2>2 DEF ChainStep
<1>2. CASE Submit
  <2>1. NewCall(Call) /\ Send(Call) /\ UNCHANGED chain
    BY <1>2, CallFits DEF Submit
  <2>2. QED
    BY <2>1
<1>3. CASE SubmitFails \/ WaitSees \/ WaitGivesUp
  BY <1>3 DEF SubmitFails, WaitSees, WaitGivesUp
<1>4. CASE RequestStep
  BY <1>4 DEF RequestStep, register_kyc, revoke_credential, execute_court_order, Start, create_order,
     vote_on_court_order, get_court_order, Aside
<1>5. CASE Tick \/ Crash
  BY <1>5 DEF Tick, Crash, Aside
<1>6. CASE UNCHANGED vars
  BY <1>6 DEF vars
<1>7. QED
  BY <1>1, <1>2, <1>3, <1>4, <1>5, <1>6 DEF Next, WorkerStep

LEMMA SendGrows ==
  ASSUME LedgerTypes, NEW tx \in Txs, Send(tx)
  PROVE  /\ Grows
         /\ txs' \in Seq(Txs) /\ Len(txs') = Len(txs) + 1 /\ Len(txs') <= MaxTx
         /\ DOMAIN txs' = DOMAIN txs \cup {Len(txs) + 1}
         /\ txs'[Len(txs) + 1] = tx
         /\ Len(txs) + 1 \notin DOMAIN txs
<1>1. txs \in Seq(Txs) /\ txs' = Append(txs, tx) /\ committed' = committed
  BY DEF LedgerTypes, Send
<1>2. txs' \in Seq(Txs) /\ Len(txs') = Len(txs) + 1
  BY <1>1
<1>3. DOMAIN txs = 1 .. Len(txs) /\ DOMAIN txs' = 1 .. Len(txs) + 1 /\ Len(txs) \in Nat
  BY <1>1, <1>2
<1>4. Len(txs') <= MaxTx
  BY <1>2, <1>3, BoundsAssumption DEF Send
<1>5. \A t \in DOMAIN txs : txs'[t] = txs[t]
  BY <1>1, <1>3
<1>6. txs'[Len(txs) + 1] = tx
  BY <1>1
<1>7. QED
  BY <1>1, <1>2, <1>3, <1>4, <1>5, <1>6 DEF Grows

LEMMA StepGrows ==
  ASSUME LedgerTypes, JobInv, [Next]_vars
  PROVE  Grows
<1>1. ASSUME NEW tx, NewCall(tx), Send(tx) PROVE Grows
  BY <1>1, SendGrows DEF NewCall
<1>2. ASSUME NEW t \in pool, CommitTx(t) \/ DropTx(t) PROVE Grows
  BY <1>2 DEF CommitTx, DropTx, Grows
<1>3. CASE UNCHANGED <<chain, ledger>>
  BY <1>3 DEF ledger, Grows
<1>4. QED
  BY <1>1, <1>2, <1>3, StepOnLedger

\* What is committed stays so, in the same box.
LEMMA CommittedStays ==
  ASSUME LedgerTypes, Grows, NEW op, NEW k, NEW t \in OnBox(op, k)
  PROVE  t \in OnBox(op, k)'
<1>1. t \in committed /\ t \in DOMAIN txs /\ txs[t].op = op /\ KeyOf(txs[t]) = k
  BY DEF OnBox, LedgerTypes
<1>2. t \in committed' /\ txs'[t] = txs[t]
  BY <1>1 DEF Grows
<1>3. QED
  BY <1>1, <1>2 DEF OnBox, KeyOf

-----------------------------------------------------------------------------
(* The history of a box. *)

LEMMA OnBoxFinite ==
  ASSUME LedgerTypes, NEW op, NEW k
  PROVE  IsFiniteSet(OnBox(op, k)) /\ Cardinality(OnBox(op, k)) \in Nat
<1>1. DOMAIN txs = 1 .. Len(txs) /\ Len(txs) \in Nat
  BY DEF LedgerTypes
<1>2. OnBox(op, k) \subseteq 1 .. Len(txs)
  BY <1>1 DEF LedgerTypes, OnBox
<1>3. IsFiniteSet(1 .. Len(txs))
  BY <1>1, FS_Interval
<1>4. IsFiniteSet(OnBox(op, k))
  BY <1>2, <1>3, FS_Subset
<1>5. QED
  BY <1>4, FS_CardinalityType

LEMMA SendKeepsLedger ==
  ASSUME LedgerInv, NEW tx, NewCall(tx), Send(tx), UNCHANGED chain
  PROVE  LedgerInv'
<1>1. /\ Grows /\ txs' \in Seq(Txs) /\ Len(txs') <= MaxTx
      /\ DOMAIN txs' = DOMAIN txs \cup {Len(txs) + 1}
      /\ txs'[Len(txs) + 1] = tx
      /\ Len(txs) + 1 \notin DOMAIN txs
  BY SendGrows DEF LedgerInv, NewCall
<1>2. LedgerTypes'
  BY <1>1 DEF LedgerInv, LedgerTypes, Send, chain
<1>3. TxFits'
  BY <1>1 DEF LedgerInv, TxFits, Grows, NewCall
<1>4. \A op, k : OnBox(op, k)' = OnBox(op, k)
  BY <1>1 DEF LedgerInv, LedgerTypes, Send, Grows, OnBox, KeyOf
<1>5. HistoryExplainsBox'
  BY <1>4 DEF LedgerInv, HistoryExplainsBox, Registry!is_registered, chain
<1>6. QED
  BY <1>2, <1>3, <1>5 DEF LedgerInv

\* A registration finds no box, a revocation finds one: each moves the
\* difference of the two histories to where the box now is.
LEMMA CommitKeepsLedger ==
  ASSUME LedgerInv, NEW t \in pool, CommitTx(t)
  PROVE  LedgerInv'
<1> DEFINE box == KeyOf(txs[t])
<1>1. t \in DOMAIN txs /\ t \notin committed /\ txs[t] \in Txs
  BY DEF LedgerInv, LedgerTypes
<1>2. box \in BoxKeys
  BY <1>1 DEF Txs, KeyOf, BoxKeys
<1>3. txs' = txs /\ pool' = pool \ {t} /\ committed' = committed \cup {t}
  BY DEF CommitTx
<1>4. \/ /\ txs[t].op = "register" /\ nullifiers[box] = Absent
         /\ nullifiers' = [nullifiers EXCEPT ![box] = txs[t].w] /\ txs[t].w \in Wallets
      \/ /\ txs[t].op = "invalidate" /\ nullifiers[box] # Absent
         /\ nullifiers' = [nullifiers EXCEPT ![box] = Absent]
  BY <1>1 DEF CommitTx, Registry!register, Registry!invalidate, Registry!is_registered, LedgerInv, TxFits
<1>5. LedgerTypes'
  BY <1>1, <1>2, <1>3, <1>4 DEF LedgerInv, LedgerTypes
<1>6. TxFits'
  BY <1>3 DEF LedgerInv, TxFits
<1>7. ASSUME NEW k \in BoxKeys
      PROVE  Cardinality(OnBox("register", k)') - Cardinality(OnBox("invalidate", k)')
               = IF nullifiers'[k] # Absent THEN 1 ELSE 0
  <2>1. /\ IsFiniteSet(OnBox("register", k)) /\ Cardinality(OnBox("register", k)) \in Nat
        /\ IsFiniteSet(OnBox("invalidate", k)) /\ Cardinality(OnBox("invalidate", k)) \in Nat
    BY OnBoxFinite DEF LedgerInv
  <2>2. Cardinality(OnBox("register", k)) - Cardinality(OnBox("invalidate", k))
          = IF nullifiers[k] # Absent THEN 1 ELSE 0
    BY DEF LedgerInv, HistoryExplainsBox, Registry!is_registered
  <2>3. CASE k # box
    <3>1. OnBox("register", k)' = OnBox("register", k) /\ OnBox("invalidate", k)' = OnBox("invalidate", k)
      BY <1>3, <2>3 DEF OnBox, KeyOf
    <3>2. nullifiers'[k] = nullifiers[k]
      BY <1>2, <1>4, <2>3 DEF LedgerInv, LedgerTypes
    <3>3. QED
      BY <2>2, <3>1, <3>2
  <2>4. CASE k = box /\ txs[t].op = "register"
    <3>1. OnBox("register", k)' = OnBox("register", k) \cup {t} /\ t \notin OnBox("register", k)
      BY <1>1, <1>3, <2>4 DEF OnBox, KeyOf
    <3>2. OnBox("invalidate", k)' = OnBox("invalidate", k)
      BY <1>3, <2>4 DEF OnBox, KeyOf
    <3>3. Cardinality(OnBox("register", k)') = Cardinality(OnBox("register", k)) + 1
      BY <2>1, <3>1, FS_AddElement
    <3>4. nullifiers[k] = Absent /\ nullifiers'[k] # Absent
      BY <1>2, <1>4, <2>4, AbsentIsNoWallet DEF LedgerInv, LedgerTypes
    <3>5. QED
      BY <2>1, <2>2, <3>2, <3>3, <3>4
  <2>5. CASE k = box /\ txs[t].op = "invalidate"
    <3>1. OnBox("invalidate", k)' = OnBox("invalidate", k) \cup {t} /\ t \notin OnBox("invalidate", k)
      BY <1>1, <1>3, <2>5 DEF OnBox, KeyOf
    <3>2. OnBox("register", k)' = OnBox("register", k)
      BY <1>3, <2>5 DEF OnBox, KeyOf
    <3>3. Cardinality(OnBox("invalidate", k)') = Cardinality(OnBox("invalidate", k)) + 1
      BY <2>1, <3>1, FS_AddElement
    <3>4. nullifiers[k] # Absent /\ nullifiers'[k] = Absent
      BY <1>2, <1>4, <2>5 DEF LedgerInv, LedgerTypes
    <3>5. QED
      BY <2>1, <2>2, <3>2, <3>3, <3>4
  <2>6. QED
    BY <1>4, <2>3, <2>4, <2>5
<1>8. HistoryExplainsBox'
  BY <1>7 DEF HistoryExplainsBox, Registry!is_registered
<1>9. QED
  BY <1>5, <1>6, <1>8 DEF LedgerInv

LEMMA InitLedger == Init => LedgerInv
<1> SUFFICES ASSUME Init PROVE LedgerInv
  OBVIOUS
<1>1. LedgerTypes
  BY BoundsAssumption DEF Init, LedgerTypes, Registry!Init
<1>2. TxFits
  BY DEF Init, TxFits
<1>3. \A op, k : Cardinality(OnBox(op, k)) = 0
  BY FS_EmptySet DEF Init, OnBox
<1>4. \A k \in BoxKeys : nullifiers[k] = Absent
  BY DEF Init, Registry!Init
<1>5. HistoryExplainsBox
  BY <1>3, <1>4 DEF HistoryExplainsBox, Registry!is_registered
<1>6. QED
  BY <1>1, <1>2, <1>5 DEF LedgerInv

LEMMA StepLedger == LedgerInv /\ JobInv /\ [Next]_vars => LedgerInv'
<1> SUFFICES ASSUME LedgerInv, JobInv, [Next]_vars PROVE LedgerInv'
  OBVIOUS
<1>1. ASSUME NEW t \in pool, DropTx(t) PROVE LedgerInv'
  <2>1. UNCHANGED <<nullifiers, txs, committed>> /\ pool' = pool \ {t}
    BY <1>1 DEF DropTx, chain
  <2>2. LedgerTypes'
    BY <2>1 DEF LedgerInv, LedgerTypes
  <2>3. TxFits' /\ HistoryExplainsBox'
    BY <2>1 DEF LedgerInv, TxFits, HistoryExplainsBox, OnBox, KeyOf, Registry!is_registered
  <2>4. QED
    BY <2>2, <2>3 DEF LedgerInv
<1>2. CASE UNCHANGED <<chain, ledger>>
  BY <1>2 DEF chain, ledger, LedgerInv, LedgerTypes, TxFits, HistoryExplainsBox, OnBox, KeyOf,
     Registry!is_registered
<1>3. QED
  BY <1>1, <1>2, StepOnLedger, SendKeepsLedger, CommitKeepsLedger

-----------------------------------------------------------------------------
(* The orders: only the end of an execution closes one. *)

\* The worker has seen the revocation it sent for an order in a block.
Closes(o) ==
  /\ job.kind = "execute" /\ job.o = o /\ job.step = "waiting" /\ job.tx \in committed
  /\ revoke_txid'[o] = job.tx

OrderMoves(o) ==
  /\ status[o] # "none" => status'[o] # "none" /\ nullifier_hex'[o] = nullifier_hex[o]
  /\ status[o] = "none" /\ status'[o] # "none" => nullifier_hex'[o] \in Nullifiers
  /\ status'[o] = "executed" =>
       \/ status[o] = "executed" /\ revoke_txid'[o] = revoke_txid[o]
       \/ Closes(o)

LEMMA StepOnOrders ==
  ASSUME TypeOK, [Next]_vars
  PROVE  Crash \/ \A o \in Orders : OrderMoves(o)
<1> USE DEF TypeOK, Court!TypeOK, OrderMoves
<1>1. CASE UNCHANGED memory
  BY <1>1 DEF memory, court
<1>2. CASE WaitSees
  <2>1. CASE job.kind = "register"
    BY <1>2, <2>1 DEF WaitSees
  <2>2. CASE job.kind = "revoke"
    BY <1>2, <2>2 DEF WaitSees, court
  <2>3. CASE job.kind = "execute" /\ Court!execute_revocation(job.o) /\ revoke_txid' = [revoke_txid EXCEPT ![job.o] = job.tx]
    <3>1. nullifier_hex' = nullifier_hex /\ status' = [status EXCEPT ![job.o] = "executed"]
          /\ job.step = "waiting" /\ job.tx \in committed /\ status[job.o] # "none"
      BY <1>2, <2>3 DEF WaitSees, Confirmed, Court!execute_revocation, Court!Known
    <3>2. QED
      BY <2>3, <3>1 DEF Closes
  <2>4. QED
    BY <1>2, <2>1, <2>2, <2>3 DEF WaitSees
<1>3. ASSUME NEW o \in Orders, NEW n \in Nullifiers, NEW b \in Blobs \cup {None}, create_order(o, n, b)
      PROVE  \A q \in Orders : OrderMoves(q)
  BY <1>3 DEF create_order, Court!create_court_order, Court!Known, Aside
<1>4. ASSUME NEW o \in Orders, Court!Touch(o), UNCHANGED <<nullifier_hex, revoke_txid>>
      PROVE  \A q \in Orders : OrderMoves(q)
  BY <1>4 DEF Court!Touch, Court!Refreshed
<1>5. ASSUME NEW o \in Orders, NEW id \in Custodians, NEW num \in Nums, NEW approved \in BOOLEAN,
             vote_on_court_order(o, id, num, approved)
      PROVE  \A q \in Orders : OrderMoves(q)
  <2>1. CASE Court!RefuseVote(o, id)
    BY <1>4, <1>5, <2>1 DEF vote_on_court_order, Court!RefuseVote, Aside
  <2>2. CASE Court!RecordVote(o, id, num, approved)
    <3>1. \A yes, no : Court!Decision(yes, no) \in {"approved", "rejected", "pending"}
      BY DEF Court!Decision
    <3>2. PICK d \in {"approved", "rejected", "pending"} : status' = [status EXCEPT ![o] = d]
      BY <2>2, <3>1 DEF Court!RecordVote
    <3>3. nullifier_hex' = nullifier_hex /\ revoke_txid' = revoke_txid /\ status[o] # "none"
      BY <1>5, <2>2 DEF Court!RecordVote, Court!Known, vote_on_court_order, Aside
    <3>4. QED
      BY <3>2, <3>3
  <2>3. QED
    BY <1>5, <2>1, <2>2 DEF vote_on_court_order
<1>6. ASSUME NEW o \in Orders, get_court_order(o) PROVE \A q \in Orders : OrderMoves(q)
  BY <1>4, <1>6 DEF get_court_order, Court!get_court_order, Aside
<1>7. CASE Tick
  BY <1>7 DEF Tick, Court!Tick, Aside
<1>8. ASSUME RequestStep, ~UNCHANGED memory PROVE \A o \in Orders : OrderMoves(o)
  BY <1>3, <1>5, <1>6, <1>8 DEF RequestStep, register_kyc, revoke_credential, execute_court_order, Start
<1>9. ASSUME ChainStep PROVE UNCHANGED memory
  BY <1>9 DEF ChainStep, CommitTx, DropTx, registerNullifier
<1>10. ASSUME Submit \/ SubmitFails \/ WaitGivesUp PROVE UNCHANGED memory
  BY <1>10 DEF Submit, SubmitFails, WaitGivesUp
<1>11. CASE UNCHANGED vars
  BY <1>1, <1>11 DEF vars
<1>12. QED
  BY <1>1, <1>2, <1>7, <1>8, <1>9, <1>10, <1>11 DEF Next, WorkerStep

LEMMA StepOrder ==
  ASSUME TypeOK, LedgerInv, JobInv, OrderInv, [Next]_vars
  PROVE  OrderInv'
<1>1. CASE Crash
  BY <1>1 DEF Crash, OrderInv, KnownIsNamed, ExecutedMeansRevoked
<1>2. CASE \A o \in Orders : OrderMoves(o)
  <2>1. KnownIsNamed'
    BY <1>2 DEF OrderMoves, OrderInv, KnownIsNamed
  <2>2. Grows /\ LedgerTypes
    BY StepGrows DEF LedgerInv
  <2>3. ASSUME NEW o \in Orders, status'[o] = "executed"
        PROVE  revoke_txid'[o] \in Committed("invalidate", nullifier_hex[o])' /\ txs'[revoke_txid'[o]].o = o
    <3>1. status[o] # "none" /\ nullifier_hex'[o] = nullifier_hex[o]
      BY <1>2, <2>3 DEF OrderMoves, Closes, JobInv
    <3> PICK k : k = Plain(nullifier_hex[o])
      OBVIOUS
    <3>2. ASSUME NEW t \in OnBox("invalidate", k), txs[t].o = o, revoke_txid'[o] = t
          PROVE  revoke_txid'[o] \in Committed("invalidate", nullifier_hex[o])' /\ txs'[revoke_txid'[o]].o = o
      <4>1. t \in OnBox("invalidate", k)'
        BY <2>2, <3>2, CommittedStays
      <4>2. t \in DOMAIN txs
        BY <2>2, <3>2 DEF OnBox, LedgerTypes
      <4>3. txs'[t] = txs[t]
        BY <2>2, <4>2 DEF Grows
      <4>4. QED
        BY <3>1, <3>2, <4>1, <4>3 DEF Committed, Plain
    <3>3. CASE status[o] = "executed" /\ revoke_txid'[o] = revoke_txid[o]
      BY <3>2, <3>3 DEF OrderInv, ExecutedMeansRevoked, Committed
    <3>4. CASE Closes(o)
      <4>1. txs[job.tx] = Call /\ job.tx \in committed /\ job.n = nullifier_hex[o]
        BY <3>4 DEF Closes, JobInv
      <4>2. Call.op = "invalidate" /\ Call.n = nullifier_hex[o] /\ Call.by = "execute" /\ Call.o = o
        BY <3>4, <4>1 DEF Call, Closes
      <4>3. job.tx \in OnBox("invalidate", k)
        BY <4>1, <4>2 DEF OnBox, KeyOf, Plain
      <4>4. revoke_txid'[o] = job.tx /\ txs[job.tx].o = o
        BY <3>4, <4>1, <4>2 DEF Closes
      <4>5. QED
        BY <3>2, <4>3, <4>4
    <3>5. QED
      BY <1>2, <2>3, <3>3, <3>4 DEF OrderMoves
  <2>4. ExecutedMeansRevoked'
    BY <2>3 DEF ExecutedMeansRevoked, Committed
  <2>5. QED
    BY <2>1, <2>4 DEF OrderInv
<1>3. QED
  BY <1>1, <1>2, StepOnOrders

-----------------------------------------------------------------------------
(* The worker's request. *)

LEMMA StartKeepsJob ==
  ASSUME JobInv, NEW kind \in {"register", "revoke", "execute"}, NEW n \in Nullifiers,
         NEW w \in Wallets \cup {None}, NEW b \in Blobs \cup {None}, NEW o \in Orders \cup {None},
         Start(kind, n, w, b, o),
         kind = "register" => w \in Wallets,
         kind = "execute" => o \in Orders /\ status[o] # "none" /\ n = nullifier_hex[o]
  PROVE  JobInv'
<1>1. job' = [kind |-> kind, step |-> "checked", n |-> n, w |-> w, b |-> b, o |-> o, tx |-> 0]
      /\ UNCHANGED <<memory, ledger>>
  BY DEF Start
<1>2. job' \in Jobs
  BY <1>1, BoundsAssumption DEF Jobs
<1>3. QED
  BY <1>1, <1>2 DEF JobInv, memory, court

\* With the request untouched, its order and its transaction are too.
LEMMA SameJob ==
  ASSUME LedgerTypes, JobInv, UNCHANGED job, Grows, \A o \in Orders : OrderMoves(o)
  PROVE  JobInv'
<1>1. job.step = "waiting" => job.tx \in DOMAIN txs' /\ txs'[job.tx] = Call'
  BY DEF JobInv, Grows, Call
<1>2. QED
  BY <1>1 DEF JobInv, OrderMoves

LEMMA IdleFits ==
  ASSUME job' = Idle
  PROVE  JobInv'
<1>1. Idle \in Jobs
  BY BoundsAssumption DEF Idle, Jobs
<1>2. QED
  BY <1>1 DEF JobInv, Idle

LEMMA SubmitKeepsJob ==
  ASSUME LedgerTypes, JobInv, Submit
  PROVE  JobInv'
<1>1. NewCall(Call) /\ Send(Call) /\ UNCHANGED memory
      /\ job.step = "checked" /\ job' = [job EXCEPT !.step = "waiting", !.tx = Len(txs) + 1]
  BY CallFits DEF Submit
<1>2. /\ Len(txs') = Len(txs) + 1 /\ Len(txs') <= MaxTx
      /\ DOMAIN txs' = DOMAIN txs \cup {Len(txs) + 1}
      /\ txs'[Len(txs) + 1] = Call
  BY <1>1, SendGrows DEF NewCall
<1>3. Len(txs) + 1 \in 0 .. MaxTx
  BY <1>2, BoundsAssumption DEF LedgerTypes
<1>4. job \in Jobs
  BY DEF JobInv
<1>5. /\ job' \in Jobs /\ job'.step = "waiting" /\ job'.tx = Len(txs) + 1 /\ job'.kind = job.kind
      /\ job'.n = job.n /\ job'.w = job.w /\ job'.b = job.b /\ job'.o = job.o
  BY <1>1, <1>3, <1>4 DEF Jobs
<1>6. Call' = Call
  BY <1>5 DEF Call
<1>7. UNCHANGED <<status, nullifier_hex>>
  BY <1>1 DEF memory, court
<1>8. job'.tx \in DOMAIN txs' /\ txs'[job'.tx] = Call'
  BY <1>2, <1>5, <1>6
<1>9. QED
  BY <1>1, <1>5, <1>7, <1>8 DEF JobInv

LEMMA StepJob ==
  ASSUME TypeOK, LedgerInv, JobInv, OrderInv, [Next]_vars
  PROVE  JobInv'
<1>1. CASE Crash \/ WaitSees \/ WaitGivesUp \/ SubmitFails
  BY <1>1, IdleFits DEF Crash, WaitSees, WaitGivesUp, SubmitFails
<1>2. CASE Submit
  BY <1>2, SubmitKeepsJob DEF LedgerInv
<1>3. ASSUME NEW n \in Nullifiers, NEW w \in Wallets, NEW b \in Blobs \cup {None}, NEW f \in BOOLEAN,
             register_kyc(n, w, b, f)
      PROVE  JobInv'
  BY <1>3, StartKeepsJob DEF register_kyc
<1>4. ASSUME NEW n \in Nullifiers, revoke_credential(n) PROVE JobInv'
  BY <1>4, StartKeepsJob DEF revoke_credential
<1>5. ASSUME NEW o \in Orders, execute_court_order(o) PROVE JobInv'
  <2>1. status[o] # "none" /\ nullifier_hex[o] \in Nullifiers
    BY <1>5 DEF execute_court_order, Court!Known, OrderInv, KnownIsNamed
  <2>2. QED
    BY <1>5, <2>1, StartKeepsJob DEF execute_court_order
<1>6. ASSUME UNCHANGED job PROVE JobInv'
  <2>1. CASE Crash
    BY <1>1, <2>1
  <2>2. QED
    BY <1>6, <2>1, SameJob, StepGrows, StepOnOrders DEF LedgerInv
<1>7. CASE ChainStep
  BY <1>6, <1>7 DEF ChainStep, CommitTx, DropTx, registerNullifier
<1>8. CASE RequestStep
  BY <1>3, <1>4, <1>5, <1>6, <1>8 DEF RequestStep, create_order, vote_on_court_order, get_court_order, Aside
<1>9. CASE Tick \/ UNCHANGED vars
  BY <1>6, <1>9 DEF Tick, Aside, vars
<1>10. QED
  BY <1>1, <1>2, <1>7, <1>8, <1>9 DEF Next, WorkerStep

-----------------------------------------------------------------------------
(* The blob store: only the end of a registration fills it. *)

\* The worker has seen its own registration in a block.
Stores ==
  /\ job.kind = "register" /\ job.step = "waiting" /\ job.tx \in committed
  /\ identity_blobs' = Stored(job.b)

LEMMA StepOnStore ==
  ASSUME [Next]_vars
  PROVE  Crash \/ Stores \/ UNCHANGED identity_blobs
<1>1. CASE ChainStep
  BY <1>1 DEF ChainStep, CommitTx, DropTx, registerNullifier, memory, court
<1>2. CASE Submit \/ SubmitFails \/ WaitGivesUp
  BY <1>2 DEF Submit, SubmitFails, WaitGivesUp, memory, court
<1>3. CASE WaitSees
  BY <1>3 DEF WaitSees, Court!execute_revocation, court, Confirmed, Stores
<1>4. CASE RequestStep
  <2>1. ASSUME NEW o \in Orders, get_court_order(o) PROVE UNCHANGED identity_blobs
    BY <2>1 DEF get_court_order, Court!get_court_order
  <2>2. ASSUME NEW o \in Orders, NEW id \in Custodians, NEW num \in Nums, NEW approved \in BOOLEAN,
               vote_on_court_order(o, id, num, approved)
        PROVE  UNCHANGED identity_blobs
    BY <2>2 DEF vote_on_court_order, Court!RecordVote, Court!RefuseVote
  <2>3. ASSUME NEW o \in Orders, NEW n \in Nullifiers, NEW b \in Blobs \cup {None}, create_order(o, n, b)
        PROVE  UNCHANGED identity_blobs
    BY <2>3 DEF create_order, Court!create_court_order
  <2>4. QED
    BY <1>4, <2>1, <2>2, <2>3 DEF RequestStep, register_kyc, revoke_credential, execute_court_order, Start,
       memory, court
<1>5. CASE Tick
  BY <1>5 DEF Tick, Court!Tick
<1>6. CASE UNCHANGED vars
  BY <1>6 DEF vars, memory, court
<1>7. QED
  BY <1>1, <1>2, <1>3, <1>4, <1>5, <1>6 DEF Next, WorkerStep

LEMMA StoresOwn ==
  ASSUME TypeOK, JobInv, Stores
  PROVE  /\ job.tx \in DOMAIN txs /\ job.n \in Nullifiers
         /\ txs[job.tx].op = "register" /\ txs[job.tx].by = "register"
         /\ txs[job.tx].n = job.n /\ txs[job.tx].b = job.b
         /\ \A n \in Nullifiers :
              identity_blobs'[n] = IF n = job.n /\ job.b # None THEN job.b ELSE identity_blobs[n]
<1>1. job.tx \in DOMAIN txs /\ txs[job.tx] = Call /\ job.n \in Nullifiers
  BY DEF Stores, JobInv
<1>2. \A n \in Nullifiers :
        identity_blobs'[n] = IF n = job.n /\ job.b # None THEN job.b ELSE identity_blobs[n]
  BY <1>1 DEF Stores, Stored, TypeOK, Court!TypeOK
<1>3. QED
  BY <1>1, <1>2 DEF Stores, Call

LEMMA StepBlob ==
  ASSUME TypeOK, LedgerInv, JobInv, BlobWasRegistered, [Next]_vars
  PROVE  BlobWasRegistered'
<1>1. Grows /\ LedgerTypes
  BY StepGrows DEF LedgerInv
<1>2. ASSUME NEW n \in Nullifiers, NEW t \in OnBox("register", Plain(n))
      PROVE  t \in OnBox("register", Plain(n))' /\ txs'[t] = txs[t]
  <2>1. t \in OnBox("register", Plain(n))'
    BY <1>1, CommittedStays
  <2>2. t \in DOMAIN txs
    BY <1>1 DEF OnBox, LedgerTypes
  <2>3. QED
    BY <1>1, <2>1, <2>2 DEF Grows
<1>3. CASE Crash
  BY <1>3 DEF Crash, BlobWasRegistered
<1>4. CASE UNCHANGED identity_blobs
  BY <1>2, <1>4 DEF BlobWasRegistered, Committed, Plain
<1>5. CASE Stores
  <2>1. ASSUME NEW n \in Nullifiers, identity_blobs'[n] # None
        PROVE  \E t \in OnBox("register", Plain(n)) : txs[t].b = identity_blobs'[n]
    <3>1. CASE n = job.n /\ job.b # None
      <4>1. job.tx \in OnBox("register", Plain(n)) /\ txs[job.tx].b = identity_blobs'[n]
        BY <1>5, <3>1, StoresOwn DEF OnBox, KeyOf, Plain, Stores
      <4>2. QED
        BY <4>1
    <3>2. CASE ~(n = job.n /\ job.b # None)
      BY <1>5, <2>1, <3>2, StoresOwn DEF BlobWasRegistered, Committed
    <3>3. QED
      BY <3>1, <3>2
  <2>2. QED
    BY <1>2, <2>1 DEF BlobWasRegistered, Committed, Plain
<1>6. QED
  BY <1>3, <1>4, <1>5, StepOnStore

\* Who sends, who answers, and what the rest leaves alone.
LEMMA StepOnReplies ==
  ASSUME [Next]_vars
  PROVE  \/ Crash \/ Submit \/ WaitSees \/ WaitGivesUp
         \/ \E n \in Nullifiers, w \in Wallets : registerNullifier(n, w)
         \/ UNCHANGED <<txs, reply, crashes>> /\ (UNCHANGED job \/ job.step # "waiting")
<1>1. CASE \E t \in pool : CommitTx(t) \/ DropTx(t)
  BY <1>1 DEF CommitTx, DropTx
<1>2. CASE SubmitFails
  BY <1>2 DEF SubmitFails, ledger
<1>3. CASE RequestStep
  <2>1. ASSUME NEW kind, NEW n, NEW w, NEW b, NEW o, Start(kind, n, w, b, o)
        PROVE  UNCHANGED <<txs, reply, crashes>> /\ job.step # "waiting"
    BY <2>1 DEF Start, ledger, Idle
  <2>2. ASSUME Aside PROVE UNCHANGED <<txs, reply, crashes, job>>
    BY <2>2 DEF Aside, ledger
  <2>3. QED
    BY <1>3, <2>1, <2>2 DEF RequestStep, register_kyc, revoke_credential, execute_court_order, create_order,
       vote_on_court_order, get_court_order
<1>4. CASE Tick
  BY <1>4 DEF Tick, Aside, ledger
<1>5. CASE UNCHANGED vars
  BY <1>5 DEF vars, ledger
<1>6. QED
  BY <1>1, <1>2, <1>3, <1>4, <1>5 DEF Next, ChainStep, WorkerStep

\* A transaction the worker no longer waits for was answered.
LEMMA StepKept ==
  ASSUME TypeOK, LedgerInv, JobInv, KeptOrExplained, [Next]_vars
  PROVE  KeptOrExplained'
<1>1. Grows /\ LedgerTypes /\ DOMAIN txs \subseteq 1 .. MaxTx
  BY StepGrows, BoundsAssumption DEF LedgerInv, LedgerTypes
<1>2. CASE Crash
  BY <1>2 DEF TypeOK, Crash, KeptOrExplained
<1>3. ASSUME ~Crash, NEW t \in DOMAIN txs, identity_blobs[txs[t].n] # None
      PROVE  identity_blobs'[txs[t].n] # None
  <2>1. CASE UNCHANGED identity_blobs
    BY <1>3, <2>1
  <2>2. CASE Stores
    <3>1. txs[t] \in Txs
      BY <1>1 DEF LedgerTypes
    <3>2. txs[t].n \in Nullifiers
      BY <3>1 DEF Txs
    <3>3. QED
      BY <1>3, <2>2, <3>2, StoresOwn
  <2>3. QED
    BY <1>3, <2>1, <2>2, StepOnStore
<1>4. ASSUME ~Crash, NEW t \in DOMAIN txs, reply[t] = "failure", t # job.tx
      PROVE  reply'[t] = "failure"
  <2>1. CASE WaitSees \/ WaitGivesUp
    <3>1. t \in TxIds /\ reply \in [TxIds -> {"none", "success", "failure"}]
      BY <1>1 DEF TxIds, TypeOK
    <3>2. PICK answer : reply' = Told(answer)
      BY <2>1 DEF WaitSees, WaitGivesUp
    <3>3. QED
      BY <1>4, <3>1, <3>2 DEF Told
  <2>2. CASE Submit \/ \E n \in Nullifiers, w \in Wallets : registerNullifier(n, w)
    BY <1>4, <2>2 DEF Submit, registerNullifier
  <2>3. QED
    BY <1>4, <2>1, <2>2, StepOnReplies
<1>5. ASSUME ~Crash, NEW t \in DOMAIN txs, t = job.tx, txs[t].by = "register", txs[t].b # None
      PROVE  identity_blobs'[txs[t].n] # None \/ reply'[t] = "failure" \/ job'.tx = t
  <2>1. t # 0 /\ t \in TxIds
    BY <1>1 DEF TxIds
  <2>2. job.step = "waiting" /\ txs[t] = Call
    BY <1>5, <2>1 DEF JobInv
  <2>3. CASE WaitSees
    <3>1. Stores
      BY <1>5, <2>2, <2>3 DEF WaitSees, Call, Stores, Confirmed
    <3>2. identity_blobs'[txs[t].n] = txs[t].b
      BY <1>5, <3>1, StoresOwn
    <3>3. QED
      BY <1>5, <3>2
  <2>4. CASE WaitGivesUp
    BY <1>5, <2>1, <2>4 DEF WaitGivesUp, Told, TypeOK
  <2>5. CASE UNCHANGED job
    BY <1>5, <2>5
  <2>6. QED
    BY <1>5, <2>2, <2>3, <2>4, <2>5, StepOnReplies DEF Submit, registerNullifier
<1>6. ASSUME NEW t \in DOMAIN txs', t \notin DOMAIN txs, txs'[t].by = "register" PROVE job'.tx = t
  <2>1. CASE Submit
    <3>1. NewCall(Call) /\ Send(Call) /\ job' = [job EXCEPT !.step = "waiting", !.tx = Len(txs) + 1]
      BY <2>1, CallFits DEF Submit
    <3>2. t = Len(txs) + 1
      BY <1>1, <1>6, <3>1, SendGrows DEF NewCall
    <3>3. QED
      BY <3>1, <3>2 DEF JobInv, Jobs
  <2>2. ASSUME NEW n \in Nullifiers, NEW w \in Wallets, registerNullifier(n, w) PROVE FALSE
    <3> DEFINE tx == [op |-> "register", n |-> n, w |-> w, by |-> "sdk", b |-> None, o |-> None]
    <3>1. tx \in Txs /\ Send(tx)
      BY <2>2, SdkCallFits DEF registerNullifier, NewCall
    <3> HIDE DEF tx
    <3>2. txs'[t] = tx
      BY <1>1, <1>6, <3>1, SendGrows
    <3>3. QED
      BY <1>6, <3>2 DEF tx
  <2>3. CASE UNCHANGED txs
    BY <1>6, <2>3
  <2>4. QED
    BY <2>1, <2>2, <2>3, StepOnReplies DEF Crash, WaitSees, WaitGivesUp, ledger
<1>7. ASSUME ~Crash, NEW t \in DOMAIN txs', txs'[t].by = "register", txs'[t].b # None
      PROVE  \/ identity_blobs'[txs'[t].n] # None \/ reply'[t] = "failure" \/ job'.tx = t \/ crashes' > 0
  <2>1. CASE t \notin DOMAIN txs
    BY <1>6, <1>7, <2>1
  <2>2. CASE t \in DOMAIN txs
    <3>1. txs'[t] = txs[t]
      BY <1>1, <2>2 DEF Grows
    <3>2. CASE t = job.tx
      BY <1>5, <1>7, <2>2, <3>1, <3>2
    <3>3. CASE t # job.tx
      <4>1. crashes' = crashes
        BY <1>7, StepOnReplies DEF Submit, registerNullifier, WaitSees, WaitGivesUp
      <4>2. QED
        BY <1>3, <1>4, <1>7, <2>2, <3>1, <3>3, <4>1 DEF KeptOrExplained
    <3>4. QED
      BY <3>2, <3>3
  <2>3. QED
    BY <2>1, <2>2
<1>8. QED
  BY <1>2, <1>7 DEF KeptOrExplained

-----------------------------------------------------------------------------
(* Types. *)

LEMMA InitTypes == Init => TypeOK
  BY BoundsAssumption DEF Init, TypeOK, Registry!Init, Registry!TypeOK, Court!Init, Court!TypeOK, Court!Statuses,
     Jobs, Idle, TxIds

LEMMA StepOrderTypes ==
  ASSUME TypeOK, JobInv, [Next]_vars
  PROVE  Court!TypeOK' /\ (used \subseteq Orders)' /\ (revoke_txid \in [Orders -> 0 .. MaxTx])'
<1> USE DEF TypeOK, Court!TypeOK
<1>1. CASE UNCHANGED memory
  BY <1>1 DEF memory, court
<1>2. CASE WaitSees
  <2>1. CASE job.kind = "register" /\ identity_blobs' = Stored(job.b)
    <3>1. job.n \in Nullifiers /\ job.b \in Blobs \cup {None}
      BY <2>1, <1>2 DEF JobInv, Jobs
    <3>2. identity_blobs' \in [Nullifiers -> Blobs \cup {None}]
      BY <2>1, <3>1 DEF Stored
    <3>3. QED
      BY <1>2, <2>1, <3>2 DEF WaitSees
  <2>2. CASE job.kind = "revoke"
    BY <1>2, <2>2 DEF WaitSees, court
  <2>3. CASE job.kind = "execute" /\ Court!execute_revocation(job.o) /\ revoke_txid' = [revoke_txid EXCEPT ![job.o] = job.tx]
    BY <1>2, <2>3 DEF WaitSees, JobInv, Jobs, Court!execute_revocation, Court!Cleared, Court!Statuses
  <2>4. QED
    BY <1>2, <2>1, <2>2, <2>3 DEF WaitSees
<1>3. ASSUME NEW o \in Orders, NEW n \in Nullifiers, NEW b \in Blobs \cup {None}, create_order(o, n, b)
      PROVE  Court!TypeOK' /\ (used \subseteq Orders)' /\ (revoke_txid \in [Orders -> 0 .. MaxTx])'
  BY <1>3, BoundsAssumption DEF create_order, Court!create_court_order, Court!Statuses, Aside
<1>4. ASSUME NEW o \in Orders, Court!Touch(o)
      PROVE  status' \in [Orders -> Court!Statuses]
  BY <1>4 DEF Court!Touch, Court!Refreshed, Court!Statuses
<1>5. ASSUME NEW o \in Orders, NEW id \in Custodians, NEW num \in Nums, NEW approved \in BOOLEAN,
             vote_on_court_order(o, id, num, approved)
      PROVE  Court!TypeOK' /\ (used \subseteq Orders)' /\ (revoke_txid \in [Orders -> 0 .. MaxTx])'
  <2>1. CASE Court!RefuseVote(o, id)
    BY <1>4, <1>5, <2>1 DEF vote_on_court_order, Court!RefuseVote, Aside
  <2>2. CASE Court!RecordVote(o, id, num, approved)
    <3>a. PICK vote : vote = [custodian_id |-> id, custodian_num |-> num, approved |-> approved]
      OBVIOUS
    <3>b. PICK cast : cast = votes[o] \cup {vote}
      OBVIOUS
    <3>1. cast \in SUBSET Court!Votes
      BY <3>a, <3>b DEF Court!Votes
    <3>2. \A yes, no : Court!Decision(yes, no) \in Court!Statuses
      BY DEF Court!Decision, Court!Statuses
    <3>3. \A A : Court!Disclosure(o, A) \in Blobs \cup {None, Note, Err}
      <4>1. Court!BlobFor(o) \in Blobs \cup {None}
        BY DEF Court!BlobFor
      <4>2. QED
        BY <4>1 DEF Court!Disclosure
    <3>4. PICK decision \in Court!Statuses :
            /\ votes' = [votes EXCEPT ![o] = cast]
            /\ status' = [status EXCEPT ![o] = decision]
            /\ decrypted_identity' =
                 [decrypted_identity EXCEPT ![o] = IF decision = "approved"
                                                   THEN Court!Disclosure(o, Court!Approvals(cast)) ELSE @]
            /\ UNCHANGED <<nullifier_hex, encrypted_blob, expires_at, identity_blobs, now>>
      BY <2>2, <3>2, <3>a, <3>b DEF Court!RecordVote
    <3>5. decrypted_identity' \in [Orders -> Blobs \cup {None, Note, Err}]
      BY <3>3, <3>4
    <3>6. UNCHANGED <<used, revoke_txid>>
      BY <1>5 DEF vote_on_court_order, Aside
    <3>7. QED
      BY <3>1, <3>4, <3>5, <3>6
  <2>3. QED
    BY <1>5, <2>1, <2>2 DEF vote_on_court_order
<1>6. ASSUME NEW o \in Orders, get_court_order(o)
      PROVE  Court!TypeOK' /\ (used \subseteq Orders)' /\ (revoke_txid \in [Orders -> 0 .. MaxTx])'
  BY <1>4, <1>6 DEF get_court_order, Court!get_court_order, Aside
<1>7. CASE Tick
  BY <1>7 DEF Tick, Court!Tick, Aside
<1>8. CASE Crash
  BY <1>8, BoundsAssumption DEF Crash, Court!Statuses
<1>9. CASE RequestStep
  <2>1. ASSUME NEW kind, NEW n, NEW w, NEW b, NEW o, Start(kind, n, w, b, o) PROVE UNCHANGED memory
    BY <2>1 DEF Start
  <2> HIDE DEF TypeOK, Court!TypeOK
  <2>2. QED
    BY <1>1, <1>3, <1>5, <1>6, <1>9, <2>1 DEF RequestStep, register_kyc, revoke_credential, execute_court_order
<1>10. CASE ChainStep
  BY <1>1, <1>10 DEF ChainStep, CommitTx, DropTx, registerNullifier
<1>11. CASE Submit \/ SubmitFails \/ WaitGivesUp
  BY <1>1, <1>11 DEF Submit, SubmitFails, WaitGivesUp
<1>12. CASE UNCHANGED vars
  BY <1>1, <1>12 DEF vars
<1>13. QED
  BY <1>2, <1>7, <1>8, <1>9, <1>10, <1>11, <1>12 DEF Next, WorkerStep

LEMMA StepTypes ==
  ASSUME TypeOK, LedgerInv, JobInv, OrderInv, [Next]_vars
  PROVE  TypeOK'
<1>1. LedgerTypes' /\ job' \in Jobs
  BY StepLedger, StepJob DEF LedgerInv, JobInv
<1>2. Court!TypeOK' /\ (used \subseteq Orders)' /\ (revoke_txid \in [Orders -> 0 .. MaxTx])'
  BY StepOrderTypes
<1>3. issuer' \in {Deployer} /\ total_registered' \in Nat
  <2>1. ASSUME NEW t \in pool, CommitTx(t) PROVE issuer' \in {Deployer} /\ total_registered' \in Nat
    BY <2>1 DEF CommitTx, Registry!register, Registry!invalidate, Registry!Decremented, TypeOK, Registry!TypeOK
  <2>2. CASE UNCHANGED chain
    BY <2>2 DEF chain, TypeOK, Registry!TypeOK
  <2>3. QED
    BY <2>1, <2>2, StepOnLedger DEF DropTx
<1>4. reply' \in [TxIds -> {"none", "success", "failure"}]
  BY StepOnReplies DEF TypeOK, Crash, Submit, registerNullifier, WaitSees, WaitGivesUp, Told
<1>5. crashes' \in 0 .. MaxCrashes
  <2>1. CASE Crash
    BY <2>1, BoundsAssumption DEF TypeOK, Crash
  <2>2. CASE UNCHANGED crashes
    BY <2>2 DEF TypeOK
  <2>3. QED
    BY <2>1, <2>2, StepOnReplies DEF Submit, registerNullifier, WaitSees, WaitGivesUp
<1>6. QED
  BY <1>1, <1>2, <1>3, <1>4, <1>5 DEF TypeOK, LedgerTypes, Registry!TypeOK

-----------------------------------------------------------------------------
IInv == TypeOK /\ LedgerInv /\ JobInv /\ OrderInv /\ StoreInv

LEMMA InitEstablishesIInv == Init => IInv
<1> SUFFICES ASSUME Init PROVE IInv
  OBVIOUS
<1>1. TypeOK /\ LedgerInv
  BY InitTypes, InitLedger
<1>2. JobInv
  BY <1>1 DEF Init, JobInv, Idle, TypeOK
<1>3. OrderInv
  BY DEF Init, Court!Init, OrderInv, KnownIsNamed, ExecutedMeansRevoked
<1>4. StoreInv
  BY DEF Init, Court!Init, StoreInv, BlobWasRegistered, KeptOrExplained
<1>5. QED
  BY <1>1, <1>2, <1>3, <1>4 DEF IInv

LEMMA NextKeepsIInv == IInv /\ [Next]_vars => IInv'
<1> SUFFICES ASSUME IInv, [Next]_vars PROVE IInv'
  OBVIOUS
<1>1. TypeOK' /\ LedgerInv' /\ JobInv' /\ OrderInv'
  BY StepTypes, StepLedger, StepJob, StepOrder DEF IInv
<1>2. StoreInv'
  BY StepBlob, StepKept DEF IInv, StoreInv
<1>3. QED
  BY <1>1, <1>2 DEF IInv

LEMMA IInvAlways == Spec => []IInv
BY InitEstablishesIInv, NextKeepsIInv, PTL DEF Spec

\* Every value the backend, the chain and the pool hold has its type.
THEOREM TypeCorrect == Spec => []TypeOK
<1>1. IInv => TypeOK
  BY DEF IInv
<1>2. QED
  BY <1>1, IInvAlways, PTL

\* However answers are lost, requests repeated and transactions dropped, the
\* calls on a box alternate: register() and invalidate() of the contract test
\* the box in the same step that writes it.
THEOREM HistoryAlternates == Spec => []HistoryExplainsBox
<1>1. IInv => HistoryExplainsBox
  BY DEF IInv, LedgerInv
<1>2. QED
  BY <1>1, IInvAlways, PTL

\* register_kyc stores a blob only after the registration that brought it.
THEOREM BlobsAreRegistered == Spec => []BlobWasRegistered
<1>1. IInv => BlobWasRegistered
  BY DEF IInv, StoreInv
<1>2. QED
  BY <1>1, IInvAlways, PTL

\* The only ways to lose a blob: none brought, a wait that gave up or is not
\* over, a restart of the process.
THEOREM LossIsExplained == Spec => []BlobLossHasReason
<1>1. IInv => BlobLossHasReason
  <2> SUFFICES ASSUME IInv, NEW n \in Nullifiers, NEW t \in OnBox("register", Plain(n)), identity_blobs[n] = None
               PROVE  txs[t].b = None \/ reply[t] = "failure" \/ job.tx = t \/ crashes > 0
    BY DEF BlobLossHasReason, Committed
  <2>1. t \in DOMAIN txs /\ txs[t] \in Txs /\ txs[t].op = "register" /\ KeyOf(txs[t]) = Plain(n)
    BY DEF IInv, TypeOK, OnBox
  <2>2. txs[t].by = "register" /\ txs[t].n = n
    BY <2>1 DEF IInv, LedgerInv, TxFits, KeyOf, Plain
  <2>3. QED
    BY <2>1, <2>2 DEF IInv, StoreInv, KeptOrExplained
<1>2. QED
  BY <1>1, IInvAlways, PTL

\* execute_court_order closes an order only over its own committed revocation.
THEOREM ExecutedIsRevoked == Spec => []ExecutedMeansRevoked
<1>1. IInv => ExecutedMeansRevoked
  BY DEF IInv, OrderInv
<1>2. QED
  BY <1>1, IInvAlways, PTL

=============================================================================
