------------------------------ MODULE KYCBackend ------------------------------
(***************************************************************************)
(* The backend with the chain under it: registration, revocation and the   *)
(* execution of court orders against the NullifierRegistry contract.       *)
(*                                                                         *)
(* The handlers are async functions that block without ever awaiting, so   *)
(* the single worker runs one request at a time and every other request    *)
(* queues behind it.  What does interleave with a handler is the chain:    *)
(* blocks, transactions sent with the issuer's key through the SDK, the    *)
(* clock, and a restart of the process, which loses the order and blob     *)
(* stores (both plain dictionaries) and the request in hand, never a       *)
(* transaction already sent.                                               *)
(***************************************************************************)
EXTENDS Integers, Sequences, FiniteSets

CONSTANTS
  Nullifiers, Wallets, Absent,                              \* the contract
  Deployer,                                                 \* the issuer's account
  Orders, Custodians, Nums, ShareHolders, Blobs, Garbled,   \* court orders
  TOTAL_CUSTODIANS, THRESHOLD, TTL, MaxTime, None, Note, Err,
  MaxTx,       \* bound of the model: transactions sent
  MaxCrashes   \* bound of the model: restarts of the backend

ASSUME BoundsAssumption == MaxTx \in Nat /\ MaxCrashes \in Nat /\ TTL \in Nat
ASSUME AbsentIsNoWallet == Absent \notin Wallets
ASSUME NoneIsNothing == None \notin Nullifiers

VARIABLES
  issuer, total_registered, nullifiers,  \* the contract's state
  txs,        \* transactions accepted by a node; the index is the txid
  pool,       \* those still waiting for a block
  committed,  \* those in a block
  reply,      \* per transaction: what its sender was told
  job,        \* the request the worker is busy with
  status, nullifier_hex, encrypted_blob, expires_at, votes,
  decrypted_identity, identity_blobs, now,   \* see CourtOrders
  used,       \* order ids drawn so far (random: never drawn again)
  revoke_txid,  \* per order: the transaction recorded at execution, or 0
  crashes

chain == <<issuer, total_registered, nullifiers>>
ledger == <<txs, pool, committed>>
court == <<status, nullifier_hex, encrypted_blob, expires_at, votes,
           decrypted_identity, identity_blobs, now>>
memory == <<court, used, revoke_txid>>
vars == <<chain, ledger, reply, job, memory, crashes>>

\* Box names.  The backend encodes a nullifier once and names the box after
\* it; the SDK encodes it and hands it to a library that encodes it again, so
\* the contract names the box after two length bytes and the nullifier.
BoxKeys == Nullifiers \X {"plain", "prefixed"}
Plain(n) == <<n, "plain">>
KeyOf(tx) == <<tx.n, IF tx.by = "sdk" THEN "prefixed" ELSE "plain">>

Registry == INSTANCE NullifierRegistry WITH Accounts <- {Deployer}, Nullifiers <- BoxKeys
Court == INSTANCE CourtOrders

TxIds == 1 .. MaxTx

Txs == [op : {"register", "invalidate"}, n : Nullifiers, w : Wallets \cup {None},
        by : {"register", "revoke", "execute", "sdk"},
        b : Blobs \cup {None}, o : Orders \cup {None}]

Idle == [kind |-> "idle", step |-> "none", n |-> None, w |-> None, b |-> None,
         o |-> None, tx |-> 0]

Jobs == [kind : {"idle", "register", "revoke", "execute"},
         step : {"none", "checked", "waiting"},
         n : Nullifiers \cup {None}, w : Wallets \cup {None},
         b : Blobs \cup {None}, o : Orders \cup {None}, tx : 0 .. MaxTx]

TypeOK ==
  /\ Registry!TypeOK
  /\ Court!TypeOK
  /\ txs \in Seq(Txs) /\ Len(txs) <= MaxTx
  /\ pool \subseteq DOMAIN txs
  /\ committed \subseteq DOMAIN txs
  /\ reply \in [TxIds -> {"none", "success", "failure"}]
  /\ job \in Jobs
  /\ used \subseteq Orders
  /\ revoke_txid \in [Orders -> 0 .. MaxTx]
  /\ crashes \in 0 .. MaxCrashes

Init ==
  /\ Registry!Init
  /\ Court!Init
  /\ txs = <<>>
  /\ pool = {}
  /\ committed = {}
  /\ reply = [t \in TxIds |-> "none"]
  /\ job = Idle
  /\ used = {}
  /\ revoke_txid = [o \in Orders |-> 0]
  /\ crashes = 0

-----------------------------------------------------------------------------
\* Mutated forms of definitions below: the bugs the properties must catch.
Confirmed_OnceSent(t) == t \in DOMAIN txs
Stored_Never(b) == identity_blobs

-----------------------------------------------------------------------------
(* The chain. *)

is_registered(n) == Registry!is_registered(Plain(n))

\* GET /nullifier/{hex}: a box that cannot be read counts as missing.
check_nullifier(n, readFails) == is_registered(n) /\ ~readFails

\* Before it relays a call a node dry-runs it on the state it has: the
\* contract's assertions already refuse a call that cannot succeed now.
NodeTakes(tx) ==
  \/ tx.op = "register" /\ ~Registry!is_registered(KeyOf(tx))
  \/ tx.op = "invalidate" /\ Registry!is_registered(KeyOf(tx))

Send(tx) ==
  /\ Len(txs) < MaxTx
  /\ NodeTakes(tx)
  /\ txs' = Append(txs, tx)
  /\ pool' = pool \cup {Len(txs) + 1}
  /\ UNCHANGED committed

\* A block runs the call: the contract has the last word.
CommitTx(t) ==
  /\ t \in pool
  /\ \/ /\ txs[t].op = "register"
        /\ Registry!register(Deployer, KeyOf(txs[t]), txs[t].w)
     \/ /\ txs[t].op = "invalidate"
        /\ Registry!invalidate(Deployer, KeyOf(txs[t]))
  /\ pool' = pool \ {t}
  /\ committed' = committed \cup {t}
  /\ UNCHANGED <<txs, reply, job, memory, crashes>>

\* A transaction leaves the pool for good: its validity rounds are over, or
\* the contract refuses it by now.
DropTx(t) ==
  /\ t \in pool
  /\ pool' = pool \ {t}
  /\ UNCHANGED <<chain, txs, committed, reply, job, memory, crashes>>

\* registerNullifier of the SDK, called with the issuer's mnemonic: it goes
\* to the chain without passing the backend.
registerNullifier(n, w) ==
  /\ Send([op |-> "register", n |-> n, w |-> w, by |-> "sdk", b |-> None, o |-> None])
  /\ UNCHANGED <<chain, reply, job, memory, crashes>>

-----------------------------------------------------------------------------
(* Handlers that use the chain.  Each is cut where it waits for the network. *)

Start(kind, n, w, b, o) ==
  /\ job = Idle
  /\ job' = [kind |-> kind, step |-> "checked", n |-> n, w |-> w, b |-> b,
             o |-> o, tx |-> 0]
  /\ UNCHANGED <<chain, ledger, reply, memory, crashes>>

\* POST /register with a proof that verifies, up to the duplicate check.  The
\* check reads the box, and takes it for missing when the read fails.
register_kyc(n, w, b, readFails) ==
  /\ ~check_nullifier(n, readFails)
  /\ Start("register", n, w, b, None)

\* POST /revoke, up to the same check: here a failed read is a 404.
revoke_credential(n) ==
  /\ check_nullifier(n, FALSE)
  /\ Start("revoke", n, None, None, None)

MayExecute(o) == Court!Refreshed(o) = "approved"

\* POST /court-order/{id}/execute on an approved order: no read of the chain.
execute_court_order(o) ==
  /\ Court!Known(o)
  /\ MayExecute(o)
  /\ Start("execute", nullifier_hex[o], None, None, o)

Call ==
  [op |-> IF job.kind = "register" THEN "register" ELSE "invalidate",
   n |-> job.n, w |-> job.w, by |-> job.kind, b |-> job.b, o |-> job.o]

\* register_nullifier and invalidate_nullifier: sign and send.
Submit ==
  /\ job.step = "checked"
  /\ Send(Call)
  /\ job' = [job EXCEPT !.step = "waiting", !.tx = Len(txs) + 1]
  /\ UNCHANGED <<chain, reply, memory, crashes>>

\* Sending raises: the node refuses the call or cannot be reached.
SubmitFails ==
  /\ job.step = "checked"
  /\ job' = Idle
  /\ UNCHANGED <<chain, ledger, reply, memory, crashes>>

Confirmed(t) == t \in committed

Told(answer) == [reply EXCEPT ![job.tx] = answer]

Stored(b) == IF b # None THEN [identity_blobs EXCEPT ![job.n] = b] ELSE identity_blobs

\* _wait returns and the handler runs to its end: a registration keeps the
\* blob, an execution closes its order.
WaitSees ==
  /\ job.step = "waiting"
  /\ Confirmed(job.tx)
  /\ reply' = Told("success")
  /\ job' = Idle
  /\ \/ /\ job.kind = "register"
        /\ identity_blobs' = Stored(job.b)
        /\ UNCHANGED <<status, nullifier_hex, encrypted_blob, expires_at, votes,
                       decrypted_identity, now, revoke_txid>>
     \/ /\ job.kind = "revoke"
        /\ UNCHANGED <<court, revoke_txid>>
     \/ /\ job.kind = "execute"
        /\ Court!execute_revocation(job.o)
        /\ revoke_txid' = [revoke_txid EXCEPT ![job.o] = job.tx]
  /\ UNCHANGED <<chain, ledger, used, crashes>>

\* _wait raises: twelve rounds went by, the last one unread, or a call to the
\* node failed.  The handler reports a failure and forgets the transaction.
WaitGivesUp ==
  /\ job.step = "waiting"
  /\ reply' = Told("failure")
  /\ job' = Idle
  /\ UNCHANGED <<chain, ledger, memory, crashes>>

-----------------------------------------------------------------------------
(* Handlers that stay in memory, and what happens to the process. *)

Aside == UNCHANGED <<chain, ledger, reply, job, revoke_txid, crashes>>

create_order(o, n, b) ==
  /\ job = Idle
  /\ o \notin used
  /\ used' = used \cup {o}
  /\ Court!create_court_order(o, n, b)
  /\ Aside

vote_on_court_order(o, id, num, approved) ==
  /\ job = Idle
  /\ Court!RecordVote(o, id, num, approved) \/ Court!RefuseVote(o, id)
  /\ UNCHANGED used
  /\ Aside

\* GET /court-order/{id}; an execution refused with a 400 does as much.
get_court_order(o) ==
  /\ job = Idle
  /\ Court!get_court_order(o)
  /\ UNCHANGED used
  /\ Aside

Tick ==
  /\ Court!Tick
  /\ UNCHANGED used
  /\ Aside

\* The process dies and starts again with empty stores.
Crash ==
  /\ crashes < MaxCrashes
  /\ crashes' = crashes + 1
  /\ job' = Idle
  /\ status' = [o \in Orders |-> "none"]
  /\ nullifier_hex' = [o \in Orders |-> None]
  /\ encrypted_blob' = [o \in Orders |-> None]
  /\ expires_at' = [o \in Orders |-> 0]
  /\ votes' = [o \in Orders |-> {}]
  /\ decrypted_identity' = [o \in Orders |-> None]
  /\ identity_blobs' = [n \in Nullifiers |-> None]
  /\ revoke_txid' = [o \in Orders |-> 0]
  /\ UNCHANGED <<chain, ledger, reply, now, used>>

ChainStep ==
  \/ \E t \in pool : CommitTx(t) \/ DropTx(t)
  \/ \E n \in Nullifiers, w \in Wallets : registerNullifier(n, w)

WorkerStep == Submit \/ SubmitFails \/ WaitSees \/ WaitGivesUp

RequestStep ==
  \/ \E n \in Nullifiers, w \in Wallets, b \in Blobs \cup {None}, fails \in BOOLEAN :
       register_kyc(n, w, b, fails)
  \/ \E n \in Nullifiers : revoke_credential(n)
  \/ \E o \in Orders :
       \/ execute_court_order(o)
       \/ \E n \in Nullifiers, b \in Blobs \cup {None} : create_order(o, n, b)
       \/ \E id \in Custodians, num \in Nums, approved \in BOOLEAN :
            vote_on_court_order(o, id, num, approved)
       \/ get_court_order(o)

Next == ChainStep \/ WorkerStep \/ RequestStep \/ Tick \/ Crash

Spec == Init /\ [][Next]_vars

-----------------------------------------------------------------------------
OnBox(op, k) == {t \in committed : txs[t].op = op /\ KeyOf(txs[t]) = k}

Committed(op, n) == OnBox(op, Plain(n))

\* However requests are repeated after lost answers, and whoever sends them,
\* the registrations and revocations of a box on chain alternate, and the box
\* is there exactly when the last of them was a registration.
HistoryExplainsBox ==
  \A k \in BoxKeys :
    Cardinality(OnBox("register", k)) - Cardinality(OnBox("invalidate", k))
      = IF Registry!is_registered(k) THEN 1 ELSE 0

\* An executed order names the transaction that revoked its nullifier: its own,
\* in a block, and recorded for no other order.
ExecutedMeansRevoked ==
  \A o \in Orders :
    status[o] = "executed" =>
      /\ revoke_txid[o] \in Committed("invalidate", nullifier_hex[o])
      /\ txs[revoke_txid[o]].o = o

\* The store never holds a blob for a nullifier that was not registered with
\* that very blob.
BlobWasRegistered ==
  \A n \in Nullifiers :
    identity_blobs[n] # None =>
      \E t \in Committed("register", n) : txs[t].b = identity_blobs[n]

\* A registration that left no blob for a court order to reveal has a reason:
\* it brought none, its confirmation came too late for the handler or is still
\* awaited, or the backend restarted.
BlobLossHasReason ==
  \A n \in Nullifiers : \A t \in Committed("register", n) :
    identity_blobs[n] = None =>
      \/ txs[t].b = None
      \/ reply[t] = "failure"
      \/ job.tx = t
      \/ crashes > 0

-----------------------------------------------------------------------------
(* What the code's own words say and the code does not do. *)

\* "On-chain registration failed": the nullifier of a registration that was
\* answered so is not put on chain by it.
FailureMeansNotOnChain == \A t \in DOMAIN txs : reply[t] = "failure" => t \notin committed

=============================================================================
