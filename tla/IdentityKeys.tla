----------------------------- MODULE IdentityKeys -----------------------------
(***************************************************************************)
(* The issuer's key from one start of the backend to the next, and the     *)
(* identities sealed for it: main.py loads or draws the key, serves its    *)
(* public half, and splits it among five custodians; a widget seals an     *)
(* identity for the key it fetched, perhaps before a restart; an approved  *)
(* court order puts the shares of three votes together and opens what it   *)
(* finds under the nullifier as the issuer typed it.                       *)
(*                                                                         *)
(* Kept across a restart: the .env file, .issuer_key, the chain, and what  *)
(* the widgets have in hand.  Lost: blobs, orders and shares.              *)
(***************************************************************************)
EXTENDS Integers, FiniteSets

CONSTANTS
  Keys,      \* the 32 byte keys os.urandom may draw or an operator may enter
  Persons,   \* each has one nullifier
  Orders,    \* court orders
  Custodians,  \* the numbers of the custodians; five in the code
  Unset, Short, NonHex, Gone, None, Note, Err, Junk,
  MaxBoots   \* bound of the model: starts of the backend

VARIABLES
  env,         \* ISSUER_PRIVATE_KEY_HEX: Unset, Short (not 64 digits), NonHex or a key
  file,        \* .issuer_key: Gone, Short (not 32 bytes) or a key
  privkey,     \* _issuer_privkey, None while the backend is down
  shamir_shares,  \* of which key each custodian holds a share
  blobs,       \* _identity_blobs, by spelled nullifier
  orders,      \* per order: None, or its nullifier, blob and decrypted_identity
  registered,  \* on chain: whose nullifier has a box
  drawn,       \* keys drawn so far: never drawn again
  widget,      \* per person: the sealed identity in hand, and if its key is of this run
  \* History.
  boots,       \* starts so far
  former,      \* the key of the start before
  touched,     \* an operator edited .env or removed .issuer_key since
  discarded,   \* keys an operator's edit took away
  promised     \* who was told in this run of a sealed identity, with a key of this run

memory == <<privkey, shamir_shares, blobs, orders>>
history == <<boots, former, touched, discarded, promised>>
vars == <<env, file, memory, registered, drawn, widget, history>>

Up == privkey # None

\* zfill(64) is what the chain and the registration handler use; an order
\* keeps the nullifier as it was typed.
Nullifiers == Persons \X {"padded", "typed"}

-----------------------------------------------------------------------------
(* ECIES.  A point multiplied by two secrets is the set of the two. *)

Point(a, b) == {a, b}

\* HKDF over the ephemeral public key and the shared point.
AesKey(ephemeral, point) == <<ephemeral, point>>

\* What the browser sends; each person draws an ephemeral secret of its own.
Sealed(pubkey, p) == [ephemeral |-> p, under |-> AesKey(p, Point(pubkey, p)), plain |-> p]

Ciphertexts == {Sealed(k, p) : k \in Keys, p \in Persons}

ASSUME BoundAssumption == MaxBoots \in Nat
ASSUME KindsDiffer ==
  /\ {Unset, Short, NonHex, Gone, None} \cap Keys = {}
  /\ {None, Junk} \cap Ciphertexts = {}
  /\ None # Junk

TypeOK ==
  /\ env \in Keys \cup {Unset, Short, NonHex}
  /\ file \in Keys \cup {Gone, Short}
  /\ privkey \in Keys \cup {None}
  /\ shamir_shares \in [Custodians -> Keys \cup {None}]
  /\ blobs \in [Nullifiers -> Ciphertexts \cup {Junk, None}]
  /\ orders \in [Orders -> {None} \cup [nullifier : Nullifiers, blob : Ciphertexts \cup {Junk, None},
                                        decrypted_identity : Persons \cup {None, Note, Err}]]
  /\ registered \subseteq Persons
  /\ widget \in [Persons -> {None} \cup [blob : Ciphertexts \cup {Junk, None}, fresh : BOOLEAN]]
  /\ boots \in 0 .. MaxBoots
  /\ drawn \subseteq Keys /\ discarded \subseteq Keys
  /\ former \in Keys \cup {None} /\ touched \in BOOLEAN
  /\ promised \subseteq Persons

-----------------------------------------------------------------------------
\* Mutated forms of definitions below: the bugs the properties must catch.
load_or_generate_issuer_key_Unsaved ==
  IF env \in Keys THEN {[key |-> env, file |-> file]}
  ELSE IF file \in Keys THEN {[key |-> file, file |-> file]}
  ELSE {[key |-> k, file |-> file] : k \in Keys \ drawn}
load_or_generate_issuer_key_Fresh ==
  IF env \in Keys THEN {[key |-> env, file |-> file]}
  ELSE {[key |-> k, file |-> k] : k \in Keys \ drawn}
ecies_decrypt_OwnKey(k, c) ==
  IF c # Junk /\ c.under = AesKey(k, Point(c.ephemeral, k)) THEN c.plain ELSE Err

-----------------------------------------------------------------------------
(* The key. *)

\* The key and what .issuer_key holds afterwards.  64 characters that are not
\* hexadecimal raise, and the backend does not start.
load_or_generate_issuer_key ==
  IF env = NonHex THEN {}
  ELSE IF env \in Keys THEN {[key |-> env, file |-> file]}
  ELSE IF file \in Keys THEN {[key |-> file, file |-> file]}
  ELSE {[key |-> k, file |-> k] : k \in Keys \ drawn}

\* split_secret and init_shamir_shares: custodian i's share of the key.
init_shamir_shares(k) == [i \in Custodians |-> k]

\* reconstruct_secret from three shares with these numbers: with a number
\* twice it yields other bytes, for which any value that is no key may stand.
RebuiltKey(nums) ==
  IF Cardinality(nums) = 3 /\ \E k \in Keys : \A i \in nums : shamir_shares[i] = k
  THEN shamir_shares[CHOOSE i \in nums : TRUE] ELSE Short

\* GET /issuer/pubkey: the key is told by its public half.
get_issuer_pubkey == privkey

ecies_decrypt(k, c) ==
  IF c # Junk /\ c.under = AesKey(c.ephemeral, Point(c.ephemeral, k)) THEN c.plain ELSE Err

\* The order's own blob, else the stored one, under the nullifier as typed.
BlobFor(o) == IF o.blob # None THEN o.blob ELSE blobs[o.nullifier]

-----------------------------------------------------------------------------
Init ==
  /\ env = Unset /\ file = Gone
  /\ privkey = None /\ shamir_shares = [i \in Custodians |-> None]
  /\ blobs = [n \in Nullifiers |-> None]
  /\ orders = [o \in Orders |-> None]
  /\ registered = {} /\ drawn = {}
  /\ widget = [p \in Persons |-> None]
  /\ boots = 0 /\ former = None /\ touched = FALSE /\ discarded = {}
  /\ promised = {}

\* The module level of main.py.
Boot ==
  /\ ~Up /\ boots < MaxBoots
  /\ \E loaded \in load_or_generate_issuer_key :
       /\ privkey' = loaded.key
       /\ shamir_shares' = init_shamir_shares(loaded.key)
       /\ file' = loaded.file
       /\ drawn' = drawn \cup {loaded.key}
  /\ boots' = boots + 1
  /\ touched' = FALSE
  /\ UNCHANGED <<env, blobs, orders, registered, widget, former, discarded, promised>>

\* A start that dies while it writes the key it has drawn.
BootTorn ==
  /\ ~Up /\ boots < MaxBoots
  /\ \E loaded \in load_or_generate_issuer_key :
       /\ loaded.file # file
       /\ file' = Short
       /\ drawn' = drawn \cup {loaded.key}
  /\ boots' = boots + 1
  /\ UNCHANGED <<env, memory, registered, widget, former, touched, discarded, promised>>

Die ==
  /\ Up
  /\ privkey' = None /\ shamir_shares' = [i \in Custodians |-> None]
  /\ blobs' = [n \in Nullifiers |-> None]
  /\ orders' = [o \in Orders |-> None]
  /\ former' = privkey
  /\ promised' = {}
  /\ widget' = [p \in Persons |-> IF widget[p] = None THEN None ELSE [widget[p] EXCEPT !.fresh = FALSE]]
  /\ UNCHANGED <<env, file, registered, drawn, boots, touched, discarded>>

\* An operator edits .env, perhaps following the log's advice to put the
\* generated key there, or starts from a new checkout.  Both files are read at
\* a start only, so what is edited while the backend runs is edited after it.
Operate ==
  /\ ~Up
  /\ touched' = TRUE
  /\ \/ /\ env' \in ((Keys \ drawn) \cup {Unset, NonHex, file, former}) \ {env, Gone, None}
        /\ discarded' = discarded \cup ({env} \cap Keys)
        /\ UNCHANGED file
     \/ /\ file # Gone /\ file' = Gone
        /\ discarded' = discarded \cup ({file} \cap Keys)
        /\ UNCHANGED env
  /\ UNCHANGED <<memory, registered, drawn, widget, boots, former, promised>>

-----------------------------------------------------------------------------
(* A registration: fetch the key, seal, submit. *)

Fetch(p) ==
  /\ widget[p] = None
  /\ \/ Up /\ widget' = [widget EXCEPT ![p] = [blob |-> Sealed(get_issuer_pubkey, p), fresh |-> TRUE]]
     \* Fetching or sealing failed, which is not fatal; or a client of its own.
     \/ \E b \in {None, Junk} : widget' = [widget EXCEPT ![p] = [blob |-> b, fresh |-> FALSE]]
  /\ UNCHANGED <<env, file, memory, registered, drawn, history>>

\* POST /register with a good proof.  The handler may give up on a
\* registration that still gets into a block: then no blob is kept.
register_kyc(p) ==
  /\ Up /\ widget[p] # None /\ p \notin registered
  /\ registered' = registered \cup {p}
  /\ \/ /\ blobs' = IF widget[p].blob = None THEN blobs
                    ELSE [blobs EXCEPT ![<<p, "padded">>] = widget[p].blob]
        /\ promised' = IF widget[p].blob = None THEN promised
                       ELSE IF widget[p].fresh THEN promised \cup {p} ELSE promised \ {p}
     \/ UNCHANGED <<blobs, promised>>
  /\ UNCHANGED <<env, file, privkey, shamir_shares, orders, drawn, widget, boots, former, touched, discarded>>

\* The widget starts over: an error, a refusal, or the next visit.
StartOver(p) ==
  /\ widget[p] # None
  /\ widget' = [widget EXCEPT ![p] = None]
  /\ UNCHANGED <<env, file, memory, registered, drawn, history>>

-----------------------------------------------------------------------------
(* A court order: typed, approved by three votes, executed. *)

create_order(o) ==
  /\ Up /\ orders[o] = None
  /\ \E n \in Nullifiers, b \in {None, Junk} \cup {widget[q].blob : q \in {q \in Persons : widget[q] # None}} :
       orders' = [orders EXCEPT ![o] = [nullifier |-> n, blob |-> b, decrypted_identity |-> None]]
  /\ UNCHANGED <<env, file, privkey, shamir_shares, blobs, registered, drawn, widget, history>>

\* The third approval: _try_reconstruct_and_decrypt.  The three voters have
\* different ids, but their custodian numbers, nums, may repeat.
approve(o, nums) ==
  /\ Up /\ orders[o] # None /\ orders[o].decrypted_identity = None
  /\ Cardinality(nums) \in 1 .. 3
  /\ LET blob == BlobFor(orders[o])
     IN orders' = [orders EXCEPT ![o].decrypted_identity =
                     IF blob = None THEN Note ELSE ecies_decrypt(RebuiltKey(nums), blob)]
  /\ UNCHANGED <<env, file, privkey, shamir_shares, blobs, registered, drawn, widget, history>>

\* The revocation pads the nullifier; the blob stays in the store.
execute(o) ==
  /\ Up /\ orders[o] # None /\ orders[o].decrypted_identity # None
  /\ orders[o].nullifier[1] \in registered
  /\ registered' = registered \ {orders[o].nullifier[1]}
  /\ orders' = [orders EXCEPT ![o] = None]
  /\ UNCHANGED <<env, file, privkey, shamir_shares, blobs, drawn, widget, history>>

Next ==
  \/ Boot \/ BootTorn \/ Die \/ Operate
  \/ \E p \in Persons : Fetch(p) \/ register_kyc(p) \/ StartOver(p)
  \/ \E o \in Orders : create_order(o) \/ execute(o)
  \/ \E o \in Orders, nums \in SUBSET Custodians : approve(o, nums)

Spec == Init /\ [][Next]_vars

-----------------------------------------------------------------------------
(* Properties. *)

\* The sealed identities that are anywhere: in a widget's hands, in the store,
\* or in a court order.
Sealings ==
  ({widget[p].blob : p \in {q \in Persons : widget[q] # None}}
   \cup {blobs[n] : n \in Nullifiers}
   \cup {orders[o].blob : o \in {o \in Orders : orders[o] # None}}) \ {None, Junk}

\* The program never loses the key that opens a sealed identity it may still
\* be asked to open: that key is in use, in .env or in .issuer_key, unless an
\* operator took it from there.
KeyNotLost ==
  \A c \in Sealings :
    \E k \in ({env, file, privkey} \cup discarded) \cap Keys : ecies_decrypt(k, c) = c.plain

\* A start comes up with the key of the run before it, whatever was typed into
\* .env before that run, unless an operator has edited .env or removed
\* .issuer_key in between.
KeySurvivesRestart ==
  [][~Up /\ Up' /\ former # None /\ ~touched => privkey' = former]_vars

\* A person who was told in this run that the identity went in encrypted, and
\* whose widget fetched the key in this run, is revealed by an order that is
\* approved without a blob of its own, if the nullifier was typed in full and
\* the three approving votes brought three different shares.
PromiseIsKept ==
  [][\A o \in Orders :
       orders'[o] # orders[o] /\ orders[o] # None =>
         LET p == orders[o].nullifier[1]
         IN orders[o].blob = None /\ orders[o].nullifier[2] = "padded" /\ p \in promised =>
              \A nums \in SUBSET Custodians :
                Cardinality(nums) = 3 /\ approve(o, nums) => orders'[o].decrypted_identity = p]_vars
=============================================================================
