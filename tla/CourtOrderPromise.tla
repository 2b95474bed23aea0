-------------------------- MODULE CourtOrderPromise --------------------------
(***************************************************************************)
(* What a court order promises, with no custodians, shares, blobs or clock *)
(* in sight: an open order counts votes one at a time; the Quorum-th vote  *)
(* for it approves it and may reveal the identity at that very moment; the *)
(* Veto-th vote against rejects it; an open order may lapse; an approved   *)
(* one may be executed, which hides the identity again.  Nothing else ever *)
(* happens to it, and once settled it stays settled.                       *)
(***************************************************************************)
EXTENDS Naturals

CONSTANTS Orders, Quorum, Veto

VARIABLES
  phase,     \* per order: where it is in its life
  ayes,      \* per order: votes for
  noes,      \* per order: votes against
  revealed   \* per order: is the identity readable?

vars == <<phase, ayes, noes, revealed>>

Init ==
  /\ phase = [o \in Orders |-> "none"]
  /\ ayes = [o \in Orders |-> 0]
  /\ noes = [o \in Orders |-> 0]
  /\ revealed = [o \in Orders |-> FALSE]

Open(o) ==
  /\ phase[o] = "none"
  /\ phase' = [phase EXCEPT ![o] = "pending"]
  /\ UNCHANGED <<ayes, noes, revealed>>

Aye(o) ==
  /\ phase[o] = "pending"
  /\ ayes[o] + 1 < Quorum
  /\ ayes' = [ayes EXCEPT ![o] = ayes[o] + 1]
  /\ UNCHANGED <<phase, noes, revealed>>

Approve(o) ==
  /\ phase[o] = "pending"
  /\ ayes[o] + 1 = Quorum
  /\ ayes' = [ayes EXCEPT ![o] = ayes[o] + 1]
  /\ phase' = [phase EXCEPT ![o] = "approved"]
  /\ \E r \in BOOLEAN : revealed' = [revealed EXCEPT ![o] = r]
  /\ UNCHANGED noes

No(o) ==
  /\ phase[o] = "pending"
  /\ noes[o] + 1 < Veto
  /\ noes' = [noes EXCEPT ![o] = noes[o] + 1]
  /\ UNCHANGED <<phase, ayes, revealed>>

Reject(o) ==
  /\ phase[o] = "pending"
  /\ noes[o] + 1 = Veto
  /\ noes' = [noes EXCEPT ![o] = noes[o] + 1]
  /\ phase' = [phase EXCEPT ![o] = "rejected"]
  /\ UNCHANGED <<ayes, revealed>>

Lapse(o) ==
  /\ phase[o] = "pending"
  /\ phase' = [phase EXCEPT ![o] = "expired"]
  /\ UNCHANGED <<ayes, noes, revealed>>

Execute(o) ==
  /\ phase[o] = "approved"
  /\ phase' = [phase EXCEPT ![o] = "executed"]
  /\ revealed' = [revealed EXCEPT ![o] = FALSE]
  /\ UNCHANGED <<ayes, noes>>

Next ==
  \E o \in Orders :
    Open(o) \/ Aye(o) \/ Approve(o) \/ No(o) \/ Reject(o) \/ Lapse(o) \/ Execute(o)

Spec == Init /\ [][Next]_vars

=============================================================================
