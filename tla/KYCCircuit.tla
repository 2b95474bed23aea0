------------------------------ MODULE KYCCircuit ------------------------------
(***************************************************************************)
(* The KYC circuit, in its Circom and its gnark form, as predicates on     *)
(* signals.  Signals are elements of the field of integers modulo P.  The  *)
(* 254-bit prime is a small one here; the hash keeps its structure (rounds *)
(* of fifth powers, Miyaguchi-Preneel chaining) with few rounds.           *)
(***************************************************************************)
EXTENDS Integers, Sequences, SequencesExt

CONSTANTS
  P,              \* the field's prime (BN254's in the code)
  MimcConstants,  \* the round constants (110 of them in the code)
  SMT_DEPTH       \* levels of the tree (20 in the code)

ASSUME FieldAssumption ==
  /\ P \in Nat /\ P > 512            \* nine-bit comparisons do not wrap twice
  /\ MimcConstants \in Seq(0 .. P - 1)
  /\ SMT_DEPTH \in Nat

Field == 0 .. P - 1

Times(a, b) == (a * b) % P

-----------------------------------------------------------------------------
(* Hashing, as the circuit constrains it. *)

\* One round is (state + key + constant)^5; the key is added again at the end.
MiMCEncrypt(m, k) ==
  LET Square(t) == Times(t, t)
      Round(s, c) == LET t == (s + k + c) % P IN Times(Square(Square(t)), t)
  IN  (FoldLeft(Round, m, MimcConstants) + k) % P

\* Miyaguchi-Preneel: h' = encrypt(input, h) + h + input.
MiMCHash(ins) == FoldLeft(LAMBDA h, m : (MiMCEncrypt(m, h) + h + m) % P, 0, ins)

\* The two multiplexers of a level order the children, then they are hashed.
Parent(hash, sibling, pos) ==
  IF pos = 0 THEN MiMCHash(<<hash, sibling>>) ELSE MiMCHash(<<sibling, hash>>)

\* From the leaf to the root, a level at a time.
Root(leaf, siblings, pos) ==
  FoldLeft(LAMBDA hash, i : Parent(hash, siblings[i], pos[i]), leaf,
           [i \in 1 .. SMT_DEPTH |-> i])

-----------------------------------------------------------------------------
(* Comparisons, as the libraries constrain them. *)

\* circomlib's Num2Bits(9): v is a nine-bit number, or there is no witness.
FitsNineBits(v) == v % P < 512

\* circomlib's GreaterEqThan(8): bit 8 of b + 256 - (a + 1) is clear.
GreaterEqThan(a, b) ==
  LET v == (b + 256 - (a + 1)) % P IN FitsNineBits(v) /\ v < 256

\* gnark's AssertIsLessOrEqual compares field elements as numbers.
IsLessOrEqual(a, b) == a % P <= b % P

-----------------------------------------------------------------------------
\* The constraints both circuits write down: the claims and the nullifier.
Claims(pub, priv) ==
  /\ pub.nullifier = MiMCHash(<<priv.aadhaarHash, pub.appId, priv.walletSecret>>)
  /\ priv.nationalityIN = 1 /\ pub.isIndian = 1
  /\ pub.isAdult = 1
  /\ priv.kycStatus = 1 /\ pub.isKYCVerified = 1

AgeField(priv) == (priv.currentYear - priv.dobYear) % P

\* KYCCircuit of kyc.circom, the circuit proofs are made with.
CircomSatisfied(pub, priv) ==
  /\ Claims(pub, priv)
  /\ GreaterEqThan(AgeField(priv), 18)
  /\ pub.merkleRoot = Root(pub.nullifier, priv.merkleSiblings, priv.merklePos)

\* A mutated form of the next definition: no upper bound keeps out an age that
\* is negative and wraps around the field.
GnarkSatisfied_Unbounded(pub, priv) ==
  /\ Claims(pub, priv)
  /\ IsLessOrEqual(18, AgeField(priv))
  /\ pub.merkleRoot = Root(pub.nullifier, priv.merkleSiblings, priv.merklePos)

\* Define of kyc_circuit.go.
GnarkSatisfied(pub, priv) ==
  /\ Claims(pub, priv)
  /\ IsLessOrEqual(18, AgeField(priv))
  /\ IsLessOrEqual(AgeField(priv), 200)
  /\ pub.merkleRoot = Root(pub.nullifier, priv.merkleSiblings, priv.merklePos)

=============================================================================
