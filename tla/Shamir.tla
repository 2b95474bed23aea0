-------------------------------- MODULE Shamir --------------------------------
(***************************************************************************)
(* The Shamir sharing of one byte of the issuer key, with the arithmetic   *)
(* of the code: a polynomial of degree K-1 over the integers modulo PRIME, *)
(* a share per index 1..N, Lagrange interpolation at 0, and the last "mod  *)
(* 256" that turns a field element back into a byte.  The bytes of a key   *)
(* are shared independently, so one byte says it all.  In the code PRIME   *)
(* is 257 and a byte is below 256; here a byte is below PRIME - 1.         *)
(***************************************************************************)
EXTENDS PrimeField, Sequences, FiniteSets, SequencesExt

CONSTANTS
  N,      \* shares dealt (5)
  K,      \* shares needed (3)
  NotYet

ASSUME ShamirAssumption ==
  /\ N \in Nat /\ N < PRIME
  /\ K \in 1 .. N
  /\ PRIME <= 256 * 256   \* an element is stored in two bytes
ASSUME NoneIsNoByte == NotYet \notin Nat

VARIABLES
  byte,     \* the secret
  coeffs,   \* the polynomial split_secret draws
  shares,   \* index -> share value, as stored
  handed,   \* the indices the court order service passes on, in vote order
  secret    \* what reconstruct_secret returned, or NotYet

sharing == <<byte, coeffs, shares, handed, secret>>

Bytes == 0 .. PRIME - 2
Indices == 1 .. N

\* Mutated forms of definitions below: the bugs the properties must catch.
Packed_OneByte(v) == v % (PRIME - 1)
Reciprocal_OneForZero(d) == IF d = 0 THEN 1 ELSE CHOOSE i \in Field : i * d % PRIME = 1
Polynomials_TooFlat(b) == {<<b>> \o rest : rest \in [1 .. K - 2 -> Field]}

-----------------------------------------------------------------------------
\* Horner's rule, from the last coefficient to the first.
eval_poly(cs, x) == FoldRight(LAMBDA c, acc : (acc * x + c) % PRIME, cs, 0)

\* den ** (PRIME - 2): the inverse of a nonzero den, and 0 for 0.
Reciprocal(d) == Product([i \in 1 .. PRIME - 2 |-> d])

\* One summand of the interpolation at 0: a product over positions, which
\* skips the position itself and not the positions with an equal index.
Term(xs, ys, i) ==
  LET others == DOMAIN xs \ {i}
      num == Product([j \in others |-> (0 - xs[j]) % PRIME])
      den == Product([j \in others |-> (xs[i] - xs[j]) % PRIME])
  IN  ys[i] * num * Reciprocal(den) % PRIME

lagrange_interpolate(xs, ys) ==
  Total([i \in DOMAIN xs |-> Term(xs, ys, i)])

\* A share value is stored in two bytes: PRIME - 1 does not fit in one.
Packed(v) == v % (256 * 256)

AsByte(v) == v % (PRIME - 1)

\* What split_secret can draw for a byte: it is f(0), the rest is random.
Polynomials(b) == {<<b>> \o rest : rest \in [1 .. K - 1 -> Field]}

Dealt(cs) == [i \in Indices |-> Packed(eval_poly(cs, i))]

Rebuilt(xs, values) == AsByte(lagrange_interpolate(xs, [i \in DOMAIN xs |-> values[xs[i]]]))

-----------------------------------------------------------------------------

\* split_secret at startup.
SharingInit ==
  /\ byte \in Bytes
  /\ coeffs \in Polynomials(byte)
  /\ shares = Dealt(coeffs)
  /\ handed = <<>>
  /\ secret = NotYet

\* An approving vote brings in the share of its custodian number, be it one
\* that is there already.
HandIn(i) ==
  /\ Len(handed) < K
  /\ handed' = Append(handed, i)
  /\ UNCHANGED <<byte, coeffs, shares, secret>>

\* reconstruct_secret, called with the first K shares.
reconstruct_secret ==
  /\ Len(handed) = K
  /\ secret = NotYet
  /\ secret' = Rebuilt(handed, shares)
  /\ UNCHANGED <<byte, coeffs, shares, handed>>

SharingNext == (\E i \in Indices : HandIn(i)) \/ reconstruct_secret

SharingSpec == SharingInit /\ [][SharingNext]_sharing

-----------------------------------------------------------------------------
Distinct(xs) == IsInjective(xs)

\* Any K different shares, in any order, give the byte back: also when a share
\* has the value that does not fit in one byte.
AnyKRecover == secret # NotYet /\ Distinct(handed) => secret = byte

\* Fewer than K shares say nothing: whatever the byte, a polynomial that
\* split_secret could have drawn for it explains the shares handed in.
FewerTellNothing ==
  Len(handed) < K =>
    \A b \in Bytes : \E cs \in Polynomials(b) :
      \A x \in Range(handed) : Dealt(cs)[x] = shares[x]

\* A share that is there twice counts for nothing at all: the outcome does not
\* depend on its value, so K votes with a repeated number leave the key open.
RepeatsDropOut ==
  secret # NotYet =>
    \A i, j \in DOMAIN handed :
      i # j /\ handed[i] = handed[j] =>
        \A v \in Field : Rebuilt(handed, [shares EXCEPT ![handed[i]] = v]) = secret

=============================================================================
