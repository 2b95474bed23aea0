----------------------------- MODULE PlonkVerifier -----------------------------
(***************************************************************************)
(* The on-chain verifier of PLONK proofs, kyc_verifier/contract.py, over a *)
(* prime field; PRIME is R_MOD, the order of the curve.                    *)
(*                                                                         *)
(* A point of the curve is its discrete logarithm, so the commitment to a  *)
(* polynomial is its value at the trapdoor tau, adding points is adding    *)
(* modulo PRIME, and the pairing check is an equation modulo PRIME.        *)
(* Challenges come from an oracle instead of a hash; a changed proof is    *)
(* given the same challenges, the best that whoever changed it could hope  *)
(* for.  The prover is gnark's and external.                               *)
(***************************************************************************)
EXTENDS Polynomials

CONSTANTS
  N,          \* VK_DOMAIN_SIZE
  OMEGA,      \* VK_OMEGA, which generates the domain
  SHIFT,      \* VK_COSET_SHIFT
  NbPublic,   \* VK_NB_PUBLIC_INPUTS
  Gates,      \* per row: its selectors ql, qr, qo, qm, qk
  Sigma,      \* the copy constraints: per wire and row, the next equal place
  Blinding,   \* the random polynomials that hide the three wires and the grand product
  Instances,  \* what is proved: public inputs and wire values
  Taus, Alphas, Betas, Gammas, Rs, Others, Us,  \* the values of the oracle that are tried
  Deltas      \* by how much a changed proof differs

VARIABLES
  inst, tau, challenge,
  public_inputs, proof,
  changed,    \* how the proof or its inputs differ from the prover's
  verdict

vars == <<inst, tau, challenge, public_inputs, proof, changed, verdict>>

Rows == 0 .. N - 1
Wires == 0 .. 2

Points == {"L_COM", "R_COM", "O_COM", "H_0", "H_1", "H_2", "GRAND_PRODUCT",
           "BATCH_OPENING_AT_Z", "OPENING_AT_Z_OMEGA"}
Scalars == {"L_AT_Z", "R_AT_Z", "O_AT_Z", "S1_AT_Z", "S2_AT_Z", "GRAND_PRODUCT_AT_Z_OMEGA"}

NoProof == [p \in Points \cup Scalars |-> 0]
Unchanged == [what |-> "nothing", part |-> "none", i |-> 0]

-----------------------------------------------------------------------------
(* Powers, and the polynomials of the domain. *)

\* Square and multiply.
expmod(base, exponent) ==
  LET loop[s \in Nat \X Nat \X Nat] ==
        IF s[3] = 0 THEN s[1]
        ELSE loop[<< IF s[3] % 2 = 1 THEN s[1] ** s[2] ELSE s[1], s[2] ** s[2], s[3] \div 2 >>]
  IN loop[<<1, base, exponent>>]

Inv(x) == expmod(x, PRIME - 2)
Powers == [i \in 0 .. N + 2 |-> expmod(OMEGA, i)]
Power(i) == Powers[i]

\* p(x OMEGA), for at most N + 3 coefficients
Rotated(p) == [k \in 1 .. Len(p) |-> p[k] ** Power(k - 1)] \o <<>>

\* x^N - 1, and a polynomial over it, without the remainder
Vanishing == [k \in 1 .. N + 1 |-> IF k = 1 THEN PRIME - 1 ELSE IF k = N + 1 THEN 1 ELSE 0] \o <<>>
OverZ(p) == LET q[i \in 0 .. N] == IF i = 0 THEN p ELSE Opened(q[i - 1], Power(i - 1)) IN q[N]

\* The polynomial that is 1 in row i and 0 in the others, and one with given values.
Basis == [i \in Rows |-> Scaled(Inv(N) ** Power(i), Opened(Vanishing, Power(i)))]
Interpolated(v) ==
  LET s[i \in 0 .. N] == IF i = 0 THEN <<>> ELSE Plus(s[i - 1], Scaled(v[i - 1], Basis[i - 1])) IN s[N]

\* p + b (x^N - 1)
Blinded(p, b) == Plus(p, Times(b, Vanishing))

ASSUME PlonkAssumption ==
  /\ N \in 1 .. PRIME - 1 /\ NbPublic \in 1 .. N
  /\ OMEGA \in Field /\ SHIFT \in Field
  /\ expmod(OMEGA, N) = 1 /\ \A i \in 1 .. N - 1 : expmod(OMEGA, i) # 1
  /\ Gates \in [Rows -> [{"ql", "qr", "qo", "qm", "qk"} -> Field]]
  /\ Sigma \in [Wires \X Rows -> Wires \X Rows]
  /\ \A p, q \in Wires \X Rows : Sigma[p] = Sigma[q] => p = q
  /\ Blinding \in [0 .. 3 -> Seq(Field)]
  /\ \A w \in Wires : Len(Blinding[w]) = 2
  /\ Len(Blinding[3]) = 3
  /\ Instances \subseteq [public : [1 .. NbPublic -> Field], wires : [Wires \X Rows -> Field]]
  /\ \A values \in {Taus, Alphas, Betas, Gammas, Rs, Others, Us} : values \subseteq Field
  /\ Deltas \subseteq 1 .. PRIME - 1

-----------------------------------------------------------------------------
(* The setup and the prover (gnark). *)

Selector == [s \in {"ql", "qr", "qo", "qm", "qk"} |-> Interpolated([i \in Rows |-> Gates[i][s]])]
Label(p) == (expmod(SHIFT, p[1]) * Power(p[2])) % PRIME
Permutation == [w \in Wires |-> Interpolated([i \in Rows |-> Label(Sigma[<<w, i>>])])]

Wire(w) == Blinded(Interpolated([i \in Rows |-> inst.wires[<<w, i>>]]), Blinding[w])
Shifted(p, label) == inst.wires[p] + challenge.beta * label + challenge.gamma
Denominator(i) == Shifted(<<0, i>>, Label(Sigma[<<0, i>>])) ** Shifted(<<1, i>>, Label(Sigma[<<1, i>>]))
                  ** Shifted(<<2, i>>, Label(Sigma[<<2, i>>]))
Numerator(i) == Shifted(<<0, i>>, Label(<<0, i>>)) ** Shifted(<<1, i>>, Label(<<1, i>>))
                ** Shifted(<<2, i>>, Label(<<2, i>>))
FirstRow == Basis[0]

\* The accumulated quotient of the copy constraints.
GrandProduct ==
  LET z[i \in Rows] == IF i = 0 THEN 1
                       ELSE z[i - 1] ** Numerator(i - 1) ** Inv(Denominator(i - 1))
  IN Blinded(Interpolated(z), Blinding[3])

\* What must vanish on the domain: the gates, the copies, the accumulator's start.
Copied(p, c) == Plus(p, Plus(<<challenge.gamma>>, Scaled(challenge.beta, c)))
Public(i) == IF i < NbPublic THEN inst.public[i + 1] ELSE 0
Identity(l, r, o, z) ==
  LET public == Interpolated([i \in Rows |-> Public(i)])
      gates == Plus(Times(Selector["ql"], l), Plus(Times(Selector["qr"], r),
               Plus(Times(Selector["qo"], o), Plus(Times(Selector["qm"], Times(l, r)),
               Plus(Selector["qk"], public)))))
      next == Times(Times(Rotated(z), Copied(l, Permutation[0])),
                    Times(Copied(r, Permutation[1]), Copied(o, Permutation[2])))
      this == Times(Times(z, Copied(l, <<0, 1>>)),
                    Times(Copied(r, <<0, SHIFT>>), Copied(o, <<0, (SHIFT * SHIFT) % PRIME>>)))
      start == Times(FirstRow, Plus(z, <<PRIME - 1>>))
  IN Plus(gates, Plus(Scaled(challenge.alpha, Plus(next, Scaled(PRIME - 1, this))),
                      Scaled((challenge.alpha * challenge.alpha) % PRIME, start)))

\* The verifying key: commitments to selectors and permutation.
VK == [s \in DOMAIN Selector |-> Eval(Selector[s], tau)]
VK_S(w) == Eval(Permutation[w], tau)

-----------------------------------------------------------------------------
\* Mutated forms of definitions below: the bugs the properties must catch.
CosetSquare_Shift == SHIFT
Inverses_Stale(batch) == [k \in DOMAIN batch |-> Inv((batch[1] * batch[k]) % PRIME)]
InField_Unchecked(x) == TRUE
FoldedDigest_NoOutput(pf, r, linear) ==
  (linear + r * pf["L_COM"] + expmod(r, 2) * pf["R_COM"]
   + expmod(r, 4) * VK_S(0) + expmod(r, 5) * VK_S(1)) % PRIME

-----------------------------------------------------------------------------
(* The contract. *)

\* Every number that is not hashed must be below the order of the curve.
InField(x) == x < PRIME

WellFormed(pf, pub) ==
  /\ Len(pub) = NbPublic
  /\ \A s \in Scalars : InField(pf[s])
  /\ \A i \in DOMAIN pub : InField(pub[i])

\* zeta^n - 1, and that over n
Zz(zeta) == (expmod(zeta, N) + PRIME - 1) % PRIME
zn(zeta) == Zz(zeta) ** Inv(N)

\* One exponentiation for the inverses of all: prefix products, then backwards.
Inverses(batch) ==
  LET n == Len(batch)
      temp[k \in 0 .. n] == IF k = 0 THEN 1 ELSE (batch[k] * temp[k - 1]) % PRIME
      inv[k \in 0 .. n] == IF k = n THEN expmod(temp[n], PRIME - 2) ELSE (inv[k + 1] * batch[k + 1]) % PRIME
  IN [k \in 1 .. n |-> (inv[k] * temp[k - 1]) % PRIME]

\* The Lagrange polynomials of the public rows at zeta.
Lagrange(zeta) ==
  LET inverses == Inverses([k \in 1 .. NbPublic |-> (zeta + PRIME - Power(k - 1)) % PRIME])
  IN [k \in 1 .. NbPublic |-> Power(k - 1) ** (inverses[k] ** zn(zeta))]

PI(pub, zeta) == LET lagrange == Lagrange(zeta) IN Total([k \in 1 .. NbPublic |-> lagrange[k] * pub[k]])

alpha2Lagrange(ch) ==
  expmod((ch.zeta + PRIME - 1) % PRIME, PRIME - 2) ** zn(ch.zeta) ** ch.alpha ** ch.alpha

\* q - s1 is q, not 0, when s1 is 0.
linearized_poly_at_z(pf, pub, ch) ==
  LET s1 == (pf["S1_AT_Z"] * ch.beta + ch.gamma + pf["L_AT_Z"]) % PRIME
      s2 == (pf["S2_AT_Z"] * ch.beta + ch.gamma + pf["R_AT_Z"]) % PRIME
      o == (pf["O_AT_Z"] + ch.gamma) % PRIME
      all == s1 ** s2 ** o ** ch.alpha ** pf["GRAND_PRODUCT_AT_Z_OMEGA"]
  IN PRIME - ((all + PI(pub, ch.zeta) + PRIME - alpha2Lagrange(ch)) % PRIME)

\* The point at infinity has no inverse among the encodings of points: PRIME
\* stands for what comes out, which no operation takes.
invert(p) == PRIME - p

FoldedH(pf, zeta) ==
  LET zn2 == expmod(zeta, N + 2)
  IN invert((((pf["H_2"] ** zn2) + pf["H_1"]) ** zn2 + pf["H_0"]) ** Zz(zeta))

CosetSquare == (SHIFT * SHIFT) % PRIME

\* What S3 and the grand product are multiplied with.
PermutationScalars(pf, ch) ==
  LET left == (pf["S1_AT_Z"] * ch.beta + pf["L_AT_Z"] + ch.gamma) % PRIME
      right == (pf["S2_AT_Z"] * ch.beta + pf["R_AT_Z"] + ch.gamma) % PRIME
      betazeta == (ch.beta * ch.zeta) % PRIME
      u == (betazeta + pf["L_AT_Z"] + ch.gamma) % PRIME
      v == (betazeta * SHIFT + pf["R_AT_Z"] + ch.gamma) % PRIME
      w == (betazeta * CosetSquare + pf["O_AT_Z"] + ch.gamma) % PRIME
  IN [s1 |-> pf["GRAND_PRODUCT_AT_Z_OMEGA"] ** ch.beta ** left ** right ** ch.alpha,
      s2 |-> ((PRIME - (u ** v ** w)) * ch.alpha + alpha2Lagrange(ch)) % PRIME]

LinearCommitment(pf, ch, folded_h) ==
  LET scalars == PermutationScalars(pf, ch)
  IN (VK["ql"] * pf["L_AT_Z"] + VK["qr"] * pf["R_AT_Z"] + VK["qo"] * pf["O_AT_Z"]
      + VK["qm"] * ((pf["L_AT_Z"] * pf["R_AT_Z"]) % PRIME) + VK["qk"]
      + VK_S(2) * scalars.s1 + pf["GRAND_PRODUCT"] * scalars.s2 + folded_h) % PRIME

FoldedDigest(pf, r, linear) ==
  (linear + r * pf["L_COM"] + expmod(r, 2) * pf["R_COM"] + expmod(r, 3) * pf["O_COM"]
   + expmod(r, 4) * VK_S(0) + expmod(r, 5) * VK_S(1)) % PRIME

FoldedClaims(pf, r, linearized) ==
  (linearized + r * pf["L_AT_Z"] + expmod(r, 2) * pf["R_AT_Z"] + expmod(r, 3) * pf["O_AT_Z"]
   + expmod(r, 4) * pf["S1_AT_Z"] + expmod(r, 5) * pf["S2_AT_Z"]) % PRIME

\* The two openings, folded with u, in one pairing check.
Opens(pf, zeta, u, digest, claims) ==
  LET quotient == (pf["BATCH_OPENING_AT_Z"] + u * pf["OPENING_AT_Z_OMEGA"]) % PRIME
      claims_com == (claims + pf["GRAND_PRODUCT_AT_Z_OMEGA"] * u) % PRIME
      points == (pf["BATCH_OPENING_AT_Z"] * zeta
                 + pf["OPENING_AT_Z_OMEGA"] * ((u * ((zeta * OMEGA) % PRIME)) % PRIME)) % PRIME
  IN /\ invert(claims_com) \in Field /\ invert(quotient) \in Field
     /\ (digest + u * pf["GRAND_PRODUCT"] + invert(claims_com) + points + invert(quotient) * tau) % PRIME = 0

\* The hash that yields r covers the linearized value: as q it reads
\* differently from the 0 the prover has hashed.
ChallengeR(ch, linearized) == IF linearized = PRIME THEN ch.other ELSE ch.r

Accepts(pf, pub, ch) ==
  /\ WellFormed(pf, pub)
  /\ LET linearized == linearized_poly_at_z(pf, pub, ch)
         folded_h == FoldedH(pf, ch.zeta)
         r == ChallengeR(ch, linearized)
     IN /\ folded_h \in Field
        /\ Opens(pf, ch.zeta, ch.u,
                 FoldedDigest(pf, r, LinearCommitment(pf, ch, folded_h)),
                 FoldedClaims(pf, r, linearized))

Verdict(pf, pub, ch) == IF Accepts(pf, pub, ch) THEN "accepted" ELSE "refused"

-----------------------------------------------------------------------------
(* A proof is made, perhaps changed, and verified. *)

Init ==
  /\ inst \in Instances
  /\ tau \in Taus
  /\ challenge \in [alpha : Alphas, beta : Betas, gamma : Gammas, zeta : Field, r : Rs, other : Others, u : Us]
  /\ public_inputs = <<>>
  /\ proof = NoProof
  /\ changed = Unchanged
  /\ verdict = "none"

\* The quotient is committed to in three parts.
Part(h, k) == Slice(h, k * (N + 2), (k + 1) * (N + 2))

\* The polynomial that is opened at zeta: the identity, less the quotient,
\* with what the proof tells put in.
Linearized(pf, z, h) ==
  LET ch == challenge
      start == Eval(FirstRow, ch.zeta)
      zH == expmod(ch.zeta, N) - 1
      Put(s, label) == pf[s] + ch.beta * label + ch.gamma
      next == Put("L_AT_Z", pf["S1_AT_Z"]) ** Put("R_AT_Z", pf["S2_AT_Z"])
              ** pf["GRAND_PRODUCT_AT_Z_OMEGA"] ** ch.beta
      this == Put("L_AT_Z", ch.zeta) ** Put("R_AT_Z", SHIFT * ch.zeta) ** Put("O_AT_Z", SHIFT * SHIFT * ch.zeta)
      gates == Plus(Scaled(pf["L_AT_Z"], Selector["ql"]), Plus(Scaled(pf["R_AT_Z"], Selector["qr"]),
               Plus(Scaled(pf["O_AT_Z"], Selector["qo"]),
               Plus(Scaled(pf["L_AT_Z"] * pf["R_AT_Z"], Selector["qm"]), Selector["qk"]))))
      copies == Plus(Scaled((ch.alpha * next) % PRIME, Permutation[2]),
                     Scaled((ch.alpha * ch.alpha * start - ch.alpha * this) % PRIME, z))
      parts == Plus(Part(h, 0), Plus(Scaled(expmod(ch.zeta, N + 2), Part(h, 1)),
                                     Scaled(expmod(ch.zeta, 2 * (N + 2)), Part(h, 2))))
  IN Plus(gates, Plus(copies, Scaled((0 - zH) % PRIME, parts)))

Quotient == OverZ(Identity(Wire(0), Wire(1), Wire(2), GrandProduct))

\* Commitments to the wires, the quotient and the grand product, and values.
Claimed(l, r, o, z, h) ==
  LET zeta == challenge.zeta
  IN [L_COM |-> Eval(l, tau), R_COM |-> Eval(r, tau), O_COM |-> Eval(o, tau),
      H_0 |-> Eval(Part(h, 0), tau), H_1 |-> Eval(Part(h, 1), tau), H_2 |-> Eval(Part(h, 2), tau),
      GRAND_PRODUCT |-> Eval(z, tau),
      L_AT_Z |-> Eval(l, zeta), R_AT_Z |-> Eval(r, zeta), O_AT_Z |-> Eval(o, zeta),
      S1_AT_Z |-> Eval(Permutation[0], zeta), S2_AT_Z |-> Eval(Permutation[1], zeta),
      GRAND_PRODUCT_AT_Z_OMEGA |-> Eval(z, (zeta * OMEGA) % PRIME)]

\* What is opened at zeta in one go.
Batch(claimed, l, r, o, z, h) ==
  LET fold(k, p) == Scaled(expmod(challenge.r, k), p)
  IN Plus(Linearized(claimed, z, h), Plus(fold(1, l), Plus(fold(2, r), Plus(fold(3, o),
     Plus(fold(4, Permutation[0]), fold(5, Permutation[1]))))))

Proved ==
  LET l == Wire(0)  r == Wire(1)  o == Wire(2)  z == GrandProduct  h == Quotient
      claimed == Claimed(l, r, o, z, h)
      openings == [BATCH_OPENING_AT_Z |-> Eval(Opened(Batch(claimed, l, r, o, z, h), challenge.zeta), tau),
                   OPENING_AT_Z_OMEGA |-> Eval(Opened(z, (challenge.zeta * OMEGA) % PRIME), tau)]
  IN [p \in Points \cup Scalars |-> IF p \in DOMAIN openings THEN openings[p] ELSE claimed[p]]

\* gnark fails when the grand product cannot be formed.
Provable == \A i \in Rows : Denominator(i) # 0

Prove ==
  /\ verdict = "none"
  /\ Provable
  /\ proof' = Proved
  /\ public_inputs' = inst.public
  /\ verdict' = "proved"
  /\ UNCHANGED <<inst, tau, challenge, changed>>

\* Another point in its place, other or fewer public inputs, or the same
\* number written with the order of the curve added.
ChangePoint(p) ==
  /\ \E d \in Deltas : proof' = [proof EXCEPT ![p] = (@ + d) % PRIME]
  /\ changed' = [Unchanged EXCEPT !.what = "point", !.part = p]
  /\ UNCHANGED public_inputs

ChangePublic(i) ==
  /\ \E d \in Deltas : public_inputs' = [public_inputs EXCEPT ![i] = (@ + d) % PRIME]
  /\ changed' = [Unchanged EXCEPT !.what = "public", !.i = i]
  /\ UNCHANGED proof

Respell ==
  /\ \/ \E s \in Scalars : proof' = [proof EXCEPT ![s] = @ + PRIME] /\ UNCHANGED public_inputs
     \/ \E i \in DOMAIN public_inputs :
          public_inputs' = [public_inputs EXCEPT ![i] = @ + PRIME] /\ UNCHANGED proof
  /\ changed' = [Unchanged EXCEPT !.what = "spelling"]

Shorten ==
  /\ public_inputs' = Tail(public_inputs)
  /\ changed' = [Unchanged EXCEPT !.what = "length"]
  /\ UNCHANGED proof

Change ==
  /\ verdict = "proved" /\ changed = Unchanged
  /\ \/ \E p \in Points : ChangePoint(p)
     \/ \E i \in DOMAIN public_inputs : ChangePublic(i)
     \/ Respell
     \/ Shorten
  /\ UNCHANGED <<inst, tau, challenge, verdict>>

verify ==
  /\ verdict = "proved"
  /\ verdict' = Verdict(proof, public_inputs, challenge)
  /\ UNCHANGED <<inst, tau, challenge, public_inputs, proof, changed>>

Next == Prove \/ Change \/ verify

Spec == Init /\ [][Next]_vars

-----------------------------------------------------------------------------
(* Properties. *)

InDomain(x) == expmod(x, N) = 1

\* What is claimed is true: the gates hold in every row, and places the
\* permutation connects hold the same.
Satisfied ==
  /\ \A i \in Rows :
       LET l == inst.wires[<<0, i>>]  r == inst.wires[<<1, i>>]  o == inst.wires[<<2, i>>]
           g == Gates[i]
       IN (g.ql * l + g.qr * r + g.qo * o + g.qm * (l * r) + g.qk + Public(i)) % PRIME = 0
  /\ \A p \in Wires \X Rows : inst.wires[Sigma[p]] = inst.wires[p]

Linearized_is_q == linearized_poly_at_z(proof, public_inputs, challenge) = PRIME

\* Where a correct verifier of this code's shape stops: zeta in the domain,
\* or a point at infinity where the code inverts one.
Degenerate ==
  LET claims == (FoldedClaims(proof, challenge.r, linearized_poly_at_z(proof, public_inputs, challenge))
                 + proof["GRAND_PRODUCT_AT_Z_OMEGA"] * challenge.u) % PRIME
      quotient == (proof["BATCH_OPENING_AT_Z"] + challenge.u * proof["OPENING_AT_Z_OMEGA"]) % PRIME
  IN \/ InDomain(challenge.zeta) \/ FoldedH(proof, challenge.zeta) = PRIME \/ Linearized_is_q
     \/ claims = 0 \/ quotient = 0

\* The batch inversion yields the Lagrange polynomials of the public rows,
\* told by their definition as products, at every point outside the domain.
InterpolationIsLagrange ==
  ~InDomain(challenge.zeta) =>
    \A k \in 0 .. NbPublic - 1 :
      Lagrange(challenge.zeta)[k + 1] =
        Product([j \in Rows \ {k} |-> (challenge.zeta - Power(j)) * Inv((Power(k) - Power(j)) % PRIME)])

\* A proof of a true statement is accepted, whatever the challenges, except
\* where the code meets a point at infinity or a zero it does not reduce.
TrueIsAccepted ==
  verdict = "refused" /\ changed = Unchanged /\ Satisfied => Degenerate

\* What is accepted unchanged satisfies the identity of gates and copies at
\* zeta; a false statement does so only at a root of what remains of it.
AcceptedFitsIdentity ==
  verdict = "accepted" /\ changed = Unchanged /\ ~Linearized_is_q =>
    Eval(Identity(Wire(0), Wire(1), Wire(2), GrandProduct), challenge.zeta)
      = Eval(Quotient, challenge.zeta) ** Zz(challenge.zeta)

\* No number of a proof, opened value or public input, has a second spelling
\* that is accepted, and no public input can be left out. A proof of a true
\* statement with one commitment or public input replaced is refused even under
\* the same challenges, unless these are degenerate: zero, zeta in the domain,
\* an opening at the trapdoor, a linearization that collides with q, or the
\* weight of the grand product's commitment vanishing. That opened values bind
\* is AcceptedFitsIdentity; here they are only respelt, never replaced.
ChangeIsRefused ==
  verdict = "accepted" =>
    /\ changed.what \notin {"spelling", "length"}
    /\ /\ Satisfied
       /\ ~InDomain(challenge.zeta) /\ 0 \notin {challenge.zeta, challenge.r, challenge.u}
       /\ tau \notin {challenge.zeta, (challenge.zeta * OMEGA) % PRIME}
       /\ ~Linearized_is_q
       => /\ changed.what # "public"
          /\ changed.what = "point" =>
               /\ changed.part = "GRAND_PRODUCT"
               /\ (PermutationScalars(proof, challenge).s2 + challenge.u) % PRIME = 0
=============================================================================
