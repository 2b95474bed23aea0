---------------------------- MODULE IssuerKeyProofs ----------------------------
(***************************************************************************)
(* TLAPS proofs about the issuer's key: its sharing among the custodians,  *)
(* and its life from one start of the backend to the next.                 *)
(*                                                                         *)
(* The sharing, for any prime and any K out of N: any K shares bring the   *)
(* byte back, a repeated index counts for nothing, and fewer than K shares *)
(* fit every byte.  The way there: arithmetic modulo PRIME is a field, the *)
(* power the code raises to is the reciprocal (Fermat), interpolation at 0 *)
(* is exact for polynomials below degree K, and there is one through any   *)
(* K points.                                                               *)
(*                                                                         *)
(* The key and the identities sealed for it: for every set of keys,        *)
(* persons and orders and any number of starts.                            *)
(***************************************************************************)
EXTENDS Shamir, IdentityKeys, FieldProofs, FiniteSetTheorems, TLAPS

LEMMA MorePrimeFacts == PRIME > N /\ N \in Nat
BY ShamirAssumption

\* What the code raises to is the inverse.
LEMMA ReciprocalOfNonzero ==
  ASSUME NEW d \in Int, ~Cong(d, 0)
  PROVE  Reciprocal(d) \in Int /\ Cong(d * Reciprocal(d), 1)
<1>1. Reciprocal(d) = Pow(d, PRIME - 2)
  BY DEF Reciprocal, Pow
<1>2. QED
  BY <1>1, ReciprocalInverts

-----------------------------------------------------------------------------
(* The weights of the interpolation at 0, for the nodes x of any set. *)

Num(x, X, D, i) == Products([j \in X |-> (0 - x[j]) % PRIME], X)[D \ {i}]
Den(x, X, D, i) == Products([j \in X |-> (x[i] - x[j]) % PRIME], X)[D \ {i}]
Weight(x, X, D, i) == Num(x, X, D, i) * Reciprocal(Den(x, X, D, i))
Weighted(x, X, D, h) == Sums([i \in X |-> h[i] * Weight(x, X, D, i)], X)[D]

Apart(x, X) == \A i, j \in X : i # j => ~Cong(x[i] - x[j], 0)

LEMMA WeightLaw ==
  ASSUME NEW e \in Int, NEW t \in Int, NEW dD \in Int, NEW dR \in Int, NEW rD \in Int, NEW rR \in Int,
         NEW nD \in Int, NEW nR \in Int,
         Cong(dD, e * dR), Cong(nD, t * nR), Cong(dD * rD, 1), Cong(dR * rR, 1)
  PROVE  Cong((nD * rD) * e, t * (nR * rR))
<1>1. Cong(rD * e, rR)
  <2> DEFINE p == rD * e
             q == p * (dR * rR)
             u == (rD * dD) * rR
  <2>1. p \in Int /\ dR * rR \in Int /\ e * dR \in Int /\ dD * rD \in Int /\ rD * dD = dD * rD
    OBVIOUS
  <2>2. q \in Int /\ u \in Int /\ rR * (rD * (e * dR)) = q /\ rR * (rD * dD) = u
    OBVIOUS
  <2>3. p * 1 = p /\ 1 * rR = rR
    BY <2>1
  <2>4. Cong(q, p)
    <3> HIDE DEF p
    <3>0. 1 \in Int
      OBVIOUS
    <3>1. Cong(p * (dR * rR), p * 1)
      BY <2>1, <3>0, CongScale, Zenon
    <3>2. QED
      BY <2>3, <3>1
  <2>5. Cong(u, q)
    <3>1. Cong(rD * dD, rD * (e * dR))
      BY <2>1, CongScale
    <3>2. rD * dD \in Int /\ rD * (e * dR) \in Int
      BY <2>1
    <3>3. Cong(rR * (rD * dD), rR * (rD * (e * dR)))
      BY <3>1, <3>2, CongScale
    <3>4. QED
      BY <2>2, <3>3
  <2>6. Cong(u, rR)
    <3>0. 1 \in Int
      OBVIOUS
    <3>1. Cong((dD * rD) * rR, 1 * rR)
      BY <2>1, <3>0, CongScale, Zenon
    <3>2. QED
      BY <2>1, <2>3, <3>1
  <2>7. p \in Int /\ q \in Int /\ u \in Int
    BY <2>1, <2>2
  <2> HIDE DEF p, q, u
  <2>8. Cong(p, rR)
    BY <2>4, <2>5, <2>6, <2>7, CongSym, CongTrans
  <2>9. QED
    BY <2>8 DEF p
<1>2. rD * e \in Int /\ t * nR \in Int
  OBVIOUS
<1>3. Cong(nD * (rD * e), (t * nR) * rR)
  BY <1>1, <1>2, CongMul
<1>4. nD * (rD * e) = (nD * rD) * e /\ (t * nR) * rR = t * (nR * rR)
  OBVIOUS
<1>5. QED
  BY <1>3, <1>4

\* Weights are numbers, and their denominators can be inverted.
LEMMA WeightTypes ==
  ASSUME NEW X, IsFiniteSet(X), NEW x \in [X -> Int], Apart(x, X), NEW D \in SUBSET X, NEW i \in X
  PROVE  /\ Num(x, X, D, i) \in Int /\ Den(x, X, D, i) \in Int
         /\ Reciprocal(Den(x, X, D, i)) \in Int
         /\ Cong(Den(x, X, D, i) * Reciprocal(Den(x, X, D, i)), 1)
         /\ Weight(x, X, D, i) \in Int
<1> DEFINE n == [j \in X |-> (0 - x[j]) % PRIME]
           d == [j \in X |-> (x[i] - x[j]) % PRIME]
<1>1. \A j \in X : /\ (0 - x[j]) % PRIME \in Int
                   /\ (x[i] - x[j]) % PRIME \in Int
                   /\ j # i => ~Cong((x[i] - x[j]) % PRIME, 0)
  <2>1. TAKE j \in X
  <2> DEFINE u == 0 - x[j]
             v == x[i] - x[j]
  <2>2. u \in Int /\ v \in Int
    OBVIOUS
  <2>3. j # i => ~Cong(v, 0)
    BY DEF Apart
  <2> HIDE DEF u, v
  <2>4. /\ u % PRIME \in Field /\ v % PRIME \in Field /\ u % PRIME \in Int /\ v % PRIME \in Int
        /\ Cong(v % PRIME, v)
    BY <2>2, ModIsField, FieldIsInt
  <2>5. Cong(v % PRIME, 0) => Cong(v, 0)
    BY <2>2, <2>4, CongSym, CongTrans
  <2>6. QED
    BY <2>3, <2>4, <2>5 DEF u, v
<1>2. n \in [X -> Int] /\ d \in [X -> Int] /\ \A j \in D \ {i} : ~Cong(d[j], 0)
  BY <1>1
<1>3. Num(x, X, D, i) = Products(n, X)[D \ {i}] /\ Den(x, X, D, i) = Products(d, X)[D \ {i}]
  BY DEF Num, Den
<1> HIDE DEF n, d
<1>4. ProductLike(n, X, Products(n, X)) /\ ProductLike(d, X, Products(d, X))
  BY <1>2, ProductSteps
<1>5. D \ {i} \in SUBSET X
  OBVIOUS
<1>6. Num(x, X, D, i) \in Int /\ Den(x, X, D, i) \in Int
  BY <1>3, <1>4, <1>5 DEF ProductLike
<1>7. ~Cong(Den(x, X, D, i), 0)
  BY <1>2, <1>3, <1>5, ProductNotZero
<1>8. /\ Reciprocal(Den(x, X, D, i)) \in Int
      /\ Cong(Den(x, X, D, i) * Reciprocal(Den(x, X, D, i)), 1)
  BY <1>6, <1>7, ReciprocalOfNonzero
<1>9. QED
  BY <1>6, <1>8 DEF Weight

\* What a weight becomes when a node goes.
LEMMA WeightDrops ==
  ASSUME NEW X, IsFiniteSet(X), NEW x \in [X -> Int], Apart(x, X), NEW D \in SUBSET X,
         NEW a \in D, NEW i \in D, i # a
  PROVE  Cong(Weight(x, X, D, i) * (x[i] - x[a]), (0 - x[a]) * Weight(x, X, D \ {a}, i))
<1> DEFINE n == [j \in X |-> (0 - x[j]) % PRIME]
           d == [j \in X |-> (x[i] - x[j]) % PRIME]
           R == D \ {a}
           e == x[i] - x[a]
           t == 0 - x[a]
<1>1. e \in Int /\ t \in Int
  OBVIOUS
<1>2. n \in [X -> Int] /\ d \in [X -> Int] /\ n[a] = t % PRIME /\ d[a] = e % PRIME
  <2>1. \A j \in X : 0 - x[j] \in Int /\ x[i] - x[j] \in Int
    OBVIOUS
  <2>2. \A k \in Int : k % PRIME \in Int
    BY ModIsField, FieldIsInt
  <2>3. n \in [X -> Int] /\ d \in [X -> Int]
    BY <2>1, <2>2
  <2>4. QED
    BY <2>3
<1>3. /\ Num(x, X, D, i) = Products(n, X)[D \ {i}] /\ Den(x, X, D, i) = Products(d, X)[D \ {i}]
      /\ Num(x, X, R, i) = Products(n, X)[R \ {i}] /\ Den(x, X, R, i) = Products(d, X)[R \ {i}]
  BY DEF Num, Den
<1>4. R \in SUBSET X /\ i \in X
  OBVIOUS
<1>5. (D \ {i}) \ {a} = R \ {i} /\ D \ {i} \in SUBSET X /\ a \in D \ {i}
  OBVIOUS
<1> HIDE DEF n, d, R, e, t
<1>6. ProductLike(n, X, Products(n, X)) /\ ProductLike(d, X, Products(d, X))
  BY <1>2, ProductSteps
<1> DEFINE nD == Num(x, X, D, i)
           dD == Den(x, X, D, i)
           nR == Num(x, X, R, i)
           dR == Den(x, X, R, i)
           rD == Reciprocal(dD)
           rR == Reciprocal(dR)
<1>7. /\ nD \in Int /\ dD \in Int /\ rD \in Int /\ Cong(dD * rD, 1)
      /\ nR \in Int /\ dR \in Int /\ rR \in Int /\ Cong(dR * rR, 1)
  BY <1>4, WeightTypes
<1>8. Weight(x, X, D, i) = nD * rD /\ Weight(x, X, R, i) = nR * rR
  BY DEF Weight
<1>9. Cong(nD, n[a] * nR) /\ Cong(dD, d[a] * dR)
  BY <1>3, <1>5, <1>6 DEF ProductLike
<1> HIDE DEF nD, dD, nR, dR, rD, rR
<1>10. /\ t % PRIME \in Int /\ e % PRIME \in Int
       /\ Cong((t % PRIME) * nR, t * nR) /\ Cong((e % PRIME) * dR, e * dR)
  <2>1. /\ t % PRIME \in Field /\ e % PRIME \in Field /\ t % PRIME \in Int /\ e % PRIME \in Int
        /\ Cong(t % PRIME, t) /\ Cong(e % PRIME, e)
    BY <1>1, ModIsField, FieldIsInt
  <2>2. QED
    BY <1>1, <1>7, <2>1, CongScale
<1>11. Cong(nD, t * nR) /\ Cong(dD, e * dR)
  <2>1. /\ (t % PRIME) * nR \in Int /\ t * nR \in Int /\ (e % PRIME) * dR \in Int /\ e * dR \in Int
    BY <1>1, <1>7, <1>10
  <2>2. Cong(nD, (t % PRIME) * nR) /\ Cong(dD, (e % PRIME) * dR)
    BY <1>2, <1>9
  <2>3. QED
    BY <1>7, <1>10, <2>1, <2>2, CongTrans
<1>12. Cong((nD * rD) * e, t * (nR * rR))
  BY <1>1, <1>7, <1>11, WeightLaw
<1>13. QED
  BY <1>8, <1>12 DEF e, t, R

LEMMA SplitStep ==
  ASSUME NEW e \in Int, NEW f \in Int, NEW u \in Int, NEW v \in Int, NEW p \in Int, NEW q \in Int,
         NEW a \in Int, NEW b \in Int, NEW w \in Int, NEW wa \in Int, NEW wb \in Int,
         Cong(e * f, p * u - q * v), Cong(w * p, a * wa), Cong(w * q, b * wb)
  PROVE  Cong(e * (f * w), a * (u * wa) + (0 - b) * (v * wb))
<1>1. /\ e * f \in Int /\ p * u - q * v \in Int /\ w * p \in Int /\ a * wa \in Int
      /\ w * q \in Int /\ b * wb \in Int
  OBVIOUS
<1>2. Cong(w * (e * f), w * (p * u - q * v)) /\ Cong(u * (w * p), u * (a * wa)) /\ Cong(v * (w * q), v * (b * wb))
  BY <1>1, CongScale
<1>3. /\ u * (w * p) \in Int /\ u * (a * wa) \in Int /\ v * (w * q) \in Int /\ v * (b * wb) \in Int
      /\ w * (e * f) \in Int
  BY <1>1
<1>4. Cong(u * (w * p) - v * (w * q), u * (a * wa) - v * (b * wb))
  BY <1>2, <1>3, CongAdd
<1>5. /\ w * (e * f) = e * (f * w)
      /\ w * (p * u - q * v) = u * (w * p) - v * (w * q)
      /\ u * (a * wa) - v * (b * wb) = a * (u * wa) + (0 - b) * (v * wb)
  OBVIOUS
<1> DEFINE l == e * (f * w)
           m == u * (w * p) - v * (w * q)
           r == a * (u * wa) + (0 - b) * (v * wb)
<1>6. l \in Int /\ m \in Int /\ r \in Int
  BY <1>3, <1>5
<1>7. Cong(l, m) /\ Cong(m, r)
  BY <1>2, <1>4, <1>5
<1> HIDE DEF l, m, r
<1>8. Cong(l, r)
  BY <1>6, <1>7, CongTrans
<1>9. QED
  BY <1>8 DEF l, r

Splits(x, X, D, a, b, f, u, v) ==
  /\ Weighted(x, X, D, f) \in Int
  /\ Weighted(x, X, D \ {a}, u) \in Int /\ Weighted(x, X, D \ {b}, v) \in Int
  /\ Cong((x[b] - x[a]) * Weighted(x, X, D, f),
          (0 - x[a]) * Weighted(x, X, D \ {a}, u) + x[b] * Weighted(x, X, D \ {b}, v))

\* A function that two nodes divide between them: what is interpolated of it
\* follows from what is interpolated of the parts without the one and the other.
LEMMA Split ==
  ASSUME NEW X, IsFiniteSet(X), NEW x \in [X -> Int], Apart(x, X), NEW D \in SUBSET X,
         NEW a \in D, NEW b \in D, a # b,
         NEW f \in [X -> Int], NEW u \in [X -> Int], NEW v \in [X -> Int],
         \A i \in D : Cong((x[b] - x[a]) * f[i], (x[i] - x[a]) * u[i] - (x[i] - x[b]) * v[i])
  PROVE  Splits(x, X, D, a, b, f, u, v)
<1> DEFINE e == x[b] - x[a]
           A == D \ {a}
           B == D \ {b}
           F == [i \in X |-> f[i] * Weight(x, X, D, i)]
           U == [i \in X |-> u[i] * Weight(x, X, A, i)]
           V == [i \in X |-> v[i] * Weight(x, X, B, i)]
           wa == [i \in X |-> IF i = a THEN 0 ELSE Weight(x, X, A, i)]
           wb == [i \in X |-> IF i = b THEN 0 ELSE Weight(x, X, B, i)]
           UU == [i \in X |-> u[i] * wa[i]]
           VV == [i \in X |-> v[i] * wb[i]]
           s == 0 - x[a]
           t == x[b]
<1>1. D \in SUBSET X /\ A \in SUBSET X /\ B \in SUBSET X /\ a \in X /\ b \in X
  OBVIOUS
<1>2. \A i \in X : Weight(x, X, D, i) \in Int /\ Weight(x, X, A, i) \in Int /\ Weight(x, X, B, i) \in Int
  <2> HIDE DEF A, B
  <2>1. QED
    BY <1>1, WeightTypes
<1>3. /\ F \in [X -> Int] /\ U \in [X -> Int] /\ V \in [X -> Int] /\ UU \in [X -> Int] /\ VV \in [X -> Int]
      /\ \A i \in X : wa[i] \in Int /\ wb[i] \in Int
  <2>1. ASSUME NEW i \in X
        PROVE  /\ u[i] \in Int /\ v[i] \in Int /\ f[i] \in Int /\ wa[i] \in Int /\ wb[i] \in Int
               /\ u[i] * wa[i] \in Int /\ v[i] * wb[i] \in Int /\ f[i] * Weight(x, X, D, i) \in Int
               /\ u[i] * Weight(x, X, A, i) \in Int /\ v[i] * Weight(x, X, B, i) \in Int
    <3> DEFINE wA == Weight(x, X, A, i)
               wB == Weight(x, X, B, i)
               wD == Weight(x, X, D, i)
               wai == wa[i]
               wbi == wb[i]
    <3>1. wA \in Int /\ wB \in Int /\ wD \in Int
      BY <1>2
    <3>2. wai = (IF i = a THEN 0 ELSE wA) /\ wbi = (IF i = b THEN 0 ELSE wB)
      OBVIOUS
    <3> HIDE DEF wA, wB, wD, wai, wbi
    <3>3. wai \in Int /\ wbi \in Int /\ u[i] \in Int /\ v[i] \in Int /\ f[i] \in Int
      BY <3>1, <3>2
    <3>4. /\ u[i] * wai \in Int /\ v[i] * wbi \in Int /\ f[i] * wD \in Int
          /\ u[i] * wA \in Int /\ v[i] * wB \in Int
      BY <3>1, <3>3
    <3>5. QED
      BY <3>3, <3>4 DEF wA, wB, wD, wai, wbi
  <2>2. /\ F \in [X -> Int] /\ U \in [X -> Int] /\ V \in [X -> Int] /\ UU \in [X -> Int] /\ VV \in [X -> Int]
    <3> HIDE DEF wa, wb, A, B
    <3>1. QED
      BY <2>1
  <2>3. QED
    BY <2>1, <2>2
<1>4. \A i \in D : Cong(e * F[i], s * UU[i] + t * VV[i])
  <2>1. TAKE i \in D
  <2> DEFINE w == Weight(x, X, D, i)
             p == x[i] - x[a]
             q == x[i] - x[b]
             wai == wa[i]
             wbi == wb[i]
             r == 0 - x[b]
             fi == f[i]
             ui == u[i]
             vi == v[i]
  <2>2. /\ e \in Int /\ fi \in Int /\ ui \in Int /\ vi \in Int /\ p \in Int /\ q \in Int /\ s \in Int
        /\ r \in Int /\ w \in Int /\ wai \in Int /\ wbi \in Int
    <3>1. e \in Int /\ fi \in Int /\ ui \in Int /\ vi \in Int /\ p \in Int /\ q \in Int /\ s \in Int /\ r \in Int
      OBVIOUS
    <3>2. w \in Int /\ wai \in Int /\ wbi \in Int
      <4> HIDE DEF wa, wb
      <4>1. QED
        BY <1>2, <1>3
    <3>3. QED
      BY <3>1, <3>2
  <2>3. Cong(w * p, s * wai)
    <3>1. CASE i = a
      <4>1. p = 0 /\ wai = 0
        BY <3>1
      <4> HIDE DEF p, wai, w, s
      <4>2. w * p = 0 /\ s * wai = 0
        BY <2>2, <4>1
      <4>3. QED
        BY <4>2, CongRefl
    <3>2. CASE i # a
      <4>1. Cong(w * p, s * Weight(x, X, A, i))
        BY <3>2, WeightDrops
      <4>2. QED
        BY <3>2, <4>1
    <3>3. QED
      BY <3>1, <3>2
  <2>4. Cong(w * q, r * wbi)
    <3>1. CASE i = b
      <4>1. q = 0 /\ wbi = 0
        BY <3>1
      <4> HIDE DEF q, wbi, w, r
      <4>2. w * q = 0 /\ r * wbi = 0
        BY <2>2, <4>1
      <4>3. QED
        BY <4>2, CongRefl
    <3>2. CASE i # b
      <4>1. Cong(w * q, r * Weight(x, X, B, i))
        BY <3>2, WeightDrops
      <4>2. QED
        BY <3>2, <4>1
    <3>3. QED
      BY <3>1, <3>2
  <2>5. Cong(e * fi, p * ui - q * vi)
    OBVIOUS
  <2>6. F[i] = fi * w /\ UU[i] = ui * wai /\ VV[i] = vi * wbi /\ t = 0 - r
    OBVIOUS
  <2> HIDE DEF e, fi, ui, vi, p, q, s, r, w, wai, wbi, t, F, UU, VV
  <2>7. Cong(e * (fi * w), s * (ui * wai) + (0 - r) * (vi * wbi))
    BY <2>2, <2>3, <2>4, <2>5, SplitStep
  <2>8. QED
    BY <2>6, <2>7
<1>5. e \in Int /\ s \in Int /\ t \in Int
  OBVIOUS
<1>6. /\ UU[a] = 0 /\ VV[b] = 0
      /\ (\A i \in A : UU[i] = U[i]) /\ (\A i \in B : VV[i] = V[i])
  BY <1>1
<1> HIDE DEF e, s, t, F, UU, VV, U, V
<1> DEFINE SF == Sums(F, X)[D]
           SU == Sums(U, X)[A]
           SV == Sums(V, X)[B]
           SUU == Sums(UU, X)[D]
           SVV == Sums(VV, X)[D]
<1>7. Cong(e * SF, s * SUU + t * SVV)
  BY <1>1, <1>3, <1>4, <1>5, SumCombines
<1>8. Cong(SUU, SU) /\ Cong(SVV, SV)
  BY <1>1, <1>3, <1>6, SumSkips
<1>9. SF \in Int /\ SU \in Int /\ SV \in Int /\ SUU \in Int /\ SVV \in Int
  <2>1. /\ SumLike(F, X, Sums(F, X)) /\ SumLike(U, X, Sums(U, X)) /\ SumLike(V, X, Sums(V, X))
        /\ SumLike(UU, X, Sums(UU, X)) /\ SumLike(VV, X, Sums(VV, X))
    BY <1>3, SumSteps
  <2>2. QED
    BY <1>1, <2>1 DEF SumLike
<1> HIDE DEF SF, SU, SV, SUU, SVV
<1>10. Cong(e * SF, s * SU + t * SV)
  <2>1. Cong(s * SUU, s * SU) /\ Cong(t * SVV, t * SV)
    BY <1>5, <1>8, <1>9, CongScale
  <2>2. s * SUU \in Int /\ t * SVV \in Int /\ s * SU \in Int /\ t * SV \in Int
    BY <1>5, <1>9
  <2>3. Cong(s * SUU + t * SVV, s * SU + t * SV)
    BY <2>1, <2>2, CongAdd
  <2>4. e * SF \in Int /\ s * SUU + t * SVV \in Int /\ s * SU + t * SV \in Int
    BY <1>5, <1>9, <2>2
  <2>5. QED
    BY <1>7, <2>3, <2>4, CongTrans
<1>11. Weighted(x, X, D, f) = SF /\ Weighted(x, X, A, u) = SU /\ Weighted(x, X, B, v) = SV
  BY DEF Weighted, SF, SU, SV, F, U, V
<1> HIDE DEF A, B
<1>12. Cong(e * Weighted(x, X, D, f), s * Weighted(x, X, A, u) + t * Weighted(x, X, B, v))
  BY <1>10, <1>11
<1>13. QED
  BY <1>9, <1>11, <1>12 DEF e, s, t, A, B, Splits

LEMMA IntOps ==
  ASSUME NEW a \in Int, NEW b \in Int PROVE a + b \in Int /\ a - b \in Int /\ a * b \in Int
OBVIOUS

LEMMA WeightedType ==
  ASSUME NEW X, IsFiniteSet(X), NEW x \in [X -> Int], Apart(x, X), NEW D \in SUBSET X, NEW f \in [X -> Int]
  PROVE  Weighted(x, X, D, f) \in Int
<1> DEFINE F == [i \in X |-> f[i] * Weight(x, X, D, i)]
<1>1. \A i \in X : f[i] \in Int /\ Weight(x, X, D, i) \in Int
  BY WeightTypes
<1>2. F \in [X -> Int]
  BY <1>1
<1>3. Weighted(x, X, D, f) = Sums(F, X)[D]
  BY DEF Weighted
<1> HIDE DEF F
<1>4. QED
  BY <1>2, <1>3, SumSteps DEF SumLike

\* Two members of a set that has two.
LEMMA TwoMembers ==
  ASSUME NEW X, IsFiniteSet(X), NEW D \in SUBSET X, Cardinality(D) >= 2
  PROVE  \E a, b \in D : a # b
<1>1. PICK a \in D : TRUE
  BY Subsets
<1>2. D \ {a} \in SUBSET X /\ Cardinality(D \ {a}) = Cardinality(D) - 1 /\ Cardinality(D) \in Nat
  BY Subsets
<1>3. D \ {a} # {}
  BY <1>2, Subsets
<1>4. QED
  BY <1>3

\* A constant is interpolated as itself.
Ones(X) == [i \in X |-> 1]

LEMMA OneIsKept ==
  ASSUME NEW X, IsFiniteSet(X), NEW x \in [X -> Int], Apart(x, X)
  PROVE  \A D \in SUBSET X : D # {} => Cong(Weighted(x, X, D, Ones(X)), 1)
<1> DEFINE S == {n \in Nat : \A D \in SUBSET X : Cardinality(D) = n /\ D # {} =>
                               Cong(Weighted(x, X, D, Ones(X)), 1)}
<1>0. Ones(X) \in [X -> Int] /\ \A i \in X : Ones(X)[i] = 1
  BY DEF Ones
<1>1. 0 \in S
  BY Subsets
<1>2. ASSUME NEW n \in Nat, n \in S PROVE n + 1 \in S
  <2>1. SUFFICES ASSUME NEW D \in SUBSET X, Cardinality(D) = n + 1, D # {}
                 PROVE  Cong(Weighted(x, X, D, Ones(X)), 1)
    OBVIOUS
  <2>2. CASE n = 0
    <3>1. PICK a \in D : TRUE
      BY <2>1
    <3>2. D \ {a} = {} /\ {} \in SUBSET X /\ D \in SUBSET X /\ a \in X
      <4>1. D \ {a} \in SUBSET X /\ Cardinality(D \ {a}) = Cardinality(D) - 1
        BY Subsets
      <4>2. Cardinality(D \ {a}) = 0
        BY <2>1, <2>2, <4>1
      <4>3. D \ {a} = {}
        BY <4>1, <4>2, Subsets
      <4>4. QED
        BY <4>3
    <3> DEFINE F == [i \in X |-> Ones(X)[i] * Weight(x, X, D, i)]
               w == Weight(x, X, D, a)
               d == Den(x, X, D, a)
               r == Reciprocal(d)
    <3>3. F \in [X -> Int] /\ F[a] = 1 * w
      <4>1. \A i \in X : Ones(X)[i] \in Int /\ Weight(x, X, D, i) \in Int
        BY <1>0, WeightTypes
      <4>2. QED
        BY <1>0, <3>2, <4>1
    <3>4. Weighted(x, X, D, Ones(X)) = Sums(F, X)[D]
      BY DEF Weighted
    <3>5. Num(x, X, D, a) = 1 /\ d = 1
      <4> DEFINE p == [j \in X |-> (0 - x[j]) % PRIME]
                 q == [j \in X |-> (x[a] - x[j]) % PRIME]
      <4>1. p \in [X -> Int] /\ q \in [X -> Int]
        <5>1. \A j \in X : 0 - x[j] \in Int /\ x[a] - x[j] \in Int
          BY <3>2
        <5>2. \A k \in Int : k % PRIME \in Int
          BY ModIsField, FieldIsInt
        <5>3. QED
          BY <5>1, <5>2
      <4>2. Num(x, X, D, a) = Products(p, X)[D \ {a}] /\ d = Products(q, X)[D \ {a}]
        BY DEF Num, Den
      <4> HIDE DEF p, q, d
      <4>3. ProductLike(p, X, Products(p, X)) /\ ProductLike(q, X, Products(q, X))
        BY <4>1, ProductSteps
      <4>4. QED
        BY <3>2, <4>2, <4>3 DEF ProductLike
    <3>6. w = 1 * r
      BY <3>5 DEF Weight
    <3>7. w \in Int /\ r \in Int /\ Cong(d * r, 1)
      BY <3>2, WeightTypes
    <3> HIDE DEF F, w, d, r
    <3>8. Sums(F, X)[D] \in Int /\ Sums(F, X)[{}] = 0 /\ Cong(Sums(F, X)[D], F[a] + Sums(F, X)[D \ {a}])
      BY <3>3, SumSteps DEF SumLike
    <3>9. F[a] + Sums(F, X)[D \ {a}] = r /\ d * r = r
      <4>1. Sums(F, X)[D \ {a}] = 0
        BY <3>2, <3>8
      <4>2. F[a] = r /\ F[a] \in Int
        BY <3>3, <3>6, <3>7
      <4>3. QED
        BY <3>5, <3>7, <4>1, <4>2
    <3>10. Cong(Sums(F, X)[D], 1)
      BY <3>7, <3>8, <3>9, CongTrans
    <3>11. QED
      BY <3>4, <3>10
  <2>3. CASE n # 0
    <3>1. PICK a \in D, b \in D : a # b
      BY <2>1, <2>3, TwoMembers
    <3> DEFINE A == D \ {a}
               B == D \ {b}
               e == x[b] - x[a]
               SD == Weighted(x, X, D, Ones(X))
               SA == Weighted(x, X, A, Ones(X))
               SB == Weighted(x, X, B, Ones(X))
    <3>2. A \in SUBSET X /\ B \in SUBSET X /\ A # {} /\ B # {} /\ Cardinality(A) = n /\ Cardinality(B) = n
      BY <2>1, <3>1, Subsets
    <3>3. Cong(SA, 1) /\ Cong(SB, 1)
      <4> HIDE DEF A, B
      <4>1. QED
        BY <1>2, <3>2
    <3>4. e \in Int /\ x[a] \in Int /\ x[b] \in Int /\ ~Cong(e, 0)
      BY <3>1 DEF Apart
    <3>5. \A i \in D : Cong(e * Ones(X)[i], (x[i] - x[a]) * Ones(X)[i] - (x[i] - x[b]) * Ones(X)[i])
      <4>1. TAKE i \in D
      <4>2. x[i] \in Int /\ Ones(X)[i] = 1
        BY <1>0
      <4>3. (x[i] - x[a]) * 1 - (x[i] - x[b]) * 1 = e * 1 /\ e * 1 \in Int
        BY <3>4, <4>2
      <4> HIDE DEF e
      <4>4. QED
        BY <4>2, <4>3, CongRefl
    <3>6. /\ SD \in Int /\ SA \in Int /\ SB \in Int
          /\ Cong(e * SD, (0 - x[a]) * SA + x[b] * SB)
      <4>1. Splits(x, X, D, a, b, Ones(X), Ones(X), Ones(X))
        <5>1. \A i \in D : Cong((x[b] - x[a]) * Ones(X)[i],
                                (x[i] - x[a]) * Ones(X)[i] - (x[i] - x[b]) * Ones(X)[i])
          BY <3>5
        <5>2. QED
          BY <1>0, <3>1, <5>1, Split
      <4>2. QED
        BY <4>1 DEF Splits
    <3> HIDE DEF e, SD, SA, SB
    <3>7. Cong(e * SD, e * 1)
      <4> DEFINE s == 0 - x[a]
                 t == x[b]
      <4>1. s \in Int /\ t \in Int /\ 1 \in Int /\ s * 1 + t * 1 = e * 1
        BY <3>4 DEF e
      <4> HIDE DEF s, t
      <4>2. Cong(s * SA, s * 1) /\ Cong(t * SB, t * 1)
        BY <3>3, <3>6, <4>1, CongScale, Zenon
      <4>3. s * SA \in Int /\ s * 1 \in Int /\ t * SB \in Int /\ t * 1 \in Int
        BY <3>6, <4>1
      <4>4. Cong(s * SA + t * SB, s * 1 + t * 1)
        BY <4>2, <4>3, CongAdd, Zenon
      <4>5. Cong(e * SD, s * SA + t * SB)
        BY <3>6 DEF s, t
      <4>6. e * SD \in Int /\ s * SA + t * SB \in Int /\ s * 1 + t * 1 \in Int
        BY <3>4, <3>6, <4>3
      <4>7. Cong(e * SD, s * 1 + t * 1)
        BY <4>4, <4>5, <4>6, CongTrans, Zenon
      <4>8. QED
        BY <4>1, <4>7, Zenon
    <3>8. Cong(SD, 1)
      <4>1. 1 \in Int
        OBVIOUS
      <4>2. QED
        BY <3>4, <3>6, <3>7, <4>1, CongCancel, Zenon
    <3>9. QED
      BY <3>8 DEF SD
  <2>4. QED
    BY <2>2, <2>3
<1>3. \A n \in Nat : n \in S
  <2> HIDE DEF S
  <2>1. QED
    BY <1>1, <1>2, NatInductionOnSet
<1>4. QED
  BY <1>3, Subsets

LEMMA WeightedCombines ==
  ASSUME NEW X, IsFiniteSet(X), NEW x \in [X -> Int], Apart(x, X), NEW D \in SUBSET X,
         NEW f \in [X -> Int], NEW g \in [X -> Int], NEW h \in [X -> Int],
         NEW a \in Int, NEW b \in Int, \A i \in D : Cong(f[i], a * g[i] + b * h[i])
  PROVE  Cong(Weighted(x, X, D, f), a * Weighted(x, X, D, g) + b * Weighted(x, X, D, h))
<1> DEFINE F == [i \in X |-> f[i] * Weight(x, X, D, i)]
           G == [i \in X |-> g[i] * Weight(x, X, D, i)]
           H == [i \in X |-> h[i] * Weight(x, X, D, i)]
<1>1. \A i \in X : Weight(x, X, D, i) \in Int
  BY WeightTypes
<1>2. F \in [X -> Int] /\ G \in [X -> Int] /\ H \in [X -> Int]
  BY <1>1
<1>3. \A i \in D : Cong(1 * F[i], a * G[i] + b * H[i])
  <2>1. TAKE i \in D
  <2> DEFINE w == Weight(x, X, D, i)
             p == f[i]
             q == g[i]
             r == h[i]
             s == a * q + b * r
  <2>2. w \in Int /\ p \in Int /\ q \in Int /\ r \in Int
    BY <1>1
  <2>3. F[i] = p * w /\ G[i] = q * w /\ H[i] = r * w
    OBVIOUS
  <2>4. Cong(p, s)
    OBVIOUS
  <2> HIDE DEF w, p, q, r, F, G, H
  <2>5. s \in Int /\ s * w = a * (q * w) + b * (r * w) /\ 1 * (p * w) = p * w
    BY <2>2
  <2> HIDE DEF s
  <2>6. Cong(p * w, s * w)
    BY <2>2, <2>4, <2>5, CongScale
  <2>7. QED
    BY <2>3, <2>5, <2>6
<1>4. Weighted(x, X, D, f) = Sums(F, X)[D] /\ Weighted(x, X, D, g) = Sums(G, X)[D]
      /\ Weighted(x, X, D, h) = Sums(H, X)[D]
  BY DEF Weighted
<1> HIDE DEF F, G, H
<1>5. Cong(1 * Sums(F, X)[D], a * Sums(G, X)[D] + b * Sums(H, X)[D])
  <2>1. 1 \in Int
    OBVIOUS
  <2>2. QED
    BY <1>2, <1>3, <2>1, SumCombines, Zenon
<1>6. Sums(F, X)[D] \in Int
  BY <1>2, SumSteps DEF SumLike
<1>7. 1 * Sums(F, X)[D] = Sums(F, X)[D]
  BY <1>6
<1>8. QED
  BY <1>4, <1>5, <1>7

Follows(x, X, D, f, g, c, z) ==
  /\ \A i \in D : Cong(f[i], c + x[i] * g[i])
  /\ \/ \A i \in D : g[i] = 0
     \/ Cardinality(D) >= 2 /\ \A a \in D : Cong(Weighted(x, X, D \ {a}, g), z)

\* A constant plus x times what the nodes less one agree on: Horner's step.
LEMMA HornerStep ==
  ASSUME NEW X, IsFiniteSet(X), NEW x \in [X -> Int], Apart(x, X), NEW D \in SUBSET X, D # {},
         NEW f \in [X -> Int], NEW g \in [X -> Int], NEW c \in Int, NEW z \in Int,
         Follows(x, X, D, f, g, c, z)
  PROVE  Cong(Weighted(x, X, D, f), c)
<1>0. Ones(X) \in [X -> Int] /\ \A i \in X : Ones(X)[i] = 1
  BY DEF Ones
<1>h. /\ \A i \in D : Cong(f[i], c + x[i] * g[i])
      /\ \/ \A i \in D : g[i] = 0
         \/ Cardinality(D) >= 2 /\ \A a \in D : Cong(Weighted(x, X, D \ {a}, g), z)
  BY DEF Follows
<1>1. CASE \A i \in D : g[i] = 0
  <2>1. \A i \in D : Cong(f[i], c * Ones(X)[i] + 0 * Ones(X)[i])
    <3>1. TAKE i \in D
    <3>2. x[i] \in Int /\ g[i] = 0 /\ Ones(X)[i] = 1 /\ Cong(f[i], c + x[i] * g[i])
      BY <1>0, <1>1, <1>h
    <3>3. c + x[i] * 0 = c /\ c * 1 + 0 * 1 = c
      BY <3>2
    <3>4. QED
      BY <3>2, <3>3
  <2> DEFINE W == Weighted(x, X, D, f)
             V == Weighted(x, X, D, Ones(X))
  <2>2. W \in Int /\ V \in Int
    BY <1>0, WeightedType
  <2>3. Cong(V, 1)
    BY OneIsKept
  <2>4. Cong(W, c * V + 0 * V)
    <3>1. 0 \in Int
      OBVIOUS
    <3>2. QED
      BY <1>0, <2>1, <3>1, WeightedCombines, Zenon
  <2> HIDE DEF W, V
  <2>5. c * V + 0 * V = c * V /\ c * 1 = c /\ c * V \in Int /\ 1 \in Int
    BY <2>2
  <2>6. Cong(c * V, c * 1)
    BY <2>2, <2>3, <2>5, CongScale, Zenon
  <2>7. Cong(W, c)
    BY <2>2, <2>4, <2>5, <2>6, CongTrans
  <2>8. QED
    BY <2>7 DEF W
<1>2. CASE Cardinality(D) >= 2 /\ \A a \in D : Cong(Weighted(x, X, D \ {a}, g), z)
  <2>1. PICK a \in D, b \in D : a # b
    BY <1>2, TwoMembers
  <2> DEFINE A == D \ {a}
             B == D \ {b}
             e == x[b] - x[a]
             xa == x[a]
             xb == x[b]
             u == [i \in X |-> c * Ones(X)[i] + xb * g[i]]
             v == [i \in X |-> c * Ones(X)[i] + xa * g[i]]
             h == [i \in X |-> c * Ones(X)[i] + x[i] * g[i]]
             Wf == Weighted(x, X, D, f)
             Wu == Weighted(x, X, A, u)
             Wv == Weighted(x, X, B, v)
             Ag == Weighted(x, X, A, g)
             Bg == Weighted(x, X, B, g)
             A1 == Weighted(x, X, A, Ones(X))
             B1 == Weighted(x, X, B, Ones(X))
  <2>2. A \in SUBSET X /\ B \in SUBSET X /\ A # {} /\ B # {}
    BY <2>1
  <2>3. xa \in Int /\ xb \in Int /\ e \in Int /\ e = xb - xa /\ ~Cong(e, 0)
    <3>1. a \in X /\ b \in X /\ xa \in Int /\ xb \in Int
      OBVIOUS
    <3>2. ~Cong(e, 0)
      BY <2>1, <3>1, Zenon DEF Apart
    <3> HIDE DEF xa, xb
    <3>3. QED
      BY <3>1, <3>2 DEF xa, xb
  <2>4. Cong(Ag, z) /\ Cong(Bg, z) /\ Cong(A1, 1) /\ Cong(B1, 1)
    <3>1. Cong(Ag, z) /\ Cong(Bg, z)
      BY <1>2
    <3> HIDE DEF A, B
    <3>2. QED
      BY <2>2, <3>1, OneIsKept
  <2>5. u \in [X -> Int] /\ v \in [X -> Int]
    <3> HIDE DEF xa, xb
    <3>1. \A i \in X : Ones(X)[i] \in Int /\ g[i] \in Int
      BY <1>0
    <3>2. \A i \in X : c * Ones(X)[i] + xb * g[i] \in Int /\ c * Ones(X)[i] + xa * g[i] \in Int
      <4>1. \A i \in X : /\ c * Ones(X)[i] \in Int /\ xb * g[i] \in Int /\ xa * g[i] \in Int
        BY <2>3, <3>1, IntOps
      <4>2. QED
        BY <4>1, IntOps
    <3>3. QED
      BY <3>2
  <2>6. \A i \in D : Cong(e * f[i], (x[i] - xa) * u[i] - (x[i] - xb) * v[i])
    <3>1. TAKE i \in D
    <3> DEFINE xi == x[i]
               gi == g[i]
               fi == f[i]
               ui == u[i]
               vi == v[i]
    <3>2. /\ xi \in Int /\ gi \in Int /\ fi \in Int /\ ui = c * 1 + xb * gi /\ vi = c * 1 + xa * gi
          /\ Cong(fi, c + xi * gi)
      BY <1>0, <1>h
    <3> HIDE DEF xi, gi, fi, ui, vi, xa, xb, e
    <3>3. ui = c + xb * gi /\ vi = c + xa * gi
      BY <3>2
    <3>4. (xi - xa) * (c + xb * gi) - (xi - xb) * (c + xa * gi) = (xb - xa) * (c + xi * gi)
      BY <2>3, <3>2
    <3>5. c + xi * gi \in Int
      BY <3>2
    <3>6. Cong(e * fi, e * (c + xi * gi))
      BY <2>3, <3>2, <3>5, CongScale, Zenon
    <3>7. (xi - xa) * ui - (xi - xb) * vi = e * (c + xi * gi)
      BY <2>3, <3>3, <3>4
    <3>8. QED
      BY <3>6, <3>7 DEF xi, fi, ui, vi
  <2>7. /\ Wf \in Int /\ Wu \in Int /\ Wv \in Int
        /\ Cong(e * Wf, (0 - xa) * Wu + xb * Wv)
    <3>1. Splits(x, X, D, a, b, f, u, v)
      <4>1. \A i \in D : Cong((x[b] - x[a]) * f[i], (x[i] - x[a]) * u[i] - (x[i] - x[b]) * v[i])
        BY <2>6
      <4> HIDE DEF u, v
      <4>2. QED
        BY <2>1, <2>5, <4>1, Split
    <3> HIDE DEF u, v
    <3>2. QED
      BY <3>1 DEF Splits
  <2>8. Ag \in Int /\ Bg \in Int /\ A1 \in Int /\ B1 \in Int
    <3> HIDE DEF A, B
    <3>1. QED
      BY <1>0, <2>2, WeightedType
  <2>9. Cong(Wu, c * A1 + xb * Ag) /\ Cong(Wv, c * B1 + xa * Bg)
    <3>1. \A i \in X : /\ Cong(u[i], c * Ones(X)[i] + xb * g[i])
                       /\ Cong(v[i], c * Ones(X)[i] + xa * g[i])
      <4>1. TAKE i \in X
      <4>2. u[i] = c * Ones(X)[i] + xb * g[i] /\ v[i] = c * Ones(X)[i] + xa * g[i]
        OBVIOUS
      <4>3. u[i] \in Int /\ v[i] \in Int
        BY <2>5
      <4> HIDE DEF u, v
      <4>4. QED
        BY <4>2, <4>3, CongRefl
    <3> HIDE DEF u, v, A, B, xa, xb
    <3>2. (\A i \in A : Cong(u[i], c * Ones(X)[i] + xb * g[i])) /\ \A i \in B : Cong(v[i], c * Ones(X)[i] + xa * g[i])
      BY <2>2, <3>1
    <3>3. Cong(Wu, c * A1 + xb * Ag)
      BY <1>0, <2>2, <2>3, <2>5, <3>2, WeightedCombines, Zenon
    <3>4. Cong(Wv, c * B1 + xa * Bg)
      BY <1>0, <2>2, <2>3, <2>5, <3>2, WeightedCombines, Zenon
    <3>5. QED
      BY <3>3, <3>4
  <2> HIDE DEF A, B, u, v, Wf, Wu, Wv, Ag, Bg, A1, B1, xa, xb, e
  <2>10. Cong(Wu, c + xb * z) /\ Cong(Wv, c + xa * z)
    <3>1. 1 \in Int /\ c * 1 = c
      OBVIOUS
    <3>2. Cong(c * A1, c * 1) /\ Cong(xb * Ag, xb * z) /\ Cong(c * B1, c * 1) /\ Cong(xa * Bg, xa * z)
      BY <2>3, <2>4, <2>8, <3>1, CongScale, Zenon
    <3>3. /\ c * A1 \in Int /\ xb * Ag \in Int /\ xb * z \in Int
          /\ c * B1 \in Int /\ xa * Bg \in Int /\ xa * z \in Int
      BY <2>3, <2>8
    <3>4. Cong(c * A1, c) /\ Cong(c * B1, c)
      BY <3>1, <3>2
    <3>5. Cong(c * A1 + xb * Ag, c + xb * z) /\ Cong(c * B1 + xa * Bg, c + xa * z)
      BY <3>2, <3>3, <3>4, CongAdd, Zenon
    <3>6. /\ c * A1 + xb * Ag \in Int /\ c + xb * z \in Int
          /\ c * B1 + xa * Bg \in Int /\ c + xa * z \in Int
      BY <3>3, IntOps, Zenon
    <3>7. QED
      BY <2>7, <2>9, <3>5, <3>6, CongTrans, Zenon
  <2>11. Cong(e * Wf, e * c)
    <3> DEFINE s == 0 - xa
               U == c + xb * z
               V == c + xa * z
    <3>1. s \in Int /\ U \in Int /\ V \in Int
      BY <2>3
    <3>2. s * U + xb * V = e * c
      BY <2>3
    <3>3. Cong(Wu, U) /\ Cong(Wv, V) /\ Cong(e * Wf, s * Wu + xb * Wv)
      BY <2>7, <2>10
    <3> HIDE DEF s, U, V
    <3>4. Cong(s * Wu, s * U) /\ Cong(xb * Wv, xb * V)
      BY <2>3, <2>7, <3>1, <3>3, CongScale, Zenon
    <3>5. s * Wu \in Int /\ s * U \in Int /\ xb * Wv \in Int /\ xb * V \in Int /\ e * Wf \in Int /\ e * c \in Int
      BY <2>3, <2>7, <3>1
    <3>6. Cong(s * Wu + xb * Wv, s * U + xb * V)
      BY <3>4, <3>5, CongAdd, Zenon
    <3>7. s * Wu + xb * Wv \in Int /\ s * U + xb * V \in Int
      BY <3>5, IntOps, Zenon
    <3>8. Cong(e * Wf, s * U + xb * V)
      BY <3>3, <3>5, <3>6, <3>7, CongTrans, Zenon
    <3>9. QED
      BY <3>2, <3>8, Zenon
  <2>12. Cong(Wf, c)
    BY <2>3, <2>7, <2>11, CongCancel
  <2>13. QED
    BY <2>12 DEF Wf
<1>3. QED
  BY <1>1, <1>2, <1>h

Exact(x, X, n, c, H) ==
  \A k \in 0 .. n : \A D \in SUBSET X :
    Cardinality(D) >= k /\ D # {} => Cong(Weighted(x, X, D, H[k]), c[k])

\* What the interpolation at 0 makes of a polynomial, when the nodes are at
\* least as many as its coefficients: its first coefficient.
LEMMA InterpolationIsExact ==
  ASSUME NEW X, IsFiniteSet(X), NEW x \in [X -> Int], Apart(x, X), NEW n \in Nat,
         NEW c \in [0 .. n -> Int], c[0] = 0,
         NEW H \in [0 .. n -> [X -> Int]], \A i \in X : H[0][i] = 0,
         \A k \in 1 .. n : \A i \in X : Cong(H[k][i], c[k] + x[i] * H[k - 1][i])
  PROVE  Exact(x, X, n, c, H)
<1> DEFINE S == {k \in Nat : k <= n => \A D \in SUBSET X :
                   Cardinality(D) >= k /\ D # {} => Cong(Weighted(x, X, D, H[k]), c[k])}
<1>1. 0 \in S
  <2>1. SUFFICES ASSUME NEW D \in SUBSET X, D # {} PROVE Cong(Weighted(x, X, D, H[0]), c[0])
    OBVIOUS
  <2> DEFINE f == H[0]
  <2>2. f \in [X -> Int] /\ \A i \in D : f[i] = 0
    OBVIOUS
  <2> HIDE DEF f
  <2>3. \A i \in D : Cong(f[i], 0 + x[i] * f[i])
    <3>1. TAKE i \in D
    <3>2. f[i] = 0 /\ x[i] \in Int
      BY <2>2
    <3>3. 0 + x[i] * 0 = 0
      BY <3>2
    <3>4. QED
      BY <3>2, <3>3, CongRefl
  <2>4. Cong(Weighted(x, X, D, f), 0)
    <3>1. 0 \in Int
      OBVIOUS
    <3>2. \/ \A i \in D : f[i] = 0
          \/ Cardinality(D) >= 2 /\ \A a \in D : Cong(Weighted(x, X, D \ {a}, f), 0)
      BY <2>2
    <3>3. Follows(x, X, D, f, f, 0, 0)
      BY <2>3, <3>2 DEF Follows
    <3>4. QED
      BY <2>1, <2>2, <3>1, <3>3, HornerStep, Zenon
  <2>5. QED
    BY <2>4 DEF f
<1>2. ASSUME NEW k \in Nat, k \in S PROVE k + 1 \in S
  <2>1. SUFFICES ASSUME k + 1 <= n, NEW D \in SUBSET X, Cardinality(D) >= k + 1, D # {}
                 PROVE  Cong(Weighted(x, X, D, H[k + 1]), c[k + 1])
    <3>1. k + 1 \in Nat
      OBVIOUS
    <3>2. QED
      BY <3>1, Zenon
  <2> DEFINE f == H[k + 1]
             g == H[k]
             d == c[k + 1]
             z == c[k]
  <2>2. k \in 0 .. n /\ k + 1 \in 0 .. n /\ k + 1 \in 1 .. n /\ (k + 1) - 1 = k
    BY <2>1
  <2>3. f \in [X -> Int] /\ g \in [X -> Int] /\ d \in Int /\ z \in Int
    BY <2>2
  <2>4. \A i \in D : Cong(f[i], d + x[i] * g[i])
    BY <2>2
  <2>5. \/ \A i \in D : g[i] = 0
        \/ Cardinality(D) >= 2 /\ \A a \in D : Cong(Weighted(x, X, D \ {a}, g), z)
    <3>1. CASE k = 0
      BY <3>1
    <3>2. CASE k # 0
      <4>1. Cardinality(D) \in Nat
        BY Subsets
      <4>2. Cardinality(D) >= 2
        BY <2>1, <3>2, <4>1
      <4>3. ASSUME NEW a \in D PROVE Cong(Weighted(x, X, D \ {a}, g), z)
        <5>1. D \ {a} \in SUBSET X /\ Cardinality(D \ {a}) = Cardinality(D) - 1
          BY Subsets
        <5>2. Cardinality(D \ {a}) >= k /\ D \ {a} # {}
          <6> DEFINE m == Cardinality(D)
                     l == Cardinality(D \ {a})
          <6>0. m \in Nat /\ m >= k + 1 /\ m >= 2 /\ l = m - 1
            BY <2>1, <4>1, <4>2, <5>1
          <6>1. l >= k /\ l # 0
            <7> HIDE DEF m, l
            <7>1. QED
              BY <6>0
          <6>2. QED
            BY <5>1, <6>1, Subsets
        <5>3. k <= n
          BY <2>1
        <5>4. QED
          BY <1>2, <5>1, <5>2, <5>3
      <4>4. QED
        BY <4>2, <4>3
    <3>3. QED
      BY <3>1, <3>2
  <2> HIDE DEF f, g, d, z, S
  <2>6. Cong(Weighted(x, X, D, f), d)
    <3>1. Follows(x, X, D, f, g, d, z)
      BY <2>4, <2>5, Zenon DEF Follows
    <3>2. QED
      BY <2>1, <2>3, <3>1, HornerStep, Zenon
  <2>7. QED
    BY <2>6 DEF f, d
<1>3. \A k \in Nat : k \in S
  <2> HIDE DEF S
  <2>1. QED
    BY <1>1, <1>2, NatInductionOnSet
<1>4. QED
  <2>1. ASSUME NEW k \in 0 .. n PROVE k \in S /\ k <= n
    <3> HIDE DEF S
    <3>1. QED
      BY <1>3
  <2>2. QED
    BY <2>1 DEF Exact

-----------------------------------------------------------------------------
(* The evaluation of a polynomial, coefficient by coefficient. *)

EvalOver(cs, x, g) ==
  g = [s \in SUBSET (DOMAIN cs) |-> IF s = {} THEN 0 ELSE (g[s \ {Min(s)}] * x + cs[Min(s)]) % PRIME]
Evals(cs, x) == CHOOSE g : EvalOver(cs, x, g)

\* The value of the polynomial of the last k of n coefficients.
Horner(cs, n, x, k) == Evals(cs, x)[(n - k + 1) .. n]

LEMMA EvalIsLast == ASSUME NEW cs, NEW x PROVE eval_poly(cs, x) = Evals(cs, x)[DOMAIN cs]
BY DEF eval_poly, FoldRight, MapThenFoldSet, Evals, EvalOver

LEMMA NotLess == ASSUME NEW a \in Nat, NEW b \in Nat, ~(a < b) PROVE b <= a
OBVIOUS

LEMMA MinOfInts ==
  ASSUME NEW n \in Nat, NEW s \in SUBSET (1 .. n), s # {}
  PROVE  Min(s) \in s /\ \A y \in s : Min(s) <= y
<1>1. PICK m \in s : \A y \in s : ~(<<y, m>> \in OpToRel(<, Nat))
  <2>1. s \subseteq Nat
    OBVIOUS
  <2>2. QED
    BY <2>1, NatLessThanWellFounded, WFMin
<1>2. \A y \in s : y \in Nat
  OBVIOUS
<1>3. \A y \in s : m <= y
  <2>1. SUFFICES ASSUME NEW y \in s PROVE m <= y
    OBVIOUS
  <2>2. y \in Nat /\ m \in Nat /\ ~(<<y, m>> \in OpToRel(<, Nat))
    BY <1>1, <1>2
  <2>3. ~(y < m)
    BY <2>2 DEF OpToRel
  <2>4. QED
    BY <2>2, <2>3, NotLess, Zenon
<1>4. QED
  BY <1>3 DEF Min

EvalStep(x) == [y \in Int \X Field |-> (y[2] * x + y[1]) % PRIME]

LEMMA EvalStepFacts ==
  ASSUME NEW x \in Int
  PROVE  /\ EvalStep(x) \in [Int \X Field -> Field]
         /\ \A a \in Int : \A v \in Field : EvalStep(x)[<<a, v>>] = (v * x + a) % PRIME
<1>1. \A a \in Int : \A v \in Field : EvalStep(x)[<<a, v>>] = (v * x + a) % PRIME
  BY DEF EvalStep
<1>2. ASSUME NEW y \in Int \X Field PROVE (y[2] * x + y[1]) % PRIME \in Field
  <2> DEFINE t == y[2] * x + y[1]
             a == y[1]
             v == y[2]
  <2>1. a \in Int /\ v \in Int
    BY FieldIsInt
  <2> HIDE DEF a, v
  <2>2. v * x + a \in Int
    BY <2>1
  <2>3. t \in Int
    BY <2>2 DEF a, v
  <2> HIDE DEF t
  <2>4. t % PRIME \in Field
    BY <2>3, ModIsField
  <2>5. QED
    BY <2>4 DEF t
<1>3. QED
  BY <1>1, <1>2 DEF EvalStep

EvalFits(cs, n, x) ==
  /\ \A k \in 0 .. n : Horner(cs, n, x, k) \in Field
  /\ Horner(cs, n, x, 0) = 0
  /\ \A k \in 1 .. n : Horner(cs, n, x, k) = (Horner(cs, n, x, k - 1) * x + cs[n - k + 1]) % PRIME
  /\ Horner(cs, n, x, n) = eval_poly(cs, x)

LEMMA EvalSteps ==
  ASSUME NEW n \in Nat, NEW cs \in [1 .. n -> Int], NEW x \in Int
  PROVE  EvalFits(cs, n, x)
<1> DEFINE D == 1 .. n
           p == [s \in SUBSET D |-> Min(s)]
           G == EvalStep(x)
           g == Evals(cs, x)
<1>1. IsFiniteSet(D) /\ cs \in [D -> Int] /\ DOMAIN cs = D
  BY FS_Interval
<1>2. \A s \in SUBSET D : s # {} => p[s] \in s /\ p[s] = Min(s)
  BY MinOfInts
<1>3. G \in [Int \X Field -> Field] /\ 0 \in Field
  BY EvalStepFacts, FieldIsInt
<1>4. \E h \in [SUBSET D -> Field] : EvalOver(cs, x, h)
  <2>1. PICK h \in [SUBSET D -> Field] : Folds(G, 0, cs, D, p, h)
    <3> HIDE DEF D, p, G
    <3>1. QED
      BY <1>1, <1>2, <1>3, FoldExists
  <2>2. \A s \in SUBSET D : s # {} => cs[Min(s)] \in Int /\ h[s \ {Min(s)}] \in Field
    <3> HIDE DEF p, G
    <3>1. QED
      BY <1>1, <1>2
  <2>3. ASSUME NEW s \in SUBSET D
        PROVE  h[s] = IF s = {} THEN 0 ELSE (h[s \ {Min(s)}] * x + cs[Min(s)]) % PRIME
    <3>1. h[s] = IF s = {} THEN 0 ELSE G[<<cs[p[s]], h[s \ {p[s]}]>>]
      BY <2>1, Zenon DEF Folds
    <3> HIDE DEF p
    <3>2. CASE s # {}
      <4>1. h[s] = G[<<cs[Min(s)], h[s \ {Min(s)}]>>]
        BY <1>2, <3>1, <3>2
      <4>2. G[<<cs[Min(s)], h[s \ {Min(s)}]>>] = (h[s \ {Min(s)}] * x + cs[Min(s)]) % PRIME
        BY <2>2, <3>2, EvalStepFacts
      <4>3. QED
        BY <3>2, <4>1, <4>2
    <3>3. QED
      BY <3>1, <3>2
  <2>4. EvalOver(cs, x, h)
    <3> HIDE DEF D
    <3>1. h = [s \in SUBSET D |-> h[s]]
      OBVIOUS
    <3>2. QED
      BY <1>1, <2>3, <3>1 DEF EvalOver
  <2>5. QED
    BY <2>4
<1>5. EvalOver(cs, x, g)
  BY <1>4 DEF Evals
<1> HIDE DEF g, p, G
<1>6. /\ \A s \in SUBSET D : s # {} => g[s] = (g[s \ {Min(s)}] * x + cs[Min(s)]) % PRIME
      /\ g[{}] = 0
  BY <1>1, <1>5 DEF EvalOver
<1> DEFINE top(k) == (n - k + 1) .. n
<1>7. \A k \in 1 .. n : /\ top(k) \in SUBSET D /\ top(k) # {} /\ n - k + 1 \in D
                        /\ Min(top(k)) = n - k + 1 /\ top(k) \ {Min(top(k))} = top(k - 1)
  <2>1. TAKE k \in 1 .. n
  <2>2. top(k) \in SUBSET D /\ n - k + 1 \in top(k) /\ (\A y \in top(k) : n - k + 1 <= y) /\ n - k + 1 \in D
    OBVIOUS
  <2>3. top(k) \ {n - k + 1} = top(k - 1)
    OBVIOUS
  <2> DEFINE t == top(k)
             m == n - k + 1
  <2>4. t \in SUBSET D /\ m \in t /\ (\A y \in t : m <= y) /\ m \in Int /\ t # {} /\ \A y \in t : y \in Int
    BY <2>2
  <2> HIDE DEF t, m, top
  <2>5. Min(t) \in t /\ \A y \in t : Min(t) <= y
    BY <2>4, MinOfInts
  <2>6. Min(t) = m
    <3> DEFINE q == Min(t)
    <3>1. q \in Int /\ q <= m /\ m <= q
      BY <2>4, <2>5
    <3> HIDE DEF q
    <3>2. q = m
      BY <2>4, <3>1
    <3>3. QED
      BY <3>2 DEF q
  <2>7. QED
    BY <2>2, <2>3, <2>4, <2>6 DEF t, m
<1>8. top(0) = {}
  OBVIOUS
<1>9. top(n) = D
  OBVIOUS
<1> DEFINE h(k) == Horner(cs, n, x, k)
<1>10. \A k \in 0 .. n : h(k) = g[top(k)]
  BY DEF Horner, g
<1> HIDE DEF D, top, h
<1>11. h(0) = 0
  BY <1>6, <1>8, <1>10
<1>12. \A k \in 1 .. n : h(k) = (h(k - 1) * x + cs[n - k + 1]) % PRIME
  <2>1. TAKE k \in 1 .. n
  <2>2. k \in 0 .. n /\ k - 1 \in 0 .. n
    OBVIOUS
  <2>3. g[top(k)] = (g[top(k) \ {Min(top(k))}] * x + cs[Min(top(k))]) % PRIME
    BY <1>6, <1>7, Zenon
  <2>4. QED
    BY <1>7, <1>10, <2>2, <2>3
<1>13. \A k \in 0 .. n : h(k) \in Field
  <2> DEFINE S == {k \in Nat : k <= n => h(k) \in Field}
  <2>1. 0 \in S
    BY <1>11, FieldIsInt
  <2>2. ASSUME NEW k \in Nat, k \in S PROVE k + 1 \in S
    <3>1. SUFFICES ASSUME k + 1 <= n PROVE h(k + 1) \in Field
      OBVIOUS
    <3>2. k + 1 \in 1 .. n /\ (k + 1) - 1 = k /\ h(k) \in Field
      BY <2>2, <3>1
    <3> DEFINE t == h(k) * x + cs[n - (k + 1) + 1]
    <3>3. h(k) \in Int /\ cs[n - (k + 1) + 1] \in Int
      <4>1. n - (k + 1) + 1 \in 1 .. n
        BY <3>2
      <4>2. QED
        BY <3>2, <4>1, FieldIsInt
    <3>4. t \in Int
      BY <3>3
    <3>5. h(k + 1) = t % PRIME
      BY <1>12, <3>2
    <3> HIDE DEF t
    <3>6. QED
      BY <3>4, <3>5, ModIsField
  <2>3. \A k \in Nat : k \in S
    <3> HIDE DEF S
    <3>1. QED
      BY <2>1, <2>2, NatInductionOnSet
  <2>4. QED
    BY <2>3
<1>14. h(n) = eval_poly(cs, x)
  <2>1. n \in 0 .. n
    OBVIOUS
  <2>2. eval_poly(cs, x) = g[D]
    BY <1>1, EvalIsLast DEF g
  <2>3. QED
    BY <1>9, <1>10, <2>1, <2>2
<1>15. QED
  BY <1>11, <1>12, <1>13, <1>14 DEF h, EvalFits

-----------------------------------------------------------------------------
(* The state: what was dealt stays, and what was rebuilt came from K shares. *)

Kept ==
  /\ byte \in Bytes /\ coeffs \in Polynomials(byte) /\ shares = Dealt(coeffs)
  /\ handed \in Seq(Indices) /\ Len(handed) <= K
  /\ secret # NotYet => Len(handed) = K /\ secret = Rebuilt(handed, shares)

LEMMA KeptInitially == SharingInit => Kept
<1> SUFFICES ASSUME SharingInit PROVE Kept
  OBVIOUS
<1>1. <<>> \in Seq(Indices) /\ Len(<<>>) = 0 /\ 0 <= K
  BY ShamirAssumption
<1>2. QED
  BY <1>1 DEF SharingInit, Kept

LEMMA KeptByEveryStep == Kept /\ [SharingNext]_sharing => Kept'
<1> SUFFICES ASSUME Kept, [SharingNext]_sharing PROVE Kept'
  OBVIOUS
<1>0. K \in Nat
  BY ShamirAssumption
<1>1. ASSUME NEW i \in Indices, HandIn(i) PROVE Kept'
  <2>1. handed' \in Seq(Indices) /\ Len(handed') = Len(handed) + 1 /\ Len(handed) \in Nat
    BY <1>1 DEF HandIn, Kept
  <2>2. secret = NotYet /\ Len(handed') <= K
    BY <1>0, <1>1, <2>1 DEF HandIn, Kept
  <2>3. QED
    BY <1>1, <2>1, <2>2 DEF HandIn, Kept
<1>2. CASE reconstruct_secret
  BY <1>2 DEF reconstruct_secret, Kept
<1>3. CASE UNCHANGED sharing
  BY <1>3 DEF sharing, Kept
<1>4. QED
  BY <1>1, <1>2, <1>3 DEF SharingNext

\* The stored shares stay the values of the polynomial that was drawn, K or
\* fewer of them are handed in, and what was rebuilt came from K of them.
THEOREM SharesAreKept == SharingSpec => []Kept
<1>1. QED
  BY KeptInitially, KeptByEveryStep, PTL DEF SharingSpec

-----------------------------------------------------------------------------
(* What the interpolation of the code is made of. *)

Positions == 1 .. K

LEMMA PositionsFacts == IsFiniteSet(Positions) /\ Cardinality(Positions) = K /\ K \in Nat /\ K >= 1
BY ShamirAssumption, PrimeIsPositive, FS_Interval DEF Positions

\* A summand of the code is a share times its weight.
LEMMA TermIsWeighted ==
  ASSUME NEW X, IsFiniteSet(X), NEW xs \in [X -> Int], Apart(xs, X), NEW ys \in [X -> Int], NEW i \in X
  PROVE  Term(xs, ys, i) \in Int /\ Cong(Term(xs, ys, i), ys[i] * Weight(xs, X, X, i))
<1> DEFINE R == X \ {i}
           n == [j \in X |-> (0 - xs[j]) % PRIME]
           d == [j \in X |-> (xs[i] - xs[j]) % PRIME]
           m == [j \in R |-> (0 - xs[j]) % PRIME]
           e == [j \in R |-> (xs[i] - xs[j]) % PRIME]
<1>1. n \in [X -> Int] /\ d \in [X -> Int] /\ m \in [R -> Int] /\ e \in [R -> Int]
  <2>1. \A j \in X : 0 - xs[j] \in Int /\ xs[i] - xs[j] \in Int
    OBVIOUS
  <2>2. \A k \in Int : k % PRIME \in Int
    BY ModIsField, FieldIsInt
  <2>3. \A j \in X : (0 - xs[j]) % PRIME \in Int /\ (xs[i] - xs[j]) % PRIME \in Int
    BY <2>1, <2>2
  <2>4. QED
    BY <2>3
<1>2. (\A j \in R : m[j] = n[j] /\ e[j] = d[j]) /\ R \in SUBSET X
  OBVIOUS
<1>3. Num(xs, X, X, i) = Products(n, X)[R] /\ Den(xs, X, X, i) = Products(d, X)[R]
  BY DEF Num, Den
<1>4. Term(xs, ys, i) = (ys[i] * Product(m) * Reciprocal(Product(e))) % PRIME
  BY DEF Term
<1> HIDE DEF n, d, m, e, R
<1>5. Product(m) = Num(xs, X, X, i) /\ Product(e) = Den(xs, X, X, i)
  BY <1>1, <1>2, <1>3, ProductOfPart
<1> DEFINE y == ys[i]
           u == Num(xs, X, X, i)
           r == Reciprocal(Den(xs, X, X, i))
<1>6. u \in Int /\ r \in Int /\ y \in Int
  BY WeightTypes
<1>7. Term(xs, ys, i) = (y * u * r) % PRIME /\ Weight(xs, X, X, i) = u * r
  BY <1>4, <1>5 DEF Weight
<1> HIDE DEF y, u, r
<1> DEFINE t == y * (u * r)
<1>8. t \in Int /\ y * u * r = t
  BY <1>6
<1>9. Term(xs, ys, i) = t % PRIME
  BY <1>7, <1>8
<1> HIDE DEF t
<1>10. Term(xs, ys, i) \in Int /\ Cong(Term(xs, ys, i), t)
  BY <1>8, <1>9, ModIsField, FieldIsInt
<1>11. QED
  BY <1>7, <1>10 DEF t, y

LEMMA InterpolationIsWeighted ==
  ASSUME NEW X, IsFiniteSet(X), NEW xs \in [X -> Int], Apart(xs, X), NEW ys \in [X -> Int]
  PROVE  /\ lagrange_interpolate(xs, ys) \in Field
         /\ Cong(lagrange_interpolate(xs, ys), Weighted(xs, X, X, ys))
<1> DEFINE T == [i \in X |-> Term(xs, ys, i)]
           W == [i \in X |-> ys[i] * Weight(xs, X, X, i)]
<1>1. \A i \in X : Term(xs, ys, i) \in Int /\ Cong(Term(xs, ys, i), ys[i] * Weight(xs, X, X, i))
  BY TermIsWeighted
<1>2. \A i \in X : ys[i] \in Int /\ Weight(xs, X, X, i) \in Int
  BY WeightTypes
<1>3. T \in [X -> Int] /\ W \in [X -> Int] /\ \A i \in X : Cong(T[i], W[i])
  <2>1. \A i \in X : ys[i] * Weight(xs, X, X, i) \in Int
    BY <1>2, IntOps
  <2>2. QED
    BY <1>1, <2>1
<1>4. lagrange_interpolate(xs, ys) = Total(T) /\ Weighted(xs, X, X, ys) = Sums(W, X)[X]
  <2>1. DOMAIN xs = X
    OBVIOUS
  <2>2. QED
    BY <2>1 DEF lagrange_interpolate, Weighted
<1> HIDE DEF T, W
<1>5. Total(T) = Sums(T, X)[X]
  BY <1>3, SumIsLast
<1>6. X \in SUBSET X /\ 0 \in Int /\ 1 \in Int
  OBVIOUS
<1> DEFINE ST == Sums(T, X)[X]
           SW == Sums(W, X)[X]
<1>7. ST \in Field /\ ST \in Int /\ SW \in Int
  <2>1. SumLike(T, X, Sums(T, X)) /\ SumLike(W, X, Sums(W, X))
    BY <1>3, SumSteps
  <2>2. QED
    BY <1>6, <2>1 DEF SumLike
<1>8. Cong(1 * ST, 1 * SW + 0 * SW)
  <2>1. \A i \in X : Cong(1 * T[i], 1 * W[i] + 0 * W[i])
    <3>1. TAKE i \in X
    <3>2. T[i] \in Int /\ W[i] \in Int
      BY <1>3
    <3>3. 1 * T[i] = T[i] /\ 1 * W[i] + 0 * W[i] = W[i]
      BY <3>2
    <3>4. QED
      BY <1>3, <3>3
  <2>2. QED
    BY <1>3, <1>6, <2>1, SumCombines, Zenon
<1> HIDE DEF ST, SW
<1>9. 1 * ST = ST /\ 1 * SW + 0 * SW = SW
  BY <1>7
<1>10. Cong(ST, SW)
  BY <1>8, <1>9
<1>11. QED
  BY <1>4, <1>5, <1>7, <1>10 DEF ST, SW

\* What split_secret draws for a byte.
LEMMA PolynomialFacts ==
  ASSUME NEW b \in Bytes, NEW cs \in Polynomials(b)
  PROVE  cs \in [Positions -> Field] /\ cs \in [1 .. K -> Int] /\ cs[1] = b /\ b \in Field /\ Len(cs) = K
<1>0. K \in Nat /\ K >= 1 /\ b \in Field /\ K - 1 \in Nat
  BY ShamirAssumption, PrimeIsPositive DEF Bytes, Field
<1>1. PICK rest \in [1 .. K - 1 -> Field] : cs = <<b>> \o rest
  BY DEF Polynomials
<1>2. rest \in Seq(Field) /\ Len(rest) = K - 1
  BY <1>0, <1>1
<1>3. cs \in Seq(Field) /\ Len(cs) = K /\ cs[1] = b
  BY <1>0, <1>1, <1>2
<1>4. cs \in [1 .. K -> Field]
  BY <1>3
<1>5. cs \in [1 .. K -> Int]
  BY <1>4, FieldIsInt
<1>6. QED
  BY <1>0, <1>3, <1>4, <1>5 DEF Positions

\* What is dealt: the values themselves, for two bytes hold every one of them.
LEMMA DealtFacts ==
  ASSUME NEW b \in Bytes, NEW cs \in Polynomials(b), NEW i \in Indices
  PROVE  Dealt(cs)[i] = eval_poly(cs, i) /\ eval_poly(cs, i) \in Field
<1>1. K \in Nat /\ i \in Int /\ cs \in [1 .. K -> Int]
  BY PositionsFacts, PolynomialFacts DEF Indices
<1>2. EvalFits(cs, K, i)
  BY <1>1, EvalSteps
<1>3. eval_poly(cs, i) \in Field
  BY <1>1, <1>2 DEF EvalFits
<1> DEFINE v == eval_poly(cs, i)
<1> HIDE DEF v
<1>4. v \in Field => v % (256 * 256) = v
  BY ShamirAssumption, PrimeIsPositive DEF Field
<1>5. Packed(v) = v
  BY <1>3, <1>4 DEF Packed, v
<1>6. QED
  BY <1>3, <1>5 DEF Dealt, v

\* The positions of the shares handed in, and the nodes they stand for.
LEMMA HandedFacts ==
  ASSUME Kept, Len(handed) = K
  PROVE  /\ handed \in [Positions -> Indices] /\ handed \in [Positions -> Int] /\ DOMAIN handed = Positions
         /\ \A i, j \in Positions : handed[i] # handed[j] => ~Cong(handed[i] - handed[j], 0)
         /\ [p \in DOMAIN handed |-> shares[handed[p]]] \in [Positions -> Int]
<1>1. handed \in [Positions -> Indices] /\ DOMAIN handed = Positions
  BY DEF Kept, Positions
<1>2. Indices \subseteq Int /\ Indices \subseteq Field
  BY PrimeIsPositive, MorePrimeFacts DEF Indices, Field
<1>3. \A i, j \in Positions : handed[i] # handed[j] => ~Cong(handed[i] - handed[j], 0)
  <2>1. SUFFICES ASSUME NEW i \in Positions, NEW j \in Positions, Cong(handed[i] - handed[j], 0)
                 PROVE  handed[i] = handed[j]
    OBVIOUS
  <2> DEFINE a == handed[i]
             b == handed[j]
  <2>2. a \in Field /\ b \in Field /\ a \in Int /\ b \in Int
    BY <1>1, <1>2
  <2> HIDE DEF a, b
  <2>3. PICK q \in Int : (a - b) - 0 = PRIME * q
    BY <2>1 DEF Cong, a, b
  <2>4. a - b = PRIME * q
    BY <2>2, <2>3
  <2>5. Cong(a, b)
    BY <2>4 DEF Cong
  <2>6. QED
    BY <2>2, <2>5, CongIsEqual DEF a, b
<1>4. \A i \in Indices : shares[i] \in Int
  <2>1. TAKE i \in Indices
  <2>2. Dealt(coeffs)[i] = eval_poly(coeffs, i) /\ eval_poly(coeffs, i) \in Field
    BY DealtFacts DEF Kept
  <2>3. QED
    BY <2>2, FieldIsInt DEF Kept
<1>5. QED
  BY <1>1, <1>2, <1>3, <1>4

\* Any K different shares give the byte back, for every prime, every N and K,
\* every polynomial and every order of the votes.
LEMMA KeptRecovers == Kept => AnyKRecover
<1> SUFFICES ASSUME Kept, secret # NotYet, Distinct(handed) PROVE secret = byte
  BY DEF AnyKRecover
<1>1. Len(handed) = K /\ secret = Rebuilt(handed, shares)
  BY DEF Kept
<1> DEFINE X == Positions
           ys == [p \in DOMAIN handed |-> shares[handed[p]]]
           c == [k \in 0 .. K |-> IF k = 0 THEN 0 ELSE coeffs[K - k + 1]]
           H == [k \in 0 .. K |-> [p \in X |-> Horner(coeffs, K, handed[p], k)]]
<1>2. /\ handed \in [X -> Indices] /\ handed \in [X -> Int] /\ DOMAIN handed = X /\ ys \in [X -> Int]
      /\ \A i, j \in X : handed[i] # handed[j] => ~Cong(handed[i] - handed[j], 0)
  BY <1>1, HandedFacts
<1>3. Apart(handed, X)
  BY <1>2 DEF Apart, Distinct, IsInjective
<1>4. K \in Nat /\ K >= 1 /\ IsFiniteSet(X) /\ Cardinality(X) = K
  BY PositionsFacts
<1>5. byte \in Bytes /\ coeffs \in [1 .. K -> Int] /\ coeffs[1] = byte /\ byte \in Field
  BY PolynomialFacts DEF Kept
<1>6. \A p \in X : EvalFits(coeffs, K, handed[p])
  BY <1>2, <1>4, <1>5, EvalSteps
<1>7. /\ c \in [0 .. K -> Int] /\ c[0] = 0 /\ c[K] = byte
      /\ \A k \in 1 .. K : c[k] = coeffs[K - k + 1]
  <2>1. \A k \in 1 .. K : K - k + 1 \in 1 .. K
    BY <1>4
  <2>2. \A k \in 1 .. K : coeffs[K - k + 1] \in Int
    BY <1>5, <2>1
  <2>3. c \in [0 .. K -> Int]
    BY <1>4, <2>2
  <2>4. 0 \in 0 .. K /\ K \in 0 .. K /\ K # 0 /\ K - K + 1 = 1
    BY <1>4
  <2>5. QED
    BY <1>4, <1>5, <2>3, <2>4
<1>8. /\ H \in [0 .. K -> [X -> Int]]
      /\ \A p \in X : H[0][p] = 0 /\ H[K][p] = eval_poly(coeffs, handed[p])
  <2>1. \A k \in 0 .. K : \A p \in X : Horner(coeffs, K, handed[p], k) \in Int
    BY <1>6, FieldIsInt DEF EvalFits
  <2>2. \A k \in 0 .. K : [p \in X |-> Horner(coeffs, K, handed[p], k)] \in [X -> Int]
    BY <2>1
  <2>3. 0 \in 0 .. K /\ K \in 0 .. K
    BY <1>4
  <2>4. QED
    BY <1>6, <2>2, <2>3 DEF EvalFits
<1>9. \A k \in 1 .. K : \A p \in X : Cong(H[k][p], c[k] + handed[p] * H[k - 1][p])
  <2>1. TAKE k \in 1 .. K
  <2>2. TAKE p \in X
  <2>3. k \in 0 .. K /\ k - 1 \in 0 .. K
    BY <1>4
  <2> DEFINE a == Horner(coeffs, K, handed[p], k)
             b == Horner(coeffs, K, handed[p], k - 1)
             x == handed[p]
             d == c[k]
             t == b * x + d
  <2>4. H[k][p] = a /\ H[k - 1][p] = b
    BY <2>3
  <2>5. a = t % PRIME
    BY <1>6, <1>7 DEF EvalFits
  <2>6. b \in Int /\ x \in Int /\ d \in Int
    <3>1. b \in Field
      BY <1>6, <2>3 DEF EvalFits
    <3> HIDE DEF c
    <3>2. d \in Int /\ x \in Int
      BY <1>2, <1>7, <2>3
    <3>3. QED
      BY <3>1, <3>2, FieldIsInt
  <2> HIDE DEF a, b, x, d, H, c
  <2>7. t \in Int /\ t = d + x * b
    BY <2>6
  <2> HIDE DEF t
  <2>8. Cong(a, d + x * b)
    BY <2>5, <2>7, ModIsField
  <2>9. QED
    BY <2>4, <2>8 DEF x, d
<1>10. ys = H[K]
  <2>1. \A p \in X : shares[handed[p]] = eval_poly(coeffs, handed[p])
    BY <1>2, DealtFacts DEF Kept
  <2>2. K \in 0 .. K
    BY <1>4
  <2>3. H[K] = [p \in X |-> Horner(coeffs, K, handed[p], K)]
    BY <2>2
  <2>4. \A p \in X : ys[p] = H[K][p]
    BY <1>2, <1>8, <2>1
  <2> HIDE DEF H
  <2>5. ys \in [X -> Int] /\ H[K] \in [X -> Int]
    BY <1>2, <1>8, <2>2
  <2> HIDE DEF ys
  <2>6. QED
    BY <2>4, <2>5
<1> HIDE DEF c, H, X, ys
<1> DEFINE l == lagrange_interpolate(handed, ys)
           w == Weighted(handed, X, X, ys)
<1>11. Cong(w, byte)
  <2>0. \A p \in X : H[0][p] = 0
    BY <1>8
  <2>1. Exact(handed, X, K, c, H)
    BY <1>2, <1>3, <1>4, <1>7, <1>8, <1>9, <2>0, InterpolationIsExact, Zenon
  <2>2. X \in SUBSET X /\ X # {} /\ K \in 0 .. K /\ Cardinality(X) >= K
    BY <1>4, FS_EmptySet
  <2>3. Cong(Weighted(handed, X, X, H[K]), c[K])
    BY <2>1, <2>2 DEF Exact
  <2>4. QED
    BY <1>7, <1>10, <2>3
<1>12. l \in Field /\ Cong(l, w) /\ w \in Int
  BY <1>2, <1>3, <1>4, InterpolationIsWeighted, WeightedType
<1>13. Rebuilt(handed, shares) = AsByte(l)
  BY DEF Rebuilt, ys
<1> HIDE DEF l, w
<1>14. l = byte
  <2>1. l \in Int /\ byte \in Int
    BY <1>5, <1>12, FieldIsInt
  <2>2. Cong(l, byte)
    BY <1>11, <1>12, <2>1, CongTrans
  <2>3. QED
    BY <1>5, <1>12, <2>2, CongIsEqual
<1>15. AsByte(byte) = byte
  BY <1>5, PrimeIsPositive DEF AsByte, Bytes
<1>16. QED
  BY <1>1, <1>13, <1>14, <1>15

\* reconstruct_secret gives the byte that split_secret was given, whichever K
\* different shares the custodians' votes bring and in whatever order.
THEOREM AnyKSharesRecover == SharingSpec => []AnyKRecover
<1>1. QED
  BY SharesAreKept, KeptRecovers, PTL

\* The reciprocal that the code computes of 0 is 0.
LEMMA ReciprocalOfZero == PRIME > 2 => Reciprocal(0) = 0
<1>1. SUFFICES ASSUME PRIME > 2 PROVE Reciprocal(0) = 0
  OBVIOUS
<1> DEFINE L == 1 .. PRIME - 2
           f == [i \in L |-> 0]
<1>2. IsFiniteSet(L) /\ 1 \in L /\ f \in [L -> Int] /\ f[1] = 0
  BY <1>1, PrimeIsPositive, FS_Interval
<1>3. Reciprocal(0) = Product(f)
  BY DEF Reciprocal
<1> HIDE DEF L, f
<1>4. QED
  BY <1>2, <1>3, ProductWithZero

LEMMA KeptDropsRepeats == Kept => RepeatsDropOut
<1> SUFFICES ASSUME Kept, secret # NotYet, NEW i \in DOMAIN handed, NEW j \in DOMAIN handed,
                    i # j, handed[i] = handed[j], NEW v \in Field
             PROVE  Rebuilt(handed, [shares EXCEPT ![handed[i]] = v]) = secret
  BY DEF RepeatsDropOut
<1>1. Len(handed) = K /\ secret = Rebuilt(handed, shares)
  BY DEF Kept
<1> DEFINE x == handed[i]
           other == [shares EXCEPT ![x] = v]
           ys == [p \in DOMAIN handed |-> shares[handed[p]]]
           zs == [p \in DOMAIN handed |-> other[handed[p]]]
<1>2. /\ handed \in [Positions -> Indices] /\ handed \in [Positions -> Int] /\ DOMAIN handed = Positions
      /\ ys \in [Positions -> Int]
  BY <1>1, HandedFacts
<1>3. PRIME > 2
  <2>1. i \in 1 .. K /\ j \in 1 .. K
    BY <1>2 DEF Positions
  <2>2. K >= 2
    BY <2>1, PositionsFacts
  <2>3. QED
    BY <2>2, ShamirAssumption, PrimeIsPositive
<1>4. zs \in [Positions -> Int] /\ \A p \in Positions : handed[p] # x => zs[p] = ys[p]
  <2>1. DOMAIN shares = Indices
    BY DEF Kept, Dealt
  <2>2. \A p \in Positions : zs[p] = IF handed[p] = x THEN v ELSE ys[p]
    BY <1>2, <2>1
  <2>3. v \in Int /\ \A p \in Positions : ys[p] \in Int
    BY <1>2, FieldIsInt
  <2> HIDE DEF other, ys
  <2>4. \A p \in Positions : zs[p] \in Int
    <3> HIDE DEF zs
    <3>1. QED
      BY <2>2, <2>3
  <2>5. zs = [p \in Positions |-> zs[p]]
    BY <1>2
  <2> HIDE DEF zs
  <2>6. QED
    BY <2>2, <2>4, <2>5
<1> HIDE DEF ys, zs, other
<1>5. ASSUME NEW p \in Positions, handed[p] = x, NEW us \in [Positions -> Int] PROVE Term(handed, us, p) = 0
  <2> DEFINE R == DOMAIN handed \ {p}
             n == [q \in R |-> (0 - handed[q]) % PRIME]
             d == [q \in R |-> (handed[p] - handed[q]) % PRIME]
  <2>1. PICK r \in R : handed[r] = x
    <3>1. i \in R \/ j \in R
      OBVIOUS
    <3>2. QED
      BY <3>1
  <2>2. IsFiniteSet(R) /\ R \subseteq Positions
    BY <1>2, PositionsFacts, FS_Subset
  <2>3. n \in [R -> Int] /\ d \in [R -> Int]
    <3>1. \A q \in R : 0 - handed[q] \in Int /\ handed[p] - handed[q] \in Int
      BY <1>2, <2>2
    <3>2. \A k \in Int : k % PRIME \in Int
      BY ModIsField, FieldIsInt
    <3>3. \A q \in R : (0 - handed[q]) % PRIME \in Int /\ (handed[p] - handed[q]) % PRIME \in Int
      BY <3>1, <3>2
    <3>4. QED
      BY <3>3
  <2>4. d[r] = 0
    <3>1. handed[p] - handed[r] = 0
      BY <1>2, <1>5, <2>1, <2>2
    <3>2. 0 % PRIME = 0
      BY PrimeIsPositive, CongMod DEF Field
    <3>3. d[r] = (handed[p] - handed[r]) % PRIME
      OBVIOUS
    <3>4. QED
      BY <3>1, <3>2, <3>3
  <2>5. Term(handed, us, p) = (us[p] * Product(n) * Reciprocal(Product(d))) % PRIME
    BY DEF Term
  <2> HIDE DEF R, n, d
  <2>6. Reciprocal(Product(d)) = 0
    <3>1. Product(d) = 0
      BY <2>2, <2>3, <2>4, ProductWithZero
    <3>2. QED
      BY <1>3, <3>1, ReciprocalOfZero
  <2>7. Product(n) \in Int /\ us[p] \in Int
    <3>1. Product(n) = Products(n, R)[R] /\ ProductLike(n, R, Products(n, R))
      BY <2>2, <2>3, ProductIsLast, ProductSteps
    <3>2. R \in SUBSET R
      OBVIOUS
    <3>3. QED
      BY <3>1, <3>2 DEF ProductLike
  <2> DEFINE m == us[p] * Product(n)
  <2>8. m \in Int
    BY <2>7, IntOps
  <2> HIDE DEF m
  <2>9. m * 0 = 0 /\ 0 % PRIME = 0
    BY <2>8, PrimeIsPositive, CongMod DEF Field
  <2>10. QED
    BY <2>5, <2>6, <2>9 DEF m
<1>6. \A p \in Positions : Term(handed, ys, p) = Term(handed, zs, p)
  <2>1. TAKE p \in Positions
  <2>2. CASE handed[p] = x
    BY <1>2, <1>4, <1>5, <2>2
  <2>3. CASE handed[p] # x
    <3>1. ys[p] = zs[p]
      BY <1>4, <2>3
    <3>2. QED
      BY <3>1 DEF Term
  <2>4. QED
    BY <2>2, <2>3
<1>7. [p \in Positions |-> Term(handed, ys, p)] = [p \in Positions |-> Term(handed, zs, p)]
  BY <1>6
<1>8. lagrange_interpolate(handed, ys) = lagrange_interpolate(handed, zs)
  <2>1. DOMAIN handed = Positions
    BY <1>2 DEF Positions
  <2> HIDE DEF ys, zs
  <2>2. lagrange_interpolate(handed, ys) = Total([p \in Positions |-> Term(handed, ys, p)])
    BY <2>1, Zenon DEF lagrange_interpolate
  <2>3. lagrange_interpolate(handed, zs) = Total([p \in Positions |-> Term(handed, zs, p)])
    BY <2>1, Zenon DEF lagrange_interpolate
  <2>4. QED
    BY <1>7, <2>2, <2>3, Zenon
<1>9. /\ Rebuilt(handed, shares) = AsByte(lagrange_interpolate(handed, ys))
      /\ Rebuilt(handed, other) = AsByte(lagrange_interpolate(handed, zs))
  BY DEF Rebuilt, ys, zs
<1>10. QED
  BY <1>1, <1>8, <1>9 DEF other

\* Two custodians with the same share index: what the code rebuilds does not
\* depend on that share at all, since the reciprocal of 0 comes out as 0.
THEOREM RepeatsCountForNothing == SharingSpec => []RepeatsDropOut
<1>1. QED
  BY SharesAreKept, KeptDropsRepeats, PTL

-----------------------------------------------------------------------------
(* A polynomial of n coefficients through any n points. *)

\* The coefficients of v + (x - a) * g(x), for the polynomial g of n.
Shifted(g, n, k) == IF k \in 1 .. n THEN g[k] ELSE 0
Lifted(v, a, g, n) ==
  [k \in 1 .. n + 1 |->
     ((IF k = 1 THEN v ELSE Shifted(g, n, k - 1)) - a * Shifted(g, n, k)) % PRIME]

LEMMA LiftStep ==
  ASSUME NEW a \in Int, NEW x \in Int, NEW p \in Int, NEW q \in Int, NEW h \in Int, NEW F \in Int,
         NEW c \in Int, NEW FF \in Int, NEW hh \in Int,
         Cong(F, p + (x - a) * h), Cong(c, q - a * p), Cong(FF, F * x + c), Cong(hh, h * x + p)
  PROVE  Cong(FF, q + (x - a) * hh)
<1> DEFINE s == p + (x - a) * h
           t == h * x + p
           d == q - a * p
           y == x - a
<1>1. s \in Int /\ t \in Int /\ d \in Int /\ y \in Int /\ F * x \in Int /\ F * x + c \in Int
  OBVIOUS
<1>2. s * x \in Int /\ y * t \in Int /\ y * hh \in Int
  BY <1>1, IntOps, Zenon
<1>3. s * x + d = q + y * t
  OBVIOUS
<1>4. Cong(F, s) /\ Cong(c, d) /\ Cong(hh, t)
  OBVIOUS
<1> HIDE DEF s, t, d, y
<1>5. Cong(F * x, s * x) /\ Cong(y * hh, y * t)
  BY <1>1, <1>4, CongScale, Zenon
<1>6. Cong(F * x + c, s * x + d)
  BY <1>1, <1>2, <1>4, <1>5, CongAdd, Zenon
<1>7. Cong(q + y * hh, q + y * t)
  BY <1>2, <1>5, CongRefl, CongAdd, Zenon
<1>8. s * x + d \in Int /\ q + y * hh \in Int /\ q + y * t \in Int
  BY <1>1, <1>2, IntOps, Zenon
<1>9. Cong(FF, s * x + d)
  BY <1>1, <1>6, <1>8, CongTrans, Zenon
<1>10. Cong(s * x + d, q + y * hh)
  BY <1>3, <1>7, <1>8, CongSym
<1>11. Cong(FF, q + y * hh)
  BY <1>8, <1>9, <1>10, CongTrans, Zenon
<1>12. QED
  BY <1>11 DEF y

LEMMA LiftedEvaluates ==
  ASSUME NEW n \in Nat, NEW g \in [1 .. n -> Field], NEW v \in Field, NEW a \in Field, NEW x \in Field
  PROVE  /\ Lifted(v, a, g, n) \in [1 .. n + 1 -> Field]
         /\ Cong(eval_poly(Lifted(v, a, g, n), x), v + (x - a) * eval_poly(g, x))
<1> DEFINE cs == Lifted(v, a, g, n)
           gg(k) == IF k = 0 THEN v ELSE Shifted(g, n, k)
           F(m) == Horner(cs, n + 1, x, m)
           h(m) == Horner(g, n, x, m)
<1>1. a \in Int /\ x \in Int /\ v \in Int /\ g \in [1 .. n -> Int]
  BY FieldIsInt
<1>2. \A k \in 0 .. n + 1 : gg(k) \in Int
  <2>1. \A k \in 1 .. n : g[k] \in Int
    BY <1>1
  <2>2. QED
    BY <1>1, <2>1 DEF Shifted
<1>3. /\ cs \in [1 .. n + 1 -> Field]
      /\ \A k \in 1 .. n + 1 : Cong(cs[k], gg(k - 1) - a * gg(k))
  <2>1. ASSUME NEW k \in 1 .. n + 1
        PROVE  /\ (gg(k - 1) - a * gg(k)) % PRIME \in Field
               /\ Cong((gg(k - 1) - a * gg(k)) % PRIME, gg(k - 1) - a * gg(k))
    <3> DEFINE p == gg(k - 1)
               q == gg(k)
               t == p - a * q
    <3>1. p \in Int /\ q \in Int
      <4>1. k - 1 \in 0 .. n + 1 /\ k \in 0 .. n + 1
        OBVIOUS
      <4> HIDE DEF gg
      <4>2. QED
        BY <1>2, <4>1
    <3> HIDE DEF p, q
    <3>2. t \in Int
      BY <1>1, <3>1
    <3> HIDE DEF t
    <3>3. t % PRIME \in Field /\ Cong(t % PRIME, t)
      BY <3>2, ModIsField
    <3>4. QED
      BY <3>3 DEF t, p, q
  <2>2. cs = [k \in 1 .. n + 1 |-> (gg(k - 1) - a * gg(k)) % PRIME]
    <3>1. \A k \in 1 .. n + 1 : /\ k # 0 /\ (k - 1 = 0 <=> k = 1)
                                /\ gg(k - 1) = (IF k = 1 THEN v ELSE Shifted(g, n, k - 1))
                                /\ gg(k) = Shifted(g, n, k)
      OBVIOUS
    <3> HIDE DEF gg
    <3>2. QED
      BY <3>1 DEF Lifted
  <2> HIDE DEF cs, gg
  <2>3. QED
    BY <2>1, <2>2
<1>4. cs \in [1 .. n + 1 -> Int] /\ n + 1 \in Nat
  <2> HIDE DEF cs, gg
  <2>1. cs \in [1 .. n + 1 -> Field]
    BY <1>3, Zenon
  <2> DEFINE D == 1 .. n + 1
  <2>2. cs \in [D -> Field] /\ n + 1 \in Nat
    BY <2>1
  <2> HIDE DEF D
  <2>3. cs \in [D -> Int] /\ n + 1 \in Nat
    BY <2>2, FieldIsInt
  <2>4. QED
    BY <2>3 DEF D
<1>5. EvalFits(cs, n + 1, x) /\ EvalFits(g, n, x)
  <2> HIDE DEF cs
  <2>1. QED
    BY <1>1, <1>4, EvalSteps
<1>6. gg(0) = v /\ gg(n + 1) = 0 /\ \A k \in 1 .. n : gg(k) = g[k]
  BY DEF Shifted
<1>7. /\ \A m \in 0 .. n + 1 : F(m) \in Int
      /\ \A m \in 0 .. n : h(m) \in Int
      /\ F(0) = 0 /\ h(0) = 0
      /\ F(n + 1) = eval_poly(cs, x) /\ h(n) = eval_poly(g, x)
  BY <1>5, FieldIsInt DEF EvalFits
<1>8. \A m \in 1 .. n + 1 : Cong(F(m), F(m - 1) * x + cs[(n + 1) - m + 1])
  <2>1. TAKE m \in 1 .. n + 1
  <2> DEFINE p == F(m - 1)
             q == cs[(n + 1) - m + 1]
             t == p * x + q
  <2>2. p \in Int /\ q \in Int
    <3>1. m - 1 \in 0 .. n + 1 /\ (n + 1) - m + 1 \in 1 .. n + 1
      OBVIOUS
    <3> HIDE DEF F, cs
    <3>2. QED
      BY <1>4, <1>7, <3>1
  <2>3. F(m) = t % PRIME
    BY <1>5 DEF EvalFits
  <2> HIDE DEF p, q, F
  <2>4. t \in Int
    BY <1>1, <2>2
  <2> HIDE DEF t
  <2>5. Cong(F(m), t)
    BY <2>3, <2>4, ModIsField
  <2>6. QED
    BY <2>5 DEF t, p, q
<1>9. \A m \in 1 .. n : Cong(h(m), h(m - 1) * x + g[n - m + 1])
  <2>1. TAKE m \in 1 .. n
  <2> DEFINE p == h(m - 1)
             q == g[n - m + 1]
             t == p * x + q
  <2>2. p \in Int /\ q \in Int
    <3>1. m - 1 \in 0 .. n /\ n - m + 1 \in 1 .. n
      OBVIOUS
    <3> HIDE DEF h
    <3>2. QED
      BY <1>1, <1>7, <3>1
  <2>3. h(m) = t % PRIME
    BY <1>5 DEF EvalFits
  <2> HIDE DEF p, q, h
  <2>4. t \in Int
    BY <1>1, <2>2
  <2> HIDE DEF t
  <2>5. Cong(h(m), t)
    BY <2>3, <2>4, ModIsField
  <2>6. QED
    BY <2>5 DEF t, p, q
<1> HIDE DEF cs, gg, F, h
<1> DEFINE S == {m \in Nat : m <= n => Cong(F(m + 1), gg(n - m) + (x - a) * h(m))}
<1>10. 0 \in S
  <2>1. 1 \in 1 .. n + 1 /\ 1 - 1 = 0 /\ (n + 1) - 1 + 1 = n + 1 /\ n + 1 \in 1 .. n + 1 /\ (n + 1) - 1 = n
        /\ 1 \in 0 .. n + 1 /\ n \in 0 .. n + 1 /\ n - 0 = n /\ 0 + 1 = 1
    OBVIOUS
  <2> DEFINE p == gg(n)
             q == cs[n + 1]
             f == F(1)
  <2>2. p \in Int /\ q \in Int /\ f \in Int
    BY <1>2, <1>4, <1>7, <2>1
  <2>3. Cong(f, 0 * x + q)
    BY <1>7, <1>8, <2>1
  <2>4. Cong(q, p - a * 0)
    BY <1>3, <1>6, <2>1
  <2> HIDE DEF p, q, f
  <2>5. 0 * x + q = q /\ p - a * 0 = p /\ p + (x - a) * 0 = p
    BY <1>1, <2>2
  <2>6. Cong(f, q) /\ Cong(q, p)
    BY <2>3, <2>4, <2>5
  <2>7. Cong(f, p)
    BY <2>2, <2>6, CongTrans
  <2>8. Cong(F(1), gg(n) + (x - a) * h(0))
    BY <1>7, <2>5, <2>7 DEF f, p
  <2>9. QED
    BY <2>1, <2>8
<1>11. ASSUME NEW m \in Nat, m \in S PROVE m + 1 \in S
  <2>1. SUFFICES ASSUME m + 1 <= n
                 PROVE  Cong(F(m + 1 + 1), gg(n - (m + 1)) + (x - a) * h(m + 1))
    <3>1. m + 1 \in Nat
      OBVIOUS
    <3>2. QED
      BY <3>1, Zenon
  <2>2. /\ m \in 0 .. n /\ m + 1 \in 1 .. n /\ m + 1 \in 0 .. n + 1 /\ m + 1 \in 0 .. n
        /\ m + 1 + 1 \in 1 .. n + 1 /\ m + 1 + 1 \in 0 .. n + 1
        /\ (m + 1 + 1) - 1 = m + 1 /\ (m + 1) - 1 = m /\ n - (m + 1) + 1 = n - m
        /\ (n + 1) - (m + 1 + 1) + 1 = n - m /\ n - m \in 1 .. n /\ n - m \in 1 .. n + 1
        /\ n - m \in 0 .. n + 1 /\ (n - m) - 1 = n - (m + 1) /\ n - (m + 1) \in 0 .. n + 1 /\ m <= n
    BY <2>1
  <2> DEFINE p == gg(n - m)
             q == gg(n - (m + 1))
             hm == h(m)
             hn == h(m + 1)
             Fm == F(m + 1)
             Fn == F(m + 1 + 1)
             c == cs[n - m]
  <2>3. Cong(Fm, p + (x - a) * hm)
    BY <1>11, <2>2
  <2>4. Cong(c, q - a * p)
    BY <1>3, <2>2
  <2>5. Cong(Fn, Fm * x + c)
    BY <1>8, <2>2
  <2>6. Cong(hn, hm * x + p)
    BY <1>6, <1>9, <2>2
  <2>7. p \in Int /\ q \in Int /\ hm \in Int /\ hn \in Int /\ Fm \in Int /\ Fn \in Int /\ c \in Int
    BY <1>2, <1>4, <1>7, <2>2
  <2> HIDE DEF p, q, hm, hn, Fm, Fn, c
  <2>8. Cong(Fn, q + (x - a) * hn)
    BY <1>1, <2>3, <2>4, <2>5, <2>6, <2>7, LiftStep
  <2>9. QED
    BY <2>8 DEF Fn, q, hn
<1>12. Cong(F(n + 1), gg(0) + (x - a) * h(n))
  <2>1. \A m \in Nat : m \in S
    <3> HIDE DEF S
    <3>1. QED
      BY <1>10, <1>11, NatInductionOnSet
  <2>2. n <= n /\ n - n = 0
    OBVIOUS
  <2>3. QED
    BY <2>1, <2>2
<1>13. QED
  BY <1>3, <1>6, <1>7, <1>12 DEF cs

\* Through at most n points there is a polynomial of n coefficients.
Passes(n, E, v) == \E cs \in [1 .. n -> Field] : \A x \in E : eval_poly(cs, x) = v[x]

LEMMA PolynomialThroughPoints ==
  ASSUME NEW m \in Nat, NEW P \in SUBSET Field, Cardinality(P) <= m, NEW w \in [P -> Field]
  PROVE  Passes(m, P, w)
<1> DEFINE S == {n \in Nat : \A E \in SUBSET Field : \A v \in [E -> Field] :
                               Cardinality(E) <= n => Passes(n, E, v)}
<1>0. IsFiniteSet(Field) /\ 0 \in Field
  BY PrimeIsPositive, FieldIsInt, FS_Interval DEF Field
<1>1. 0 \in S
  <2>1. SUFFICES ASSUME NEW E \in SUBSET Field, NEW v \in [E -> Field], Cardinality(E) <= 0
                 PROVE  Passes(0, E, v)
    OBVIOUS
  <2>2. Cardinality(E) \in Nat /\ (Cardinality(E) = 0 <=> E = {})
    BY <1>0, Subsets
  <2>3. E = {}
    BY <2>1, <2>2
  <2>4. [k \in 1 .. 0 |-> 0] \in [1 .. 0 -> Field]
    BY <1>0
  <2>5. QED
    BY <2>3, <2>4 DEF Passes
<1>2. ASSUME NEW n \in Nat, n \in S PROVE n + 1 \in S
  <2>1. SUFFICES ASSUME NEW E \in SUBSET Field, NEW v \in [E -> Field], Cardinality(E) <= n + 1
                 PROVE  Passes(n + 1, E, v)
    <3>1. n + 1 \in Nat
      OBVIOUS
    <3>2. QED
      BY <3>1, Zenon
  <2>2. CASE E = {}
    <3>1. [k \in 1 .. n + 1 |-> 0] \in [1 .. n + 1 -> Field]
      BY <1>0
    <3>2. QED
      BY <2>2, <3>1 DEF Passes
  <2>3. CASE E # {}
    <3>1. PICK a \in E : TRUE
      BY <2>3
    <3> DEFINE R == E \ {a}
               u == [x \in R |-> ((v[x] - v[a]) * Reciprocal(x - a)) % PRIME]
    <3>2. R \in SUBSET Field /\ Cardinality(R) <= n /\ a \in Field
      <4>1. Cardinality(E) \in Nat /\ Cardinality(R) = Cardinality(E) - 1
        BY <1>0, Subsets
      <4>2. QED
        BY <2>1, <4>1
    <3>3. \A x \in R : /\ x \in Int /\ a \in Int /\ v[x] \in Int /\ v[a] \in Int /\ x - a \in Int
                       /\ Reciprocal(x - a) \in Int /\ Cong((x - a) * Reciprocal(x - a), 1)
      <4>1. TAKE x \in R
      <4>2. x \in Field /\ a \in Field /\ x # a /\ v[x] \in Field /\ v[a] \in Field
        BY <3>2
      <4>3. x \in Int /\ a \in Int /\ v[x] \in Int /\ v[a] \in Int
        BY <4>2, FieldIsInt
      <4>4. x - a \in Int /\ ~Cong(x - a, 0)
        <5>1. SUFFICES ASSUME Cong(x - a, 0) PROVE FALSE
          BY <4>3
        <5>2. PICK q \in Int : (x - a) - 0 = PRIME * q
          BY <5>1 DEF Cong
        <5>3. x - a = PRIME * q
          BY <4>3, <5>2
        <5>4. Cong(x, a)
          BY <5>3 DEF Cong
        <5>5. QED
          BY <4>2, <5>4, CongIsEqual
      <4>5. QED
        BY <4>3, <4>4, ReciprocalOfNonzero
    <3>4. \A x \in R : u[x] \in Field /\ Cong(u[x], (v[x] - v[a]) * Reciprocal(x - a))
      <4>1. TAKE x \in R
      <4> DEFINE t == (v[x] - v[a]) * Reciprocal(x - a)
      <4>2. t \in Int
        BY <3>3, IntOps
      <4>3. u[x] = t % PRIME
        OBVIOUS
      <4> HIDE DEF t, u
      <4>4. QED
        BY <4>2, <4>3, ModIsField DEF t
    <3>5. u \in [R -> Field]
      <4>1. u = [x \in R |-> u[x]]
        OBVIOUS
      <4> HIDE DEF u
      <4>2. QED
        BY <3>4, <4>1
    <3> HIDE DEF R, u
    <3>6. Passes(n, R, u)
      BY <1>2, <3>2, <3>5
    <3>7. PICK g \in [1 .. n -> Field] : \A x \in R : eval_poly(g, x) = u[x]
      BY <3>6 DEF Passes
    <3> DEFINE cs == Lifted(v[a], a, g, n)
    <3>8. /\ cs \in [1 .. n + 1 -> Field] /\ n + 1 \in Nat
          /\ \A x \in E : Cong(eval_poly(cs, x), v[a] + (x - a) * eval_poly(g, x))
      <4>1. v[a] \in Field /\ a \in Field /\ \A x \in E : x \in Field
        BY <3>2
      <4> HIDE DEF cs
      <4>2. \A x \in Field : /\ cs \in [1 .. n + 1 -> Field]
                             /\ Cong(eval_poly(cs, x), v[a] + (x - a) * eval_poly(g, x))
        BY <4>1, LiftedEvaluates DEF cs
      <4>3. QED
        BY <4>1, <4>2
    <3> HIDE DEF cs
    <3>9. \A x \in E : eval_poly(cs, x) \in Field /\ eval_poly(g, x) \in Int
      <4>1. \A x \in E : x \in Int
        BY FieldIsInt
      <4>2. cs \in [1 .. n + 1 -> Int] /\ g \in [1 .. n -> Int]
        BY <3>8, FieldIsInt
      <4>3. \A x \in E : EvalFits(cs, n + 1, x) /\ EvalFits(g, n, x)
        BY <3>8, <4>1, <4>2, EvalSteps
      <4>4. n \in 0 .. n /\ n + 1 \in 0 .. n + 1
        OBVIOUS
      <4>5. QED
        BY <4>3, <4>4, FieldIsInt DEF EvalFits
    <3>10. ASSUME NEW x \in E PROVE eval_poly(cs, x) = v[x]
      <4> DEFINE e == eval_poly(cs, x)
                 h == eval_poly(g, x)
                 va == v[a]
                 vx == v[x]
                 y == x - a
      <4>1. e \in Field /\ e \in Int /\ h \in Int /\ va \in Int /\ vx \in Field /\ vx \in Int /\ y \in Int
            /\ Cong(e, va + y * h)
        <5>1. x \in Field /\ a \in Field /\ vx \in Field /\ va \in Field
          OBVIOUS
        <5>2. QED
          BY <3>8, <3>9, <5>1, FieldIsInt
      <4>2. Cong(va + y * h, vx)
        <5>1. CASE x = a
          <6>1. y = 0 /\ vx = va
            BY <3>3, <4>1, <5>1, FieldIsInt
          <6> HIDE DEF y, vx, va, h
          <6>2. va + 0 * h = va
            BY <4>1
          <6>3. QED
            BY <4>1, <6>1, <6>2, CongRefl
        <5>2. CASE x # a
          <6> DEFINE r == Reciprocal(x - a)
                     d == vx - va
          <6>1. x \in R
            BY <5>2 DEF R
          <6>2. r \in Int /\ Cong(y * r, 1) /\ Cong(h, d * r)
            BY <3>3, <3>4, <3>7, <6>1
          <6>3. d \in Int
            BY <4>1
          <6> HIDE DEF r, h, y, va, vx
          <6>4. d * r \in Int /\ y * h \in Int /\ y * r \in Int /\ 1 \in Int
            BY <4>1, <6>2, <6>3, IntOps
          <6>5. Cong(y * h, y * (d * r)) /\ Cong(d * (y * r), d * 1)
            BY <4>1, <6>2, <6>3, <6>4, CongScale, Zenon
          <6>6. y * (d * r) \in Int /\ y * (d * r) = d * (y * r) /\ d * 1 = d
            BY <4>1, <6>2, <6>3
          <6> HIDE DEF d
          <6>7. Cong(y * (d * r), d)
            BY <6>5, <6>6
          <6>8. Cong(y * h, d)
            BY <6>3, <6>4, <6>5, <6>6, <6>7, CongTrans, Zenon
          <6>9. Cong(va + y * h, va + d)
            BY <4>1, <6>3, <6>4, <6>8, CongRefl, CongAdd, Zenon
          <6>10. va + d = vx
            BY <4>1 DEF d
          <6>11. QED
            BY <6>9, <6>10
        <5>3. QED
          BY <5>1, <5>2
      <4> HIDE DEF e, h, va, vx, y
      <4>3. va + y * h \in Int
        BY <4>1
      <4>4. Cong(e, vx)
        BY <4>1, <4>2, <4>3, CongTrans
      <4>5. e = vx
        BY <4>1, <4>4, CongIsEqual
      <4>6. QED
        BY <4>5 DEF e, vx
    <3>11. QED
      BY <3>8, <3>10 DEF Passes
  <2>4. QED
    BY <2>2, <2>3
<1>3. \A n \in Nat : n \in S
  <2> HIDE DEF S
  <2>1. QED
    BY <1>1, <1>2, NatInductionOnSet
<1>4. QED
  BY <1>3

\* The value at 0 is the first coefficient.
LEMMA ValueAtZero ==
  ASSUME NEW cs \in [1 .. K -> Field] PROVE eval_poly(cs, 0) = cs[1]
<1>1. K \in Nat /\ K >= 1 /\ 0 \in Int /\ cs \in [1 .. K -> Int]
  BY PositionsFacts, FieldIsInt
<1>2. EvalFits(cs, K, 0)
  BY <1>1, EvalSteps
<1>3. K \in 1 .. K /\ K - 1 \in 0 .. K /\ K - K + 1 = 1 /\ 1 \in 1 .. K
  BY <1>1
<1> DEFINE h == Horner(cs, K, 0, K - 1)
           c == cs[1]
<1>4. h \in Int /\ c \in Field /\ c \in Int
  BY <1>2, <1>3, FieldIsInt DEF EvalFits
<1>5. eval_poly(cs, 0) = (h * 0 + c) % PRIME
  BY <1>2, <1>3 DEF EvalFits
<1> HIDE DEF h, c
<1>6. h * 0 + c = c /\ c % PRIME = c
  BY <1>4, CongMod
<1>7. QED
  BY <1>5, <1>6 DEF c

\* Every function of K coefficients is one that split_secret may draw.
LEMMA EveryPolynomialIsDrawn ==
  ASSUME NEW cs \in [1 .. K -> Field] PROVE cs \in Polynomials(cs[1])
<1> DEFINE rest == [k \in 1 .. K - 1 |-> cs[k + 1]]
           all == <<cs[1]>> \o rest
<1>1. K \in Nat /\ K >= 1 /\ K - 1 \in Nat
  BY PositionsFacts
<1>2. rest \in [1 .. K - 1 -> Field] /\ rest \in Seq(Field) /\ Len(rest) = K - 1
  <2>1. \A k \in 1 .. K - 1 : k + 1 \in 1 .. K
    BY <1>1
  <2>2. rest \in [1 .. K - 1 -> Field]
    BY <2>1
  <2> HIDE DEF rest
  <2>3. QED
    BY <1>1, <2>2
<1>3. cs \in Seq(Field) /\ Len(cs) = K /\ cs[1] \in Field
  BY <1>1
<1>4. all \in Seq(Field) /\ Len(all) = K
  <2> HIDE DEF rest
  <2>1. QED
    BY <1>1, <1>2, <1>3
<1>5. \A k \in 1 .. K : all[k] = cs[k]
  <2>1. TAKE k \in 1 .. K
  <2>2. CASE k = 1
    <3> HIDE DEF rest
    <3>1. QED
      BY <1>2, <2>2
  <2>3. CASE k # 1
    <3>1. k - 1 \in 1 .. K - 1 /\ (k - 1) + 1 = k
      BY <1>1, <2>3
    <3>2. rest[k - 1] = cs[k]
      BY <3>1
    <3> HIDE DEF rest
    <3>3. all[k] = rest[k - 1]
      BY <1>1, <1>2, <1>3, <2>3
    <3>4. QED
      BY <3>2, <3>3
  <2>4. QED
    BY <2>2, <2>3
<1> HIDE DEF all, rest
<1>6. all = cs
  BY <1>1, <1>3, <1>4, <1>5, SeqEqual
<1>7. QED
  BY <1>2, <1>6 DEF Polynomials, all

\* Fewer than K shares fit every byte, for every prime, every N and K, every
\* polynomial and every order of the votes, repeated numbers included.
LEMMA KeptTellsNothing == Kept => FewerTellNothing
<1> SUFFICES ASSUME Kept, Len(handed) < K, NEW b \in Bytes
             PROVE  \E cs \in Polynomials(b) : \A x \in Range(handed) : Dealt(cs)[x] = shares[x]
  BY DEF FewerTellNothing
<1> DEFINE R == Range(handed)
           E == R \cup {0}
           v == [x \in E |-> IF x = 0 THEN b ELSE eval_poly(coeffs, x)]
<1>1. R \subseteq Indices /\ IsFiniteSet(R) /\ Cardinality(R) \in Nat /\ Cardinality(R) < K
  <2> DEFINE n == Len(handed)
             D == 1 .. n
  <2>1. n \in Nat /\ n < K /\ handed \in [D -> Indices] /\ DOMAIN handed = D
    BY DEF Kept
  <2>2. R \subseteq Indices /\ handed \in Surjection(D, R)
    BY <2>1 DEF Range, Surjection
  <2>3. IsFiniteSet(D) /\ Cardinality(D) = n
    BY <2>1, FS_Interval
  <2> HIDE DEF R, D, n
  <2>4. IsFiniteSet(R) /\ Cardinality(R) <= Cardinality(D)
    BY <2>2, <2>3, FS_Surjection
  <2>5. Cardinality(R) \in Nat
    BY <2>4, FS_CardinalityType
  <2>6. QED
    BY <2>1, <2>2, <2>3, <2>4, <2>5, PositionsFacts
<1> HIDE DEF R
<1>2. 0 \notin R /\ Indices \subseteq Field /\ E \in SUBSET Field
  BY <1>1, PrimeIsPositive, MorePrimeFacts DEF Indices, Field
<1>3. Cardinality(E) <= K
  <2>1. Cardinality(E) = Cardinality(R) + 1
    BY <1>1, <1>2, FS_AddElement
  <2>2. QED
    BY <1>1, <2>1, PositionsFacts
<1>4. v \in [E -> Field] /\ v[0] = b /\ \A x \in R : v[x] = eval_poly(coeffs, x)
  <2>1. b \in Field
    BY PrimeIsPositive DEF Bytes, Field
  <2>2. \A x \in R : x # 0 /\ eval_poly(coeffs, x) \in Field
    BY <1>1, <1>2, DealtFacts DEF Kept
  <2>3. QED
    BY <2>1, <2>2
<1> HIDE DEF E, v
<1>5. PICK cs \in [1 .. K -> Field] : \A x \in E : eval_poly(cs, x) = v[x]
  <2>1. K \in Nat
    BY PositionsFacts
  <2>2. Passes(K, E, v)
    BY <1>2, <1>3, <1>4, <2>1, PolynomialThroughPoints
  <2>3. QED
    BY <2>2 DEF Passes
<1>6. cs \in Polynomials(b)
  <2>1. cs[1] = b
    <3>1. 0 \in E
      BY DEF E
    <3>2. QED
      BY <1>4, <1>5, <3>1, ValueAtZero
  <2>2. QED
    BY <2>1, EveryPolynomialIsDrawn
<1>7. ASSUME NEW x \in R PROVE Dealt(cs)[x] = shares[x]
  <2>1. x \in Indices /\ x \in E
    BY <1>1 DEF E
  <2>2. Dealt(cs)[x] = eval_poly(cs, x)
    BY <1>6, <2>1, DealtFacts
  <2>3. shares[x] = eval_poly(coeffs, x)
    BY <2>1, DealtFacts DEF Kept
  <2>4. QED
    BY <1>4, <1>5, <2>1, <2>2, <2>3
<1>8. QED
  BY <1>6, <1>7 DEF R

\* To whoever holds K - 1 shares every byte is as possible as any other: a
\* polynomial that split_secret may draw for it has those very shares.
THEOREM FewerSharesTellNothing == SharingSpec => []FewerTellNothing
<1>1. QED
  BY SharesAreKept, KeptTellsNothing, PTL

-----------------------------------------------------------------------------
(* The key from one start of the backend to the next. *)

\* While the backend is up its key is where the next start looks first.
InUse == Up => env = privkey \/ (env \notin Keys /\ file = privkey)

\* While it is down the last key is there still, unless an operator was.
FormerAtHand ==
  ~Up /\ former # None /\ ~touched => env = former \/ (env \notin Keys /\ file = former)

\* The keys that are somewhere, or that an operator threw away.
KeysKept == ({env, file, privkey} \cap Keys) \cup discarded

\* Every sealed identity is sealed for one of these.
SealedForKept == \A c \in Sealings : \E k \in KeysKept, p \in Persons : c = Sealed(k, p)

SharesFit == Up => \A i \in Custodians : shamir_shares[i] = privkey

\* What was sealed in this run was sealed for the key of this run.
FreshFits ==
  \A p \in Persons : widget[p] # None /\ widget[p].fresh =>
    Up /\ widget[p].blob = Sealed(privkey, p)

PromisedFits ==
  \A p \in promised : Up /\ blobs[<<p, "padded">>] = Sealed(privkey, p)

KeyInv == InUse /\ FormerAtHand
PromiseInv == SharesFit /\ FreshFits /\ PromisedFits

-----------------------------------------------------------------------------
(* What loading and sealing yield. *)

LEMMA LoadedIsKey ==
  ASSUME TypeOK, NEW loaded \in load_or_generate_issuer_key
  PROVE  /\ loaded.key \in Keys
         /\ loaded.file \in Keys \cup {Gone, Short}
         /\ env = loaded.key \/ (env \notin Keys /\ loaded.file = loaded.key)
         /\ loaded.file = file \/ (env \notin Keys /\ file \notin Keys)
         /\ env \in Keys => loaded.key = env
         /\ env \notin Keys /\ file \in Keys => loaded.key = file
BY DEF load_or_generate_issuer_key, TypeOK

LEMMA SealedIsCiphertext ==
  ASSUME NEW k \in Keys, NEW p \in Persons
  PROVE  Sealed(k, p) \in Ciphertexts /\ Sealed(k, p) \notin {None, Junk}
BY KindsDiffer DEF Ciphertexts

\* Decryption multiplies the ephemeral point with the secret, sealing the
\* public point with the ephemeral secret: the same.
LEMMA SealedOpens ==
  ASSUME NEW k \in Keys, NEW p \in Persons
  PROVE  ecies_decrypt(k, Sealed(k, p)) = p
<1> DEFINE c == Sealed(k, p)
<1>1. c # Junk
  BY SealedIsCiphertext
<1>2. c.ephemeral = p /\ c.plain = p /\ c.under = AesKey(p, Point(k, p))
  BY DEF Sealed
<1>3. Point(c.ephemeral, k) = Point(k, p)
  BY <1>2 DEF Point
<1>4. c.under = AesKey(c.ephemeral, Point(c.ephemeral, k))
  BY <1>2, <1>3
<1>5. QED
  BY <1>1, <1>2, <1>4 DEF ecies_decrypt

LEMMA DecryptedType ==
  ASSUME NEW k, NEW c \in Ciphertexts \cup {Junk}
  PROVE  ecies_decrypt(k, c) \in Persons \cup {Err}
<1>1. CASE c = Junk
  BY <1>1 DEF ecies_decrypt
<1>2. CASE c \in Ciphertexts
  <2>1. c.plain \in Persons
    BY <1>2 DEF Ciphertexts, Sealed
  <2>2. QED
    BY <2>1 DEF ecies_decrypt
<1>3. QED
  BY <1>1, <1>2

\* Three custodians are somebody, and all of them hold a share of the key.
LEMMA ThreeRebuild ==
  ASSUME Up, SharesFit, privkey \in Keys,
         NEW nums \in SUBSET Custodians, Cardinality(nums) = 3
  PROVE  RebuiltKey(nums) = privkey
<1>1. nums # {}
  BY FS_EmptySet
<1>2. \A i \in nums : shamir_shares[i] = privkey
  BY DEF SharesFit
<1>3. (CHOOSE i \in nums : TRUE) \in nums
  BY <1>1
<1>4. QED
  BY <1>2, <1>3 DEF RebuiltKey

-----------------------------------------------------------------------------
(* Types. *)

LEMMA InitTypes == Init => TypeOK
<1> SUFFICES ASSUME Init PROVE TypeOK
  OBVIOUS
<1>1. /\ env \in Keys \cup {Unset, Short, NonHex} /\ file \in Keys \cup {Gone, Short}
      /\ privkey \in Keys \cup {None} /\ former \in Keys \cup {None} /\ touched \in BOOLEAN
  BY DEF Init
<1>2. shamir_shares \in [Custodians -> Keys \cup {None}]
  BY DEF Init
<1>3. blobs \in [Nullifiers -> Ciphertexts \cup {Junk, None}]
  BY DEF Init
<1>4. orders \in [Orders -> {None} \cup [nullifier : Nullifiers, blob : Ciphertexts \cup {Junk, None},
                                        decrypted_identity : Persons \cup {None, Note, Err}]]
  BY DEF Init
<1>5. widget \in [Persons -> {None} \cup [blob : Ciphertexts \cup {Junk, None}, fresh : BOOLEAN]]
  BY DEF Init
<1>6. boots \in 0 .. MaxBoots
  BY BoundAssumption DEF Init
<1>7. registered \subseteq Persons /\ drawn \subseteq Keys /\ discarded \subseteq Keys /\ promised \subseteq Persons
  BY DEF Init
<1>8. QED
  BY <1>1, <1>2, <1>3, <1>4, <1>5, <1>6, <1>7 DEF TypeOK

LEMMA BootTypes == ASSUME TypeOK, Boot PROVE TypeOK'
<1>1. PICK loaded \in load_or_generate_issuer_key :
        /\ privkey' = loaded.key /\ shamir_shares' = init_shamir_shares(loaded.key)
        /\ file' = loaded.file /\ drawn' = drawn \cup {loaded.key}
  BY DEF Boot
<1>2. loaded.key \in Keys /\ loaded.file \in Keys \cup {Gone, Short}
  BY LoadedIsKey
<1>3. shamir_shares' \in [Custodians -> Keys \cup {None}]
  BY <1>1, <1>2 DEF init_shamir_shares
<1>4. boots' \in 0 .. MaxBoots
  BY BoundAssumption DEF Boot, TypeOK
<1>5. QED
  BY <1>1, <1>2, <1>3, <1>4 DEF Boot, TypeOK

LEMMA TornTypes == ASSUME TypeOK, BootTorn PROVE TypeOK'
<1>1. PICK loaded \in load_or_generate_issuer_key : drawn' = drawn \cup {loaded.key}
  BY DEF BootTorn
<1>2. loaded.key \in Keys
  BY <1>1, LoadedIsKey
<1>3. boots' \in 0 .. MaxBoots
  BY BoundAssumption DEF BootTorn, TypeOK
<1>4. QED
  BY <1>1, <1>2, <1>3 DEF BootTorn, TypeOK, memory

LEMMA DieTypes == ASSUME TypeOK, Die PROVE TypeOK'
<1>1. widget' \in [Persons -> {None} \cup [blob : Ciphertexts \cup {Junk, None}, fresh : BOOLEAN]]
  BY DEF Die, TypeOK
<1>2. QED
  BY <1>1 DEF Die, TypeOK

LEMMA OperateTypes == ASSUME TypeOK, Operate PROVE TypeOK'
BY DEF Operate, TypeOK, memory

LEMMA FetchTypes == ASSUME TypeOK, NEW p \in Persons, Fetch(p) PROVE TypeOK'
<1>1. PICK w : w \in [blob : Ciphertexts \cup {Junk, None}, fresh : BOOLEAN]
               /\ widget' = [widget EXCEPT ![p] = w]
  <2>1. CASE Up /\ widget' = [widget EXCEPT ![p] = [blob |-> Sealed(get_issuer_pubkey, p), fresh |-> TRUE]]
    <3>1. Sealed(get_issuer_pubkey, p) \in Ciphertexts
      BY <2>1, SealedIsCiphertext DEF Up, TypeOK, get_issuer_pubkey
    <3>2. QED
      BY <2>1, <3>1
  <2>2. CASE \E b \in {None, Junk} : widget' = [widget EXCEPT ![p] = [blob |-> b, fresh |-> FALSE]]
    BY <2>2
  <2>3. QED
    BY <2>1, <2>2 DEF Fetch
<1>2. widget' \in [Persons -> {None} \cup [blob : Ciphertexts \cup {Junk, None}, fresh : BOOLEAN]]
  BY <1>1 DEF TypeOK
<1>3. QED
  BY <1>2 DEF Fetch, TypeOK, memory, history

LEMMA RegisterTypes == ASSUME TypeOK, NEW p \in Persons, register_kyc(p) PROVE TypeOK'
<1>1. widget[p].blob \in Ciphertexts \cup {Junk, None}
  BY DEF TypeOK, register_kyc
<1>2. <<p, "padded">> \in Nullifiers
  BY DEF Nullifiers
<1>3. blobs' \in [Nullifiers -> Ciphertexts \cup {Junk, None}]
  BY <1>1, <1>2 DEF TypeOK, register_kyc
<1>4. promised' \subseteq Persons
  BY DEF TypeOK, register_kyc
<1>5. QED
  BY <1>3, <1>4 DEF register_kyc, TypeOK

LEMMA StartOverTypes == ASSUME TypeOK, NEW p \in Persons, StartOver(p) PROVE TypeOK'
BY DEF StartOver, TypeOK, memory, history

LEMMA CreateTypes == ASSUME TypeOK, NEW o \in Orders, create_order(o) PROVE TypeOK'
<1>1. PICK n \in Nullifiers,
          b \in {None, Junk} \cup {widget[q].blob : q \in {q \in Persons : widget[q] # None}} :
        orders' = [orders EXCEPT ![o] = [nullifier |-> n, blob |-> b,
                                         decrypted_identity |-> None]]
  BY DEF create_order
<1>2. b \in Ciphertexts \cup {Junk, None}
  BY <1>1 DEF TypeOK
<1>3. QED
  BY <1>1, <1>2 DEF create_order, TypeOK, history

LEMMA ApproveTypes ==
  ASSUME TypeOK, NEW o \in Orders, NEW nums \in SUBSET Custodians, approve(o, nums)
  PROVE  TypeOK'
<1>1. orders[o] \in [nullifier : Nullifiers, blob : Ciphertexts \cup {Junk, None},
                     decrypted_identity : Persons \cup {None, Note, Err}]
  BY DEF TypeOK, approve
<1>2. BlobFor(orders[o]) \in Ciphertexts \cup {Junk, None}
  BY <1>1 DEF TypeOK, BlobFor
<1>3. PICK d \in Persons \cup {None, Note, Err} : orders' = [orders EXCEPT ![o].decrypted_identity = d]
  <2>1. BlobFor(orders[o]) # None =>
          ecies_decrypt(RebuiltKey(nums), BlobFor(orders[o])) \in Persons \cup {Err}
    BY <1>2, DecryptedType
  <2>2. QED
    BY <2>1 DEF approve
<1>4. QED
  BY <1>1, <1>3 DEF approve, TypeOK, history

LEMMA ExecuteTypes == ASSUME TypeOK, NEW o \in Orders, execute(o) PROVE TypeOK'
BY DEF execute, TypeOK, history

LEMMA StepTypes == TypeOK /\ [Next]_vars => TypeOK'
<1>1. CASE UNCHANGED vars
  BY <1>1 DEF vars, memory, history, TypeOK
<1>2. QED
  BY <1>1, BootTypes, TornTypes, DieTypes, OperateTypes, FetchTypes, RegisterTypes,
     StartOverTypes, CreateTypes, ApproveTypes, ExecuteTypes DEF Next

\* The state of keys, files, blobs, orders and widgets keeps its types.
THEOREM TypeCorrect == Spec => []TypeOK
BY InitTypes, StepTypes, PTL DEF Spec

-----------------------------------------------------------------------------
(* The key survives. *)

LEMMA InitKey == Init => KeyInv
BY KindsDiffer DEF Init, KeyInv, InUse, FormerAtHand, Up

LEMMA StepKey == TypeOK /\ KeyInv /\ [Next]_vars => KeyInv'
<1> SUFFICES ASSUME TypeOK, KeyInv, [Next]_vars PROVE KeyInv'
  OBVIOUS
<1> USE DEF KeyInv, InUse, FormerAtHand, Up
<1>1. CASE Boot
  <2>1. PICK loaded \in load_or_generate_issuer_key : privkey' = loaded.key /\ file' = loaded.file
    BY <1>1 DEF Boot
  <2>2. privkey' \in Keys /\ (env = privkey' \/ (env \notin Keys /\ file' = privkey'))
    BY <2>1, LoadedIsKey
  <2>3. QED
    BY <1>1, <2>2, KindsDiffer DEF Boot
<1>2. CASE BootTorn
  \* It draws a key only if it finds none, so the last one was not at hand.
  <2>1. PICK loaded \in load_or_generate_issuer_key : loaded.file # file
    BY <1>2 DEF BootTorn
  <2>2. env \notin Keys /\ file \notin Keys
    BY <2>1, LoadedIsKey
  <2>3. former = None \/ touched
    BY <1>2, <2>2 DEF BootTorn, TypeOK
  <2>4. QED
    BY <1>2, <2>3 DEF BootTorn, memory
<1>3. CASE Die
  BY <1>3 DEF Die
<1>4. CASE Operate
  BY <1>4 DEF Operate, memory
<1>5. ASSUME NEW p \in Persons, Fetch(p) \/ register_kyc(p) \/ StartOver(p) PROVE KeyInv'
  BY <1>5 DEF Fetch, register_kyc, StartOver, memory, history
<1>6. ASSUME NEW o \in Orders, create_order(o) \/ execute(o) \/ \E nums \in SUBSET Custodians : approve(o, nums) PROVE KeyInv'
  BY <1>6 DEF create_order, approve, execute, history
<1>7. CASE UNCHANGED vars
  BY <1>7 DEF vars, memory, history
<1>8. QED
  BY <1>1, <1>2, <1>3, <1>4, <1>5, <1>6, <1>7 DEF Next

\* Only Boot brings the backend up, and it finds the last key in .env, or
\* nothing in .env and the last key in .issuer_key.
LEMMA BootFindsKey ==
  ASSUME TypeOK, KeyInv, [Next]_vars, ~Up, Up', former # None, ~touched
  PROVE  privkey' = former
<1>1. former \in Keys /\ (env = former \/ (env \notin Keys /\ file = former))
  BY DEF TypeOK, KeyInv, FormerAtHand
<1>2. CASE Boot
  <2>1. PICK loaded \in load_or_generate_issuer_key : privkey' = loaded.key
    BY <1>2 DEF Boot
  <2>2. QED
    BY <1>1, <2>1, LoadedIsKey
<1>3. CASE ~Boot
  BY <1>3 DEF Next, Up, vars, memory, history, BootTorn, Die, Operate, Fetch, register_kyc, StartOver,
     create_order, approve, execute
<1>4. QED
  BY <1>2, <1>3

\* The backend comes up with the key it had before it went down, unless an
\* operator edited .env or removed .issuer_key in between.
THEOREM RestartKeepsKey == Spec => KeySurvivesRestart
<1>1. TypeOK /\ KeyInv /\ [Next]_vars =>
        [~Up /\ Up' /\ former # None /\ ~touched => privkey' = former]_vars
  BY BootFindsKey
<1>2. Spec => [](TypeOK /\ KeyInv)
  BY InitTypes, InitKey, StepTypes, StepKey, PTL DEF Spec
<1>3. QED
  BY <1>1, <1>2, PTL DEF Spec, KeySurvivesRestart

-----------------------------------------------------------------------------
(* No key in use is lost. *)

LEMMA StepKept == TypeOK /\ KeyInv /\ [Next]_vars => KeysKept \subseteq KeysKept'
<1> SUFFICES ASSUME TypeOK, KeyInv, [Next]_vars PROVE KeysKept \subseteq KeysKept'
  OBVIOUS
<1> USE DEF KeysKept, Up
<1>1. CASE Boot
  <2>1. PICK loaded \in load_or_generate_issuer_key : file' = loaded.file
    BY <1>1 DEF Boot
  <2>2. file' = file \/ file \notin Keys
    BY <2>1, LoadedIsKey
  <2>3. QED
    BY <1>1, <2>2, KindsDiffer DEF Boot
<1>2. CASE BootTorn
  <2>1. PICK loaded \in load_or_generate_issuer_key : loaded.file # file
    BY <1>2 DEF BootTorn
  <2>2. file \notin Keys
    BY <2>1, LoadedIsKey
  <2>3. QED
    BY <1>2, <2>2 DEF BootTorn, memory
<1>3. CASE Die
  BY <1>3 DEF Die, KeyInv, InUse
<1>4. CASE Operate
  BY <1>4, KindsDiffer DEF Operate, memory
<1>5. ASSUME NEW p \in Persons, Fetch(p) \/ register_kyc(p) \/ StartOver(p) PROVE KeysKept \subseteq KeysKept'
  BY <1>5 DEF Fetch, register_kyc, StartOver, memory, history
<1>6. ASSUME NEW o \in Orders, create_order(o) \/ execute(o) \/ \E nums \in SUBSET Custodians : approve(o, nums) PROVE KeysKept \subseteq KeysKept'
  BY <1>6 DEF create_order, approve, execute, history
<1>7. CASE UNCHANGED vars
  BY <1>7 DEF vars, memory, history
<1>8. QED
  BY <1>1, <1>2, <1>3, <1>4, <1>5, <1>6, <1>7 DEF Next

\* A step moves sealed identities about, drops them, or seals one for the key
\* in use.
LEMMA StepSealings ==
  ASSUME TypeOK, [Next]_vars, NEW c \in Sealings'
  PROVE  c \in Sealings \/ (privkey \in KeysKept' /\ privkey \in Keys /\ \E p \in Persons : c = Sealed(privkey, p))
<1>1. c \notin {None, Junk}
  BY DEF Sealings
<1>2. ASSUME NEW q \in Persons, widget'[q] # None, widget'[q].blob = c, widget'[q] # widget[q]
      PROVE  \/ widget[q] # None /\ widget[q].blob = c
             \/ privkey \in KeysKept' /\ privkey \in Keys /\ c = Sealed(privkey, q)
  <2>1. CASE Die
    <3>1. widget[q] # None /\ widget'[q] = [widget[q] EXCEPT !.fresh = FALSE]
      BY <1>2, <2>1 DEF Die
    <3>2. widget[q] \in [blob : Ciphertexts \cup {Junk, None}, fresh : BOOLEAN]
      BY <3>1 DEF TypeOK
    <3>3. QED
      BY <1>2, <3>1, <3>2
  <2>2. ASSUME NEW p \in Persons, Fetch(p)
        PROVE  privkey \in KeysKept' /\ privkey \in Keys /\ c = Sealed(privkey, q)
    <3>1. p = q
      BY <1>2, <2>2 DEF Fetch, TypeOK
    <3>2. Up /\ widget'[q].blob = Sealed(get_issuer_pubkey, q)
      BY <1>1, <1>2, <2>2, <3>1 DEF Fetch, TypeOK
    <3>3. privkey \in Keys /\ privkey' = privkey
      BY <2>2, <3>2 DEF Fetch, Up, TypeOK, memory
    <3>4. QED
      BY <1>2, <3>2, <3>3 DEF get_issuer_pubkey, KeysKept
  <2>3. ASSUME NEW p \in Persons, StartOver(p) PROVE FALSE
    BY <1>2, <2>3 DEF StartOver, TypeOK
  <2>4. widget' # widget
    BY <1>2
  <2>5. QED
    BY <2>1, <2>2, <2>3, <2>4 DEF Next, vars, history, Boot, BootTorn, Operate, register_kyc,
       create_order, approve, execute
<1>3. ASSUME NEW n \in Nullifiers, blobs'[n] = c, blobs'[n] # blobs[n]
      PROVE  \E p \in Persons : widget[p] # None /\ widget[p].blob = c
  <2>1. ~Die
    BY <1>1, <1>3 DEF Die
  <2>2. blobs' # blobs
    BY <1>3
  <2>3. PICK p \in Persons : register_kyc(p)
    BY <2>1, <2>2 DEF Next, vars, memory, Boot, BootTorn, Operate, Fetch, StartOver, create_order, approve, execute
  <2>4. widget[p] # None /\ blobs' = [blobs EXCEPT ![<<p, "padded">>] = widget[p].blob]
    BY <2>2, <2>3 DEF register_kyc
  <2>5. QED
    BY <1>3, <2>4 DEF TypeOK
<1>4. ASSUME NEW o \in Orders, orders'[o] # None, orders'[o].blob = c, orders'[o] # orders[o]
      PROVE  \/ orders[o] # None /\ orders[o].blob = c
             \/ \E p \in Persons : widget[p] # None /\ widget[p].blob = c
  <2>1. ~Die
    BY <1>4 DEF Die
  <2>2. orders' # orders
    BY <1>4
  <2>3. PICK r \in Orders : create_order(r) \/ execute(r) \/ \E nums \in SUBSET Custodians : approve(r, nums)
    BY <2>1, <2>2 DEF Next, vars, memory, history, Boot, BootTorn, Operate, Fetch, StartOver, register_kyc
  <2>4. r = o
    BY <1>4, <2>3 DEF create_order, approve, execute, TypeOK
  <2>5. ~execute(o)
    BY <1>4 DEF execute, TypeOK
  <2>6. CASE create_order(o)
    <3>1. PICK b \in {None, Junk} \cup {widget[q].blob : q \in {q \in Persons : widget[q] # None}},
               n \in Nullifiers :
            orders' = [orders EXCEPT ![o] = [nullifier |-> n, blob |-> b,
                                             decrypted_identity |-> None]]
      BY <2>6 DEF create_order
    <3>2. b = c
      BY <1>4, <3>1 DEF TypeOK
    <3>3. QED
      BY <1>1, <3>1, <3>2
  <2>7. ASSUME NEW nums \in SUBSET Custodians, approve(o, nums)
        PROVE  orders[o] # None /\ orders[o].blob = c
    <3>1. orders[o] # None /\ orders[o] \in [nullifier : Nullifiers, blob : Ciphertexts \cup {Junk, None},
                     decrypted_identity : Persons \cup {None, Note, Err}]
      BY <2>7 DEF approve, TypeOK
    <3>2. orders'[o].blob = orders[o].blob
      BY <2>7, <3>1 DEF approve, TypeOK
    <3>3. QED
      BY <1>4, <3>1, <3>2
  <2>8. QED
    BY <2>3, <2>4, <2>5, <2>6, <2>7
<1>5. \/ \E q \in Persons : widget'[q] # None /\ widget'[q].blob = c
      \/ \E n \in Nullifiers : blobs'[n] = c
      \/ \E o \in Orders : orders'[o] # None /\ orders'[o].blob = c
  BY DEF Sealings
<1>6. /\ \A q \in Persons : widget[q] # None /\ widget[q].blob = c => c \in Sealings
      /\ \A n \in Nullifiers : blobs[n] = c => c \in Sealings
      /\ \A o \in Orders : orders[o] # None /\ orders[o].blob = c => c \in Sealings
  BY <1>1 DEF Sealings
<1>7. QED
  BY <1>2, <1>3, <1>4, <1>5, <1>6

LEMMA StepSealed == TypeOK /\ KeyInv /\ SealedForKept /\ [Next]_vars => SealedForKept'
<1> SUFFICES ASSUME TypeOK, KeyInv, SealedForKept, [Next]_vars, NEW c \in Sealings'
             PROVE  \E k \in KeysKept', p \in Persons : c = Sealed(k, p)
  BY DEF SealedForKept
<1>1. CASE c \in Sealings
  <2>1. PICK k \in KeysKept, p \in Persons : c = Sealed(k, p)
    BY <1>1 DEF SealedForKept
  <2>2. k \in KeysKept'
    BY StepKept
  <2>3. QED
    BY <2>1, <2>2
<1>2. QED
  BY <1>1, StepSealings

\* Whatever was sealed, and wherever it is, can be opened with a key that is in
\* use or on disk, or was until an operator took it away: none is sealed for a
\* key that only a dead process had.
THEOREM NoKeyLost == Spec => []KeyNotLost
<1>1. Init => SealedForKept
  BY DEF Init, SealedForKept, Sealings
<1>2. Spec => [](TypeOK /\ KeyInv /\ SealedForKept)
  BY <1>1, InitTypes, InitKey, StepTypes, StepKey, StepSealed, PTL DEF Spec
<1>3. TypeOK /\ SealedForKept => KeyNotLost
  <2> SUFFICES ASSUME TypeOK, SealedForKept, NEW c \in Sealings
               PROVE  \E k \in ({env, file, privkey} \cup discarded) \cap Keys : ecies_decrypt(k, c) = c.plain
    BY DEF KeyNotLost
  <2>1. PICK k \in KeysKept, p \in Persons : c = Sealed(k, p)
    BY DEF SealedForKept
  <2>2. k \in ({env, file, privkey} \cup discarded) \cap Keys
    BY DEF KeysKept, TypeOK
  <2>3. ecies_decrypt(k, c) = p /\ c.plain = p
    BY <2>1, <2>2, SealedOpens DEF Sealed
  <2>4. QED
    BY <2>2, <2>3
<1>4. QED
  BY <1>2, <1>3, PTL

-----------------------------------------------------------------------------
(* An identity that was said to go in can be opened. *)

LEMMA InitPromise == Init => PromiseInv
BY DEF Init, PromiseInv, SharesFit, FreshFits, PromisedFits, Up

LEMMA RegisterPromise ==
  ASSUME TypeOK, PromiseInv, NEW p \in Persons, register_kyc(p)
  PROVE  PromiseInv'
<1>1. SharesFit' /\ FreshFits'
  BY DEF PromiseInv, SharesFit, FreshFits, Up, register_kyc
<1>2. ASSUME NEW q \in promised' PROVE Up' /\ blobs'[<<q, "padded">>] = Sealed(privkey', q)
  <2>1. Up' /\ privkey' = privkey
    BY DEF register_kyc, Up
  <2>2. CASE blobs' = blobs /\ promised' = promised
    BY <1>2, <2>1, <2>2 DEF PromiseInv, PromisedFits
  <2>3. CASE /\ widget[p].blob # None
             /\ blobs' = [blobs EXCEPT ![<<p, "padded">>] = widget[p].blob]
             /\ promised' = IF widget[p].fresh THEN promised \cup {p} ELSE promised \ {p}
    <3>1. q \in Persons /\ <<q, "padded">> \in Nullifiers /\ <<p, "padded">> \in Nullifiers
      BY <1>2, <2>3 DEF TypeOK, Nullifiers
    <3>2. CASE q = p
      <4>1. widget[p].fresh
        BY <1>2, <2>3, <3>2
      <4>2. widget[p].blob = Sealed(privkey, p)
        BY <4>1 DEF PromiseInv, FreshFits, register_kyc
      <4>3. QED
        BY <2>1, <2>3, <3>1, <3>2, <4>2 DEF TypeOK
    <3>3. CASE q # p
      <4>1. q \in promised
        BY <1>2, <2>3, <3>3
      <4>2. blobs'[<<q, "padded">>] = blobs[<<q, "padded">>]
        BY <2>3, <3>1, <3>3 DEF TypeOK
      <4>3. QED
        BY <2>1, <4>1, <4>2 DEF PromiseInv, PromisedFits
    <3>4. QED
      BY <3>2, <3>3
  <2>4. QED
    BY <2>2, <2>3 DEF register_kyc
<1>3. QED
  BY <1>1, <1>2 DEF PromiseInv, PromisedFits

LEMMA WidgetPromise ==
  ASSUME TypeOK, PromiseInv, NEW p \in Persons, Fetch(p) \/ StartOver(p)
  PROVE  PromiseInv'
<1>1. UNCHANGED <<memory, promised>>
  BY DEF Fetch, StartOver, memory, history
<1>2. SharesFit' /\ PromisedFits'
  BY <1>1 DEF PromiseInv, SharesFit, PromisedFits, Up, memory
<1>3. ASSUME NEW q \in Persons, widget'[q] # None, widget'[q].fresh
      PROVE  Up' /\ widget'[q].blob = Sealed(privkey', q)
  <2>1. CASE q # p
    <3>1. widget'[q] = widget[q]
      BY <2>1 DEF Fetch, StartOver, TypeOK
    <3>2. QED
      BY <1>1, <1>3, <3>1 DEF PromiseInv, FreshFits, Up, memory
  <2>2. CASE q = p
    <3>1. Up /\ widget' = [widget EXCEPT ![p] = [blob |-> Sealed(get_issuer_pubkey, p), fresh |-> TRUE]]
      BY <1>3, <2>2 DEF Fetch, StartOver, TypeOK
    <3>2. widget'[q].blob = Sealed(get_issuer_pubkey, q)
      BY <2>2, <3>1 DEF TypeOK
    <3>3. QED
      BY <1>1, <3>1, <3>2 DEF Up, memory, get_issuer_pubkey
  <2>3. QED
    BY <2>1, <2>2
<1>4. QED
  BY <1>2, <1>3 DEF PromiseInv, FreshFits

LEMMA StepPromise == TypeOK /\ PromiseInv /\ [Next]_vars => PromiseInv'
<1> SUFFICES ASSUME TypeOK, PromiseInv, [Next]_vars PROVE PromiseInv'
  OBVIOUS
<1>1. CASE Boot
  \* Nothing that was sealed or said before is of this run.
  <2>1. PICK loaded \in load_or_generate_issuer_key :
          privkey' = loaded.key /\ shamir_shares' = init_shamir_shares(loaded.key)
    BY <1>1 DEF Boot
  <2>2. SharesFit'
    BY <2>1 DEF SharesFit, init_shamir_shares
  <2>3. FreshFits' /\ PromisedFits'
    BY <1>1 DEF Boot, PromiseInv, FreshFits, PromisedFits
  <2>4. QED
    BY <2>2, <2>3 DEF PromiseInv
<1>2. CASE BootTorn
  BY <1>2 DEF BootTorn, memory, PromiseInv, SharesFit, FreshFits, PromisedFits, Up
<1>3. CASE Die
  <2>1. ~Up' /\ promised' = {}
    BY <1>3 DEF Die, Up
  <2>2. ASSUME NEW q \in Persons, widget'[q] # None PROVE ~widget'[q].fresh
    <3>1. widget[q] # None /\ widget'[q] = [widget[q] EXCEPT !.fresh = FALSE]
      BY <1>3, <2>2 DEF Die
    <3>2. widget[q] \in [blob : Ciphertexts \cup {Junk, None}, fresh : BOOLEAN]
      BY <3>1 DEF TypeOK
    <3>3. QED
      BY <3>1, <3>2
  <2>3. QED
    BY <2>1, <2>2 DEF PromiseInv, SharesFit, FreshFits, PromisedFits
<1>4. CASE Operate
  BY <1>4 DEF Operate, memory, PromiseInv, SharesFit, FreshFits, PromisedFits, Up
<1>5. ASSUME NEW p \in Persons, Fetch(p) \/ register_kyc(p) \/ StartOver(p) PROVE PromiseInv'
  BY <1>5, RegisterPromise, WidgetPromise
<1>6. ASSUME NEW o \in Orders, create_order(o) \/ execute(o) \/ \E nums \in SUBSET Custodians : approve(o, nums) PROVE PromiseInv'
  BY <1>6 DEF create_order, approve, execute, history, PromiseInv, SharesFit, FreshFits, PromisedFits, Up
<1>7. CASE UNCHANGED vars
  BY <1>7 DEF vars, memory, history, PromiseInv, SharesFit, FreshFits, PromisedFits, Up
<1>8. QED
  BY <1>1, <1>2, <1>3, <1>4, <1>5, <1>6, <1>7 DEF Next

\* Three different shares rebuild the key that the identity of the promise was
\* sealed for.
LEMMA ApprovalReveals ==
  ASSUME TypeOK, PromiseInv, NEW o \in Orders, NEW nums \in SUBSET Custodians,
         Cardinality(nums) = 3, approve(o, nums),
         orders[o].blob = None, orders[o].nullifier[2] = "padded",
         orders[o].nullifier[1] \in promised
  PROVE  orders'[o].decrypted_identity = orders[o].nullifier[1]
<1> DEFINE p == orders[o].nullifier[1]
<1>1. orders[o] \in [nullifier : Nullifiers, blob : Ciphertexts \cup {Junk, None},
                     decrypted_identity : Persons \cup {None, Note, Err}]
  BY DEF TypeOK, approve
<1>2. orders[o].nullifier = <<p, "padded">>
  BY <1>1 DEF Nullifiers
<1>3. p \in Persons /\ Up /\ blobs[<<p, "padded">>] = Sealed(privkey, p) /\ privkey \in Keys
  BY DEF TypeOK, PromiseInv, PromisedFits, Up
<1>4. BlobFor(orders[o]) = Sealed(privkey, p) /\ Sealed(privkey, p) # None
  BY <1>2, <1>3, SealedIsCiphertext DEF BlobFor
<1>5. orders'[o].decrypted_identity = ecies_decrypt(RebuiltKey(nums), Sealed(privkey, p))
  BY <1>1, <1>4 DEF approve, TypeOK
<1>6. RebuiltKey(nums) = privkey
  BY <1>3, ThreeRebuild DEF PromiseInv
<1>7. QED
  BY <1>3, <1>5, <1>6, SealedOpens

\* Whoever was told in this run that the identity went in encrypted is
\* revealed by an order on the full nullifier, if its approvals brought three
\* different shares.
THEOREM PromiseHolds == Spec => PromiseIsKept
<1>1. TypeOK /\ PromiseInv /\ [Next]_vars =>
        [\A o \in Orders :
           orders'[o] # orders[o] /\ orders[o] # None =>
             LET p == orders[o].nullifier[1]
             IN orders[o].blob = None /\ orders[o].nullifier[2] = "padded" /\ p \in promised =>
                  \A nums \in SUBSET Custodians :
                    Cardinality(nums) = 3 /\ approve(o, nums) => orders'[o].decrypted_identity = p]_vars
  BY ApprovalReveals
<1>2. Spec => [](TypeOK /\ PromiseInv)
  BY InitTypes, InitPromise, StepTypes, StepPromise, PTL DEF Spec
<1>3. QED
  BY <1>1, <1>2, PTL DEF Spec, PromiseIsKept

=============================================================================
