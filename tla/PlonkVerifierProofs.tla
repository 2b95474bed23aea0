-------------------------- MODULE PlonkVerifierProofs --------------------------
(***************************************************************************)
(* TLAPS proofs about the verifier of PLONK proofs, for every prime,       *)
(* domain, circuit, witness, blinding, trapdoor and challenge: its         *)
(* Lagrange polynomials, that it accepts what is true, that what it        *)
(* accepts fits the identity of gates and copies, and that a changed proof *)
(* is refused.                                                             *)
(*                                                                         *)
(* The way there: the contract's powers, batch inversion and Lagrange      *)
(* polynomials are what they stand for; the pairing check is a congruence, *)
(* a sum over the points of the proof of its weight times the point (its   *)
(* Residual); for the prover's proof the residual is the identity less the *)
(* quotient times x^N - 1, at zeta; and for a true statement the identity  *)
(* vanishes on the domain, because the accumulator closes, and so the      *)
(* quotient is exact.                                                      *)
(***************************************************************************)
EXTENDS PlonkVerifier, FieldProofs

-----------------------------------------------------------------------------
(* Square and multiply. *)

IsSquareAndMultiply(f) ==
  f = [s \in Nat \X Nat \X Nat |->
         IF s[3] = 0 THEN s[1]
         ELSE f[<< IF s[3] % 2 = 1 THEN s[1] ** s[2] ELSE s[1], s[2] ** s[2], s[3] \div 2 >>]]

\* What comes out with e squarings still to go.
Outcome(a, b, e) == IF e = 0 THEN a ELSE (a * Pow(b, e)) % PRIME

LEMMA FieldIsNat == Field \subseteq Nat /\ \A a, b \in Nat : a ** b \in Field /\ a ** b \in Nat /\ Cong(a ** b, a * b)
<1>1. Field \subseteq Nat
  BY PrimeIsPositive DEF Field
<1>2. ASSUME NEW a \in Nat, NEW b \in Nat PROVE a ** b \in Field /\ Cong(a ** b, a * b)
  BY FieldOps DEF **
<1>3. QED
  BY <1>1, <1>2

LEMMA OutcomeStep ==
  ASSUME NEW a \in Nat, NEW b \in Nat, NEW e \in Nat, e # 0
  PROVE  Outcome(a, b, e) = Outcome(IF e % 2 = 1 THEN a ** b ELSE a, b ** b, e \div 2)
<1> DEFINE h == e \div 2
           aa == IF e % 2 = 1 THEN a ** b ELSE a
           bb == b ** b
           p == Pow(b, h)
           r == Pow(b, e)
<1>1. h \in Nat /\ (e = 2 * h \/ e = 2 * h + 1) /\ (e % 2 = 1 <=> e = 2 * h + 1)
  OBVIOUS
<1>2. aa \in Nat /\ bb \in Nat /\ Cong(bb, b * b) /\ a ** b \in Nat /\ Cong(a ** b, a * b)
  BY FieldIsNat
<1>i. a \in Int /\ b \in Int
  OBVIOUS
<1> HIDE DEF h
<1>3. p \in Int /\ r \in Int
  BY <1>1, PowSteps
<1>4. Cong(Pow(bb, h), p * p) /\ Pow(bb, h) \in Int
  <2>1. b * b \in Int /\ bb \in Int
    BY <1>2
  <2> HIDE DEF bb
  <2>2. Pow(bb, h) = Pow(b * b, h)
    BY <1>1, <1>2, <2>1, PowOfCong
  <2>3. Cong(Pow(b * b, h), p * p)
    BY <1>1, PowTimes
  <2>4. QED
    BY <1>1, <2>1, <2>2, <2>3, PowSteps
<1>5. Cong(Pow(b, 2 * h), p * p) /\ Pow(b, 2 * h) \in Int
  <2>1. h + h = 2 * h /\ 2 * h \in Nat
    BY <1>1
  <2>2. Cong(Pow(b, h + h), p * p)
    BY <1>1, PowAdd
  <2>3. QED
    BY <2>1, <2>2, PowSteps
<1>6. Cong(a * r, aa * (p * p))
  <2>0. p * p \in Int /\ a * r \in Int
    BY <1>3
  <2>1. CASE e = 2 * h
    <3>1. aa = a /\ r = Pow(b, 2 * h)
      BY <1>1, <2>1
    <3> HIDE DEF p, r, aa
    <3>2. Cong(r, p * p)
      BY <1>5, <3>1
    <3>3. Cong(a * r, a * (p * p))
      BY <1>i, <1>3, <2>0, <3>2, CongScale, Zenon
    <3>4. QED
      BY <3>1, <3>3
  <2>2. CASE e = 2 * h + 1
    <3>1. aa = a ** b /\ r = Pow(b, 2 * h + 1) /\ 2 * h \in Nat
      BY <1>1, <2>2
    <3> DEFINE q == Pow(b, 2 * h)
               ab == a ** b
    <3>2. Cong(r, b * q) /\ Cong(q, p * p) /\ q \in Int /\ ab \in Int /\ Cong(ab, a * b)
      BY <1>2, <1>5, <3>1, PowSteps
    <3> HIDE DEF p, r, aa, q, ab
    <3>3. b * q \in Int /\ b * (p * p) \in Int /\ a * (b * q) \in Int /\ a * (b * (p * p)) \in Int /\ ab * (p * p) \in Int
          /\ a * b \in Int /\ (a * b) * (p * p) \in Int /\ (a * b) * (p * p) = a * (b * (p * p))
      BY <1>3, <2>0, <3>2
    <3>4. Cong(b * q, b * (p * p))
      BY <1>i, <2>0, <3>2, <3>3, CongScale, Zenon
    <3>5. Cong(r, b * (p * p))
      BY <1>3, <3>2, <3>3, <3>4, CongTrans
    <3>6. Cong(a * r, a * (b * (p * p)))
      BY <1>i, <1>3, <3>3, <3>5, CongScale, Zenon
    <3>7. Cong(ab * (p * p), (a * b) * (p * p))
      BY <1>i, <2>0, <3>2, <3>3, CongScale, Zenon
    <3>8. Cong(a * r, ab * (p * p))
      <4>1. Cong(ab * (p * p), a * (b * (p * p)))
        BY <3>3, <3>7
      <4>2. QED
        BY <2>0, <3>3, <3>6, <4>1, CongSym, CongTrans
    <3>9. QED
      BY <3>1, <3>8 DEF ab
  <2>3. QED
    BY <1>1, <2>1, <2>2
<1>7. CASE h = 0
  <2>1. e = 1 /\ aa = a ** b
    BY <1>1, <1>7
  <2>2. Cong(r, b)
    BY <2>1, PowOne
  <2> HIDE DEF r
  <2>3. Cong(a * r, a * b) /\ a * r \in Int /\ a * b \in Int
    <3>1. Cong(a * r, a * b)
      BY <1>i, <1>3, <2>2, CongScale, Zenon
    <3>2. QED
      BY <1>3, <3>1
  <2>4. (a * r) % PRIME = (a * b) % PRIME
    BY <2>3, CongMod
  <2>5. QED
    BY <1>7, <2>1, <2>4 DEF Outcome, h, r, **
<1>8. CASE h # 0
  <2> DEFINE q == Pow(bb, h)
  <2> HIDE DEF p, r, aa, q, bb
  <2>1. Cong(aa * q, aa * (p * p)) /\ aa * q \in Int /\ aa * (p * p) \in Int /\ a * r \in Int
    <3>1. q \in Int /\ Cong(q, p * p) /\ p * p \in Int
      BY <1>3, <1>4 DEF q
    <3>2. aa \in Int
      BY <1>2
    <3>3. Cong(aa * q, aa * (p * p))
      BY <3>1, <3>2, CongScale, Zenon
    <3>4. QED
      BY <1>3, <3>1, <3>2, <3>3
  <2>2. Cong(a * r, aa * q)
    BY <1>6, <2>1, CongSym, CongTrans
  <2>3. (a * r) % PRIME = (aa * q) % PRIME
    BY <2>1, <2>2, CongMod
  <2>4. QED
    BY <1>8, <2>3 DEF Outcome, h, r, aa, q, bb
<1>9. QED
  BY <1>7, <1>8

\* Square and multiply is the power.
LEMMA expmodIsPow ==
  ASSUME NEW b \in Nat, NEW e \in Nat
  PROVE  expmod(b, e) = Pow(b, e)
<1> DEFINE w == [s \in Nat \X Nat \X Nat |-> Outcome(s[1], s[2], s[3])]
<1>1. IsSquareAndMultiply(w)
  <2>1. ASSUME NEW s \in Nat \X Nat \X Nat
        PROVE  w[s] = IF s[3] = 0 THEN s[1]
                      ELSE w[<< IF s[3] % 2 = 1 THEN s[1] ** s[2] ELSE s[1], s[2] ** s[2], s[3] \div 2 >>]
    <3> DEFINE x == s[1]
               y == s[2]
               n == s[3]
               xx == IF n % 2 = 1 THEN x ** y ELSE x
               t == <<xx, y ** y, n \div 2>>
    <3>1. x \in Nat /\ y \in Nat /\ n \in Nat /\ w[s] = Outcome(x, y, n)
      OBVIOUS
    <3>2. CASE n = 0
      BY <3>1, <3>2 DEF Outcome
    <3>3. CASE n # 0
      <4>1. xx \in Nat /\ y ** y \in Nat /\ n \div 2 \in Nat
        <5> HIDE DEF x, y, n
        <5>1. QED
          BY <3>1, FieldIsNat
      <4>2. t \in Nat \X Nat \X Nat /\ t[1] = xx /\ t[2] = y ** y /\ t[3] = n \div 2
        <5> HIDE DEF x, y, n, xx
        <5>1. QED
          BY <4>1
      <4>3. w[t] = Outcome(xx, y ** y, n \div 2)
        <5> HIDE DEF x, y, n, xx, t
        <5>1. QED
          BY <4>2
      <4>4. Outcome(x, y, n) = Outcome(xx, y ** y, n \div 2)
        <5> HIDE DEF x, y, n, w, t
        <5>1. QED
          BY <3>1, <3>3, OutcomeStep
      <4>5. w[s] = w[t]
        BY <3>1, <4>3, <4>4, Zenon
      <4> HIDE DEF w
      <4>6. QED
        BY <3>3, <4>5
    <3>4. QED
      BY <3>2, <3>3
  <2>2. QED
    BY <2>1, Zenon DEF IsSquareAndMultiply
<1> HIDE DEF w
<1> DEFINE f == CHOOSE f : IsSquareAndMultiply(f)
<1>2. IsSquareAndMultiply(f)
  BY <1>1
<1>3. expmod(b, e) = f[<<1, b, e>>]
  BY DEF expmod, IsSquareAndMultiply
<1> HIDE DEF f
<1> DEFINE S == {n \in Nat : \A x, y \in Nat : \A k \in 0 .. n : f[<<x, y, k>>] = Outcome(x, y, k)}
<1>4. \A x, y, k \in Nat :
        f[<<x, y, k>>] = IF k = 0 THEN x
                         ELSE f[<< IF k % 2 = 1 THEN x ** y ELSE x, y ** y, k \div 2 >>]
  <2>1. TAKE x, y, k \in Nat
  <2>2. <<x, y, k>> \in Nat \X Nat \X Nat
    OBVIOUS
  <2>3. QED
    BY <1>2, <2>2 DEF IsSquareAndMultiply
<1>5. 0 \in S
  <2>1. ASSUME NEW x \in Nat, NEW y \in Nat, NEW k \in 0 .. 0 PROVE f[<<x, y, k>>] = Outcome(x, y, k)
    <3>1. k = 0 /\ k \in Nat
      OBVIOUS
    <3>2. QED
      BY <1>4, <3>1 DEF Outcome
  <2>2. QED
    BY <2>1
<1>6. ASSUME NEW n \in Nat, n \in S PROVE n + 1 \in S
  <2>1. ASSUME NEW x \in Nat, NEW y \in Nat, NEW k \in 0 .. n + 1 PROVE f[<<x, y, k>>] = Outcome(x, y, k)
    <3>1. CASE k = 0
      BY <1>4, <3>1 DEF Outcome
    <3>2. CASE k # 0
      <4> DEFINE xx == IF k % 2 = 1 THEN x ** y ELSE x
                 yy == y ** y
                 h == k \div 2
      <4>1. xx \in Nat /\ yy \in Nat
        BY FieldIsNat
      <4>2. h \in 0 .. n /\ k \in Nat
        BY <3>2
      <4>3. f[<<x, y, k>>] = f[<<xx, yy, h>>]
        BY <1>4, <3>2, <4>2
      <4>4. Outcome(x, y, k) = Outcome(xx, yy, h)
        BY <3>2, <4>2, OutcomeStep
      <4> HIDE DEF xx, yy, h
      <4>5. f[<<xx, yy, h>>] = Outcome(xx, yy, h)
        BY <1>6, <4>1, <4>2
      <4>6. QED
        BY <4>3, <4>4, <4>5
    <3>3. QED
      BY <3>1, <3>2
  <2>2. QED
    BY <2>1
<1>7. \A n \in Nat : n \in S
  <2> HIDE DEF S
  <2>1. QED
    BY <1>5, <1>6, NatInductionOnSet
<1>8. f[<<1, b, e>>] = Outcome(1, b, e)
  <2>1. e \in S /\ e \in 0 .. e /\ 1 \in Nat
    <3> HIDE DEF S
    <3>1. QED
      BY <1>7
  <2>2. QED
    BY <2>1
<1>9. Outcome(1, b, e) = Pow(b, e)
  <2> DEFINE p == Pow(b, e)
  <2>1. p \in Field /\ p \in Int /\ (e = 0 => p = 1)
    BY PowSteps
  <2>2. Outcome(1, b, e) = IF e = 0 THEN 1 ELSE (1 * p) % PRIME
    BY DEF Outcome
  <2> HIDE DEF p
  <2>3. 1 * p = p /\ p % PRIME = p
    BY <2>1, CongMod
  <2>4. QED
    BY <2>1, <2>2, <2>3 DEF p
<1>10. QED
  BY <1>3, <1>8, <1>9

-----------------------------------------------------------------------------
(* The domain: the powers of OMEGA. *)

LEMMA InvFacts ==
  ASSUME NEW x \in Nat, ~Cong(x, 0)
  PROVE  Inv(x) \in Field /\ Inv(x) \in Int /\ Cong(x * Inv(x), 1)
<1>1. PRIME - 2 \in Nat
  BY PrimeIsPositive
<1>2. Inv(x) = Pow(x, PRIME - 2)
  BY <1>1, expmodIsPow DEF Inv
<1>3. x \in Int
  OBVIOUS
<1>4. Pow(x, PRIME - 2) \in Field
  BY <1>1, <1>3, PowSteps
<1>5. QED
  BY <1>2, <1>3, <1>4, ReciprocalInverts

LEMMA SizeFacts ==
  /\ N \in Nat /\ N >= 1 /\ N < PRIME /\ N \in Field /\ N \in Int /\ ~Cong(N, 0)
  /\ NbPublic \in 1 .. N /\ NbPublic \in Nat
  /\ OMEGA \in Field /\ OMEGA \in Nat /\ OMEGA \in Int /\ SHIFT \in Field /\ SHIFT \in Nat
<1>1. N \in 1 .. PRIME - 1 /\ PRIME \in Nat /\ OMEGA \in Field /\ SHIFT \in Field /\ NbPublic \in 1 .. N
  BY PlonkAssumption, PrimeIsPositive
<1>2. N \in Field /\ N # 0
  BY <1>1 DEF Field
<1>3. ~Cong(N, 0)
  BY <1>2, FieldIsInt
<1>4. QED
  BY <1>1, <1>2, <1>3, FieldIsNat

LEMMA PowerFacts ==
  /\ \A i \in 0 .. N + 2 : /\ Power(i) = Pow(OMEGA, i)
                           /\ Power(i) \in Field /\ Power(i) \in Nat /\ Power(i) \in Int
                           /\ ~Cong(Power(i), 0)
  /\ Pow(OMEGA, N) = 1 /\ ~Cong(OMEGA, 0)
  /\ Power(0) = 1 /\ Power(1) = OMEGA
<1>1. ASSUME NEW i \in Nat PROVE expmod(OMEGA, i) = Pow(OMEGA, i)
  BY SizeFacts, expmodIsPow
<1>2. Pow(OMEGA, N) = 1
  BY <1>1, SizeFacts, PlonkAssumption
<1>3. ~Cong(OMEGA, 0)
  <2>1. N - 1 \in Nat /\ (N - 1) + 1 = N
    BY SizeFacts
  <2> DEFINE m == N - 1
             y == Pow(OMEGA, m)
  <2>2. Cong(Pow(OMEGA, m + 1), OMEGA * y) /\ y \in Int
    BY <2>1, SizeFacts, PowSteps
  <2>3. Cong(1, OMEGA * y)
    BY <1>2, <2>1, <2>2
  <2> HIDE DEF y
  <2>4. ASSUME Cong(OMEGA, 0) PROVE FALSE
    <3>0. 0 \in Int /\ OMEGA \in Int
      BY SizeFacts
    <3>1. Cong(OMEGA * y, 0 * y)
      BY <2>2, <2>4, <3>0, CongScale, Zenon
    <3>2. OMEGA * y \in Int /\ 0 * y = 0
      BY <2>2, SizeFacts
    <3>3. Cong(1, 0)
      BY <2>3, <3>1, <3>2, CongTrans
    <3>4. QED
      BY <3>3, FieldIsInt
  <2>5. QED
    BY <2>4
<1>4. ASSUME NEW i \in 0 .. N + 2
      PROVE  /\ Power(i) = Pow(OMEGA, i)
             /\ Power(i) \in Field /\ Power(i) \in Nat /\ Power(i) \in Int
             /\ ~Cong(Power(i), 0)
  <2>1. i \in Nat
    BY SizeFacts
  <2>2. Power(i) = Pow(OMEGA, i)
    BY <1>1, <2>1 DEF Power, Powers
  <2>3. Pow(OMEGA, i) \in Field
    BY <2>1, SizeFacts, PowSteps
  <2>4. ~Cong(Pow(OMEGA, i), 0)
    BY <1>3, <2>1, SizeFacts, PowNotZero
  <2>5. QED
    BY <2>2, <2>3, <2>4, FieldIsNat, FieldIsInt
<1>5. Power(0) = 1 /\ Power(1) = OMEGA
  <2>1. 0 \in 0 .. N + 2 /\ 1 \in 0 .. N + 2
    BY SizeFacts
  <2>2. Pow(OMEGA, 0) = 1 /\ Pow(OMEGA, 1) \in Field /\ Cong(Pow(OMEGA, 1), OMEGA)
    BY SizeFacts, PowSteps, PowOne
  <2>3. Pow(OMEGA, 1) = OMEGA
    BY <2>2, SizeFacts, CongIsEqual
  <2>4. QED
    BY <1>4, <2>1, <2>2, <2>3
<1>6. QED
  BY <1>2, <1>3, <1>4, <1>5

\* Every power is a root of unity.
LEMMA RootsOfUnity == \A i \in 0 .. N + 2 : Cong(Pow(Power(i), N), 1) /\ Pow(Power(i), N) = 1
<1> DEFINE S == {i \in Nat : Cong(Pow(Pow(OMEGA, i), N), 1)}
<1>0. 1 \in Int /\ N \in Nat /\ OMEGA \in Int
  BY SizeFacts
<1>1. 0 \in S
  <2>1. Pow(OMEGA, 0) = 1
    BY <1>0, PowSteps
  <2> DEFINE T == {n \in Nat : Cong(Pow(1, n), 1)}
  <2>2. 0 \in T
    BY <1>0, PowSteps, CongRefl
  <2>3. ASSUME NEW n \in Nat, n \in T PROVE n + 1 \in T
    <3>0. n + 1 \in Nat
      OBVIOUS
    <3>1. Cong(Pow(1, n + 1), 1 * Pow(1, n)) /\ Pow(1, n) \in Int /\ Pow(1, n + 1) \in Int
      BY <1>0, <3>0, PowSteps, Zenon
    <3>2. QED
      BY <1>0, <2>3, <3>1, CongTrans
  <2>4. N \in T
    <3> HIDE DEF T
    <3>1. QED
      BY <1>0, <2>2, <2>3, NatInductionOnSet
  <2>5. QED
    BY <2>1, <2>4
<1>2. ASSUME NEW i \in Nat, i \in S PROVE i + 1 \in S
  <2> DEFINE w == Pow(OMEGA, i)
  <2>1. w \in Int /\ Cong(Pow(OMEGA, i + 1), OMEGA * w) /\ Pow(OMEGA, i + 1) \in Int /\ Cong(Pow(w, N), 1)
    BY <1>0, <1>2, PowSteps
  <2> HIDE DEF w
  <2>2. OMEGA * w \in Int
    BY <1>0, <2>1
  <2>3. Pow(Pow(OMEGA, i + 1), N) = Pow(OMEGA * w, N)
    BY <1>0, <2>1, <2>2, PowOfCong
  <2>4. Cong(Pow(OMEGA * w, N), Pow(OMEGA, N) * Pow(w, N))
    BY <1>0, <2>1, PowTimes
  <2>5. Pow(OMEGA, N) * Pow(w, N) = Pow(w, N) /\ Pow(w, N) \in Int /\ Pow(OMEGA * w, N) \in Int
    BY <1>0, <2>1, <2>2, PowerFacts, PowSteps
  <2>6. Cong(Pow(OMEGA * w, N), 1)
    BY <1>0, <2>1, <2>4, <2>5, CongTrans
  <2>7. QED
    BY <2>3, <2>6
<1>3. \A i \in Nat : i \in S
  <2> HIDE DEF S
  <2>1. QED
    BY <1>1, <1>2, NatInductionOnSet
<1>4. ASSUME NEW i \in 0 .. N + 2 PROVE Cong(Pow(Power(i), N), 1) /\ Pow(Power(i), N) = 1
  <2>1. i \in Nat /\ Power(i) = Pow(OMEGA, i) /\ Power(i) \in Int
    BY <1>0, PowerFacts
  <2>2. Cong(Pow(Power(i), N), 1)
    BY <1>3, <2>1
  <2>3. Pow(Power(i), N) \in Field /\ 1 \in Field
    BY <1>0, <2>1, PowSteps, FieldIsInt
  <2>4. QED
    BY <2>2, <2>3, CongIsEqual
<1>5. QED
  BY <1>4

LEMMA PowersDiffer ==
  ASSUME NEW i \in 0 .. N - 1, NEW j \in 0 .. N - 1, i < j
  PROVE  ~Cong(Power(i), Power(j))
<1> DEFINE d == j - i
           a == Power(i)
           b == Power(j)
           w == Pow(OMEGA, d)
<1>0. i \in Nat /\ j \in Nat /\ d \in Nat /\ d \in 1 .. N - 1 /\ i + d = j /\ OMEGA \in Int
      /\ i \in 0 .. N + 2 /\ j \in 0 .. N + 2
  BY SizeFacts
<1>1. a = Pow(OMEGA, i) /\ b = Pow(OMEGA, j) /\ a \in Int /\ b \in Int /\ ~Cong(a, 0)
  BY <1>0, PowerFacts
<1>2. w \in Int /\ w \in Field /\ Cong(Pow(OMEGA, i + d), Pow(OMEGA, i) * w)
  BY <1>0, PowAdd, PowSteps
<1>3. Cong(b, a * w)
  BY <1>0, <1>1, <1>2
<1>4. w # 1
  <2>1. expmod(OMEGA, d) = Pow(OMEGA, d)
    BY <1>0, SizeFacts, expmodIsPow
  <2>2. QED
    BY <1>0, <2>1, PlonkAssumption
<1> HIDE DEF a, b, w
<1>5. ASSUME Cong(a, b) PROVE FALSE
  <2>1. a * 1 = a /\ a * w \in Int /\ a * 1 \in Int /\ 1 \in Int
    BY <1>1, <1>2
  <2>2. Cong(a * 1, a * w)
    BY <1>1, <1>3, <1>5, <2>1, CongTrans
  <2>3. Cong(1, w)
    BY <1>1, <1>2, <2>1, <2>2, CongCancel
  <2>4. QED
    BY <1>2, <1>4, <2>3, FieldIsInt, CongIsEqual
<1>6. QED
  BY <1>5 DEF a, b

Domain == [i \in Rows |-> Power(i)]

LEMMA DomainFacts ==
  /\ Rows \subseteq Nat /\ IsFiniteSet(Rows) /\ Cardinality(Rows) = N
  /\ Domain \in [Rows -> Int] /\ Distant(Domain, Rows)
  /\ \A i \in Rows : /\ i \in 0 .. N + 2 /\ Domain[i] = Power(i)
                     /\ \A j \in Rows : i # j => ~Cong(Power(i) - Power(j), 0)
<1>1. Rows \subseteq Nat /\ \A i \in Rows : i \in 0 .. N + 2 /\ i \in 0 .. N - 1
  BY SizeFacts DEF Rows
<1>2. IsFiniteSet(Rows) /\ Cardinality(Rows) = N
  <2>1. 0 \in Int /\ N - 1 \in Int /\ 0 <= N - 1 /\ (N - 1) - 0 + 1 = N
    BY SizeFacts
  <2>2. QED
    BY <2>1, FS_Interval DEF Rows
<1>3. Domain \in [Rows -> Int] /\ \A i \in Rows : Domain[i] = Power(i)
  BY <1>1, PowerFacts DEF Domain
<1>4. ASSUME NEW i \in Rows, NEW j \in Rows, i # j PROVE ~Cong(Power(i) - Power(j), 0)
  <2> DEFINE a == Power(i)
             b == Power(j)
  <2>1. a \in Int /\ b \in Int
    BY <1>1, PowerFacts
  <2>2. ~Cong(a, b) /\ ~Cong(b, a)
    <3>1. i < j \/ j < i
      BY <1>1, <1>4
    <3>2. ~Cong(a, b) \/ ~Cong(b, a)
      BY <1>1, <3>1, PowersDiffer
    <3> HIDE DEF a, b
    <3>3. QED
      BY <2>1, <3>2, CongSym
  <2> HIDE DEF a, b
  <2>3. ASSUME Cong(a - b, 0) PROVE Cong(a, b)
    BY <2>1, <2>3 DEF Cong
  <2>4. QED
    BY <2>2, <2>3 DEF a, b
<1>5. Distant(Domain, Rows)
  BY <1>3, <1>4 DEF Distant
<1>6. QED
  BY <1>1, <1>2, <1>3, <1>4, <1>5

-----------------------------------------------------------------------------
(* x^N - 1 and the basis of the domain. *)

LEMMA VanishingFacts ==
  /\ Vanishing \in Poly /\ Len(Vanishing) = N + 1
  /\ \A k \in Nat \ {0} : At(Vanishing, k) = IF k = 1 THEN PRIME - 1 ELSE IF k = N + 1 THEN 1 ELSE 0
<1> DEFINE f == [k \in 1 .. N + 1 |-> IF k = 1 THEN PRIME - 1 ELSE IF k = N + 1 THEN 1 ELSE 0]
<1>1. f \in [1 .. N + 1 -> Field] /\ N + 1 \in Nat
  BY SizeFacts, PrimeIsPositive DEF Field
<1>2. Vanishing = f
  BY <1>1, Stored DEF Vanishing
<1>3. f \in Poly /\ Len(f) = N + 1
  <2> HIDE DEF f
  <2>1. QED
    BY <1>1, Stored
<1>4. ASSUME NEW k \in Nat \ {0}
      PROVE  At(f, k) = IF k = 1 THEN PRIME - 1 ELSE IF k = N + 1 THEN 1 ELSE 0
  <2>1. At(f, k) = IF k \in 1 .. N + 1 THEN f[k] ELSE 0
    BY <1>3 DEF At
  <2>2. QED
    BY <2>1, SizeFacts
<1>5. QED
  BY <1>2, <1>3, <1>4

LEMMA EvalVanishing ==
  ASSUME NEW x \in Int
  PROVE  /\ Cong(Eval(Vanishing, x), Pow(x, N) - 1)
         /\ \A k \in 1 .. N : Cong(Suf(Vanishing, x, k + 1), Pow(x, N - k))
<1> DEFINE u == [k \in 1 .. N + 2 |-> IF k = N + 2 THEN 0
                                      ELSE IF k = 1 THEN Pow(x, N) - 1 ELSE Pow(x, N + 1 - k)]
<1>0. N \in Nat /\ N >= 1 /\ N + 1 \in Nat /\ (N + 1) + 1 = N + 2
  BY SizeFacts
<1>1. \A m \in Nat : Pow(x, m) \in Int /\ Cong(Pow(x, m + 1), x * Pow(x, m))
  BY PowSteps
<1>2. \A k \in 1 .. N + 1 : N + 1 - k \in Nat
  BY <1>0
<1>3. u \in [1 .. N + 2 -> Int]
  <2>1. ASSUME NEW k \in 1 .. N + 2 PROVE u[k] \in Int
    <3>1. CASE k = N + 2
      BY <3>1
    <3>2. CASE k # N + 2
      <4>1. N + 1 - k \in Nat
        BY <1>0, <3>2
      <4>2. QED
        BY <1>0, <1>1, <4>1
    <3>3. QED
      BY <3>1, <3>2
  <2>2. QED
    BY <2>1
<1>4. Steps(Vanishing, x, N + 1, u)
  <2>1. Cong(u[(N + 1) + 1], 0)
    BY <1>0, CongRefl
  <2>2. ASSUME NEW k \in 1 .. N + 1 PROVE Cong(u[k], At(Vanishing, k) + x * u[k + 1])
    <3>0. k \in Nat \ {0} /\ k \in 1 .. N + 2 /\ k + 1 \in 1 .. N + 2
      BY <1>0
    <3>1. CASE k = N + 1
      <4>0. N + 1 - k = 0 /\ k # 1 /\ k # N + 2 /\ k + 1 = N + 2 /\ Pow(x, 0) = 1
        BY <1>0, <3>0, <3>1, PowSteps
      <4>1. u[k] = 1 /\ u[k + 1] = 0 /\ At(Vanishing, k) = 1
        BY <3>0, <3>1, <4>0, VanishingFacts
      <4>2. 1 + x * 0 = 1
        OBVIOUS
      <4>3. QED
        BY <4>1, <4>2, CongRefl
    <3>2. CASE k # N + 1
      <4> DEFINE m == N - k
                 w == Pow(x, m)
                 y == Pow(x, m + 1)
      <4>1. m \in Nat /\ m + 1 = N + 1 - k /\ N + 1 - (k + 1) = m /\ k + 1 # 1 /\ k + 1 # N + 2 /\ k # N + 2
        BY <1>0, <3>0, <3>2
      <4>2. u[k + 1] = w /\ w \in Int /\ y \in Int /\ Cong(y, x * w)
        BY <1>1, <3>0, <4>1
      <4>3. CASE k = 1
        <5>0. m + 1 = N
          BY <1>0, <4>3
        <5>1. u[k] = y - 1 /\ At(Vanishing, k) = PRIME - 1
          BY <3>0, <4>1, <4>3, <5>0, VanishingFacts
        <5> HIDE DEF w, y, u, m
        <5>2. PICK q \in Int : y - x * w = PRIME * q
          BY <4>2 DEF Cong
        <5>3. x * w \in Int /\ PRIME \in Int
          BY <4>2, PrimeIsPositive
        <5>4. (y - 1) - ((PRIME - 1) + x * w) = PRIME * (q - 1)
          BY <4>2, <5>2, <5>3
        <5>5. QED
          BY <4>2, <5>1, <5>4 DEF Cong
      <4>4. CASE k # 1
        <5>1. u[k] = y /\ At(Vanishing, k) = 0
          BY <3>0, <3>2, <4>1, <4>4, VanishingFacts
        <5> HIDE DEF w, y, u, m
        <5>2. 0 + x * w = x * w
          BY <4>2
        <5>3. QED
          BY <4>2, <5>1, <5>2
      <4>5. QED
        BY <4>3, <4>4
    <3>3. QED
      BY <3>1, <3>2
  <2>3. QED
    BY <2>1, <2>2 DEF Steps
<1>5. u[1] = Pow(x, N) - 1 /\ \A k \in 1 .. N : k + 1 \in 1 .. N + 2 /\ u[k + 1] = Pow(x, N - k)
  <2>1. ASSUME NEW k \in 1 .. N PROVE k + 1 \in 1 .. N + 2 /\ k + 1 # N + 2 /\ k + 1 # 1 /\ N + 1 - (k + 1) = N - k
    BY <1>0
  <2>2. QED
    BY <1>0, <2>1
<1> HIDE DEF u
<1>6. Cong(Eval(Vanishing, x), u[1]) /\ \A k \in 1 .. N + 2 : Cong(Suf(Vanishing, x, k), u[k])
  <2>1. u \in [1 .. (N + 1) + 1 -> Int] /\ Len(Vanishing) <= N + 1 /\ Vanishing \in Poly
    BY <1>0, <1>3, VanishingFacts
  <2>2. QED
    BY <1>0, <1>4, <2>1, EvalIs
<1>7. QED
  BY <1>5, <1>6

\* (x^N - z^N) / (x - z), at z too.
LEMMA OpenedVanishing ==
  ASSUME NEW z \in Int
  PROVE  /\ Opened(Vanishing, z) \in Poly /\ Len(Opened(Vanishing, z)) = N
         /\ Opened(Vanishing, z)[N] = 1
         /\ \A x \in Int : Cong((x - z) * Eval(Opened(Vanishing, z), x), Pow(x, N) - Pow(z, N))
         /\ Cong(Eval(Opened(Vanishing, z), z), N * Pow(z, N - 1))
<1> DEFINE o == Opened(Vanishing, z)
           u == [k \in 1 .. N + 1 |-> IF k = N + 1 THEN 0 ELSE (N + 1 - k) * Pow(z, N - k)]
<1>0. N \in Nat /\ N >= 1 /\ N - 1 \in Nat
  BY SizeFacts
<1>1. /\ o \in Poly /\ Len(o) = N
      /\ \A k \in Nat \ {0} : At(o, k) = Suf(Vanishing, z, k + 1)
      /\ \A x \in Int : Cong((x - z) * Eval(o, x), Eval(Vanishing, x) - Eval(Vanishing, z))
  <2>1. Vanishing \in Poly /\ Len(Vanishing) = N + 1 /\ N + 1 > 0 /\ (N + 1) - 1 = N
    BY <1>0, VanishingFacts
  <2>2. QED
    BY <2>1, OpenedFacts
<1>2. o[N] = 1
  <2>1. Vanishing \in Poly /\ Len(Vanishing) = N + 1 /\ N + 1 > 1 /\ (N + 1) - 1 = N /\ N + 1 \in Nat \ {0}
    BY <1>0, VanishingFacts
  <2>2. o[N] = Vanishing[N + 1]
    BY <2>1, OpenedLeads
  <2>3. At(Vanishing, N + 1) = 1 /\ At(Vanishing, N + 1) = Vanishing[N + 1]
    BY <1>0, <2>1, VanishingFacts DEF At
  <2>4. QED
    BY <2>2, <2>3
<1> HIDE DEF o
<1>3. \A x \in Int : Cong((x - z) * Eval(o, x), Pow(x, N) - Pow(z, N))
  <2>1. TAKE x \in Int
  <2> DEFINE a == (x - z) * Eval(o, x)
             v == Eval(Vanishing, x)
             w == Eval(Vanishing, z)
             y == Pow(x, N)
             t == Pow(z, N)
  <2>2. Eval(o, x) \in Int /\ v \in Int /\ w \in Int /\ y \in Int /\ t \in Int
    <3> HIDE DEF u
    <3>1. \A p \in Poly : Eval(p, x) \in Int /\ Eval(p, z) \in Int
      <4>1. 1 \in Nat \ {0}
        OBVIOUS
      <4>2. QED
        BY <4>1, SufStep
    <3>2. Eval(o, x) \in Int /\ v \in Int /\ w \in Int
      BY <1>1, <3>1, VanishingFacts
    <3>3. y \in Int /\ t \in Int
      BY <1>0, PowSteps
    <3>4. QED
      BY <3>2, <3>3
  <2>3. a \in Int
    BY <2>2
  <2>4. Cong(a, v - w) /\ Cong(v, y - 1) /\ Cong(w, t - 1)
    BY <1>1, EvalVanishing
  <2> HIDE DEF a, v, w, y, t
  <2>5. Cong(v - w, (y - 1) - (t - 1)) /\ (y - 1) - (t - 1) = y - t
    <3>1. y - 1 \in Int /\ t - 1 \in Int /\ (y - 1) - (t - 1) = y - t
      BY <2>2
    <3>2. QED
      BY <2>2, <2>4, <3>1, CongAdd
  <2>6. Cong(a, y - t)
    <3>1. v - w \in Int /\ y - t \in Int
      BY <2>2
    <3>2. QED
      BY <2>3, <2>4, <2>5, <3>1, CongTrans
  <2>7. QED
    BY <2>6 DEF a, y, t
<1>4. Cong(Eval(o, z), N * Pow(z, N - 1))
  <2>1. \A m \in Nat : Pow(z, m) \in Int /\ Cong(Pow(z, m + 1), z * Pow(z, m))
    BY PowSteps
  <2>2. u \in [1 .. N + 1 -> Int]
    <3>1. ASSUME NEW k \in 1 .. N + 1 PROVE u[k] \in Int
      <4>1. CASE k = N + 1
        BY <4>1
      <4>2. CASE k # N + 1
        <5>1. N - k \in Nat /\ N + 1 - k \in Int
          BY <1>0, <4>2
        <5>2. Pow(z, N - k) \in Int
          BY <2>1, <5>1
        <5>3. QED
          BY <4>2, <5>1, <5>2
      <4>3. QED
        BY <4>1, <4>2
    <3>2. QED
      BY <3>1
  <2>3. Steps(o, z, N, u)
    <3>1. Cong(u[N + 1], 0)
      BY <1>0, CongRefl
    <3>2. ASSUME NEW k \in 1 .. N PROVE Cong(u[k], At(o, k) + z * u[k + 1])
      <4> DEFINE m == N - k
                 w == Pow(z, m)
                 s == At(o, k)
      <4>1. m \in Nat /\ k \in Nat \ {0} /\ k \in 1 .. N + 1 /\ k # N + 1 /\ N + 1 - k = m + 1 /\ k + 1 \in 1 .. N + 1
        BY <1>0
      <4>2. s = Suf(Vanishing, z, k + 1) /\ Cong(s, w) /\ w \in Int /\ s \in Int
        <5>1. s = Suf(Vanishing, z, k + 1)
          BY <1>1, <4>1
        <5>2. Cong(Suf(Vanishing, z, k + 1), w)
          BY EvalVanishing
        <5>3. s \in Int
          BY <1>1, PolyFacts
        <5>4. QED
          BY <2>1, <4>1, <5>1, <5>2, <5>3
      <4>3. u[k] = (m + 1) * w
        BY <4>1
      <4>4. CASE k = N
        <5>1. m = 0 /\ u[k + 1] = 0 /\ z * 0 = 0 /\ w = 1 /\ 0 + 1 = 1
          BY <1>0, <4>1, <4>4, PowSteps
        <5>2. u[k] = 1 /\ s + z * u[k + 1] = s
          <6> HIDE DEF u, w, s, m
          <6>1. (m + 1) * w = 1
            BY <5>1
          <6>2. s + z * u[k + 1] = s
            BY <4>2, <5>1
          <6>3. QED
            BY <4>3, <6>1, <6>2
        <5>3. Cong(s, 1) /\ 1 \in Int
          BY <4>2, <5>1
        <5>4. QED
          BY <4>2, <5>2, <5>3, CongSym
      <4>5. CASE k # N
        <5> DEFINE n == m - 1
                   y == Pow(z, n)
        <5>1. n \in Nat /\ n + 1 = m /\ N - (k + 1) = n /\ N + 1 - (k + 1) = m /\ k + 1 # N + 1
          BY <1>0, <4>1, <4>5
        <5>2. u[k + 1] = m * y
          BY <4>1, <5>1
        <5>3. y \in Int /\ Cong(w, z * y)
          BY <2>1, <5>1
        <5> HIDE DEF w, y, s, u, m, n
        <5>4. PICK p \in Int : s - w = PRIME * p
          BY <4>2 DEF Cong
        <5>5. PICK q \in Int : w - z * y = PRIME * q
          BY <5>3 DEF Cong
        <5>6. m \in Int /\ z * y \in Int /\ PRIME \in Int /\ m * w \in Int /\ m * (z * y) \in Int
          BY <4>1, <4>2, <5>3, PrimeIsPositive
        <5>7. (m + 1) * w = m * w + w /\ z * (m * y) = m * (z * y)
          BY <4>2, <5>3, <5>6
        <5>8. m * w - m * (z * y) = PRIME * (m * q)
          <6>1. m * w - m * (z * y) = m * (w - z * y)
            BY <4>2, <5>6
          <6>2. m * (PRIME * q) = PRIME * (m * q)
            BY <5>5, <5>6
          <6>3. QED
            BY <5>5, <6>1, <6>2
        <5>9. (m * w + w) - (s + m * (z * y)) = PRIME * (m * q - p)
          <6> DEFINE a == m * w
                     b == m * (z * y)
                     c == m * q
          <6>1. a \in Int /\ b \in Int /\ c \in Int
            BY <5>6
          <6> HIDE DEF a, b, c
          <6>2. PRIME * (c - p) = PRIME * c - PRIME * p /\ PRIME * c \in Int /\ PRIME * p \in Int
            BY <5>6, <6>1
          <6>3. a - b = PRIME * c
            BY <5>8 DEF a, b, c
          <6>4. (a + w) - (s + b) = PRIME * (c - p)
            BY <4>2, <5>4, <6>1, <6>2, <6>3
          <6>5. QED
            BY <6>4 DEF a, b, c
        <5>10. m * q - p \in Int
          BY <5>6
        <5>11. Cong((m + 1) * w, s + z * (m * y))
          BY <5>7, <5>9, <5>10 DEF Cong
        <5>12. QED
          BY <4>3, <5>2, <5>11 DEF s
      <4>6. QED
        BY <4>4, <4>5
    <3>3. QED
      BY <3>1, <3>2 DEF Steps
  <2>4. u[1] = N * Pow(z, N - 1)
    <3>1. 1 \in 1 .. N + 1 /\ 1 # N + 1 /\ N + 1 - 1 = N
      BY <1>0
    <3>2. QED
      BY <3>1
  <2> HIDE DEF u
  <2>5. Cong(Eval(o, z), u[1])
    <3>1. Len(o) <= N
      BY <1>0, <1>1
    <3>2. QED
      BY <1>0, <1>1, <2>2, <2>3, <3>1, EvalIs
  <2>6. QED
    BY <2>4, <2>5
<1>5. QED
  BY <1>1, <1>2, <1>3, <1>4 DEF o

LEMMA EvalInt == ASSUME NEW p \in Poly, NEW x \in Int PROVE Eval(p, x) \in Field /\ Eval(p, x) \in Int
<1>1. 1 \in Nat \ {0}
  OBVIOUS
<1>2. QED
  BY <1>1, SufStep

LEMMA BasisFacts ==
  ASSUME NEW i \in Rows
  PROVE  /\ Basis[i] \in Poly /\ Len(Basis[i]) = N
         /\ \A x \in Int : Cong((x - Power(i)) * Eval(Basis[i], x), Power(i) * (Inv(N) * (Pow(x, N) - 1)))
         /\ Cong(Eval(Basis[i], Power(i)), 1)
         /\ \A j \in Rows : i # j => Cong(Eval(Basis[i], Power(j)), 0)
<1> DEFINE w == Power(i)
           n == Inv(N)
           c == n ** w
           o == Opened(Vanishing, w)
           b == Basis[i]
<1>0. w \in Int /\ n \in Int /\ c \in Int /\ Cong(c, n * w) /\ Pow(w, N) = 1 /\ Cong(N * n, 1) /\ N \in Int
      /\ i \in 0 .. N + 2 /\ i \in 0 .. N - 1
  <2>1. i \in 0 .. N + 2 /\ i \in 0 .. N - 1
    BY DomainFacts DEF Rows
  <2>2. w \in Int /\ n \in Int /\ Cong(N * n, 1) /\ Pow(w, N) = 1
    BY <2>1, PowerFacts, RootsOfUnity, InvFacts, SizeFacts
  <2>3. c \in Int /\ Cong(c, n * w)
    <3> HIDE DEF n, w
    <3>1. QED
      BY <2>2, FieldOps DEF **
  <2>4. QED
    BY <2>1, <2>2, <2>3, SizeFacts
<1>1. b = Scaled(c, o)
  BY DEF Basis
<1>2. /\ o \in Poly /\ Len(o) = N
      /\ \A x \in Int : Cong((x - w) * Eval(o, x), Pow(x, N) - Pow(w, N))
      /\ Cong(Eval(o, w), N * Pow(w, N - 1))
  BY <1>0, OpenedVanishing
<1> HIDE DEF o, c, n, w
<1>3. b \in Poly /\ Len(b) = N /\ \A x \in Int : Cong(Eval(b, x), c * Eval(o, x))
  BY <1>0, <1>1, <1>2, ScaledFacts, EvalScaled
<1> HIDE DEF b
<1>4. ASSUME NEW x \in Int PROVE Cong((x - w) * Eval(b, x), w * (n * (Pow(x, N) - 1)))
  <2> DEFINE e == Eval(b, x)
             f == Eval(o, x)
             y == Pow(x, N) - 1
             d == x - w
  <2>1. e \in Int /\ f \in Int /\ y \in Int /\ d \in Int
    <3>1. Pow(x, N) \in Int
      BY PowSteps, SizeFacts
    <3>2. e \in Int /\ f \in Int
      BY <1>2, <1>3, EvalInt
    <3>3. QED
      BY <1>0, <3>1, <3>2
  <2>2. Cong(e, c * f) /\ Cong(d * f, y) /\ Cong(c, n * w)
    BY <1>0, <1>2, <1>3
  <2> HIDE DEF e, f, y, d
  <2>3. c * f \in Int /\ d * e \in Int /\ d * f \in Int /\ n * w \in Int /\ c * y \in Int /\ d * (c * f) \in Int
    BY <1>0, <2>1
  <2>4. Cong(d * e, d * (c * f))
    BY <2>1, <2>2, <2>3, CongScale, Zenon
  <2>5. Cong(c * (d * f), c * y)
    BY <1>0, <2>1, <2>2, <2>3, CongScale, Zenon
  <2>6. d * (c * f) = c * (d * f)
    BY <1>0, <2>1
  <2>7. Cong(c * y, (n * w) * y)
    BY <1>0, <2>1, <2>2, <2>3, CongScale, Zenon
  <2>8. (n * w) * y = w * (n * y) /\ w * (n * y) \in Int
    BY <1>0, <2>1
  <2>9. Cong(d * e, w * (n * y))
    BY <2>3, <2>4, <2>5, <2>6, <2>7, <2>8, CongChain
  <2>10. QED
    BY <2>9 DEF d, e, y
<1>5. Cong(Eval(b, w), 1)
  <2> DEFINE e == Eval(b, w)
             f == Eval(o, w)
             y == Pow(w, N - 1)
  <2>1. N - 1 \in Nat /\ (N - 1) + 1 = N
    BY SizeFacts
  <2>2. e \in Int /\ f \in Int /\ y \in Int /\ Cong(1, w * y)
    BY <1>0, <1>2, <1>3, <2>1, EvalInt, PowSteps
  <2>3. Cong(e, c * f) /\ Cong(f, N * y)
    BY <1>0, <1>2, <1>3
  <2> HIDE DEF e, f, y
  <2>4. c * f \in Int /\ N * y \in Int /\ n * w \in Int /\ w * y \in Int /\ N * n \in Int /\ 1 \in Int
        /\ (n * w) * (N * y) \in Int
    BY <1>0, <2>2
  <2>5. Cong(c * f, (n * w) * (N * y))
    BY <1>0, <2>2, <2>3, <2>4, CongMul
  <2>6. (n * w) * (N * y) = (N * n) * (w * y)
    BY <1>0, <2>2
  <2>7. Cong((N * n) * (w * y), 1 * 1) /\ 1 * 1 = 1
    BY <1>0, <2>2, <2>4, CongSym, CongMul
  <2>8. Cong(e, 1)
    BY <2>2, <2>3, <2>4, <2>5, <2>6, <2>7, CongChain
  <2>9. QED
    BY <2>8 DEF e
<1>6. ASSUME NEW j \in Rows, i # j PROVE Cong(Eval(b, Power(j)), 0)
  <2> DEFINE x == Power(j)
             e == Eval(b, x)
  <2>1. x \in Int /\ Pow(x, N) = 1 /\ ~Cong(x - w, 0)
    <3>1. j \in 0 .. N + 2
      BY DomainFacts
    <3>2. ~Cong(Power(j) - Power(i), 0)
      BY <1>6, DomainFacts
    <3>3. QED
      BY <3>1, <3>2, PowerFacts, RootsOfUnity DEF w
  <2>2. Cong((x - w) * e, w * (n * (Pow(x, N) - 1))) /\ e \in Int
    BY <1>3, <1>4, <2>1, EvalInt
  <2>3. w * (n * (Pow(x, N) - 1)) = 0
    BY <1>0, <2>1
  <2> HIDE DEF e, x
  <2>4. x - w \in Int /\ Cong((x - w) * e, 0)
    BY <1>0, <2>1, <2>2, <2>3
  <2>5. QED
    BY <2>1, <2>2, <2>4, NoZeroDivisors DEF e, x
<1>7. QED
  BY <1>3, <1>4, <1>5, <1>6 DEF b, w, n

IsInterpolated(v, s) ==
  s = [i \in 0 .. N |-> IF i = 0 THEN <<>> ELSE Plus(s[i - 1], Scaled(v[i - 1], Basis[i - 1]))]

LEMMA InterpolatedExists ==
  ASSUME NEW v \in [Rows -> Int]
  PROVE  \E s : IsInterpolated(v, s) /\ Interpolated(v) = s[N]
<1> DEFINE G == [y \in (1 .. N) \X Poly |-> Plus(y[2], Scaled(v[y[1] - 1], Basis[y[1] - 1]))]
<1>0. N \in Nat
  BY SizeFacts
<1>1. G \in [(1 .. N) \X Poly -> Poly]
  <2>1. ASSUME NEW y \in (1 .. N) \X Poly PROVE G[y] \in Poly
    <3> DEFINE i == y[1] - 1
    <3>1. y[2] \in Poly /\ i \in Rows
      BY SizeFacts DEF Rows
    <3>2. v[i] \in Int /\ Basis[i] \in Poly
      BY <3>1, BasisFacts
    <3>3. G[y] = Plus(y[2], Scaled(v[i], Basis[i]))
      OBVIOUS
    <3> HIDE DEF G, i
    <3>4. QED
      BY <3>1, <3>2, <3>3, PlusFacts, ScaledFacts
  <2>2. QED
    BY <2>1
<1>2. <<>> \in Poly
  BY DEF Poly
<1>3. PICK f \in [0 .. N -> Poly] : Upwards(N, <<>>, G, f)
  <2> HIDE DEF G
  <2>1. QED
    BY <1>0, <1>1, <1>2, UpwardsExists
<1>4. IsInterpolated(v, f)
  <2>1. ASSUME NEW i \in 0 .. N
        PROVE  f[i] = IF i = 0 THEN <<>> ELSE Plus(f[i - 1], Scaled(v[i - 1], Basis[i - 1]))
    <3>1. CASE i = 0
      BY <1>3, <3>1 DEF Upwards
    <3>2. CASE i # 0
      <4>1. i \in 1 .. N /\ i - 1 \in 0 .. N
        BY <1>0, <3>2
      <4>2. f[i] = G[<<i, f[i - 1]>>] /\ f[i - 1] \in Poly
        <5> HIDE DEF G
        <5>1. QED
          BY <1>3, <4>1 DEF Upwards
      <4>3. QED
        BY <3>2, <4>1, <4>2
    <3>3. QED
      BY <3>1, <3>2
  <2>2. QED
    BY <2>1, Zenon DEF IsInterpolated
<1> DEFINE s == CHOOSE s : IsInterpolated(v, s)
<1>6. IsInterpolated(v, s)
  BY <1>4
<1>7. Interpolated(v) = s[N]
  BY DEF Interpolated, IsInterpolated
<1> HIDE DEF s
<1>8. QED
  BY <1>6, <1>7

LEMMA InterpolatedFacts ==
  ASSUME NEW v \in [Rows -> Int]
  PROVE  /\ Interpolated(v) \in Poly /\ Len(Interpolated(v)) = N
         /\ \A j \in Rows : Cong(Eval(Interpolated(v), Power(j)), v[j])
<1>0. N \in Nat /\ N >= 1
  BY SizeFacts
<1>1. PICK s : IsInterpolated(v, s) /\ Interpolated(v) = s[N]
  BY InterpolatedExists
<1> DEFINE Good(m) == /\ s[m] \in Poly /\ Len(s[m]) = IF m = 0 THEN 0 ELSE N
                      /\ \A j \in Rows : Cong(Eval(s[m], Power(j)), IF j < m THEN v[j] ELSE 0)
           S == {m \in Nat : m <= N => Good(m)}
<1>2. \A i \in 0 .. N : s[i] = IF i = 0 THEN <<>> ELSE Plus(s[i - 1], Scaled(v[i - 1], Basis[i - 1]))
  <2> DEFINE h(i) == IF i = 0 THEN <<>> ELSE Plus(s[i - 1], Scaled(v[i - 1], Basis[i - 1]))
  <2>1. s = [i \in 0 .. N |-> h(i)]
    BY <1>1, Zenon DEF IsInterpolated
  <2> HIDE DEF h
  <2>2. \A i \in 0 .. N : s[i] = h(i)
    BY <2>1
  <2>3. QED
    BY <2>2 DEF h
<1>3. 0 \in S
  <2>1. s[0] = <<>> /\ <<>> \in Poly /\ Len(<<>>) = 0
    BY <1>0, <1>2 DEF Poly
  <2>2. ASSUME NEW j \in Rows PROVE Cong(Eval(<<>>, Power(j)), IF j < 0 THEN v[j] ELSE 0)
    <3>1. Power(j) \in Int /\ ~(j < 0)
      BY DomainFacts, PowerFacts
    <3>2. Eval(<<>>, Power(j)) = Suf(<<>>, Power(j), 1) /\ Suf(<<>>, Power(j), 1) = 0
      <4>1. 1 \in Nat \ {0} /\ 1 > Len(<<>>)
        BY <2>1
      <4>2. QED
        BY <2>1, <3>1, <4>1, SufStep
    <3>3. QED
      BY <3>1, <3>2, CongRefl
  <2>3. Good(0)
    BY <2>1, <2>2
  <2>4. QED
    BY <2>3
<1>4. ASSUME NEW m \in Nat, m \in S PROVE m + 1 \in S
  <2>1. SUFFICES ASSUME m + 1 <= N PROVE Good(m + 1)
    BY <1>0
  <2> DEFINE p == s[m]
             b == Basis[m]
             c == v[m]
             r == Scaled(c, b)
  <2>2. m \in Rows /\ m + 1 \in 0 .. N /\ m + 1 # 0 /\ (m + 1) - 1 = m /\ m <= N
    BY <1>0, <2>1 DEF Rows
  <2>3. s[m + 1] = Plus(p, r)
    BY <1>2, <2>2
  <2>4. Good(m)
    BY <1>4, <2>2
  <2>5. /\ b \in Poly /\ Len(b) = N /\ c \in Int
        /\ Cong(Eval(b, Power(m)), 1) /\ \A j \in Rows : m # j => Cong(Eval(b, Power(j)), 0)
    BY <2>2, BasisFacts
  <2>6. p \in Poly /\ Len(p) = IF m = 0 THEN 0 ELSE N
    BY <2>4
  <2>7. r \in Poly /\ Len(r) = N /\ \A x \in Int : Cong(Eval(r, x), c * Eval(b, x))
    <3> HIDE DEF b, c
    <3>1. QED
      BY <2>5, ScaledFacts, EvalScaled
  <2>8. ASSUME NEW j \in Rows PROVE Cong(Eval(Plus(p, r), Power(j)), IF j < m + 1 THEN v[j] ELSE 0)
    <3> DEFINE x == Power(j)
               e == Eval(p, x)
               g == Eval(b, x)
               a == Eval(r, x)
               t == Eval(Plus(p, r), x)
    <3>1. x \in Int /\ j \in Int /\ v[j] \in Int
      BY DomainFacts, PowerFacts
    <3>2. Cong(e, IF j < m THEN v[j] ELSE 0)
      BY <2>4
    <3> HIDE DEF x, p, b, r
    <3>3. e \in Int /\ g \in Int /\ a \in Int /\ t \in Int /\ Cong(t, e + a) /\ Cong(a, c * g)
      BY <2>5, <2>6, <2>7, <3>1, EvalInt, EvalPlus, PlusFacts
    <3> HIDE DEF e, g, a, t
    <3>4. 0 \in Int /\ 1 \in Int /\ c * g \in Int /\ c \in Int
      BY <2>5, <3>3
    <3>5. CASE j = m
      <4>1. Cong(g, 1) /\ Cong(e, 0) /\ v[j] = c /\ j < m + 1
        BY <2>2, <2>5, <3>2, <3>5 DEF g, x, b
      <4>20. c * 1 = c
        BY <3>4
      <4>2. Cong(c * g, c * 1) /\ c * 1 = c
        BY <3>3, <3>4, <4>1, <4>20, CongScale, Zenon
      <4>3. Cong(a, c)
        BY <3>3, <3>4, <4>2, CongTrans
      <4>40. 0 + c = c
        BY <3>4
      <4>4. Cong(e + a, 0 + c) /\ 0 + c = c
        BY <3>3, <3>4, <4>1, <4>3, <4>40, CongAdd, Zenon
      <4>5. Cong(t, c)
        BY <3>3, <3>4, <4>4, CongTrans
      <4>6. QED
        BY <4>1, <4>5 DEF t, x
    <3>6. CASE j # m
      <4>1. Cong(g, 0) /\ (j < m <=> j < m + 1)
        BY <2>2, <2>5, <3>1, <3>6 DEF g, x, b
      <4> DEFINE y == IF j < m + 1 THEN v[j] ELSE 0
      <4>2. Cong(e, y) /\ y \in Int
        BY <3>1, <3>2, <4>1
      <4> HIDE DEF y
      <4>20. c * 0 = 0
        BY <3>4
      <4>3. Cong(c * g, c * 0) /\ c * 0 = 0
        BY <3>3, <3>4, <4>1, <4>20, CongScale, Zenon
      <4>4. Cong(a, 0)
        BY <3>3, <3>4, <4>3, CongTrans
      <4>5. Cong(e + a, y + 0) /\ y + 0 = y
        BY <3>3, <3>4, <4>2, <4>4, CongAdd
      <4>6. e + a \in Int
        BY <3>3
      <4>7. Cong(t, y)
        BY <3>3, <4>2, <4>5, <4>6, CongTrans
      <4>8. QED
        BY <4>7 DEF t, x, y
    <3>7. QED
      BY <3>5, <3>6
  <2>9. Plus(p, r) \in Poly /\ Len(Plus(p, r)) = N
    <3> HIDE DEF p, r
    <3>1. Plus(p, r) \in Poly /\ Len(Plus(p, r)) = Longer(Len(p), Len(r))
      BY <2>6, <2>7, PlusFacts
    <3>2. Longer(Len(p), N) = N
      BY <1>0, <2>6 DEF Longer
    <3>3. QED
      BY <2>7, <3>1, <3>2
  <2>10. QED
    <3> HIDE DEF p, r
    <3>1. QED
      BY <2>2, <2>3, <2>8, <2>9
<1>5. N \in S
  <2> HIDE DEF S
  <2>1. QED
    BY <1>0, <1>3, <1>4, NatInductionOnSet
<1>6. Good(N) /\ \A j \in Rows : j < N
  BY <1>0, <1>5 DEF Rows
<1>7. QED
  BY <1>0, <1>1, <1>6

-----------------------------------------------------------------------------
(* The batch inversion and the Lagrange polynomials. *)

IsTemp(b, t) == t = [k \in 0 .. Len(b) |-> IF k = 0 THEN 1 ELSE (b[k] * t[k - 1]) % PRIME]
IsInv(b, t, v) == v = [k \in 0 .. Len(b) |-> IF k = Len(b) THEN expmod(t[Len(b)], PRIME - 2)
                                             ELSE (v[k + 1] * b[k + 1]) % PRIME]

LEMMA TempExists ==
  ASSUME NEW b \in Poly
  PROVE  \E t \in [0 .. Len(b) -> Field] : IsTemp(b, t)
<1> DEFINE n == Len(b)
           G == [y \in (1 .. n) \X Field |-> (b[y[1]] * y[2]) % PRIME]
<1>0. n \in Nat /\ \A k \in 1 .. n : b[k] \in Int
  BY PolyFacts
<1>1. G \in [(1 .. n) \X Field -> Field]
  <2>1. ASSUME NEW y \in (1 .. n) \X Field PROVE G[y] \in Field
    <3>1. b[y[1]] \in Int /\ y[2] \in Int
      BY <1>0, FieldIsInt
    <3>2. QED
      BY <3>1, FieldOps
  <2>2. QED
    BY <2>1
<1>2. PICK f \in [0 .. n -> Field] : Upwards(n, 1, G, f)
  <2> HIDE DEF G
  <2>1. QED
    BY <1>0, <1>1, FieldIsInt, UpwardsExists
<1>3. ASSUME NEW k \in 0 .. n PROVE f[k] = IF k = 0 THEN 1 ELSE (b[k] * f[k - 1]) % PRIME
  <2>1. CASE k = 0
    BY <1>2, <2>1 DEF Upwards
  <2>2. CASE k # 0
    <3>1. k \in 1 .. n /\ k - 1 \in 0 .. n
      BY <1>0, <2>2
    <3>2. f[k] = G[<<k, f[k - 1]>>] /\ f[k - 1] \in Field
      <4> HIDE DEF G
      <4>1. QED
        BY <1>2, <3>1 DEF Upwards
    <3>3. QED
      BY <2>2, <3>1, <3>2
  <2>3. QED
    BY <2>1, <2>2
<1>4. IsTemp(b, f)
  BY <1>3, Zenon DEF IsTemp
<1>5. QED
  BY <1>4

LEMMA InvExists ==
  ASSUME NEW b \in Poly, NEW t, t[Len(b)] \in Nat
  PROVE  \E v \in [0 .. Len(b) -> Field] : IsInv(b, t, v)
<1> DEFINE n == Len(b)
           c == expmod(t[n], PRIME - 2)
           G == [y \in (0 .. n - 1) \X Field |-> (y[2] * b[y[1] + 1]) % PRIME]
<1>0. n \in Nat /\ \A k \in 1 .. n : b[k] \in Int
  BY PolyFacts
<1>1. G \in [(0 .. n - 1) \X Field -> Field]
  <2>1. ASSUME NEW y \in (0 .. n - 1) \X Field PROVE G[y] \in Field
    <3>0. y[1] + 1 \in 1 .. n
      BY <1>0
    <3>1. b[y[1] + 1] \in Int /\ y[2] \in Int
      BY <1>0, <3>0, FieldIsInt
    <3>2. QED
      BY <3>1, FieldOps
  <2>2. QED
    BY <2>1
<1>c. c \in Field
  <2>1. PRIME - 2 \in Nat
    BY PrimeIsPositive
  <2>2. c = Pow(t[n], PRIME - 2) /\ t[n] \in Int
    BY <2>1, expmodIsPow
  <2>3. QED
    BY <2>1, <2>2, PowSteps
<1> HIDE DEF c
<1>2. PICK f \in [0 .. n -> Field] : Downwards(n, c, G, f)
  <2> HIDE DEF G
  <2>1. QED
    BY <1>0, <1>1, <1>c, DownwardsExists
<1>3. ASSUME NEW k \in 0 .. n PROVE f[k] = IF k = n THEN c ELSE (f[k + 1] * b[k + 1]) % PRIME
  <2>1. CASE k = n
    BY <1>2, <2>1 DEF Downwards
  <2>2. CASE k # n
    <3>1. k \in 0 .. n - 1 /\ k + 1 \in 0 .. n
      BY <1>0, <2>2
    <3>2. f[k] = G[<<k, f[k + 1]>>] /\ f[k + 1] \in Field
      <4> HIDE DEF G
      <4>1. QED
        BY <1>2, <3>1 DEF Downwards
    <3>3. QED
      BY <2>2, <3>1, <3>2
  <2>3. QED
    BY <2>1, <2>2
<1>4. IsInv(b, t, f)
  BY <1>3, Zenon DEF IsInv, c
<1>5. QED
  BY <1>4

\* One exponentiation inverts the whole batch.
LEMMA InversesFacts ==
  ASSUME NEW b \in Poly, \A k \in 1 .. Len(b) : ~Cong(b[k], 0)
  PROVE  \A k \in 1 .. Len(b) : /\ Inverses(b)[k] \in Field /\ Inverses(b)[k] \in Int
                                /\ Cong(b[k] * Inverses(b)[k], 1)
<1> DEFINE n == Len(b)
           t == CHOOSE t : IsTemp(b, t)
           v == CHOOSE v : IsInv(b, t, v)
<1>0. n \in Nat /\ \A k \in 1 .. n : b[k] \in Int
  BY PolyFacts
<1>1. IsTemp(b, t)
  BY TempExists
<1>t. Inverses(b) = [k \in 1 .. n |-> (v[k] * t[k - 1]) % PRIME]
  BY DEF Inverses, IsTemp, IsInv
<1>u. IsInv(b, t, CHOOSE w : IsInv(b, t, w)) <=> IsInv(b, t, v)
  OBVIOUS
<1> HIDE DEF t
<1>2. \A k \in 0 .. n : t[k] = IF k = 0 THEN 1 ELSE (b[k] * t[k - 1]) % PRIME
  <2> DEFINE h(k) == IF k = 0 THEN 1 ELSE (b[k] * t[k - 1]) % PRIME
  <2>1. t = [k \in 0 .. n |-> h(k)]
    BY <1>1, Zenon DEF IsTemp
  <2> HIDE DEF h
  <2>2. \A k \in 0 .. n : t[k] = h(k)
    BY <2>1
  <2>3. QED
    BY <2>2 DEF h
<1>3. \A m \in Nat : m <= n => t[m] \in Field /\ ~Cong(t[m], 0)
  <2> DEFINE S == {m \in Nat : m <= n => t[m] \in Field /\ ~Cong(t[m], 0)}
  <2>1. 0 \in S
    BY <1>0, <1>2, FieldIsInt
  <2>2. ASSUME NEW m \in Nat, m \in S PROVE m + 1 \in S
    <3>1. SUFFICES ASSUME m + 1 <= n PROVE t[m + 1] \in Field /\ ~Cong(t[m + 1], 0)
      OBVIOUS
    <3> DEFINE a == b[m + 1]
               c == t[m]
               d == t[m + 1]
    <3>2. m + 1 \in 1 .. n /\ m + 1 \in 0 .. n /\ (m + 1) - 1 = m /\ m + 1 # 0 /\ m <= n
      BY <1>0, <3>1
    <3>3. a \in Int /\ ~Cong(a, 0) /\ c \in Field /\ c \in Int /\ ~Cong(c, 0) /\ d = (a * c) % PRIME
      BY <1>0, <1>2, <2>2, <3>2, FieldIsInt
    <3> HIDE DEF a, c, d
    <3>4. d \in Field /\ d \in Int /\ Cong(d, a * c) /\ a * c \in Int /\ 0 \in Int
      BY <3>3, FieldOps
    <3>5. ASSUME Cong(d, 0) PROVE FALSE
      <4>1. Cong(a * c, 0)
        BY <3>4, <3>5, CongSym, CongTrans
      <4>2. QED
        BY <3>3, <4>1, NoZeroDivisors
    <3>6. QED
      BY <3>4, <3>5 DEF d
  <2>3. \A m \in Nat : m \in S
    <3> HIDE DEF S
    <3>1. QED
      BY <2>1, <2>2, NatInductionOnSet
  <2>4. QED
    BY <2>3
<1>4. t[n] \in Nat /\ t[n] \in Field /\ ~Cong(t[n], 0)
  <2>1. n <= n
    BY <1>0
  <2> HIDE DEF n
  <2>2. t[n] \in Field /\ ~Cong(t[n], 0)
    BY <1>0, <1>3, <2>1
  <2>3. QED
    BY <2>2, FieldIsNat
<1>5. IsInv(b, t, v)
  BY <1>4, InvExists
<1> HIDE DEF v
<1>6. \A k \in 0 .. n : v[k] = IF k = n THEN Inv(t[n]) ELSE (v[k + 1] * b[k + 1]) % PRIME
  <2> DEFINE h(k) == IF k = n THEN Inv(t[n]) ELSE (v[k + 1] * b[k + 1]) % PRIME
  <2>1. v = [k \in 0 .. n |-> h(k)]
    BY <1>5, Zenon DEF IsInv, Inv
  <2> HIDE DEF h
  <2>2. \A k \in 0 .. n : v[k] = h(k)
    BY <2>1
  <2>3. QED
    BY <2>2 DEF h
<1>7. \A k \in 0 .. n : v[k] \in Field /\ Cong(t[k] * v[k], 1)
  <2> DEFINE S == {k \in 0 .. n : v[k] \in Field /\ Cong(t[k] * v[k], 1)}
  <2>1. n \in S
    BY <1>0, <1>4, <1>6, InvFacts
  <2>2. ASSUME NEW k \in 0 .. n - 1, k + 1 \in S PROVE k \in S
    <3> DEFINE a == b[k + 1]
               c == t[k]
               d == t[k + 1]
               e == v[k + 1]
               g == v[k]
    <3>1. k \in 0 .. n /\ k \in Nat /\ k # n /\ k + 1 \in 1 .. n /\ k + 1 \in 0 .. n /\ k + 1 # 0 /\ (k + 1) - 1 = k
          /\ k <= n /\ k + 1 <= n
      BY <1>0
    <3>2. g = (e * a) % PRIME /\ d = (a * c) % PRIME /\ e \in Field /\ Cong(d * e, 1)
      BY <1>2, <1>6, <2>2, <3>1
    <3>3. a \in Int /\ c \in Int /\ e \in Int
      BY <1>0, <1>3, <3>1, <3>2, FieldIsInt
    <3> HIDE DEF a, c, d, e, g
    <3>4. g \in Field /\ g \in Int /\ Cong(g, e * a) /\ d \in Int /\ Cong(d, a * c) /\ e * a \in Int /\ a * c \in Int
      BY <3>2, <3>3, FieldOps
    <3>5. Cong(c * g, c * (e * a)) /\ Cong((a * c) * e, d * e)
      <4>1. Cong(a * c, d)
        BY <3>4, CongSym
      <4>2. QED
        BY <3>3, <3>4, <4>1, CongScale, Zenon
    <3>6. c * (e * a) = (a * c) * e /\ c * g \in Int /\ c * (e * a) \in Int /\ d * e \in Int /\ 1 \in Int
      BY <3>3, <3>4
    <3>7. Cong(c * g, 1)
      BY <3>2, <3>5, <3>6, CongChain
    <3>8. QED
      BY <3>1, <3>4, <3>7 DEF c, g
  <2>3. \A k \in 0 .. n : k \in S
    <3> HIDE DEF S
    <3>1. QED
      BY <1>0, <2>1, <2>2, DownwardsInduction
  <2>4. QED
    BY <2>3
<1>8. ASSUME NEW k \in 1 .. n
      PROVE  Inverses(b)[k] \in Field /\ Inverses(b)[k] \in Int /\ Cong(b[k] * Inverses(b)[k], 1)
  <2> DEFINE a == b[k]
             c == t[k - 1]
             d == t[k]
             g == v[k]
             i == Inverses(b)[k]
  <2>1. k \in 0 .. n /\ k - 1 \in Nat /\ k - 1 <= n /\ k # 0 /\ k \in Nat /\ k <= n
    BY <1>0
  <2>2. i = (g * c) % PRIME /\ d = (a * c) % PRIME /\ Cong(d * g, 1) /\ a \in Int /\ c \in Int /\ g \in Int
    BY <1>0, <1>2, <1>3, <1>7, <1>t, <2>1, FieldIsInt
  <2> HIDE DEF a, c, d, g, i
  <2>3. i \in Field /\ i \in Int /\ Cong(i, g * c) /\ d \in Int /\ Cong(d, a * c) /\ g * c \in Int /\ a * c \in Int
    BY <2>2, FieldOps
  <2>4. Cong(a * i, a * (g * c)) /\ Cong((a * c) * g, d * g)
    <3>1. Cong(a * c, d)
      BY <2>3, CongSym
    <3>2. QED
      BY <2>2, <2>3, <3>1, CongScale, Zenon
  <2>5. a * (g * c) = (a * c) * g /\ a * i \in Int /\ a * (g * c) \in Int /\ d * g \in Int /\ 1 \in Int
    BY <2>2, <2>3
  <2>6. Cong(a * i, 1)
    BY <2>2, <2>4, <2>5, CongChain
  <2>7. QED
    BY <2>3, <2>6 DEF a, i
<1>9. QED
  BY <1>8

LEMMA OutsideFacts ==
  ASSUME NEW zeta \in Field, ~InDomain(zeta)
  PROVE  /\ \A i \in 0 .. N + 2 : ~Cong(zeta - Power(i), 0)
         /\ ~Cong(Pow(zeta, N) - 1, 0)
<1>0. N \in Nat /\ zeta \in Nat /\ zeta \in Int /\ 1 \in Field /\ 1 \in Int
  BY SizeFacts, FieldIsNat, FieldIsInt
<1>1. Pow(zeta, N) # 1 /\ Pow(zeta, N) \in Field /\ Pow(zeta, N) \in Int
  BY <1>0, expmodIsPow, PowSteps DEF InDomain
<1>2. ASSUME NEW i \in 0 .. N + 2, Cong(zeta - Power(i), 0) PROVE FALSE
  <2> DEFINE a == Power(i)
  <2>1. a \in Int /\ Pow(a, N) = 1
    BY PowerFacts, RootsOfUnity
  <2>2. Cong(zeta - a, 0)
    BY <1>2
  <2> HIDE DEF a
  <2>3. Cong(zeta, a)
    BY <1>0, <2>1, <2>2 DEF Cong
  <2>4. Pow(zeta, N) = Pow(a, N)
    BY <1>0, <2>1, <2>3, PowOfCong
  <2>5. QED
    BY <1>1, <2>1, <2>4
<1>3. ASSUME Cong(Pow(zeta, N) - 1, 0) PROVE FALSE
  <2> DEFINE a == Pow(zeta, N)
  <2> HIDE DEF a
  <2>1. Cong(a, 1)
    BY <1>1, <1>3 DEF Cong, a
  <2>2. a = 1
    BY <1>0, <1>1, <2>1, CongIsEqual DEF a
  <2>3. QED
    BY <1>1, <2>2 DEF a
<1>4. QED
  BY <1>2, <1>3

LEMMA ZzFacts ==
  ASSUME NEW zeta \in Field
  PROVE  /\ Zz(zeta) \in Field /\ Zz(zeta) \in Int /\ Cong(Zz(zeta), Pow(zeta, N) - 1)
         /\ zn(zeta) \in Field /\ zn(zeta) \in Int /\ Cong(zn(zeta), Inv(N) * (Pow(zeta, N) - 1))
<1> DEFINE a == Pow(zeta, N)
           z == Zz(zeta)
           n == Inv(N)
<1>0. N \in Nat /\ zeta \in Nat /\ a \in Int /\ n \in Int /\ expmod(zeta, N) = a /\ PRIME \in Int
  BY SizeFacts, FieldIsNat, expmodIsPow, PowSteps, InvFacts, PrimeIsPositive
<1>1. z = (a + PRIME - 1) % PRIME
  BY <1>0 DEF Zz
<1> HIDE DEF a, z, n
<1>2. z \in Field /\ z \in Int /\ Cong(z, a + PRIME - 1)
  BY <1>0, <1>1, ModIsField, FieldIsInt
<1>3. Cong(z, a - 1)
  <2>1. PICK q \in Int : z - (a + PRIME - 1) = PRIME * q
    BY <1>2 DEF Cong
  <2>2. z - (a - 1) = PRIME * (q + 1)
    BY <1>0, <1>2, <2>1
  <2>3. QED
    BY <2>1, <2>2 DEF Cong
<1>4. zn(zeta) = (z * n) % PRIME
  BY DEF zn, z, n, **
<1>5. zn(zeta) \in Field /\ zn(zeta) \in Int /\ Cong(zn(zeta), z * n) /\ z * n \in Int
  <2>1. (z * n) % PRIME \in Field /\ Cong((z * n) % PRIME, z * n) /\ z * n \in Int /\ (z * n) % PRIME \in Int
    BY <1>0, <1>2, FieldOps
  <2>2. QED
    BY <1>4, <2>1, Zenon
<1>6. Cong(z * n, n * (a - 1))
  <2>1. a - 1 \in Int /\ z * n = n * z
    BY <1>0, <1>2
  <2>2. Cong(n * z, n * (a - 1))
    BY <1>0, <1>2, <1>3, <2>1, CongScale, Zenon
  <2>3. QED
    BY <2>1, <2>2
<1>7. Cong(zn(zeta), n * (a - 1))
  <2>1. n * (a - 1) \in Int
    BY <1>0
  <2>2. QED
    BY <1>5, <1>6, <2>1, CongTrans
<1>8. QED
  BY <1>2, <1>3, <1>5, <1>7 DEF a, z, n

\* What the contract calls the Lagrange polynomials are the basis at zeta.
LEMMA LagrangeIsBasis ==
  ASSUME NEW zeta \in Field, ~InDomain(zeta), NEW k \in 0 .. NbPublic - 1
  PROVE  Lagrange(zeta)[k + 1] = Eval(Basis[k], zeta) /\ Lagrange(zeta)[k + 1] \in Field
<1> DEFINE batch == [j \in 1 .. NbPublic |-> (zeta + PRIME - Power(j - 1)) % PRIME]
           w == Power(k)
           i == Inverses(batch)[k + 1]
           z == zn(zeta)
           c == batch[k + 1]
           e == Eval(Basis[k], zeta)
           l == Lagrange(zeta)[k + 1]
           d == zeta - w
           m == w * (Inv(N) * (Pow(zeta, N) - 1))
<1>0. NbPublic \in Nat /\ zeta \in Int /\ k \in Rows /\ k \in 0 .. N + 2 /\ k + 1 \in 1 .. NbPublic /\ (k + 1) - 1 = k
      /\ \A j \in 1 .. NbPublic : j - 1 \in 0 .. N + 2
  BY SizeFacts, FieldIsInt DEF Rows
<1>1. ASSUME NEW j \in 1 .. NbPublic
      PROVE  batch[j] \in Field /\ batch[j] \in Int /\ Cong(batch[j], zeta - Power(j - 1)) /\ ~Cong(batch[j], 0)
  <2> DEFINE p == Power(j - 1)
             b == batch[j]
  <2>1. p \in Int /\ ~Cong(zeta - p, 0) /\ PRIME \in Int
    BY <1>0, PowerFacts, OutsideFacts, PrimeIsPositive
  <2>2. b = (zeta + PRIME - p) % PRIME
    OBVIOUS
  <2> HIDE DEF p, b
  <2>3. b \in Field /\ b \in Int /\ Cong(b, zeta + PRIME - p)
    BY <1>0, <2>1, <2>2, ModIsField, FieldIsInt
  <2>4. Cong(b, zeta - p)
    <3>1. PICK q \in Int : b - (zeta + PRIME - p) = PRIME * q
      BY <2>3 DEF Cong
    <3>2. b - (zeta - p) = PRIME * (q + 1)
      BY <1>0, <2>1, <2>3, <3>1
    <3>3. QED
      BY <3>1, <3>2 DEF Cong
  <2>5. ~Cong(b, 0)
    <3>1. zeta - p \in Int /\ 0 \in Int
      BY <1>0, <2>1
    <3>2. QED
      BY <2>1, <2>3, <2>4, <3>1, CongSym, CongTrans
  <2>6. QED
    BY <2>3, <2>4, <2>5 DEF b, p
<1>2. batch \in Poly /\ Len(batch) = NbPublic
  <2>1. batch \in [1 .. NbPublic -> Field]
    BY <1>1
  <2> HIDE DEF batch
  <2>2. QED
    BY <1>0, <2>1, Stored
<1>3. l = w ** (i ** z)
  BY <1>0 DEF Lagrange
<1>4. i \in Int /\ Cong(c * i, 1) /\ c \in Int /\ Cong(c, d)
  <2> HIDE DEF batch
  <2>1. i \in Int /\ Cong(c * i, 1)
    BY <1>0, <1>1, <1>2, InversesFacts
  <2>2. c \in Int /\ Cong(c, d)
    BY <1>0, <1>1
  <2>3. QED
    BY <2>1, <2>2
<1>5. w \in Int /\ z \in Int /\ Cong(z, Inv(N) * (Pow(zeta, N) - 1)) /\ Inv(N) * (Pow(zeta, N) - 1) \in Int
      /\ d \in Int /\ ~Cong(d, 0)
  <2>1. Inv(N) \in Int /\ Pow(zeta, N) \in Int
    BY <1>0, SizeFacts, InvFacts, PowSteps
  <2>2. w \in Int
    BY <1>0, PowerFacts
  <2>3. QED
    BY <1>0, <2>1, <2>2, ZzFacts, OutsideFacts
<1>6. e \in Int /\ e \in Field /\ Cong(d * e, m) /\ m \in Int
  <2>1. Basis[k] \in Poly /\ Cong(d * e, m)
    BY <1>0, BasisFacts
  <2>2. QED
    BY <1>0, <1>5, <2>1, EvalInt
<1> DEFINE y == Inv(N) * (Pow(zeta, N) - 1)
<1> HIDE DEF batch, i, z, c, e, l, d, w, y
<1>7. m = w * y /\ Cong(z, y) /\ y \in Int
  BY <1>5 DEF y
<1> HIDE DEF m
<1> DEFINE r == i ** z
<1>8. r \in Int /\ Cong(r, i * z) /\ i * z \in Int
  BY <1>4, <1>5, FieldOps DEF **
<1> HIDE DEF r
<1>9. l \in Field /\ l \in Int /\ Cong(l, w * r) /\ w * r \in Int
  BY <1>3, <1>5, <1>8, FieldOps DEF **, r
<1>10. Cong(l, w * (i * y))
  <2>1. w * (i * z) \in Int /\ w * (i * y) \in Int /\ i * y \in Int
    BY <1>4, <1>5, <1>7
  <2>2. Cong(i * z, i * y)
    BY <1>4, <1>5, <1>7, CongScale, Zenon
  <2>3. Cong(r, i * y)
    BY <1>8, <2>1, <2>2, CongTrans
  <2>4. Cong(w * r, w * (i * y))
    BY <1>5, <1>8, <2>1, <2>3, CongScale, Zenon
  <2>5. QED
    BY <1>9, <2>1, <2>4, CongTrans
<1>11. Cong(d * l, m)
  <2>0. d * i \in Int /\ c * i \in Int /\ w * (i * y) \in Int /\ d * (w * (i * y)) \in Int /\ d * l \in Int
        /\ w * y \in Int /\ 1 \in Int
    BY <1>4, <1>5, <1>7, <1>9
  <2>1. Cong(d * l, d * (w * (i * y)))
    BY <1>5, <1>9, <1>10, <2>0, CongScale, Zenon
  <2>2. Cong(d * i, 1)
    <3>1. Cong(d, c)
      BY <1>4, <1>5, CongSym
    <3>2. Cong(d * i, c * i)
      BY <1>4, <1>5, <3>1, CongScale, Zenon
    <3>3. QED
      BY <1>4, <2>0, <3>2, CongTrans
  <2>3. Cong((d * i) * (w * y), 1 * (w * y))
    BY <2>0, <2>2, CongScale, Zenon
  <2>4. d * (w * (i * y)) = (d * i) * (w * y) /\ 1 * (w * y) = m
    BY <1>4, <1>5, <1>7
  <2>5. QED
    BY <1>6, <2>0, <2>1, <2>3, <2>4, CongTrans
<1>12. Cong(d * l, d * e)
  <2>1. d * l \in Int /\ d * e \in Int
    BY <1>5, <1>6, <1>9
  <2>2. QED
    BY <1>6, <1>11, <2>1, CongSym, CongTrans
<1>13. Cong(l, e)
  BY <1>5, <1>6, <1>9, <1>12, CongCancel
<1>14. l = e
  BY <1>6, <1>9, <1>13, CongIsEqual
<1>15. QED
  BY <1>9, <1>14 DEF l, e

LEMMA ProductOfOnes ==
  ASSUME NEW D, IsFiniteSet(D), NEW f \in [D -> Int], \A y \in D : Cong(f[y], 1)
  PROVE  Cong(Products(f, D)[D], 1)
<1> DEFINE g == Products(f, D)
           T == {s \in SUBSET D : Cong(g[s], 1)}
<1>1. g[{}] = 1 /\ \A s \in SUBSET D : /\ g[s] \in Field
                                       /\ \A y \in s : g[s] = (f[y] * g[s \ {y}]) % PRIME
  BY ProductsExist
<1> HIDE DEF g
<1>2. {} \in T
  BY <1>1, CongRefl
<1>3. ASSUME NEW s \in SUBSET D, NEW y \in s, s \ {y} \in T PROVE s \in T
  <2> DEFINE a == f[y]
             b == g[s \ {y}]
             c == g[s]
  <2>1. a \in Int /\ b \in Int /\ Cong(a, 1) /\ Cong(b, 1) /\ c = (a * b) % PRIME
    BY <1>1, <1>3, FieldIsInt
  <2> HIDE DEF a, b, c
  <2>2. c \in Int /\ Cong(c, a * b) /\ a * b \in Int /\ 1 \in Int /\ 1 * 1 = 1
    BY <2>1, FieldOps
  <2>3. Cong(a * b, 1)
    BY <2>1, <2>2, CongMul, Zenon
  <2>4. Cong(c, 1)
    BY <2>2, <2>3, CongTrans
  <2>5. QED
    BY <2>4 DEF c
<1>4. \A s \in SUBSET D : s \in T
  <2> HIDE DEF T
  <2>1. QED
    BY <1>2, <1>3, SetInduction
<1>5. QED
  BY <1>4 DEF g

LEMMA ConstantIsItself ==
  ASSUME NEW q \in Poly, Len(q) = 1, NEW x \in Int
  PROVE  Cong(Eval(q, x), q[1]) /\ q[1] \in Int
<1>1. 1 \in Nat \ {0} /\ 2 \in Nat \ {0} /\ 1 \in 1 .. Len(q) /\ 1 + 1 = 2 /\ 2 > Len(q)
  OBVIOUS
<1>2. Eval(q, x) = Suf(q, x, 1) /\ Cong(Suf(q, x, 1), At(q, 1) + x * Suf(q, x, 2)) /\ Suf(q, x, 2) = 0
  BY <1>1, SufStep
<1>3. q[1] \in Int /\ At(q, 1) = q[1]
  BY <1>1, PolyFacts DEF At
<1>4. q[1] + x * 0 = q[1]
  BY <1>3
<1>5. QED
  BY <1>2, <1>3, <1>4

\* The basis in the form of its definition, as quotients of products.
LEMMA BasisIsProduct ==
  ASSUME NEW k \in Rows, NEW x \in Int
  PROVE  Eval(Basis[k], x) = Product([j \in Rows \ {k} |-> (x - Power(j)) * Inv((Power(k) - Power(j)) % PRIME)])
<1> DEFINE D == Rows \ {k}
           w == Power(k)
           a == [j \in D |-> Power(j)]
           f == [j \in D |-> x - Power(j)]
           d == [j \in D |-> w - Power(j)]
           g == [j \in D |-> Inv((w - Power(j)) % PRIME)]
           h == [j \in D |-> (x - Power(j)) * Inv((w - Power(j)) % PRIME)]
           u == [j \in D |-> d[j] * g[j]]
           F == Products(f, D)[D]
           G == Products(g, D)[D]
           M == Products(d, D)[D]
           H == Products(h, D)[D]
           U == Products(u, D)[D]
           b == Basis[k]
<1>0. IsFiniteSet(D) /\ D \in SUBSET D /\ D \subseteq Rows
  BY DomainFacts, FS_RemoveElement
<1>1. w \in Int /\ \A j \in D : Power(j) \in Int /\ ~Cong(w - Power(j), 0) /\ w - Power(j) \in Int
  <2>1. w \in Int /\ \A j \in Rows : Power(j) \in Int
    BY DomainFacts, PowerFacts
  <2>2. \A j \in D : ~Cong(w - Power(j), 0)
    BY DomainFacts
  <2>3. QED
    BY <2>1, <2>2
<1>2. ASSUME NEW j \in D
      PROVE  g[j] \in Int /\ Cong(d[j] * g[j], 1)
  <2> DEFINE e == w - Power(j)
             m == e % PRIME
             i == Inv(m)
  <2>1. e \in Int /\ ~Cong(e, 0)
    BY <1>1
  <2> HIDE DEF e
  <2>2. m \in Field /\ Cong(m, e) /\ m \in Nat /\ m \in Int
    BY <2>1, ModIsField, FieldIsInt, FieldIsNat
  <2> HIDE DEF m
  <2>3. ~Cong(m, 0)
    <3>1. 0 \in Int
      OBVIOUS
    <3>2. QED
      BY <2>1, <2>2, <3>1, CongSym, CongTrans
  <2>4. i \in Int /\ Cong(m * i, 1)
    BY <2>2, <2>3, InvFacts
  <2> HIDE DEF i
  <2>5. Cong(e * i, m * i)
    BY <2>1, <2>2, <2>4, CongSym, CongScale, Zenon
  <2>6. e * i \in Int /\ m * i \in Int /\ 1 \in Int
    BY <2>1, <2>2, <2>4
  <2>7. Cong(e * i, 1)
    BY <2>4, <2>5, <2>6, CongTrans
  <2>8. QED
    BY <2>4, <2>7 DEF e, m, i
<1>3. a \in [D -> Int] /\ f \in [D -> Int] /\ d \in [D -> Int] /\ g \in [D -> Int]
  <2>1. \A j \in D : x - Power(j) \in Int
    BY <1>1
  <2>2. \A j \in D : g[j] \in Int
    BY <1>2
  <2>3. QED
    BY <1>1, <2>1, <2>2
<1>4. h \in [D -> Int] /\ u \in [D -> Int] /\ \A j \in D : h[j] = f[j] * g[j] /\ u[j] = d[j] * g[j]
  <2>1. \A j \in D : h[j] = f[j] * g[j] /\ u[j] = d[j] * g[j]
    OBVIOUS
  <2> HIDE DEF f, d, g
  <2>2. \A j \in D : f[j] * g[j] \in Int /\ d[j] * g[j] \in Int
    BY <1>3
  <2>3. h \in [D -> Int]
    <3>1. h = [j \in D |-> h[j]]
      OBVIOUS
    <3> HIDE DEF h
    <3>2. QED
      BY <2>1, <2>2, <3>1
  <2>4. u \in [D -> Int]
    <3>1. u = [j \in D |-> u[j]]
      OBVIOUS
    <3> HIDE DEF u
    <3>2. QED
      BY <2>1, <2>2, <3>1
  <2>5. QED
    BY <2>1, <2>3, <2>4
<1>5. PICK q \in Poly : Len(q) = 1 /\ FactorsInto(a, D, D, b, q)
  <2>1. Distant(a, D)
    BY DomainFacts DEF Distant
  <2>2. b \in Poly /\ Len(b) = N /\ \A y \in D : Cong(Eval(b, a[y]), 0)
    <3>1. \A y \in D : y \in Rows /\ k # y /\ a[y] = Power(y)
      OBVIOUS
    <3>2. QED
      BY <3>1, BasisFacts
  <2>3. Cardinality(D) = N - 1 /\ N - (N - 1) = 1 /\ Cardinality(D) < N
    <3>1. Cardinality(D) = N - 1
      BY DomainFacts, FS_RemoveElement
    <3>2. QED
      BY <3>1, SizeFacts
  <2> HIDE DEF a, D, b
  <2>4. QED
    BY <1>0, <1>3, <2>1, <2>2, <2>3, Factors
<1> DEFINE c == q[1]
<1>6. ASSUME NEW y \in Int
      PROVE  Nodes(a, D, D, y) \in Int /\ Cong(Eval(b, y), Nodes(a, D, D, y) * c) /\ Eval(b, y) \in Int
  <2> DEFINE v == Nodes(a, D, D, y)
             e == Eval(b, y)
             r == Eval(q, y)
  <2>2. v \in Int /\ Cong(e, v * r)
    <3>1. Cong(e, v * r)
      BY <1>5 DEF FactorsInto
    <3> HIDE DEF a, D, b
    <3>2. v \in Int
      BY <1>0, <1>3, NodesSteps
    <3>3. QED
      BY <3>1, <3>2
  <2>3. r \in Int /\ c \in Int /\ Cong(r, c) /\ e \in Int
    BY <1>5, ConstantIsItself, EvalInt, BasisFacts
  <2> HIDE DEF v, e, r, c
  <2>4. Cong(v * r, v * c) /\ v * r \in Int /\ v * c \in Int
    <3>1. v * r \in Int /\ v * c \in Int
      BY <2>2, <2>3
    <3>2. Cong(v * r, v * c)
      BY <2>2, <2>3, CongScale, Zenon
    <3>3. QED
      BY <3>1, <3>2
  <2>5. Cong(e, v * c)
    BY <2>2, <2>3, <2>4, CongTrans
  <2>6. QED
    BY <2>2, <2>3, <2>5 DEF v, e
<1>7. Nodes(a, D, D, x) = F /\ Nodes(a, D, D, w) = M
  <2>1. [j \in D |-> x - a[j]] = f /\ [j \in D |-> w - a[j]] = d
    OBVIOUS
  <2> HIDE DEF f, d, a, D
  <2>2. QED
    BY <2>1 DEF Nodes
<1>8. F \in Int /\ Cong(Eval(b, x), F * c) /\ M \in Int /\ Cong(Eval(b, w), M * c) /\ Cong(Eval(b, w), 1)
      /\ Eval(b, x) \in Int /\ Eval(b, x) \in Field /\ Eval(b, w) \in Int /\ c \in Int
  <2>1. Cong(Eval(b, w), 1) /\ b \in Poly
    BY BasisFacts
  <2>2. c \in Int
    BY <1>1, <1>5, ConstantIsItself
  <2> HIDE DEF a, D, F, M, b, c
  <2>3. QED
    BY <1>1, <1>6, <1>7, <2>1, <2>2, EvalInt
<1>9. G \in Int /\ H \in Int /\ H \in Field /\ Cong(H, F * G) /\ U \in Int /\ Cong(U, M * G) /\ Cong(U, 1)
      /\ Product(h) = H
  <2>1. Cong(H, F * G)
    <3> HIDE DEF f, g, h, D
    <3>0. \A i \in D : Cong(h[i], f[i] * g[i])
      BY <1>3, <1>4, CongRefl
    <3>1. QED
      BY <1>0, <1>3, <1>4, <3>0, ProductPointwise
  <2>2. Cong(U, M * G)
    <3> HIDE DEF d, g, u, D
    <3>0. \A i \in D : Cong(u[i], d[i] * g[i])
      BY <1>3, <1>4, CongRefl
    <3>1. QED
      BY <1>0, <1>3, <1>4, <3>0, ProductPointwise
  <2>3. Cong(U, 1)
    <3>0. \A i \in D : Cong(u[i], 1)
      BY <1>2
    <3> HIDE DEF u, D
    <3>1. QED
      BY <1>0, <1>4, <3>0, ProductOfOnes
  <2> HIDE DEF f, d, g, h, u, D
  <2>4. G \in Int /\ H \in Field /\ U \in Int /\ H \in Int
    BY <1>0, <1>3, <1>4, ProductsExist, FieldIsInt
  <2>5. Product(h) = H
    BY <1>0, <1>4, ProductIsLast
  <2>6. QED
    BY <2>1, <2>2, <2>3, <2>4, <2>5
<1> DEFINE e == Eval(b, x)
           r == Eval(b, w)
<1>10. e \in Int /\ e \in Field /\ Cong(e, F * c) /\ r \in Int /\ Cong(r, M * c) /\ Cong(r, 1)
  BY <1>8
<1>11. e = Product(h) => Eval(Basis[k], x) = Product([j \in Rows \ {k} |-> (x - Power(j)) * Inv((Power(k) - Power(j)) % PRIME)])
  OBVIOUS
<1>12. Cong(e, H)
  <2> HIDE DEF F, G, M, H, U, c, e, r
  <2>1. F * c \in Int /\ M * c \in Int /\ M * G \in Int /\ F * G \in Int /\ 1 \in Int
        /\ (F * c) * (M * G) \in Int /\ (F * G) * (M * c) \in Int /\ e * 1 = e /\ (F * G) * 1 = F * G
        /\ (F * c) * (M * G) = (F * G) * (M * c)
    <3>1. F \in Int /\ M \in Int /\ G \in Int /\ c \in Int /\ e \in Int
      BY <1>8, <1>9, <1>10
    <3>2. F * c \in Int /\ M * c \in Int /\ M * G \in Int /\ F * G \in Int /\ 1 \in Int
      BY <3>1
    <3>3. (F * c) * (M * G) \in Int /\ (F * G) * (M * c) \in Int /\ e * 1 = e /\ (F * G) * 1 = F * G
      BY <3>1, <3>2
    <3>4. (F * c) * (M * G) = (F * G) * (M * c)
      BY <3>1
    <3>5. QED
      BY <3>2, <3>3, <3>4
  <2>2. Cong(M * G, 1)
    BY <1>9, <2>1, CongSym, CongTrans
  <2>3. Cong(M * c, 1)
    BY <1>10, <2>1, CongSym, CongTrans
  <2>4. Cong(e * 1, (F * c) * (M * G))
    <3>1. Cong(1, M * G)
      BY <2>1, <2>2, CongSym
    <3>2. QED
      BY <1>10, <2>1, <3>1, CongMul, Zenon
  <2>5. Cong((F * G) * (M * c), (F * G) * 1)
    BY <2>1, <2>3, CongScale, Zenon
  <2>6. Cong(e, F * G)
    BY <1>10, <2>1, <2>4, <2>5, CongTrans
  <2>7. QED
    BY <1>9, <1>10, <2>1, <2>6, CongSym, CongTrans
<1>13. e = H
  <2> HIDE DEF e, H
  <2>1. QED
    BY <1>9, <1>10, <1>12, CongIsEqual
<1>14. QED
  <2> HIDE DEF e, H, h
  <2>1. e = Product(h)
    BY <1>9, <1>13
  <2>2. QED
    BY <1>11, <2>1

-----------------------------------------------------------------------------
(* Calculating modulo PRIME: e comes to a, and p has n coefficients and comes *)
(* to a at x.                                                                 *)

Is(e, a) == e \in Int /\ a \in Int /\ Cong(e, a)
Takes(p, n, x, a) == p \in Poly /\ n \in Nat /\ Len(p) = n /\ x \in Int /\ Is(Eval(p, x), a)

LEMMA IsItself == ASSUME NEW a \in Int PROVE Is(a, a)
BY CongRefl DEF Is

LEMMA IsOf ==
  ASSUME NEW e, NEW f, NEW a, NEW b, Is(e, a), Is(f, b)
  PROVE  Is(e + f, a + b) /\ Is(e - f, a - b) /\ Is(e * f, a * b) /\ Is(e ** f, a * b) /\ Is((e * f) % PRIME, a * b)
<1>0. e \in Int /\ f \in Int /\ a \in Int /\ b \in Int /\ Cong(e, a) /\ Cong(f, b)
  BY DEF Is
<1>1. e + f \in Int /\ e - f \in Int /\ e * f \in Int /\ a + b \in Int /\ a - b \in Int /\ a * b \in Int
  BY <1>0
<1>2. Cong(e + f, a + b) /\ Cong(e - f, a - b)
  BY <1>0, CongAdd
<1>3. Cong(e * f, a * b)
  BY <1>0, CongMul
<1>4. e ** f \in Int /\ Cong(e ** f, e * f) /\ e ** f = (e * f) % PRIME
  BY <1>0, FieldOps DEF **
<1>5. Cong(e ** f, a * b)
  BY <1>1, <1>3, <1>4, CongTrans
<1>6. QED
  BY <1>1, <1>2, <1>3, <1>4, <1>5 DEF Is

LEMMA IsPlus == ASSUME NEW e, NEW f, NEW a, NEW b, Is(e, a), Is(f, b) PROVE Is(e + f, a + b)
BY IsOf

LEMMA IsMinus == ASSUME NEW e, NEW f, NEW a, NEW b, Is(e, a), Is(f, b) PROVE Is(e - f, a - b)
BY IsOf

LEMMA IsMul == ASSUME NEW e, NEW f, NEW a, NEW b, Is(e, a), Is(f, b) PROVE Is(e * f, a * b)
BY IsOf

LEMMA IsOp == ASSUME NEW e, NEW f, NEW a, NEW b, Is(e, a), Is(f, b) PROVE Is(e ** f, a * b)
BY IsOf

LEMMA IsMod == ASSUME NEW e, NEW a, Is(e, a) PROVE Is(e % PRIME, a)
<1>0. e \in Int /\ a \in Int /\ Cong(e, a)
  BY DEF Is
<1>1. e % PRIME \in Int /\ Cong(e % PRIME, e)
  BY <1>0, ModIsField, FieldIsInt
<1>2. Cong(e % PRIME, a)
  BY <1>0, <1>1, CongTrans
<1>3. QED
  BY <1>0, <1>1, <1>2 DEF Is

LEMMA IsInverted == ASSUME NEW e, NEW a, Is(e, a) PROVE Is(PRIME - e, 0 - a)
<1>0. e \in Int /\ a \in Int /\ Cong(e, a) /\ PRIME \in Int
  BY PrimeIsPositive DEF Is
<1>1. PICK q \in Int : e - a = PRIME * q
  BY <1>0 DEF Cong
<1>2. (PRIME - e) - (0 - a) = PRIME * (1 - q) /\ 1 - q \in Int
  <2>1. PRIME * (1 - q) = PRIME - PRIME * q
    BY <1>0, <1>1
  <2>2. QED
    BY <1>0, <1>1, <2>1
<1>3. PRIME - e \in Int /\ 0 - a \in Int
  BY <1>0
<1>4. QED
  BY <1>2, <1>3 DEF Is, Cong

LEMMA IsChain == ASSUME NEW e, NEW a, NEW b, Is(e, a), Is(a, b) PROVE Is(e, b)
BY CongTrans DEF Is

LEMMA IsBack == ASSUME NEW e, NEW a, Is(e, a) PROVE Is(a, e)
BY CongSym DEF Is

LEMMA TakesPlus ==
  ASSUME NEW p, NEW r, NEW n, NEW m, NEW x, NEW a, NEW b, Takes(p, n, x, a), Takes(r, m, x, b)
  PROVE  Takes(Plus(p, r), Longer(n, m), x, a + b)
<1>0. p \in Poly /\ n \in Nat /\ Len(p) = n /\ x \in Int /\ Is(Eval(p, x), a)
      /\ r \in Poly /\ m \in Nat /\ Len(r) = m /\ Is(Eval(r, x), b)
  BY DEF Takes
<1>1. Plus(p, r) \in Poly /\ Len(Plus(p, r)) = Longer(n, m) /\ Longer(n, m) \in Nat
  BY <1>0, PlusFacts
<1>2. Is(Eval(Plus(p, r), x), Eval(p, x) + Eval(r, x))
  <2>1. Eval(p, x) + Eval(r, x) \in Int
    BY <1>0 DEF Is
  <2>2. QED
    BY <1>0, <1>1, <2>1, EvalInt, EvalPlus DEF Is
<1>3. Is(Eval(Plus(p, r), x), a + b)
  BY <1>0, <1>2, IsOf, IsChain
<1>4. QED
  BY <1>0, <1>1, <1>3 DEF Takes

LEMMA TakesTimes ==
  ASSUME NEW p, NEW r, NEW n, NEW m, NEW x, NEW a, NEW b, Takes(p, n, x, a), Takes(r, m, x, b), n > 0, m > 0
  PROVE  Takes(Times(p, r), n + m - 1, x, a * b)
<1>0. p \in Poly /\ n \in Nat /\ Len(p) = n /\ x \in Int /\ Is(Eval(p, x), a)
      /\ r \in Poly /\ m \in Nat /\ Len(r) = m /\ Is(Eval(r, x), b)
  BY DEF Takes
<1>1. Times(p, r) \in Poly /\ Len(Times(p, r)) = n + m - 1 /\ n + m - 1 \in Nat
  <2>1. n + m - 1 \in Nat /\ Len(p) > 0 /\ Len(r) > 0
    BY <1>0
  <2>2. QED
    BY <1>0, <2>1, TimesFacts
<1>2. Is(Eval(Times(p, r), x), Eval(p, x) * Eval(r, x))
  <2>1. Eval(p, x) * Eval(r, x) \in Int
    BY <1>0 DEF Is
  <2>2. QED
    BY <1>0, <1>1, <2>1, EvalInt, TimesFacts DEF Is
<1>3. Is(Eval(Times(p, r), x), a * b)
  BY <1>0, <1>2, IsOf, IsChain
<1>4. QED
  BY <1>0, <1>1, <1>3 DEF Takes

LEMMA TakesScaled ==
  ASSUME NEW p, NEW n, NEW x, NEW a, NEW c, NEW b, Takes(p, n, x, a), Is(c, b)
  PROVE  Takes(Scaled(c, p), n, x, b * a)
<1>0. p \in Poly /\ n \in Nat /\ Len(p) = n /\ x \in Int /\ Is(Eval(p, x), a) /\ c \in Int
  BY DEF Takes, Is
<1>1. Scaled(c, p) \in Poly /\ Len(Scaled(c, p)) = n
  BY <1>0, ScaledFacts
<1>2. Is(Eval(Scaled(c, p), x), c * Eval(p, x))
  <2>1. c * Eval(p, x) \in Int
    BY <1>0 DEF Is
  <2>2. QED
    BY <1>0, <1>1, <2>1, EvalInt, EvalScaled DEF Is
<1>3. Is(Eval(Scaled(c, p), x), b * a)
  BY <1>0, <1>2, IsOf, IsChain
<1>4. QED
  BY <1>0, <1>1, <1>3 DEF Takes

\* Constants and straight lines.
LEMMA TakesShort ==
  ASSUME NEW a \in Field, NEW b \in Field, NEW x \in Int
  PROVE  Takes(<<a>>, 1, x, a) /\ Takes(<<b, a>>, 2, x, b + a * x)
<1>0. a \in Int /\ b \in Int
  BY FieldIsInt
<1>1. <<a>> \in Poly /\ Len(<<a>>) = 1 /\ <<b, a>> \in Poly /\ Len(<<b, a>>) = 2
  BY DEF Poly
<1>2. Is(Eval(<<a>>, x), a)
  <2>1. Cong(Eval(<<a>>, x), <<a>>[1]) /\ <<a>>[1] = a
    BY <1>1, ConstantIsItself
  <2>2. QED
    BY <1>0, <1>1, <2>1, EvalInt DEF Is
<1>3. Is(Eval(<<b, a>>, x), b + a * x)
  <2> DEFINE p == <<b, a>>
  <2>1. /\ 1 \in Nat \ {0} /\ 1 + 1 = 2 /\ 2 \in Nat \ {0} /\ 2 + 1 = 3 /\ 3 \in Nat \ {0} /\ 3 > Len(p)
        /\ At(p, 1) = b /\ At(p, 2) = a
    BY <1>1 DEF At
  <2>2. p \in Poly
    BY <1>1
  <2> HIDE DEF p
  <2>3. /\ Eval(p, x) = Suf(p, x, 1) /\ Suf(p, x, 1) \in Int /\ Suf(p, x, 2) \in Int
        /\ Cong(Suf(p, x, 1), b + x * Suf(p, x, 2))
        /\ Cong(Suf(p, x, 2), a + x * Suf(p, x, 3)) /\ Suf(p, x, 3) = 0
    BY <2>1, <2>2, SufStep
  <2>4. a + x * 0 = a
    BY <1>0
  <2>5. Is(Suf(p, x, 2), a)
    BY <1>0, <2>3, <2>4 DEF Is
  <2>6. Is(x * Suf(p, x, 2), x * a)
    BY <2>5, IsItself, IsOf
  <2>7. Is(b + x * Suf(p, x, 2), b + x * a)
    BY <1>0, <2>6, IsItself, IsOf
  <2>8. Is(Suf(p, x, 1), b + x * Suf(p, x, 2))
    BY <2>3, <2>7 DEF Is
  <2>9. b + x * a = b + a * x
    BY <1>0
  <2>10. QED
    BY <2>3, <2>7, <2>8, <2>9, IsChain DEF p
<1>4. QED
  BY <1>1, <1>2, <1>3 DEF Takes

-----------------------------------------------------------------------------
(* The types. *)

SelectorNames == {"ql", "qr", "qo", "qm", "qk"}
Challenges == [alpha : Field, beta : Field, gamma : Field, zeta : Field, r : Field, other : Field, u : Field]
Proofs == [Points \cup Scalars -> Field]
Typed == inst \in Instances /\ tau \in Field /\ challenge \in Challenges

LEMMA LabelFacts == \A p \in Wires \X Rows : Label(p) \in Field /\ Label(p) \in Int
                                             /\ Is(Label(p), expmod(SHIFT, p[1]) * Power(p[2]))
<1>1. ASSUME NEW p \in Wires \X Rows
      PROVE  Label(p) \in Field /\ Label(p) \in Int /\ Is(Label(p), expmod(SHIFT, p[1]) * Power(p[2]))
  <2> DEFINE a == expmod(SHIFT, p[1])
             b == Power(p[2])
  <2>1. p[1] \in Nat /\ p[2] \in Rows
    BY DEF Wires
  <2>2. a \in Int
    <3>1. a = Pow(SHIFT, p[1]) /\ SHIFT \in Int
      BY <2>1, SizeFacts, expmodIsPow
    <3>2. QED
      BY <2>1, <3>1, PowSteps
  <2>3. b \in Int
    BY <2>1, DomainFacts, PowerFacts
  <2>4. Label(p) = (a * b) % PRIME
    BY DEF Label
  <2> HIDE DEF a, b
  <2>5. (a * b) % PRIME \in Field /\ (a * b) % PRIME \in Int /\ Cong((a * b) % PRIME, a * b) /\ a * b \in Int
    BY <2>2, <2>3, FieldOps
  <2>6. Label(p) \in Field /\ Label(p) \in Int /\ Cong(Label(p), a * b) /\ a * b \in Int
    BY <2>4, <2>5, Zenon
  <2>7. QED
    BY <2>6 DEF a, b, Is
<1>2. QED
  BY <1>1

LEMMA SetupFacts ==
  /\ \A s \in SelectorNames : /\ Selector[s] \in Poly /\ Len(Selector[s]) = N
                              /\ \A i \in Rows : Is(Eval(Selector[s], Power(i)), Gates[i][s])
                              /\ VK[s] = Eval(Selector[s], tau)
  /\ \A w \in Wires : /\ Permutation[w] \in Poly /\ Len(Permutation[w]) = N
                      /\ \A i \in Rows : Is(Eval(Permutation[w], Power(i)), Label(Sigma[<<w, i>>]))
                      /\ VK_S(w) = Eval(Permutation[w], tau)
<1>0. \A i \in Rows : Power(i) \in Int
  BY DomainFacts, PowerFacts
<1>1. ASSUME NEW s \in SelectorNames
      PROVE  /\ Selector[s] \in Poly /\ Len(Selector[s]) = N
             /\ \A i \in Rows : Is(Eval(Selector[s], Power(i)), Gates[i][s])
             /\ VK[s] = Eval(Selector[s], tau)
  <2> DEFINE v == [i \in Rows |-> Gates[i][s]]
  <2>1. \A i \in Rows : Gates[i][s] \in Int
    <3>1. \A i \in Rows : Gates[i] \in [SelectorNames -> Field]
      BY PlonkAssumption DEF SelectorNames
    <3>2. QED
      BY <3>1, FieldIsInt
  <2>2. v \in [Rows -> Int] /\ \A i \in Rows : v[i] = Gates[i][s]
    BY <2>1
  <2>3. Selector[s] = Interpolated(v) /\ VK[s] = Eval(Selector[s], tau)
    BY DEF Selector, VK, SelectorNames
  <2> HIDE DEF v
  <2>4. Interpolated(v) \in Poly /\ Len(Interpolated(v)) = N /\ \A j \in Rows : Cong(Eval(Interpolated(v), Power(j)), v[j])
    BY <2>2, InterpolatedFacts
  <2>5. QED
    BY <1>0, <2>1, <2>2, <2>3, <2>4, EvalInt DEF Is
<1>2. ASSUME NEW w \in Wires
      PROVE  /\ Permutation[w] \in Poly /\ Len(Permutation[w]) = N
             /\ \A i \in Rows : Is(Eval(Permutation[w], Power(i)), Label(Sigma[<<w, i>>]))
             /\ VK_S(w) = Eval(Permutation[w], tau)
  <2> DEFINE v == [i \in Rows |-> Label(Sigma[<<w, i>>])]
  <2>1. \A i \in Rows : Label(Sigma[<<w, i>>]) \in Int
    <3>1. \A i \in Rows : Sigma[<<w, i>>] \in Wires \X Rows
      BY PlonkAssumption
    <3>2. QED
      BY <3>1, LabelFacts
  <2>2. v \in [Rows -> Int] /\ \A i \in Rows : v[i] = Label(Sigma[<<w, i>>])
    BY <2>1
  <2>3. Permutation[w] = Interpolated(v) /\ VK_S(w) = Eval(Permutation[w], tau)
    BY DEF Permutation, VK_S
  <2> HIDE DEF v
  <2>4. Interpolated(v) \in Poly /\ Len(Interpolated(v)) = N /\ \A j \in Rows : Cong(Eval(Interpolated(v), Power(j)), v[j])
    BY <2>2, InterpolatedFacts
  <2>5. QED
    BY <1>0, <2>1, <2>2, <2>3, <2>4, EvalInt DEF Is
<1>3. QED
  BY <1>1, <1>2

-----------------------------------------------------------------------------
(* What the contract computes, as integers. *)

LEMMA PrimeIsZero == Is(PRIME, 0)
<1>1. PRIME \in Int /\ PRIME - 0 = PRIME * 1
  BY PrimeIsPositive
<1>2. QED
  BY <1>1 DEF Is, Cong

LEMMA ChallengeFacts ==
  ASSUME NEW ch \in Challenges
  PROVE  /\ ch.alpha \in Int /\ ch.beta \in Int /\ ch.gamma \in Int /\ ch.zeta \in Int
         /\ ch.r \in Int /\ ch.other \in Int /\ ch.u \in Int
         /\ ch.zeta \in Field /\ ch.zeta \in Nat /\ ch.r \in Field /\ ch.u \in Field
<1>1. /\ ch.alpha \in Field /\ ch.beta \in Field /\ ch.gamma \in Field /\ ch.zeta \in Field
      /\ ch.r \in Field /\ ch.other \in Field /\ ch.u \in Field
  BY DEF Challenges
<1>2. QED
  BY <1>1, FieldIsInt, FieldIsNat

LEMMA ProofFacts ==
  ASSUME NEW pf \in Proofs
  PROVE  /\ pf["L_AT_Z"] \in Field /\ pf["R_AT_Z"] \in Field /\ pf["O_AT_Z"] \in Field
         /\ pf["S1_AT_Z"] \in Field /\ pf["S2_AT_Z"] \in Field /\ pf["GRAND_PRODUCT_AT_Z_OMEGA"] \in Field
         /\ pf["L_COM"] \in Field /\ pf["R_COM"] \in Field /\ pf["O_COM"] \in Field
         /\ pf["H_0"] \in Field /\ pf["H_1"] \in Field /\ pf["H_2"] \in Field
         /\ pf["GRAND_PRODUCT"] \in Field /\ pf["BATCH_OPENING_AT_Z"] \in Field /\ pf["OPENING_AT_Z_OMEGA"] \in Field
         /\ \A p \in Points \cup Scalars : pf[p] \in Int
<1>1. \A p \in Points \cup Scalars : pf[p] \in Field
  BY DEF Proofs
<1>2. \A p \in Points \cup Scalars : pf[p] \in Int
  BY <1>1, FieldIsInt
<1>3. QED
  BY <1>1, <1>2 DEF Points, Scalars

LEMMA ModPowInt == ASSUME NEW b \in Nat, NEW e \in Nat PROVE expmod(b, e) \in Field /\ expmod(b, e) \in Int
<1>1. b \in Int
  OBVIOUS
<1>2. QED
  BY <1>1, expmodIsPow, PowSteps

\* A proof with a folded quotient is verified at a point outside the domain.
LEMMA AcceptedOutside ==
  ASSUME NEW pf \in Proofs, NEW zeta \in Field, FoldedH(pf, zeta) \in Field
  PROVE  ~InDomain(zeta)
<1> DEFINE y == expmod(zeta, N + 2)
           m == ((pf["H_2"] ** y) + pf["H_1"]) ** y + pf["H_0"]
<1>1. y \in Int
  BY SizeFacts, FieldIsNat, ModPowInt
<1>2. m \in Int
  <2> DEFINE a == pf["H_2"] ** y
             b == (a + pf["H_1"]) ** y
  <2>0. pf["H_2"] \in Int /\ pf["H_1"] \in Int /\ pf["H_0"] \in Int
    BY ProofFacts, FieldIsInt
  <2> HIDE DEF y
  <2>1. a \in Int
    BY <1>1, <2>0, FieldOps DEF **
  <2> HIDE DEF a
  <2>2. a + pf["H_1"] \in Int
    BY <2>0, <2>1
  <2>3. b \in Int
    BY <1>1, <2>2, FieldOps DEF **
  <2>4. m = b + pf["H_0"]
    BY DEF a
  <2> HIDE DEF b, m
  <2>5. QED
    BY <2>0, <2>3, <2>4
<1>3. ASSUME InDomain(zeta) PROVE FALSE
  <2>1. Zz(zeta) = (1 + PRIME - 1) % PRIME
    BY <1>3 DEF Zz, InDomain
  <2>2. (1 + PRIME - 1) % PRIME = 0
    <3>1. 1 + PRIME - 1 = PRIME /\ PRIME \in Int /\ Cong(PRIME, 0)
      BY PrimeIsPositive, PrimeIsZero DEF Is
    <3>2. QED
      BY <3>1, CongMod
  <2>3. FoldedH(pf, zeta) = PRIME - ((m * 0) % PRIME)
    BY <2>1, <2>2 DEF FoldedH, invert, **
  <2> HIDE DEF m
  <2>4. m * 0 = 0 /\ 0 \in Int /\ 0 \in Field
    BY <1>2, FieldIsInt
  <2>5. 0 % PRIME = 0
    BY <2>4, CongMod
  <2>6. FoldedH(pf, zeta) = PRIME
    BY <2>3, <2>4, <2>5, PrimeIsPositive
  <2>7. QED
    BY <2>6, PrimeIsPositive DEF Field
<1>4. QED
  BY <1>3

LEMMA Alpha2Facts ==
  ASSUME NEW ch \in Challenges
  PROVE  /\ alpha2Lagrange(ch) \in Field /\ alpha2Lagrange(ch) \in Int
         /\ ~InDomain(ch.zeta) => Is(alpha2Lagrange(ch), ch.alpha * ch.alpha * Eval(FirstRow, ch.zeta))
<1> DEFINE zeta == ch.zeta
           al == ch.alpha
           b == (zeta + PRIME - 1) % PRIME
           i == expmod(b, PRIME - 2)
           z == zn(zeta)
           e == Eval(FirstRow, zeta)
<1>0. zeta \in Field /\ zeta \in Int /\ zeta \in Nat /\ al \in Int /\ PRIME \in Int /\ PRIME - 2 \in Nat
      /\ 0 \in Rows /\ Power(0) = 1 /\ Power(0) \in Int /\ 0 \in 0 .. N + 2
  <2>1. PRIME - 2 \in Nat /\ 0 \in Rows /\ PRIME \in Int /\ 0 \in 0 .. N + 2
    BY PrimeIsPositive, SizeFacts DEF Rows
  <2>2. QED
    BY <2>1, ChallengeFacts, PowerFacts
<1>1. alpha2Lagrange(ch) = i ** z ** al ** al
  BY DEF alpha2Lagrange
<1>2. b \in Field /\ b \in Nat /\ b \in Int /\ Is(b, zeta - 1)
  <2> HIDE DEF zeta
  <2>1. zeta + PRIME - 1 \in Int /\ zeta - 1 \in Int
    BY <1>0
  <2>2. b \in Field /\ Cong(b, zeta + PRIME - 1)
    BY <2>1, ModIsField
  <2>3. b \in Nat /\ b \in Int
    BY <2>2, FieldIsNat, FieldIsInt
  <2> HIDE DEF b
  <2>4. PICK q \in Int : b - (zeta + PRIME - 1) = PRIME * q
    BY <2>2 DEF Cong
  <2>5. b - (zeta - 1) = PRIME * (q + 1) /\ q + 1 \in Int
    BY <1>0, <2>3, <2>4
  <2>6. QED
    BY <2>1, <2>2, <2>3, <2>5 DEF Is, Cong
<1> HIDE DEF b
<1>3. i \in Int /\ z \in Int /\ Is(z, Inv(N) * (Pow(zeta, N) - 1))
  <2>1. Inv(N) \in Int /\ Pow(zeta, N) \in Int
    BY <1>0, SizeFacts, InvFacts, PowSteps
  <2>2. Inv(N) * (Pow(zeta, N) - 1) \in Int
    BY <2>1
  <2>3. QED
    BY <1>0, <1>2, <2>2, ModPowInt, ZzFacts DEF Is
<1> DEFINE w == Inv(N) * (Pow(zeta, N) - 1)
<1>4. Is(alpha2Lagrange(ch), i * w * al * al) /\ alpha2Lagrange(ch) \in Field
  <2> HIDE DEF i, z, al, w
  <2>1. Is(i, i) /\ Is(al, al) /\ Is(z, w)
    BY <1>0, <1>3, IsItself DEF al, w
  <2>2. Is(i ** z, i * w)
    BY <2>1, IsOp
  <2>3. Is(i ** z ** al, i * w * al)
    BY <2>1, <2>2, IsOp
  <2>4. Is(i ** z ** al ** al, i * w * al * al)
    BY <2>1, <2>3, IsOp
  <2>5. i ** z ** al ** al \in Field
    <3>1. i ** z ** al \in Int
      BY <2>3 DEF Is
    <3> DEFINE g == i ** z ** al
    <3> HIDE DEF g
    <3>2. g ** al \in Field
      BY <1>0, <3>1, FieldOps DEF **, g, al
    <3>3. QED
      BY <3>2 DEF g
  <2>6. QED
    BY <1>1, <2>4, <2>5
<1>5. ASSUME ~InDomain(zeta) PROVE Is(alpha2Lagrange(ch), al * al * e)
  <2> DEFINE d == zeta - 1
  <2>1. d \in Int /\ ~Cong(d, 0)
    BY <1>0, <1>5, OutsideFacts
  <2>2. ~Cong(b, 0)
    <3>1. b \in Int /\ Cong(b, d) /\ 0 \in Int
      BY <1>2 DEF Is
    <3> HIDE DEF d
    <3>2. QED
      BY <2>1, <3>1, CongSym, CongTrans
  <2>3. Cong(b * i, 1)
    <3>1. i = Inv(b)
      BY DEF Inv
    <3>2. QED
      BY <1>2, <2>2, <3>1, InvFacts
  <2>4. Is(d * e, w) /\ e \in Int
    <3>1. Basis[0] \in Poly /\ Cong(d * e, 1 * w)
      BY <1>0, BasisFacts DEF FirstRow
    <3>2. e \in Int
      BY <1>0, <3>1, EvalInt DEF FirstRow
    <3>3. w \in Int
      BY <1>3 DEF Is
    <3> HIDE DEF d, e, w
    <3>4. 1 * w = w /\ d * e \in Int
      BY <2>1, <3>2, <3>3
    <3>5. QED
      BY <3>1, <3>2, <3>3, <3>4 DEF Is
  <2>5. Is(i * w, e)
    <3>0. Is(b, d) /\ b \in Int /\ i \in Int /\ w \in Int /\ Is(w, d * e)
      BY <1>2, <1>3, <2>4, IsBack DEF Is
    <3> HIDE DEF i, d, e, w
    <3>1. Is(i, i) /\ Is(e, e) /\ Is(d, b)
      BY <3>0, <2>4, IsItself, IsBack
    <3>2. Is(i * w, i * (d * e))
      BY <3>0, <3>1, IsMul
    <3>3. Is(i * (d * e), i * (b * e))
      BY <3>1, IsMul
    <3>4. Is(b * i, 1)
      BY <2>3, <3>0 DEF Is
    <3>5. Is((b * i) * e, 1 * e)
      BY <3>1, <3>4, IsMul
    <3>6. (b * i) * e = i * (b * e) /\ 1 * e = e
      BY <2>4, <3>0
    <3>7. QED
      BY <3>2, <3>3, <3>5, <3>6, IsChain
  <2>6. Is(i * w * al * al, e * al * al)
    <3>1. Is(al, al)
      BY <1>0, IsItself
    <3> HIDE DEF i, w, e, al
    <3>2. QED
      BY <2>5, <3>1, IsMul, Zenon
  <2>7. e * al * al = al * al * e
    <3> HIDE DEF e, al
    <3>1. QED
      BY <1>0, <2>4 DEF al
  <2>8. QED
    <3> HIDE DEF e, al, i, w
    <3>1. QED
      BY <1>4, <2>6, <2>7, IsChain
<1>6. alpha2Lagrange(ch) \in Int
  BY <1>4, FieldIsInt
<1>7. QED
  BY <1>4, <1>5, <1>6

PublicInputs == [1 .. NbPublic -> Field]

LEMMA PIFacts ==
  ASSUME NEW pub \in PublicInputs, NEW zeta \in Field, ~InDomain(zeta)
  PROVE  LET f == [k \in 1 .. NbPublic |-> Lagrange(zeta)[k] * pub[k]]
         IN /\ f \in [1 .. NbPublic -> Int] /\ IsFiniteSet(1 .. NbPublic)
            /\ PI(pub, zeta) = Sums(f, 1 .. NbPublic)[1 .. NbPublic]
            /\ PI(pub, zeta) \in Field /\ PI(pub, zeta) \in Int
<1> DEFINE D == 1 .. NbPublic
           f == [k \in D |-> Lagrange(zeta)[k] * pub[k]]
<1>1. IsFiniteSet(D)
  BY SizeFacts, FS_Interval
<1>2. f \in [D -> Int]
  <2>1. ASSUME NEW k \in D PROVE Lagrange(zeta)[k] * pub[k] \in Int
    <3>1. k - 1 \in 0 .. NbPublic - 1 /\ (k - 1) + 1 = k
      BY SizeFacts
    <3>2. Lagrange(zeta)[k] \in Field
      BY <3>1, LagrangeIsBasis
    <3>3. Lagrange(zeta)[k] \in Int /\ pub[k] \in Int
      BY <3>2, FieldIsInt DEF PublicInputs
    <3>4. QED
      BY <3>3
  <2>2. QED
    BY <2>1
<1>3. PI(pub, zeta) = Total(f)
  BY DEF PI
<1> HIDE DEF f, D
<1>4. PI(pub, zeta) = Sums(f, D)[D] /\ Sums(f, D)[D] \in Field
  BY <1>1, <1>2, <1>3, SumIsLast, SumsExist
<1>5. QED
  BY <1>1, <1>2, <1>4, FieldIsInt DEF f, D

\* The value the contract claims for the linearized polynomial.
Claim(pf, pub, ch) ==
  alpha2Lagrange(ch) - PI(pub, ch.zeta)
  - (pf["S1_AT_Z"] * ch.beta + ch.gamma + pf["L_AT_Z"]) * (pf["S2_AT_Z"] * ch.beta + ch.gamma + pf["R_AT_Z"])
    * (pf["O_AT_Z"] + ch.gamma) * ch.alpha * pf["GRAND_PRODUCT_AT_Z_OMEGA"]

LEMMA ClaimFacts ==
  ASSUME NEW pf \in Proofs, NEW ch \in Challenges, NEW pub \in PublicInputs, ~InDomain(ch.zeta)
  PROVE  /\ Is(linearized_poly_at_z(pf, pub, ch), Claim(pf, pub, ch)) /\ Claim(pf, pub, ch) \in Int
<1> DEFINE l == pf["L_AT_Z"]
           rr == pf["R_AT_Z"]
           o == pf["O_AT_Z"]
           s1 == pf["S1_AT_Z"]
           s2 == pf["S2_AT_Z"]
           zw == pf["GRAND_PRODUCT_AT_Z_OMEGA"]
           al == ch.alpha
           be == ch.beta
           ga == ch.gamma
           a2 == alpha2Lagrange(ch)
           pi == PI(pub, ch.zeta)
<1>1. l \in Int /\ rr \in Int /\ o \in Int /\ s1 \in Int /\ s2 \in Int /\ zw \in Int /\ al \in Int
      /\ be \in Int /\ ga \in Int /\ a2 \in Int /\ pi \in Int
  BY ProofFacts, ChallengeFacts, Alpha2Facts, PIFacts, FieldIsInt
<1>2. linearized_poly_at_z(pf, pub, ch)
      = PRIME - ((((s1 * be + ga + l) % PRIME) ** ((s2 * be + ga + rr) % PRIME) ** ((o + ga) % PRIME) ** al ** zw + pi + PRIME - a2) % PRIME)
  BY DEF linearized_poly_at_z
<1>c. Claim(pf, pub, ch) = a2 - pi - (s1 * be + ga + l) * (s2 * be + ga + rr) * (o + ga) * al * zw
  BY DEF Claim
<1> HIDE DEF l, rr, o, s1, s2, zw, al, be, ga, a2, pi
<1>3. Is(l, l) /\ Is(rr, rr) /\ Is(o, o) /\ Is(s1, s1) /\ Is(s2, s2) /\ Is(zw, zw) /\ Is(al, al) /\ Is(be, be)
      /\ Is(ga, ga) /\ Is(a2, a2) /\ Is(pi, pi) /\ Is(PRIME, 0)
  BY <1>1, IsItself, PrimeIsZero
<1>4. Is(s1 * be + ga,
        s1 * be + ga)
  BY <1>3, IsMul, IsPlus, Zenon
<1>5. Is((s1 * be + ga + l) % PRIME,
        s1 * be + ga + l)
  BY <1>3, <1>4, IsMod, IsPlus, Zenon
<1>6. Is(s2 * be + ga,
        s2 * be + ga)
  BY <1>3, IsMul, IsPlus, Zenon
<1>7. Is((s2 * be + ga + rr) % PRIME,
        s2 * be + ga + rr)
  BY <1>3, <1>6, IsMod, IsPlus, Zenon
<1>8. Is((o + ga) % PRIME,
        o + ga)
  BY <1>3, IsMod, IsPlus, Zenon
<1>9. Is(((s1 * be + ga + l) % PRIME) ** ((s2 * be + ga + rr) % PRIME) ** ((o + ga) % PRIME),
        (s1 * be + ga + l) * (s2 * be + ga + rr) * (o + ga))
  BY <1>5, <1>7, <1>8, IsOp, Zenon
<1>10. Is(((s1 * be + ga + l) % PRIME) ** ((s2 * be + ga + rr) % PRIME) ** ((o + ga) % PRIME) ** al ** zw,
        (s1 * be + ga + l) * (s2 * be + ga + rr) * (o + ga) * al * zw)
  BY <1>3, <1>9, IsOp, Zenon
<1>11. Is(((s1 * be + ga + l) % PRIME) ** ((s2 * be + ga + rr) % PRIME) ** ((o + ga) % PRIME) ** al ** zw + pi + PRIME - a2,
        (s1 * be + ga + l) * (s2 * be + ga + rr) * (o + ga) * al * zw + pi + 0 - a2)
  BY <1>10, <1>3, IsInverted, IsPlus, Zenon
<1>12. Is(PRIME - ((((s1 * be + ga + l) % PRIME) ** ((s2 * be + ga + rr) % PRIME) ** ((o + ga) % PRIME) ** al ** zw + pi + PRIME - a2) % PRIME),
        0 - ((s1 * be + ga + l) * (s2 * be + ga + rr) * (o + ga) * al * zw + pi + 0 - a2))
  BY <1>11, IsInverted, IsMod, Zenon
<1>13. 0 - ((s1 * be + ga + l) * (s2 * be + ga + rr) * (o + ga) * al * zw + pi + 0 - a2)
      = a2 - pi - (s1 * be + ga + l) * (s2 * be + ga + rr) * (o + ga) * al * zw
  <2> DEFINE all == (s1 * be + ga + l) * (s2 * be + ga + rr) * (o + ga) * al * zw
  <2>1. all \in Int
    BY <1>1
  <2> HIDE DEF all
  <2>2. 0 - (all + pi + 0 - a2) = a2 - pi - all
    BY <1>1, <2>1
  <2>3. QED
    BY <2>2 DEF all
<1>14. QED
  BY <1>2, <1>c, <1>12, <1>13 DEF Is

LEMMA ScalarsFacts ==
  ASSUME NEW pf \in Proofs, NEW ch \in Challenges
  PROVE  LET sc == PermutationScalars(pf, ch)
         IN /\ Is(sc.s1, pf["GRAND_PRODUCT_AT_Z_OMEGA"] * ch.beta
                         * (pf["S1_AT_Z"] * ch.beta + pf["L_AT_Z"] + ch.gamma)
                         * (pf["S2_AT_Z"] * ch.beta + pf["R_AT_Z"] + ch.gamma) * ch.alpha)
            /\ Is(sc.s2, (0 - (ch.beta * ch.zeta + pf["L_AT_Z"] + ch.gamma)
                              * (ch.beta * ch.zeta * SHIFT + pf["R_AT_Z"] + ch.gamma)
                              * (ch.beta * ch.zeta * (SHIFT * SHIFT) + pf["O_AT_Z"] + ch.gamma)) * ch.alpha
                         + alpha2Lagrange(ch))
<1> DEFINE l == pf["L_AT_Z"]
           rr == pf["R_AT_Z"]
           o == pf["O_AT_Z"]
           s1 == pf["S1_AT_Z"]
           s2 == pf["S2_AT_Z"]
           zw == pf["GRAND_PRODUCT_AT_Z_OMEGA"]
           al == ch.alpha
           be == ch.beta
           ga == ch.gamma
           z == ch.zeta
           a2 == alpha2Lagrange(ch)
           sh == SHIFT
           sc == PermutationScalars(pf, ch)
<1>1. l \in Int /\ rr \in Int /\ o \in Int /\ s1 \in Int /\ s2 \in Int /\ zw \in Int /\ al \in Int
      /\ be \in Int /\ ga \in Int /\ a2 \in Int /\ z \in Int /\ sh \in Int
  BY ProofFacts, ChallengeFacts, Alpha2Facts, SizeFacts, FieldIsInt
<1>2. /\ sc.s1 = zw ** be ** ((s1 * be + l + ga) % PRIME) ** ((s2 * be + rr + ga) % PRIME) ** al
      /\ sc.s2 = ((PRIME - ((((be * z) % PRIME) + l + ga) % PRIME) ** ((((be * z) % PRIME) * sh + rr + ga) % PRIME) ** ((((be * z) % PRIME) * ((sh * sh) % PRIME) + o + ga) % PRIME)) * al + a2) % PRIME
  BY DEF PermutationScalars, CosetSquare
<1>c. Is(sc.s1, zw * be * (s1 * be + l + ga) * (s2 * be + rr + ga) * al)
      /\ Is(sc.s2, (0 - (be * z + l + ga) * (be * z * sh + rr + ga) * (be * z * (sh * sh) + o + ga)) * al + a2)
      => LET ss == PermutationScalars(pf, ch)
         IN /\ Is(ss.s1, pf["GRAND_PRODUCT_AT_Z_OMEGA"] * ch.beta
                         * (pf["S1_AT_Z"] * ch.beta + pf["L_AT_Z"] + ch.gamma)
                         * (pf["S2_AT_Z"] * ch.beta + pf["R_AT_Z"] + ch.gamma) * ch.alpha)
            /\ Is(ss.s2, (0 - (ch.beta * ch.zeta + pf["L_AT_Z"] + ch.gamma)
                              * (ch.beta * ch.zeta * SHIFT + pf["R_AT_Z"] + ch.gamma)
                              * (ch.beta * ch.zeta * (SHIFT * SHIFT) + pf["O_AT_Z"] + ch.gamma)) * ch.alpha
                         + alpha2Lagrange(ch))
  OBVIOUS
<1> HIDE DEF l, rr, o, s1, s2, zw, al, be, ga, z, a2, sh, sc
<1>3. Is(l, l) /\ Is(rr, rr) /\ Is(o, o) /\ Is(s1, s1) /\ Is(s2, s2) /\ Is(zw, zw) /\ Is(al, al) /\ Is(be, be)
      /\ Is(ga, ga) /\ Is(a2, a2) /\ Is(z, z) /\ Is(sh, sh) /\ Is(PRIME, 0)
  BY <1>1, IsItself, PrimeIsZero
<1>4. Is(s1 * be + l,
        s1 * be + l)
  BY <1>3, IsMul, IsPlus, Zenon
<1>5. Is((s1 * be + l + ga) % PRIME,
        s1 * be + l + ga)
  BY <1>3, <1>4, IsMod, IsPlus, Zenon
<1>6. Is(zw ** be ** ((s1 * be + l + ga) % PRIME),
        zw * be * (s1 * be + l + ga))
  BY <1>3, <1>5, IsOp, Zenon
<1>7. Is(s2 * be + rr,
        s2 * be + rr)
  BY <1>3, IsMul, IsPlus, Zenon
<1>8. Is((s2 * be + rr + ga) % PRIME,
        s2 * be + rr + ga)
  BY <1>3, <1>7, IsMod, IsPlus, Zenon
<1>9. Is(zw ** be ** ((s1 * be + l + ga) % PRIME) ** ((s2 * be + rr + ga) % PRIME) ** al,
        zw * be * (s1 * be + l + ga) * (s2 * be + rr + ga) * al)
  BY <1>3, <1>6, <1>8, IsOp, Zenon
<1>10. Is((be * z) % PRIME,
        be * z)
  BY <1>3, IsMod, IsMul, Zenon
<1>11. Is(((be * z) % PRIME) + l + ga,
        be * z + l + ga)
  BY <1>10, <1>3, IsPlus, Zenon
<1>12. Is(((be * z) % PRIME) * sh + rr,
        be * z * sh + rr)
  BY <1>10, <1>3, IsMul, IsPlus, Zenon
<1>13. Is((((be * z) % PRIME) * sh + rr + ga) % PRIME,
        be * z * sh + rr + ga)
  BY <1>12, <1>3, IsMod, IsPlus, Zenon
<1>14. Is(((((be * z) % PRIME) + l + ga) % PRIME) ** ((((be * z) % PRIME) * sh + rr + ga) % PRIME),
        (be * z + l + ga) * (be * z * sh + rr + ga))
  BY <1>11, <1>13, IsMod, IsOp, Zenon
<1>15. Is((sh * sh) % PRIME,
        sh * sh)
  BY <1>3, IsMod, IsMul, Zenon
<1>16. Is(((be * z) % PRIME) * ((sh * sh) % PRIME) + o,
        be * z * (sh * sh) + o)
  BY <1>10, <1>15, <1>3, IsMul, IsPlus, Zenon
<1>17. Is((((be * z) % PRIME) * ((sh * sh) % PRIME) + o + ga) % PRIME,
        be * z * (sh * sh) + o + ga)
  BY <1>16, <1>3, IsMod, IsPlus, Zenon
<1>18. Is(PRIME - ((((be * z) % PRIME) + l + ga) % PRIME) ** ((((be * z) % PRIME) * sh + rr + ga) % PRIME) ** ((((be * z) % PRIME) * ((sh * sh) % PRIME) + o + ga) % PRIME),
        0 - (be * z + l + ga) * (be * z * sh + rr + ga) * (be * z * (sh * sh) + o + ga))
  BY <1>14, <1>17, IsInverted, IsOp, Zenon
<1>19. Is((PRIME - ((((be * z) % PRIME) + l + ga) % PRIME) ** ((((be * z) % PRIME) * sh + rr + ga) % PRIME) ** ((((be * z) % PRIME) * ((sh * sh) % PRIME) + o + ga) % PRIME)) * al + a2,
        (0 - (be * z + l + ga) * (be * z * sh + rr + ga) * (be * z * (sh * sh) + o + ga)) * al + a2)
  BY <1>18, <1>3, IsMul, IsPlus, Zenon
<1>20. Is(((PRIME - ((((be * z) % PRIME) + l + ga) % PRIME) ** ((((be * z) % PRIME) * sh + rr + ga) % PRIME) ** ((((be * z) % PRIME) * ((sh * sh) % PRIME) + o + ga) % PRIME)) * al + a2) % PRIME,
        (0 - (be * z + l + ga) * (be * z * sh + rr + ga) * (be * z * (sh * sh) + o + ga)) * al + a2)
  BY <1>19, IsMod, Zenon
<1>21. QED
  BY <1>2, <1>c, <1>9, <1>20

-----------------------------------------------------------------------------
(* The pairing check. *)

\* What each point is multiplied with in the equation, and what is left.
Weights(pf, ch, r) ==
  LET y == expmod(ch.zeta, N + 2)  v == Zz(ch.zeta)
  IN [L_COM |-> r, R_COM |-> expmod(r, 2), O_COM |-> expmod(r, 3),
      H_0 |-> 0 - v, H_1 |-> 0 - y * v, H_2 |-> 0 - y * y * v,
      GRAND_PRODUCT |-> PermutationScalars(pf, ch).s2 + ch.u,
      BATCH_OPENING_AT_Z |-> ch.zeta - tau,
      OPENING_AT_Z_OMEGA |-> ch.u * (ch.zeta * OMEGA) - ch.u * tau]

Rest(pf, ch, r, claim) ==
  (VK["ql"] * pf["L_AT_Z"] + VK["qr"] * pf["R_AT_Z"] + VK["qo"] * pf["O_AT_Z"]
   + VK["qm"] * (pf["L_AT_Z"] * pf["R_AT_Z"]) + VK["qk"]
   + VK_S(2) * PermutationScalars(pf, ch).s1 + expmod(r, 4) * VK_S(0) + expmod(r, 5) * VK_S(1))
  - (claim + r * pf["L_AT_Z"] + expmod(r, 2) * pf["R_AT_Z"] + expmod(r, 3) * pf["O_AT_Z"]
     + expmod(r, 4) * pf["S1_AT_Z"] + expmod(r, 5) * pf["S2_AT_Z"]
     + pf["GRAND_PRODUCT_AT_Z_OMEGA"] * ch.u)

Residual(pf, ch, r, claim) ==
  LET w == Weights(pf, ch, r)
  IN Rest(pf, ch, r, claim)
     + (w.L_COM * pf["L_COM"] + w.R_COM * pf["R_COM"] + w.O_COM * pf["O_COM"]
        + w.H_0 * pf["H_0"] + w.H_1 * pf["H_1"] + w.H_2 * pf["H_2"]
        + w.GRAND_PRODUCT * pf["GRAND_PRODUCT"]
        + w.BATCH_OPENING_AT_Z * pf["BATCH_OPENING_AT_Z"]
        + w.OPENING_AT_Z_OMEGA * pf["OPENING_AT_Z_OMEGA"])

\* No point at infinity is inverted.
ClaimsPoint(pf, ch, r, lin) == (FoldedClaims(pf, r, lin) + pf["GRAND_PRODUCT_AT_Z_OMEGA"] * ch.u) % PRIME
QuotientPoint(pf, ch) == (pf["BATCH_OPENING_AT_Z"] + ch.u * pf["OPENING_AT_Z_OMEGA"]) % PRIME

LEMMA VKFacts ==
  ASSUME tau \in Field
  PROVE  /\ VK["ql"] \in Int /\ VK["qr"] \in Int /\ VK["qo"] \in Int /\ VK["qm"] \in Int /\ VK["qk"] \in Int
         /\ VK_S(0) \in Int /\ VK_S(1) \in Int /\ VK_S(2) \in Int
<1>1. tau \in Int
  BY FieldIsInt
<1>2. \A s \in SelectorNames : VK[s] \in Int
  BY <1>1, SetupFacts, EvalInt
<1>3. \A w \in Wires : VK_S(w) \in Int
  BY <1>1, SetupFacts, EvalInt
<1>4. QED
  BY <1>2, <1>3 DEF SelectorNames, Wires

LEMMA InvertFacts == ASSUME NEW c \in Field PROVE invert(c) \in Field <=> c # 0
BY PrimeIsPositive DEF invert, Field


\* The pairing check is that the residual vanishes, but for infinity.
LEMMA EquationIs ==
  ASSUME tau \in Field, NEW pf \in Proofs, NEW ch \in Challenges, NEW r \in Field, NEW lin, NEW claim, Is(lin, claim)
  PROVE  /\ Opens(pf, ch.zeta, ch.u, FoldedDigest(pf, r, LinearCommitment(pf, ch, FoldedH(pf, ch.zeta))),
                  FoldedClaims(pf, r, lin))
            <=> /\ ClaimsPoint(pf, ch, r, lin) # 0 /\ QuotientPoint(pf, ch) # 0
                /\ Cong(Residual(pf, ch, r, claim), 0)
         /\ Residual(pf, ch, r, claim) \in Int
<1> DEFINE l == pf["L_AT_Z"]
           rr == pf["R_AT_Z"]
           o == pf["O_AT_Z"]
           s1 == pf["S1_AT_Z"]
           s2 == pf["S2_AT_Z"]
           zw == pf["GRAND_PRODUCT_AT_Z_OMEGA"]
           lc == pf["L_COM"]
           rc == pf["R_COM"]
           oc == pf["O_COM"]
           h0 == pf["H_0"]
           h1 == pf["H_1"]
           h2 == pf["H_2"]
           gp == pf["GRAND_PRODUCT"]
           bo == pf["BATCH_OPENING_AT_Z"]
           oo == pf["OPENING_AT_Z_OMEGA"]
           ql == VK["ql"]
           qr == VK["qr"]
           qo == VK["qo"]
           qm == VK["qm"]
           qk == VK["qk"]
           w0 == VK_S(0)
           w1 == VK_S(1)
           w3 == VK_S(2)
           k1 == PermutationScalars(pf, ch).s1
           k2 == PermutationScalars(pf, ch).s2
           zeta == ch.zeta
           u == ch.u
           y == expmod(ch.zeta, N + 2)
           v == Zz(ch.zeta)
           r2 == expmod(r, 2)
           r3 == expmod(r, 3)
           r4 == expmod(r, 4)
           r5 == expmod(r, 5)
           om == OMEGA
           fh == FoldedH(pf, ch.zeta)
           li == LinearCommitment(pf, ch, fh)
           dg == FoldedDigest(pf, r, li)
           cl == FoldedClaims(pf, r, lin)
           qu == QuotientPoint(pf, ch)
           cc == ClaimsPoint(pf, ch, r, lin)
           pt == (bo * zeta + oo * ((u * ((zeta * om) % PRIME)) % PRIME)) % PRIME
           eq == (dg + u * gp + (PRIME - cc) + pt + (PRIME - qu) * tau) % PRIME
           res == (ql * l + qr * rr + qo * o + qm * (l * rr) + qk + w3 * k1 + r4 * w0 + r5 * w1)
        - (claim + r * l + r2 * rr + r3 * o + r4 * s1 + r5 * s2 + zw * u)
        + (r * lc + r2 * rc + r3 * oc + (0 - v) * h0 + (0 - y * v) * h1 + (0 - y * y * v) * h2
           + (k2 + u) * gp + (zeta - tau) * bo + (u * (zeta * om) - u * tau) * oo)
<1>0. r \in Nat /\ r \in Int /\ tau \in Int /\ lin \in Int /\ claim \in Int /\ PRIME \in Int
  BY FieldIsNat, FieldIsInt, PrimeIsPositive DEF Is
<1>1. l \in Int /\ rr \in Int /\ o \in Int /\ s1 \in Int /\ s2 \in Int /\ zw \in Int /\ lc \in Int
      /\ rc \in Int /\ oc \in Int /\ h0 \in Int /\ h1 \in Int /\ h2 \in Int /\ gp \in Int /\ bo \in Int
      /\ oo \in Int /\ ql \in Int /\ qr \in Int /\ qo \in Int /\ qm \in Int /\ qk \in Int /\ w0 \in Int
      /\ w1 \in Int /\ w3 \in Int /\ k1 \in Int /\ k2 \in Int /\ zeta \in Int /\ u \in Int /\ y \in Int
      /\ v \in Int /\ r2 \in Int /\ r3 \in Int /\ r4 \in Int /\ r5 \in Int /\ om \in Int /\ r \in Int
      /\ tau \in Int
  <2>1. l \in Int /\ rr \in Int /\ o \in Int /\ s1 \in Int /\ s2 \in Int /\ zw \in Int /\ lc \in Int
        /\ rc \in Int /\ oc \in Int /\ h0 \in Int /\ h1 \in Int /\ h2 \in Int /\ gp \in Int /\ bo \in Int
        /\ oo \in Int
    BY ProofFacts, FieldIsInt
  <2>2. ql \in Int /\ qr \in Int /\ qo \in Int /\ qm \in Int /\ qk \in Int /\ w0 \in Int /\ w1 \in Int
        /\ w3 \in Int
    BY VKFacts
  <2>3. zeta \in Int /\ u \in Int /\ zeta \in Field /\ ch.zeta \in Nat /\ om \in Int
    BY ChallengeFacts, SizeFacts
  <2>4. k1 \in Int /\ k2 \in Int
    BY ScalarsFacts DEF Is
  <2>5. v \in Int /\ y \in Int /\ r2 \in Int /\ r3 \in Int /\ r4 \in Int /\ r5 \in Int
    BY <1>0, <2>3, SizeFacts, ZzFacts, ModPowInt
  <2>6. QED
    BY <1>0, <2>1, <2>2, <2>3, <2>4, <2>5
<1>2. /\ fh = PRIME - ((h2 ** y + h1) ** y + h0) ** v
      /\ li = (ql * l + qr * rr + qo * o + qm * ((l * rr) % PRIME) + qk + w3 * k1 + gp * k2 + fh) % PRIME
      /\ dg = (li + r * lc + r2 * rc + r3 * oc + r4 * w0 + r5 * w1) % PRIME
      /\ cl = (lin + r * l + r2 * rr + r3 * o + r4 * s1 + r5 * s2) % PRIME
      /\ qu = (bo + u * oo) % PRIME
      /\ cc = (cl + zw * u) % PRIME
      /\ pt = (bo * zeta + oo * ((u * ((zeta * om) % PRIME)) % PRIME)) % PRIME
      /\ eq = (dg + u * gp + PRIME - cc + pt + (PRIME - qu) * tau) % PRIME
  BY DEF FoldedH, invert, LinearCommitment, FoldedDigest, FoldedClaims, QuotientPoint, ClaimsPoint
<1>3. /\ Residual(pf, ch, r, claim) = res
      /\ Opens(pf, zeta, u, dg, cl) <=> invert(cc) \in Field /\ invert(qu) \in Field /\ eq = 0
  <2>1. Residual(pf, ch, r, claim) = res
    BY DEF Residual, Rest, Weights
  <2>2. Opens(pf, zeta, u, dg, cl) <=> invert(cc) \in Field /\ invert(qu) \in Field /\ eq = 0
    BY DEF Opens, invert, QuotientPoint, ClaimsPoint
  <2>3. QED
    BY <2>1, <2>2
<1>c. (Opens(pf, zeta, u, dg, cl) <=> cc # 0 /\ qu # 0 /\ Cong(res, 0)) /\ res \in Int
      => /\ Opens(pf, ch.zeta, ch.u, FoldedDigest(pf, r, LinearCommitment(pf, ch, FoldedH(pf, ch.zeta))),
                  FoldedClaims(pf, r, lin))
            <=> /\ ClaimsPoint(pf, ch, r, lin) # 0 /\ QuotientPoint(pf, ch) # 0
                /\ Cong(Residual(pf, ch, r, claim), 0)
         /\ Residual(pf, ch, r, claim) \in Int
  BY <1>3
<1> HIDE DEF l, rr, o, s1, s2, zw, lc, rc, oc, h0, h1, h2, gp, bo, oo, ql, qr, qo, qm, qk, w0, w1, w3, k1, k2, zeta, u, y, v, r2, r3, r4, r5, om
<1> HIDE DEF fh, li, dg, cl, qu, cc, pt, eq, res
<1> DEFINE F == 0 - ((h2 * y + h1) * y + h0) * v
           LI == ql * l + qr * rr + qo * o + qm * (l * rr) + qk + w3 * k1 + gp * k2 + F
           DG == LI + r * lc + r2 * rc + r3 * oc + r4 * w0 + r5 * w1
           CL == claim + r * l + r2 * rr + r3 * o + r4 * s1 + r5 * s2
           QU == bo + u * oo
           CC == CL + zw * u
           PT == bo * zeta + oo * (u * (zeta * om))
           EE == DG + u * gp + 0 - CC + PT + (0 - QU) * tau
<1> HIDE DEF F, LI, DG, CL, QU, CC, PT, EE
<1>4. Is(l, l) /\ Is(rr, rr) /\ Is(o, o) /\ Is(s1, s1) /\ Is(s2, s2) /\ Is(zw, zw) /\ Is(lc, lc) /\ Is(rc, rc)
      /\ Is(oc, oc) /\ Is(h0, h0) /\ Is(h1, h1) /\ Is(h2, h2) /\ Is(gp, gp) /\ Is(bo, bo) /\ Is(oo, oo)
      /\ Is(ql, ql) /\ Is(qr, qr) /\ Is(qo, qo) /\ Is(qm, qm) /\ Is(qk, qk) /\ Is(w0, w0) /\ Is(w1, w1)
      /\ Is(w3, w3) /\ Is(k1, k1) /\ Is(k2, k2) /\ Is(zeta, zeta) /\ Is(u, u) /\ Is(y, y) /\ Is(v, v)
      /\ Is(r2, r2) /\ Is(r3, r3) /\ Is(r4, r4) /\ Is(r5, r5) /\ Is(om, om) /\ Is(r, r) /\ Is(tau, tau)
      /\ Is(lin, claim) /\ Is(PRIME, 0)
  BY <1>0, <1>1, IsItself, PrimeIsZero
<1>5. Is(h2 ** y + h1,
        h2 * y + h1)
  BY <1>4, IsOp, IsPlus, Zenon
<1>6. Is((h2 ** y + h1) ** y + h0,
        (h2 * y + h1) * y + h0)
  BY <1>4, <1>5, IsOp, IsPlus, Zenon
<1>7. Is(PRIME - ((h2 ** y + h1) ** y + h0) ** v,
        0 - ((h2 * y + h1) * y + h0) * v)
  BY <1>4, <1>6, IsInverted, IsOp, Zenon
<1>8. Is(fh, F)
  BY <1>7, <1>2 DEF F
<1>9. Is(ql * l + qr * rr,
        ql * l + qr * rr)
  BY <1>8, <1>4, IsMul, IsPlus, Zenon
<1>10. Is(ql * l + qr * rr + qo * o,
        ql * l + qr * rr + qo * o)
  BY <1>8, <1>4, <1>9, IsMul, IsPlus, Zenon
<1>11. Is((l * rr) % PRIME,
        l * rr)
  BY <1>8, <1>4, IsMod, IsMul, Zenon
<1>12. Is(ql * l + qr * rr + qo * o + qm * ((l * rr) % PRIME),
        ql * l + qr * rr + qo * o + qm * (l * rr))
  BY <1>8, <1>10, <1>11, <1>4, IsMul, IsPlus, Zenon
<1>13. Is(ql * l + qr * rr + qo * o + qm * ((l * rr) % PRIME) + qk + w3 * k1,
        ql * l + qr * rr + qo * o + qm * (l * rr) + qk + w3 * k1)
  BY <1>8, <1>12, <1>4, IsMul, IsPlus, Zenon
<1>14. Is(ql * l + qr * rr + qo * o + qm * ((l * rr) % PRIME) + qk + w3 * k1 + gp * k2,
        ql * l + qr * rr + qo * o + qm * (l * rr) + qk + w3 * k1 + gp * k2)
  BY <1>8, <1>13, <1>4, IsMul, IsPlus, Zenon
<1>15. Is((ql * l + qr * rr + qo * o + qm * ((l * rr) % PRIME) + qk + w3 * k1 + gp * k2 + fh) % PRIME,
        ql * l + qr * rr + qo * o + qm * (l * rr) + qk + w3 * k1 + gp * k2 + F)
  BY <1>8, <1>14, <1>4, IsMod, IsPlus, Zenon
<1>16. Is(li, LI)
  BY <1>15, <1>2 DEF LI
<1>17. Is(li + r * lc,
        LI + r * lc)
  BY <1>16, <1>4, IsMul, IsPlus, Zenon
<1>18. Is(li + r * lc + r2 * rc,
        LI + r * lc + r2 * rc)
  BY <1>16, <1>17, <1>4, IsMul, IsPlus, Zenon
<1>19. Is(li + r * lc + r2 * rc + r3 * oc,
        LI + r * lc + r2 * rc + r3 * oc)
  BY <1>16, <1>18, <1>4, IsMul, IsPlus, Zenon
<1>20. Is(li + r * lc + r2 * rc + r3 * oc + r4 * w0,
        LI + r * lc + r2 * rc + r3 * oc + r4 * w0)
  BY <1>16, <1>19, <1>4, IsMul, IsPlus, Zenon
<1>21. Is(li + r * lc + r2 * rc + r3 * oc + r4 * w0 + r5 * w1,
        LI + r * lc + r2 * rc + r3 * oc + r4 * w0 + r5 * w1)
  BY <1>16, <1>20, <1>4, IsMul, IsPlus, Zenon
<1>22. Is((li + r * lc + r2 * rc + r3 * oc + r4 * w0 + r5 * w1) % PRIME,
        LI + r * lc + r2 * rc + r3 * oc + r4 * w0 + r5 * w1)
  BY <1>16, <1>21, IsMod, Zenon
<1>23. Is(dg, DG)
  BY <1>22, <1>2 DEF DG
<1>24. Is(lin + r * l,
        claim + r * l)
  BY <1>4, IsMul, IsPlus, Zenon
<1>25. Is(lin + r * l + r2 * rr,
        claim + r * l + r2 * rr)
  BY <1>24, <1>4, IsMul, IsPlus, Zenon
<1>26. Is(lin + r * l + r2 * rr + r3 * o,
        claim + r * l + r2 * rr + r3 * o)
  BY <1>25, <1>4, IsMul, IsPlus, Zenon
<1>27. Is(lin + r * l + r2 * rr + r3 * o + r4 * s1,
        claim + r * l + r2 * rr + r3 * o + r4 * s1)
  BY <1>26, <1>4, IsMul, IsPlus, Zenon
<1>28. Is(lin + r * l + r2 * rr + r3 * o + r4 * s1 + r5 * s2,
        claim + r * l + r2 * rr + r3 * o + r4 * s1 + r5 * s2)
  BY <1>27, <1>4, IsMul, IsPlus, Zenon
<1>29. Is((lin + r * l + r2 * rr + r3 * o + r4 * s1 + r5 * s2) % PRIME,
        claim + r * l + r2 * rr + r3 * o + r4 * s1 + r5 * s2)
  BY <1>28, IsMod, Zenon
<1>30. Is(cl, CL)
  BY <1>29, <1>2 DEF CL
<1>31. Is(bo + u * oo,
        bo + u * oo)
  BY <1>4, IsMul, IsPlus, Zenon
<1>32. Is((bo + u * oo) % PRIME,
        bo + u * oo)
  BY <1>31, IsMod, Zenon
<1>33. Is(qu, QU)
  BY <1>32, <1>2 DEF QU
<1>34. Is(cl + zw * u,
        CL + zw * u)
  BY <1>30, <1>4, IsMul, IsPlus, Zenon
<1>35. Is((cl + zw * u) % PRIME,
        CL + zw * u)
  BY <1>30, <1>34, IsMod, Zenon
<1>36. Is(cc, CC)
  BY <1>35, <1>2 DEF CC
<1>37. Is((zeta * om) % PRIME,
        zeta * om)
  BY <1>4, IsMod, IsMul, Zenon
<1>38. Is((u * ((zeta * om) % PRIME)) % PRIME,
        u * (zeta * om))
  BY <1>37, <1>4, IsMod, IsMul, Zenon
<1>39. Is(bo * zeta + oo * ((u * ((zeta * om) % PRIME)) % PRIME),
        bo * zeta + oo * (u * (zeta * om)))
  BY <1>38, <1>4, IsMul, IsPlus, Zenon
<1>40. Is((bo * zeta + oo * ((u * ((zeta * om) % PRIME)) % PRIME)) % PRIME,
        bo * zeta + oo * (u * (zeta * om)))
  BY <1>39, IsMod, Zenon
<1>41. Is(pt, PT)
  BY <1>40, <1>2 DEF PT
<1>42. Is(dg + u * gp,
        DG + u * gp)
  BY <1>41, <1>36, <1>33, <1>23, <1>4, IsMul, IsPlus, Zenon
<1>43. Is(dg + u * gp + PRIME - cc,
        DG + u * gp + 0 - CC)
  BY <1>41, <1>36, <1>33, <1>23, <1>4, <1>42, IsInverted, IsPlus, Zenon
<1>44. Is((PRIME - qu) * tau,
        (0 - QU) * tau)
  BY <1>41, <1>36, <1>33, <1>23, <1>4, IsInverted, IsMul, Zenon
<1>45. Is(dg + u * gp + PRIME - cc + pt + (PRIME - qu) * tau,
        DG + u * gp + 0 - CC + PT + (0 - QU) * tau)
  BY <1>41, <1>36, <1>33, <1>23, <1>4, <1>43, <1>44, IsPlus, Zenon
<1>46. Is((dg + u * gp + PRIME - cc + pt + (PRIME - qu) * tau) % PRIME,
        DG + u * gp + 0 - CC + PT + (0 - QU) * tau)
  BY <1>41, <1>36, <1>33, <1>23, <1>45, IsMod, Zenon
<1>47. Is(eq, EE)
  BY <1>46, <1>2 DEF EE

<1>48. EE = res
  <2> DEFINE A == ql * l + qr * rr + qo * o + qm * (l * rr) + qk + w3 * k1
             B == r4 * w0 + r5 * w1
             C == claim + r * l + r2 * rr + r3 * o + r4 * s1 + r5 * s2 + zw * u
             E == r * lc + r2 * rc + r3 * oc
             G == v * h0 + (y * v) * h1 + (y * y * v) * h2
             H == (zeta - tau) * bo + (u * (zeta * om) - u * tau) * oo
  <2>1. A \in Int /\ B \in Int /\ C \in Int /\ E \in Int /\ G \in Int /\ H \in Int
    <3>1. y * v \in Int /\ y * y * v \in Int /\ u * (zeta * om) - u * tau \in Int /\ zeta - tau \in Int /\ l * rr \in Int
      BY <1>0, <1>1
    <3>2. QED
      BY <1>0, <1>1, <3>1
  <2>2. F = 0 - G
    <3>1. F = 0 - ((h2 * y + h1) * y + h0) * v
      BY DEF F
    <3>2. ((h2 * y + h1) * y + h0) * v = G
      BY <1>1
    <3>3. QED
      BY <3>1, <3>2
  <2>3. LI = A + gp * k2 + F
    <3> HIDE DEF F
    <3>1. QED
      BY DEF LI
  <2>4. DG = A + gp * k2 - G + E + B
    <3>1. DG = LI + r * lc + r2 * rc + r3 * oc + r4 * w0 + r5 * w1
      BY DEF DG
    <3>2. gp * k2 \in Int /\ r * lc \in Int /\ r2 * rc \in Int /\ r3 * oc \in Int /\ r4 * w0 \in Int /\ r5 * w1 \in Int
      BY <1>0, <1>1
    <3>3. DG = LI + E + B
      <4>1. LI \in Int
        <5> HIDE DEF A, G
        <5>1. QED
          BY <2>1, <2>2, <2>3, <3>2
      <4>2. QED
        BY <3>1, <3>2, <4>1
    <3> HIDE DEF A, B, E, G
    <3>4. QED
      BY <2>1, <2>2, <2>3, <3>2, <3>3
  <2>5. CC = C
    BY <1>0, <1>1 DEF CC, CL
  <2>6. PT - QU * tau = H
    <3>1. PT = bo * zeta + oo * (u * (zeta * om)) /\ QU = bo + u * oo
      BY DEF PT, QU
    <3> DEFINE t == u * (zeta * om)
    <3>2. t \in Int
      BY <1>1
    <3>3. H = (zeta - tau) * bo + (t - u * tau) * oo /\ PT = bo * zeta + oo * t
      BY <3>1
    <3> HIDE DEF t, H
    <3>4. QED
      BY <1>0, <1>1, <3>1, <3>2, <3>3
  <2>7. EE = DG + u * gp + (0 - CC) + PT + (0 - QU) * tau
    BY DEF EE
  <2>8. (0 - QU) * tau = 0 - QU * tau /\ QU * tau \in Int /\ PT \in Int
    <3>1. QU \in Int
      BY <1>1 DEF QU
    <3>2. PT \in Int
      <4>1. oo * (u * (zeta * om)) \in Int /\ bo * zeta \in Int
        BY <1>1
      <4>2. QED
        BY <4>1 DEF PT
    <3>3. QED
      BY <1>0, <3>1, <3>2
  <2>9. res = (A + B) - C + (E + (0 - v) * h0 + (0 - y * v) * h1 + (0 - y * y * v) * h2 + (k2 + u) * gp + H)
    <3> DEFINE a1 == (0 - v) * h0
               a2 == (0 - y * v) * h1
               a3 == (0 - y * y * v) * h2
               a4 == (k2 + u) * gp
               a5 == (zeta - tau) * bo
               a6 == (u * (zeta * om) - u * tau) * oo
               b1 == r * lc
               b2 == r2 * rc
               b3 == r3 * oc
               c1 == r4 * w0
               c2 == r5 * w1
    <3>1. res = (A + c1 + c2) - C + (b1 + b2 + b3 + a1 + a2 + a3 + a4 + a5 + a6) /\ E = b1 + b2 + b3 /\ H = a5 + a6
          /\ B = c1 + c2
      BY DEF res
    <3>2. a1 \in Int /\ a2 \in Int /\ a3 \in Int /\ a4 \in Int /\ a5 \in Int /\ a6 \in Int /\ b1 \in Int /\ b2 \in Int
          /\ b3 \in Int /\ c1 \in Int /\ c2 \in Int
      <4>1. 0 - v \in Int /\ 0 - y * v \in Int /\ 0 - y * y * v \in Int /\ k2 + u \in Int /\ zeta - tau \in Int
            /\ u * (zeta * om) - u * tau \in Int
        BY <1>0, <1>1
      <4>2. QED
        BY <1>0, <1>1, <4>1
    <3> HIDE DEF A, B, C, E, G, H, a1, a2, a3, a4, a5, a6, b1, b2, b3, c1, c2
    <3>3. (A + c1 + c2) - C + (b1 + b2 + b3 + a1 + a2 + a3 + a4 + a5 + a6)
          = (A + (c1 + c2)) - C + ((b1 + b2 + b3) + a1 + a2 + a3 + a4 + (a5 + a6))
      BY <2>1, <3>2
    <3>4. QED
      BY <3>1, <3>3 DEF a1, a2, a3, a4
  <2>10. (0 - v) * h0 + (0 - y * v) * h1 + (0 - y * y * v) * h2 = 0 - G
    BY <1>1
  <2>11. gp * k2 + u * gp = (k2 + u) * gp /\ gp * k2 \in Int /\ u * gp \in Int /\ (k2 + u) * gp \in Int
    BY <1>1
  <2>12. (0 - v) * h0 \in Int /\ (0 - y * v) * h1 \in Int /\ (0 - y * y * v) * h2 \in Int
    <3>1. 0 - v \in Int /\ 0 - y * v \in Int /\ 0 - y * y * v \in Int
      BY <1>1
    <3>2. QED
      BY <1>1, <3>1
  <2> DEFINE a1 == (0 - v) * h0
             a2 == (0 - y * v) * h1
             a3 == (0 - y * y * v) * h2
             a4 == (k2 + u) * gp
             b1 == gp * k2
             b2 == u * gp
             qt == QU * tau
  <2>13. /\ res = (A + B) - C + (E + a1 + a2 + a3 + a4 + H) /\ a1 + a2 + a3 = 0 - G
         /\ b1 + b2 = a4 /\ b1 \in Int /\ b2 \in Int /\ a4 \in Int /\ a1 \in Int /\ a2 \in Int /\ a3 \in Int /\ qt \in Int
         /\ DG = A + b1 - G + E + B /\ PT - qt = H /\ EE = DG + b2 + (0 - CC) + PT + (0 - qt)
    <3> HIDE DEF A, B, C, E, G, H
    <3>1. QED
      BY <2>4, <2>6, <2>7, <2>8, <2>9, <2>10, <2>11, <2>12
  <2> HIDE DEF A, B, C, E, G, H, a1, a2, a3, a4, b1, b2, qt
  <2>14. QED
    BY <2>1, <2>5, <2>8, <2>13
<1>49. Is(eq, res) /\ cc \in Field /\ qu \in Field /\ eq \in Field
  <2>1. cl \in Int /\ dg \in Int /\ pt \in Int /\ qu \in Int /\ cc \in Int
    BY <1>30, <1>23, <1>41, <1>33, <1>36 DEF Is
  <2>2. cc \in Field
    <3>1. cl + zw * u \in Int
      BY <1>1, <2>1
    <3>2. QED
      BY <1>2, <3>1, ModIsField
  <2>3. qu \in Field
    <3>1. bo + u * oo \in Int
      BY <1>1
    <3>2. QED
      BY <1>2, <3>1, ModIsField
  <2>4. eq \in Field
    <3>1. u * gp \in Int /\ (PRIME - qu) * tau \in Int /\ PRIME - cc \in Int
      BY <1>0, <1>1, <2>1
    <3>2. dg + u * gp + (PRIME - cc) + pt + (PRIME - qu) * tau \in Int
      BY <2>1, <3>1
    <3>3. QED
      BY <1>2, <3>2, ModIsField
  <2>5. QED
    BY <2>2, <2>3, <2>4, <1>47, <1>48
<1>50. eq = 0 <=> Cong(res, 0)
  <2>1. eq \in Int /\ res \in Int /\ Cong(eq, res) /\ Cong(res, eq) /\ 0 \in Int
    BY <1>49, CongSym DEF Is
  <2>2. eq = 0 <=> Cong(eq, 0)
    BY <1>49, FieldIsInt, CongRefl
  <2>3. QED
    BY <2>1, <2>2, CongTrans
<1>51. QED
  BY <1>3, <1>c, <1>49, <1>50, InvertFacts DEF Is

-----------------------------------------------------------------------------
(* The prover's polynomials. *)

LEMMA TakesItself == ASSUME NEW p \in Poly, NEW x \in Int PROVE Takes(p, Len(p), x, Eval(p, x)) /\ Eval(p, x) \in Int
<1>1. Len(p) \in Nat /\ Eval(p, x) \in Int
  BY PolyFacts, EvalInt
<1>2. QED
  BY <1>1, IsItself DEF Takes

LEMMA BlindedFacts ==
  ASSUME NEW p \in Poly, Len(p) = N, NEW b \in Poly, NEW m \in Nat, Len(b) = m, m >= 1
  PROVE  /\ Blinded(p, b) \in Poly /\ Len(Blinded(p, b)) = N + m
         /\ \A i \in Rows : Cong(Eval(Blinded(p, b), Power(i)), Eval(p, Power(i)))
<1>0. N \in Nat /\ N >= 1 /\ m + (N + 1) - 1 = N + m /\ N + 1 > 0 /\ m > 0
  BY SizeFacts
<1>1. ASSUME NEW x \in Int
      PROVE  Takes(Blinded(p, b), N + m, x, Eval(p, x) + Eval(b, x) * Eval(Vanishing, x))
  <2>1. Takes(p, N, x, Eval(p, x)) /\ Takes(b, m, x, Eval(b, x)) /\ Takes(Vanishing, N + 1, x, Eval(Vanishing, x))
    BY VanishingFacts, TakesItself
  <2>2. Takes(Times(b, Vanishing), N + m, x, Eval(b, x) * Eval(Vanishing, x))
    <3>1. Takes(Times(b, Vanishing), m + (N + 1) - 1, x, Eval(b, x) * Eval(Vanishing, x))
      BY <1>0, <2>1, TakesTimes
    <3>2. QED
      BY <1>0, <3>1
  <2>3. Takes(Plus(p, Times(b, Vanishing)), Longer(N, N + m), x, Eval(p, x) + Eval(b, x) * Eval(Vanishing, x))
    BY <2>1, <2>2, TakesPlus
  <2>4. Longer(N, N + m) = N + m
    BY <1>0 DEF Longer
  <2>5. QED
    BY <2>3, <2>4 DEF Blinded
<1>2. ASSUME NEW i \in Rows PROVE Cong(Eval(Blinded(p, b), Power(i)), Eval(p, Power(i)))
  <2> DEFINE x == Power(i)
             e == Eval(p, x)
             f == Eval(b, x)
             g == Eval(Vanishing, x)
  <2>1. x \in Int /\ Pow(x, N) = 1
    BY DomainFacts, PowerFacts, RootsOfUnity
  <2> HIDE DEF x
  <2>2. e \in Int /\ f \in Int /\ g \in Int
    BY <2>1, EvalInt, VanishingFacts
  <2>3. Is(g, 0)
    <3>1. Cong(g, 1 - 1)
      BY <2>1, EvalVanishing
    <3>2. 1 - 1 = 0
      OBVIOUS
    <3>3. QED
      BY <2>2, <3>1, <3>2 DEF Is
  <2>4. Is(Eval(Blinded(p, b), x), e + f * g)
    BY <1>1, <2>1 DEF Takes
  <2> HIDE DEF e, f, g
  <2>5. Is(e + f * g, e + f * 0)
    <3>1. Is(e, e) /\ Is(f, f)
      BY <2>2, IsItself
    <3>2. QED
      BY <2>3, <3>1, IsPlus, IsMul, Zenon
  <2>6. e + f * 0 = e
    BY <2>2
  <2>7. Is(Eval(Blinded(p, b), x), e)
    BY <2>4, <2>5, <2>6, IsChain
  <2>8. QED
    BY <2>7 DEF Is, x, e
<1>3. Blinded(p, b) \in Poly /\ Len(Blinded(p, b)) = N + m
  <2>1. 0 \in Int
    OBVIOUS
  <2>2. QED
    BY <1>1, <2>1 DEF Takes
<1>4. QED
  BY <1>2, <1>3

LEMMA TypedFacts ==
  ASSUME Typed
  PROVE  /\ \A p \in Wires \X Rows : inst.wires[p] \in Field /\ inst.wires[p] \in Int /\ inst.wires[p] \in Nat
         /\ inst.public \in PublicInputs /\ tau \in Field /\ tau \in Int /\ tau \in Nat
         /\ challenge \in Challenges
         /\ challenge.beta \in Field /\ challenge.gamma \in Field /\ challenge.alpha \in Field
         /\ challenge.beta \in Int /\ challenge.gamma \in Int /\ challenge.alpha \in Int
         /\ challenge.beta \in Nat /\ challenge.gamma \in Nat /\ challenge.alpha \in Nat
<1>1. inst.public \in PublicInputs /\ inst.wires \in [Wires \X Rows -> Field]
  BY PlonkAssumption DEF Typed, PublicInputs
<1>2. challenge.beta \in Field /\ challenge.gamma \in Field /\ challenge.alpha \in Field /\ challenge \in Challenges
      /\ tau \in Field
  BY DEF Typed, Challenges
<1>3. \A p \in Wires \X Rows : inst.wires[p] \in Field
  BY <1>1
<1>4. QED
  BY <1>1, <1>2, <1>3, FieldIsInt, FieldIsNat

LEMMA BlindingFacts ==
  /\ \A w \in Wires : Blinding[w] \in Poly /\ Len(Blinding[w]) = 2
  /\ Blinding[3] \in Poly /\ Len(Blinding[3]) = 3
<1>1. \A w \in 0 .. 3 : Blinding[w] \in Poly
  BY PlonkAssumption DEF Poly
<1>2. \A w \in Wires : w \in 0 .. 3
  BY DEF Wires
<1>3. QED
  BY <1>1, <1>2, PlonkAssumption

LEMMA WireFacts ==
  ASSUME Typed, NEW w \in Wires
  PROVE  /\ Wire(w) \in Poly /\ Len(Wire(w)) = N + 2
         /\ \A i \in Rows : Is(Eval(Wire(w), Power(i)), inst.wires[<<w, i>>])
<1> DEFINE v == [i \in Rows |-> inst.wires[<<w, i>>]]
           p == Interpolated(v)
<1>1. \A i \in Rows : <<w, i>> \in Wires \X Rows /\ inst.wires[<<w, i>>] \in Int
  BY TypedFacts
<1>2. v \in [Rows -> Int] /\ \A i \in Rows : v[i] = inst.wires[<<w, i>>]
  BY <1>1
<1>3. Wire(w) = Blinded(p, Blinding[w])
  BY DEF Wire
<1> HIDE DEF v
<1>4. p \in Poly /\ Len(p) = N /\ \A j \in Rows : Cong(Eval(p, Power(j)), v[j])
  BY <1>2, InterpolatedFacts
<1> HIDE DEF p
<1>5. /\ Wire(w) \in Poly /\ Len(Wire(w)) = N + 2
      /\ \A i \in Rows : Cong(Eval(Wire(w), Power(i)), Eval(p, Power(i)))
  <2> DEFINE b == Blinding[w]
  <2>1. 2 \in Nat /\ 2 >= 1 /\ b \in Poly /\ Len(b) = 2
    BY BlindingFacts
  <2> HIDE DEF b
  <2>2. /\ Blinded(p, b) \in Poly /\ Len(Blinded(p, b)) = N + 2
        /\ \A i \in Rows : Cong(Eval(Blinded(p, b), Power(i)), Eval(p, Power(i)))
    BY <1>4, <2>1, BlindedFacts
  <2>3. QED
    BY <1>3, <2>2 DEF b
<1>6. ASSUME NEW i \in Rows PROVE Is(Eval(Wire(w), Power(i)), inst.wires[<<w, i>>])
  <2>1. Power(i) \in Int
    BY DomainFacts, PowerFacts
  <2>2. Is(Eval(Wire(w), Power(i)), Eval(p, Power(i))) /\ Is(Eval(p, Power(i)), inst.wires[<<w, i>>])
    BY <1>1, <1>2, <1>4, <1>5, <2>1, EvalInt DEF Is
  <2>3. QED
    BY <2>2, IsChain
<1>7. QED
  BY <1>5, <1>6

\* Shifted numbers, and the denominators and numerators of the accumulator.
LEMMA ShiftedFacts ==
  ASSUME Typed
  PROVE  /\ \A i \in Rows : Denominator(i) \in Field /\ Numerator(i) \in Field
         /\ \A i \in Rows : Denominator(i) \in Nat /\ Numerator(i) \in Nat
         /\ \A p, q \in Wires \X Rows : Shifted(p, Label(q)) \in Int
<1>1. ASSUME NEW p \in Wires \X Rows, NEW q \in Wires \X Rows PROVE Shifted(p, Label(q)) \in Int
  <2> DEFINE a == inst.wires[p]
             b == challenge.beta
             c == challenge.gamma
             d == Label(q)
  <2>1. a \in Int /\ b \in Int /\ c \in Int /\ d \in Int
    BY TypedFacts, LabelFacts
  <2>2. Shifted(p, Label(q)) = a + b * d + c
    BY DEF Shifted
  <2> HIDE DEF a, b, c, d
  <2>3. QED
    BY <2>1, <2>2
<1>2. \A a, b, c \in Int : a ** b ** c \in Field
  <2>1. TAKE a, b, c \in Int
  <2> DEFINE d == a ** b
  <2>2. d \in Int
    BY FieldOps DEF **
  <2> HIDE DEF d
  <2>3. d ** c \in Field
    BY <2>2, FieldOps DEF **
  <2>4. QED
    BY <2>3 DEF d
<1>3. ASSUME NEW i \in Rows PROVE Denominator(i) \in Field /\ Numerator(i) \in Field
  <2>1. \A w \in 0 .. 2 : <<w, i>> \in Wires \X Rows /\ Sigma[<<w, i>>] \in Wires \X Rows
    BY PlonkAssumption DEF Wires
  <2>2. Shifted(<<0, i>>, Label(Sigma[<<0, i>>])) \in Int /\ Shifted(<<1, i>>, Label(Sigma[<<1, i>>])) \in Int
        /\ Shifted(<<2, i>>, Label(Sigma[<<2, i>>])) \in Int
    BY <1>1, <2>1
  <2>3. Shifted(<<0, i>>, Label(<<0, i>>)) \in Int /\ Shifted(<<1, i>>, Label(<<1, i>>)) \in Int
        /\ Shifted(<<2, i>>, Label(<<2, i>>)) \in Int
    BY <1>1, <2>1
  <2>4. QED
    BY <1>2, <2>2, <2>3 DEF Denominator, Numerator
<1>4. QED
  BY <1>1, <1>3, FieldIsNat

IsAccumulator(z) == z = [i \in Rows |-> IF i = 0 THEN 1 ELSE z[i - 1] ** Numerator(i - 1) ** Inv(Denominator(i - 1))]

LEMMA GrandProductFacts ==
  ASSUME Typed
  PROVE  /\ GrandProduct \in Poly /\ Len(GrandProduct) = N + 3
         /\ \E z \in [Rows -> Field] : /\ IsAccumulator(z)
                                       /\ \A i \in Rows : Is(Eval(GrandProduct, Power(i)), z[i])
<1> DEFINE n == N - 1
           G == [y \in (1 .. n) \X Field |-> y[2] ** Numerator(y[1] - 1) ** Inv(Denominator(y[1] - 1))]
<1>0. n \in Nat /\ Rows = 0 .. n
  BY SizeFacts DEF Rows
<1>1. G \in [(1 .. n) \X Field -> Field]
  <2>1. ASSUME NEW y \in (1 .. n) \X Field PROVE G[y] \in Field
    <3> DEFINE a == y[2]
               b == Numerator(y[1] - 1)
               c == Inv(Denominator(y[1] - 1))
    <3>0. y[1] \in 1 .. n /\ a \in Field
      OBVIOUS
    <3>1. y[1] - 1 \in Rows /\ a \in Int
      <4> HIDE DEF a, n
      <4>1. QED
        BY <1>0, <3>0, FieldIsInt
    <3>2. b \in Nat /\ Denominator(y[1] - 1) \in Nat
      BY <3>1, ShiftedFacts
    <3>3. c \in Int
      <4>1. PRIME - 2 \in Nat
        BY PrimeIsPositive
      <4>2. QED
        BY <3>2, <4>1, ModPowInt DEF Inv
    <3>4. G[y] = a ** b ** c
      OBVIOUS
    <3> HIDE DEF G, a, b, c
    <3> DEFINE d == a ** b
    <3>5. d \in Int
      BY <3>1, <3>2, FieldOps DEF **
    <3> HIDE DEF d
    <3>6. d ** c \in Field
      BY <3>3, <3>5, FieldOps DEF **
    <3>7. QED
      BY <3>4, <3>6 DEF d
  <2>2. QED
    BY <2>1
<1>2. PICK f \in [0 .. n -> Field] : Upwards(n, 1, G, f)
  <2> HIDE DEF G, n
  <2>1. QED
    BY <1>0, <1>1, FieldIsInt, UpwardsExists
<1>3. IsAccumulator(f)
  <2>1. ASSUME NEW i \in Rows
        PROVE  f[i] = IF i = 0 THEN 1 ELSE f[i - 1] ** Numerator(i - 1) ** Inv(Denominator(i - 1))
    <3>1. CASE i = 0
      BY <1>2, <3>1 DEF Upwards
    <3>2. CASE i # 0
      <4>1. i \in 1 .. n /\ i - 1 \in 0 .. n
        BY <1>0, <3>2
      <4>2. f[i] = G[<<i, f[i - 1]>>] /\ f[i - 1] \in Field
        <5> HIDE DEF G
        <5>1. QED
          BY <1>2, <4>1 DEF Upwards
      <4>3. QED
        BY <3>2, <4>1, <4>2
    <3>3. QED
      BY <3>1, <3>2
  <2>2. f = [i \in Rows |-> IF i = 0 THEN 1 ELSE f[i - 1] ** Numerator(i - 1) ** Inv(Denominator(i - 1))]
    BY <1>0, <2>1, Zenon
  <2>3. QED
    BY <2>2 DEF IsAccumulator
<1> HIDE DEF G, n
<1> DEFINE z == CHOOSE z : IsAccumulator(z)
<1>4. IsAccumulator(z)
  BY <1>3
<1>5. GrandProduct = Blinded(Interpolated(z), Blinding[3])
  BY DEF GrandProduct, IsAccumulator
<1> HIDE DEF z
<1>6. \A i \in Rows : z[i] = IF i = 0 THEN 1 ELSE z[i - 1] ** Numerator(i - 1) ** Inv(Denominator(i - 1))
  <2> DEFINE h(i) == IF i = 0 THEN 1 ELSE z[i - 1] ** Numerator(i - 1) ** Inv(Denominator(i - 1))
  <2>1. z = [i \in Rows |-> h(i)]
    BY <1>4 DEF IsAccumulator
  <2> HIDE DEF h
  <2>2. \A i \in Rows : z[i] = h(i)
    BY <2>1
  <2>3. QED
    BY <2>2 DEF h
<1>7. z \in [Rows -> Field]
  <2> DEFINE S == {m \in Nat : m \in Rows => z[m] \in Field}
  <2>1. 0 \in S
    BY <1>6, FieldIsInt
  <2>2. ASSUME NEW m \in Nat, m \in S PROVE m + 1 \in S
    <3>1. SUFFICES ASSUME m + 1 \in Rows PROVE z[m + 1] \in Field
      OBVIOUS
    <3> DEFINE a == z[m]
               b == Numerator(m)
               c == Inv(Denominator(m))
    <3>2. m \in Rows /\ m + 1 # 0 /\ (m + 1) - 1 = m
      BY <3>1, SizeFacts DEF Rows
    <3>3. z[m + 1] = a ** b ** c
      BY <1>6, <3>1, <3>2
    <3>4. a \in Int /\ b \in Int /\ c \in Int
      <4>1. PRIME - 2 \in Nat
        BY PrimeIsPositive
      <4>2. b \in Field /\ Denominator(m) \in Nat
        BY <3>2, ShiftedFacts
      <4>3. QED
        BY <2>2, <3>2, <4>1, <4>2, FieldIsInt, ModPowInt DEF Inv
    <3> HIDE DEF a, b, c
    <3> DEFINE d == a ** b
    <3>5. d \in Int
      BY <3>4, FieldOps DEF **
    <3> HIDE DEF d
    <3>6. d ** c \in Field
      BY <3>4, <3>5, FieldOps DEF **
    <3>7. QED
      BY <3>3, <3>6 DEF d
  <2>3. \A m \in Nat : m \in S
    <3> HIDE DEF S
    <3>1. QED
      BY <2>1, <2>2, NatInductionOnSet
  <2>4. \A m \in Rows : m \in Nat /\ z[m] \in Field
    BY <2>3, DomainFacts
  <2>5. z = [i \in Rows |-> z[i]]
    BY <1>4, Zenon DEF IsAccumulator
  <2>6. QED
    BY <2>4, <2>5
<1> DEFINE p == Interpolated(z)
<1>8. p \in Poly /\ Len(p) = N /\ \A j \in Rows : Cong(Eval(p, Power(j)), z[j])
  <2>1. z \in [Rows -> Int]
    BY <1>7, FieldIsInt
  <2>2. QED
    BY <2>1, InterpolatedFacts
<1> HIDE DEF p
<1>9. /\ GrandProduct \in Poly /\ Len(GrandProduct) = N + 3
      /\ \A i \in Rows : Cong(Eval(GrandProduct, Power(i)), Eval(p, Power(i)))
  <2>1. 3 \in Nat /\ 3 >= 1 /\ Blinding[3] \in Poly /\ Len(Blinding[3]) = 3 /\ GrandProduct = Blinded(p, Blinding[3])
    BY <1>5, BlindingFacts DEF p
  <2>2. QED
    BY <1>8, <2>1, BlindedFacts
<1>10. ASSUME NEW i \in Rows PROVE Is(Eval(GrandProduct, Power(i)), z[i])
  <2>1. Power(i) \in Int /\ z[i] \in Int
    BY <1>7, DomainFacts, PowerFacts, FieldIsInt
  <2>2. Is(Eval(GrandProduct, Power(i)), Eval(p, Power(i))) /\ Is(Eval(p, Power(i)), z[i])
    BY <1>8, <1>9, <2>1, EvalInt DEF Is
  <2>3. QED
    BY <2>2, IsChain
<1>11. QED
  BY <1>4, <1>7, <1>9, <1>10

LEMMA RotatedFacts ==
  ASSUME NEW p \in Poly, Len(p) <= N + 3, NEW x \in Int
  PROVE  Takes(Rotated(p), Len(p), x, Eval(p, OMEGA * x))
<1> DEFINE n == Len(p)
           t == OMEGA * x
           f == [k \in 1 .. n |-> p[k] ** Power(k - 1)]
           u == [k \in 1 .. n + 1 |-> Pow(OMEGA, k - 1) * Suf(p, t, k)]
<1>0. n \in Nat /\ OMEGA \in Int /\ t \in Int /\ \A k \in 1 .. n : p[k] \in Field /\ p[k] \in Int
  BY PolyFacts, SizeFacts
<1>1. \A k \in 1 .. n : k - 1 \in 0 .. N + 2 /\ Power(k - 1) = Pow(OMEGA, k - 1) /\ Power(k - 1) \in Int
  <2>1. \A k \in 1 .. n : k - 1 \in 0 .. N + 2
    BY <1>0, SizeFacts
  <2>2. QED
    BY <2>1, PowerFacts
<1>2. f \in [1 .. n -> Field]
  <2>1. \A k \in 1 .. n : p[k] ** Power(k - 1) \in Field
    <3>1. TAKE k \in 1 .. n
    <3> DEFINE a == p[k]
               b == Power(k - 1)
    <3>2. a \in Int /\ b \in Int
      BY <1>0, <1>1
    <3> HIDE DEF a, b
    <3>3. a ** b \in Field
      BY <3>2, FieldOps DEF **
    <3>4. QED
      BY <3>3 DEF a, b
  <2>2. QED
    BY <2>1
<1>3. f \in Poly /\ Len(f) = n /\ Rotated(p) = f
  <2>1. Rotated(p) = f \o <<>>
    BY DEF Rotated
  <2> HIDE DEF f
  <2>2. QED
    BY <1>0, <1>2, <2>1, Stored
<1>4. \A k \in Nat \ {0} : Suf(p, t, k) \in Int /\ Cong(Suf(p, t, k), At(p, k) + t * Suf(p, t, k + 1))
                           /\ (k > n => Suf(p, t, k) = 0)
  BY <1>0, SufStep
<1>5. u \in [1 .. n + 1 -> Int]
  <2>1. ASSUME NEW k \in 1 .. n + 1 PROVE u[k] \in Int
    <3>1. k \in Nat \ {0} /\ k - 1 \in Nat
      BY <1>0
    <3>2. Pow(OMEGA, k - 1) \in Int /\ Suf(p, t, k) \in Int
      BY <1>0, <1>4, <3>1, PowSteps
    <3>3. QED
      BY <3>2
  <2>2. QED
    BY <2>1
<1>6. Steps(f, x, n, u)
  <2>1. Cong(u[n + 1], 0)
    <3>1. n + 1 \in 1 .. n + 1 /\ n + 1 \in Nat \ {0} /\ n + 1 > n /\ (n + 1) - 1 = n
      BY <1>0
    <3>2. Suf(p, t, n + 1) = 0 /\ Pow(OMEGA, n) \in Int
      BY <1>0, <1>4, <3>1, PowSteps
    <3>3. u[n + 1] = 0
      BY <3>1, <3>2
    <3>4. QED
      BY <3>3, CongRefl
  <2>2. ASSUME NEW k \in 1 .. n PROVE Cong(u[k], At(f, k) + x * u[k + 1])
    <3> DEFINE w == Pow(OMEGA, k - 1)
               ww == Pow(OMEGA, k)
               s == Suf(p, t, k)
               ss == Suf(p, t, k + 1)
               a == p[k]
    <3>1. k \in Nat \ {0} /\ k - 1 \in Nat /\ (k - 1) + 1 = k /\ k \in 1 .. n + 1 /\ k + 1 \in 1 .. n + 1
          /\ (k + 1) - 1 = k /\ k + 1 \in Nat \ {0}
      BY <1>0
    <3>2. u[k] = w * s /\ u[k + 1] = ww * ss
      BY <3>1
    <3>3. At(f, k) = a ** Power(k - 1) /\ At(p, k) = a
      BY <1>3 DEF At
    <3>4. w \in Int /\ ww \in Int /\ Cong(ww, OMEGA * w) /\ s \in Int /\ ss \in Int /\ a \in Int
      BY <1>0, <1>4, <3>1, PowSteps
    <3>5. Power(k - 1) = w
      BY <1>1
    <3>6. Cong(s, a + t * ss)
      BY <1>4, <3>1, <3>3
    <3> HIDE DEF u, f, w, ww, s, ss, a
    <3>7. Is(s, a + t * ss) /\ Is(ww, OMEGA * w) /\ Is(w, w) /\ Is(x, x) /\ Is(ss, ss) /\ Is(a, a)
      <4>1. a + t * ss \in Int /\ OMEGA * w \in Int
        BY <1>0, <3>4
      <4>2. QED
        BY <1>0, <3>4, <3>6, <4>1, IsItself DEF Is
    <3>8. Is(w * s, w * (a + t * ss))
      BY <3>7, IsMul
    <3>9. Is(a ** w + x * (ww * ss), a * w + x * ((OMEGA * w) * ss))
      BY <3>7, IsOp, IsMul, IsPlus, Zenon
    <3>10. w * (a + t * ss) = a * w + x * ((OMEGA * w) * ss)
      <4>1. w * (a + t * ss) = w * a + w * (t * ss)
        BY <1>0, <3>4
      <4>2. w * (t * ss) = x * ((OMEGA * w) * ss)
        BY <1>0, <3>4
      <4>3. QED
        BY <1>0, <3>4, <4>1, <4>2
    <3>11. Is(w * s, a ** w + x * (ww * ss))
      BY <3>8, <3>9, <3>10, IsBack, IsChain
    <3>12. QED
      BY <3>2, <3>3, <3>5, <3>11 DEF Is
  <2>3. QED
    BY <2>1, <2>2 DEF Steps
<1>7. u[1] = Eval(p, t)
  <2>0. 1 \in 1 .. n + 1 /\ 1 - 1 = 0 /\ 1 \in Nat \ {0} /\ 0 \in Nat
    BY <1>0
  <2>1. 1 \in 1 .. n + 1 /\ 1 - 1 = 0 /\ Pow(OMEGA, 0) = 1 /\ 1 \in Nat \ {0}
    <3>1. Pow(OMEGA, 0) = 1
      BY <1>0, <2>0, PowSteps
    <3>2. QED
      BY <2>0, <3>1
  <2>2. Eval(p, t) = Suf(p, t, 1) /\ Suf(p, t, 1) \in Int
    BY <1>0, <1>4, <2>1, SufStep
  <2>3. QED
    BY <2>1, <2>2
<1> HIDE DEF f, u, t
<1>8. Cong(Eval(f, x), u[1])
  <2>1. Len(f) <= n
    BY <1>0, <1>3
  <2>2. QED
    BY <1>0, <1>3, <1>5, <1>6, <2>1, EvalIs
<1>9. QED
  BY <1>0, <1>3, <1>7, <1>8, EvalInt DEF Takes, Is, t

IsOverZ(p, q) == q = [i \in 0 .. N |-> IF i = 0 THEN p ELSE Opened(q[i - 1], Power(i - 1))]

LEMMA OpenedIsPoly == ASSUME NEW p \in Poly, NEW z \in Int PROVE Opened(p, z) \in Poly
<1>1. CASE Len(p) > 0
  BY <1>1, OpenedFacts
<1>2. CASE ~(Len(p) > 0)
  <2>1. Len(p) = 0 /\ 1 .. 0 - 1 = {} /\ 1 .. 0 = {}
    BY <1>2, PolyFacts
  <2> DEFINE f == [k \in 1 .. Len(p) - 1 |-> Tails(p, z)[k + 1]]
  <2>2. f \in [1 .. 0 -> Field]
    BY <2>1
  <2>3. Opened(p, z) = f \o <<>>
    BY DEF Opened
  <2> HIDE DEF f
  <2>4. QED
    BY <2>2, <2>3, Stored
<1>3. QED
  BY <1>1, <1>2

LEMMA OverZExists ==
  ASSUME NEW p \in Poly
  PROVE  \E q \in [0 .. N -> Poly] : IsOverZ(p, q) /\ OverZ(p) = q[N]
                                     /\ \A i \in 0 .. N : q[i] = IF i = 0 THEN p ELSE Opened(q[i - 1], Power(i - 1))
<1> DEFINE G == [y \in (1 .. N) \X Poly |-> Opened(y[2], Power(y[1] - 1))]
<1>0. N \in Nat
  BY SizeFacts
<1>1. G \in [(1 .. N) \X Poly -> Poly]
  <2>1. ASSUME NEW y \in (1 .. N) \X Poly PROVE G[y] \in Poly
    <3>0. y[1] \in 1 .. N /\ y[2] \in Poly
      OBVIOUS
    <3>1. y[1] - 1 \in 0 .. N + 2
      BY <1>0, <3>0
    <3>2. QED
      BY <3>0, <3>1, PowerFacts, OpenedIsPoly
  <2>2. QED
    BY <2>1
<1>2. PICK f \in [0 .. N -> Poly] : Upwards(N, p, G, f)
  <2> HIDE DEF G
  <2>1. QED
    BY <1>0, <1>1, UpwardsExists
<1>3. ASSUME NEW i \in 0 .. N PROVE f[i] = IF i = 0 THEN p ELSE Opened(f[i - 1], Power(i - 1))
  <2>1. CASE i = 0
    BY <1>2, <2>1 DEF Upwards
  <2>2. CASE i # 0
    <3>1. i \in 1 .. N /\ i - 1 \in 0 .. N
      BY <1>0, <2>2
    <3>2. f[i] = G[<<i, f[i - 1]>>] /\ f[i - 1] \in Poly
      <4> HIDE DEF G
      <4>1. QED
        BY <1>2, <3>1 DEF Upwards
    <3>3. QED
      BY <2>2, <3>1, <3>2
  <2>3. QED
    BY <2>1, <2>2
<1>4. IsOverZ(p, f)
  BY <1>3, Zenon DEF IsOverZ
<1> DEFINE q == CHOOSE q : IsOverZ(p, q)
<1>5. IsOverZ(p, q)
  BY <1>4
<1>6. OverZ(p) = q[N]
  BY DEF OverZ, IsOverZ
<1> HIDE DEF q
<1>7. \A i \in 0 .. N : q[i] = IF i = 0 THEN p ELSE Opened(q[i - 1], Power(i - 1))
  <2> DEFINE h(i) == IF i = 0 THEN p ELSE Opened(q[i - 1], Power(i - 1))
  <2>1. q = [i \in 0 .. N |-> h(i)]
    BY <1>5 DEF IsOverZ
  <2> HIDE DEF h
  <2>2. \A i \in 0 .. N : q[i] = h(i)
    BY <2>1
  <2>3. QED
    BY <2>2 DEF h
<1>8. q \in [0 .. N -> Poly]
  <2> DEFINE S == {m \in Nat : m <= N => q[m] \in Poly}
  <2>1. 0 \in S
    BY <1>0, <1>7
  <2>2. ASSUME NEW m \in Nat, m \in S PROVE m + 1 \in S
    <3>1. SUFFICES ASSUME m + 1 <= N PROVE q[m + 1] \in Poly
      OBVIOUS
    <3>2. m + 1 \in 0 .. N /\ m + 1 # 0 /\ (m + 1) - 1 = m /\ m \in 0 .. N + 2 /\ m <= N
      BY <1>0, <3>1
    <3>3. q[m + 1] = Opened(q[m], Power(m))
      BY <1>7, <3>2
    <3>4. QED
      BY <2>2, <3>2, <3>3, PowerFacts, OpenedIsPoly
  <2>3. \A m \in Nat : m \in S
    <3> HIDE DEF S
    <3>1. QED
      BY <2>1, <2>2, NatInductionOnSet
  <2>4. \A m \in 0 .. N : q[m] \in Poly
    BY <2>3
  <2>5. q = [i \in 0 .. N |-> q[i]]
    BY <1>5, Zenon DEF IsOverZ
  <2>6. QED
    BY <2>4, <2>5
<1>9. QED
  BY <1>5, <1>6, <1>7, <1>8

\* x^N - 1 is the product of its factors.
LEMMA VanishingIsNodes == ASSUME NEW x \in Int PROVE Cong(Eval(Vanishing, x), Nodes(Domain, Rows, Rows, x))
                                                     /\ Nodes(Domain, Rows, Rows, x) \in Int
<1>0. N \in Nat /\ 1 \in Int
  BY SizeFacts
<1>1. \A y \in Rows : Cong(Eval(Vanishing, Domain[y]), 0)
  <2>1. ASSUME NEW y \in Rows PROVE Cong(Eval(Vanishing, Power(y)), 0)
    <3>1. Power(y) \in Int /\ Pow(Power(y), N) - 1 = 0
      BY DomainFacts, PowerFacts, RootsOfUnity
    <3>2. QED
      BY <3>1, EvalVanishing
  <2>2. QED
    BY <2>1, DomainFacts
<1>2. PICK q \in Poly : /\ Len(q) = (N + 1) - N /\ q[Len(q)] = Vanishing[N + 1]
                        /\ FactorsInto(Domain, Rows, Rows, Vanishing, q)
  <2>1. N < N + 1
    BY <1>0
  <2>2. QED
    BY <1>1, <2>1, DomainFacts, VanishingFacts, Factors
<1>3. Len(q) = 1 /\ q[1] = 1
  <2>1. At(Vanishing, N + 1) = 1 /\ At(Vanishing, N + 1) = Vanishing[N + 1]
    <3>1. N + 1 \in Nat \ {0} /\ N + 1 # 1
      BY SizeFacts
    <3>2. QED
      BY <3>1, VanishingFacts DEF At
  <2>2. QED
    BY <1>0, <1>2, <2>1
<1> DEFINE m == Nodes(Domain, Rows, Rows, x)
           e == Eval(Vanishing, x)
           c == Eval(q, x)
<1>4. e \in Int /\ m \in Int /\ c \in Int /\ Cong(c, 1) /\ Cong(e, m * c)
  <2>1. m \in Int
    BY DomainFacts, NodesSteps
  <2>2. e \in Int /\ c \in Int
    BY VanishingFacts, EvalInt
  <2>3. Cong(c, 1)
    BY <1>3, ConstantIsItself
  <2>4. QED
    BY <1>2, <2>1, <2>2, <2>3 DEF FactorsInto
<1> HIDE DEF m, e, c
<1>5. Is(m * c, m * 1) /\ Is(e, m * c)
  <2>1. Is(m, m) /\ Is(c, 1) /\ m * c \in Int
    BY <1>0, <1>4, IsItself DEF Is
  <2>2. QED
    BY <1>4, <2>1, IsMul DEF Is
<1>6. m * 1 = m
  BY <1>4
<1>7. Is(e, m)
  BY <1>5, <1>6, IsChain
<1>8. QED
  BY <1>7 DEF Is, e, m

LEMMA OverZFacts ==
  ASSUME NEW p \in Poly, Len(p) > N
  PROVE  /\ OverZ(p) \in Poly /\ Len(OverZ(p)) = Len(p) - N
         /\ (\A i \in Rows : Cong(Eval(p, Power(i)), 0))
            => \A x \in Int : Is(Eval(p, x), Eval(Vanishing, x) * Eval(OverZ(p), x))
<1>0. N \in Nat /\ Len(p) \in Nat
  BY SizeFacts, PolyFacts
<1>1. PICK q \in [0 .. N -> Poly] :
        OverZ(p) = q[N] /\ \A i \in 0 .. N : q[i] = IF i = 0 THEN p ELSE Opened(q[i - 1], Power(i - 1))
  BY OverZExists
<1> DEFINE S == {m \in Nat : m <= N => Len(q[m]) = Len(p) - m}
<1>2. 0 \in S
  BY <1>0, <1>1
<1>3. ASSUME NEW m \in Nat, m \in S PROVE m + 1 \in S
  <2>1. SUFFICES ASSUME m + 1 <= N PROVE Len(q[m + 1]) = Len(p) - (m + 1)
    OBVIOUS
  <2>2. m + 1 \in 0 .. N /\ m + 1 # 0 /\ (m + 1) - 1 = m /\ m \in 0 .. N + 2 /\ m <= N /\ m \in 0 .. N
    BY <1>0, <2>1
  <2>3. q[m + 1] = Opened(q[m], Power(m)) /\ q[m] \in Poly /\ Len(q[m]) = Len(p) - m /\ Power(m) \in Int
    BY <1>1, <1>3, <2>2, PowerFacts
  <2>4. Len(q[m]) > 0
    BY <1>0, <2>2, <2>3
  <2>5. Len(q[m + 1]) = Len(q[m]) - 1
    BY <2>3, <2>4, OpenedFacts
  <2>6. QED
    BY <1>0, <2>3, <2>5
<1>4. \A m \in Nat : m \in S
  <2> HIDE DEF S
  <2>1. QED
    BY <1>2, <1>3, NatInductionOnSet
<1>5. \A m \in 0 .. N : Len(q[m]) = Len(p) - m /\ q[m] \in Poly
  BY <1>0, <1>4
<1>6. OverZ(p) \in Poly /\ Len(OverZ(p)) = Len(p) - N
  BY <1>0, <1>1, <1>5
<1>7. ASSUME \A i \in Rows : Cong(Eval(p, Power(i)), 0), NEW x \in Int
      PROVE  Is(Eval(p, x), Eval(Vanishing, x) * Eval(OverZ(p), x))
  <2> DEFINE s(m) == {j \in Rows : j < m}
             T == {m \in Nat : m <= N => FactorsInto(Domain, Rows, s(m), p, q[m])}
  <2>1. 0 \in T
    <3>1. s(0) = {}
      <4>1. \A j \in Rows : ~(j < 0)
        <5>1. \A j \in Nat : ~(j < 0)
          OBVIOUS
        <5>2. QED
          BY <5>1, DomainFacts
      <4>2. QED
        BY <4>1
    <3>2. q[0] = p
      BY <1>0, <1>1
    <3>3. ASSUME NEW y \in Int PROVE Cong(Eval(p, y), Nodes(Domain, Rows, {}, y) * Eval(p, y))
      <4>1. Nodes(Domain, Rows, {}, y) = 1 /\ Eval(p, y) \in Int
        BY DomainFacts, NodesSteps, EvalInt
      <4>2. 1 * Eval(p, y) = Eval(p, y)
        BY <4>1
      <4>3. QED
        BY <4>1, <4>2, CongRefl
    <3>4. QED
      BY <3>1, <3>2, <3>3 DEF FactorsInto
  <2>2. ASSUME NEW m \in Nat, m \in T PROVE m + 1 \in T
    <3>1. SUFFICES ASSUME m + 1 <= N PROVE FactorsInto(Domain, Rows, s(m + 1), p, q[m + 1])
      OBVIOUS
    <3>2. m + 1 \in 0 .. N /\ m + 1 # 0 /\ (m + 1) - 1 = m /\ m <= N /\ m \in 0 .. N /\ m \in Rows
      BY <1>0, <3>1 DEF Rows
    <3>3. s(m + 1) \in SUBSET Rows /\ m \in s(m + 1) /\ s(m + 1) \ {m} = s(m)
      <4>1. \A j \in Rows : j < m + 1 <=> j < m \/ j = m
        BY DomainFacts
      <4>2. ~(m < m) /\ m < m + 1
        OBVIOUS
      <4>3. QED
        BY <3>2, <4>1, <4>2
    <3>4. q[m + 1] = Opened(q[m], Domain[m]) /\ q[m] \in Poly /\ Len(q[m]) > 0
      <4>1. q[m + 1] = Opened(q[m], Power(m)) /\ Domain[m] = Power(m)
        BY <1>1, <3>2, DomainFacts
      <4>2. q[m] \in Poly /\ Len(q[m]) = Len(p) - m
        BY <1>5, <3>2
      <4>3. QED
        BY <1>0, <3>2, <4>1, <4>2
    <3>5. Cong(Eval(p, Domain[m]), 0)
      BY <1>7, <3>2, DomainFacts
    <3>6. FactorsInto(Domain, Rows, s(m), p, q[m])
      BY <2>2, <3>2
    <3> DEFINE ss == s(m + 1)
    <3>7. ss \in SUBSET Rows /\ m \in ss /\ FactorsInto(Domain, Rows, ss \ {m}, p, q[m])
      BY <3>3, <3>6
    <3> HIDE DEF s, ss
    <3>8. FactorsInto(Domain, Rows, ss, p, Opened(q[m], Domain[m]))
      BY <3>4, <3>5, <3>7, DomainFacts, FactorStep
    <3>9. QED
      BY <3>4, <3>8 DEF ss
  <2>3. \A m \in Nat : m \in T
    <3> HIDE DEF T
    <3>1. QED
      BY <2>1, <2>2, NatInductionOnSet
  <2>4. FactorsInto(Domain, Rows, Rows, p, q[N])
    <3>1. s(N) = Rows
      BY DomainFacts, SizeFacts DEF Rows
    <3>2. N \in T /\ N <= N
      BY <1>0, <2>3
    <3>3. QED
      BY <3>1, <3>2
  <2> DEFINE m == Nodes(Domain, Rows, Rows, x)
             v == Eval(Vanishing, x)
             e == Eval(p, x)
             g == Eval(OverZ(p), x)
  <2>5. e \in Int /\ g \in Int /\ m \in Int /\ v \in Int /\ Cong(e, m * g) /\ Cong(v, m)
    <3>1. Cong(e, m * g)
      BY <1>1, <2>4 DEF FactorsInto
    <3>2. QED
      BY <1>6, <3>1, VanishingIsNodes, VanishingFacts, EvalInt
  <2> HIDE DEF m, v, e, g
  <2>6. Is(m, v) /\ Is(g, g) /\ Is(e, m * g)
    <3>1. m * g \in Int
      BY <2>5
    <3>2. QED
      BY <2>5, <3>1, CongSym, IsItself DEF Is
  <2>7. Is(e, v * g)
    BY <2>6, IsMul, IsChain
  <2>8. QED
    BY <2>7 DEF e, v, g
<1>8. QED
  BY <1>6, <1>7

-----------------------------------------------------------------------------
(* What the identity takes. *)

LEMMA TakesAs == ASSUME NEW p, NEW n, NEW x, NEW a, NEW b, Takes(p, n, x, a), Is(a, b) PROVE Takes(p, n, x, b)
BY IsChain DEF Takes

Put(v, label) == v + (challenge.gamma + challenge.beta * label)

LEMMA CopiedTakes ==
  ASSUME Typed, NEW p, NEW c, NEW n, NEW m, NEW x, NEW a, NEW b, Takes(p, n, x, a), Takes(c, m, x, b), m <= n, n > 0
  PROVE  Takes(Copied(p, c), n, x, Put(a, b))
<1> DEFINE ga == challenge.gamma
           be == challenge.beta
<1>1. ga \in Field /\ be \in Int /\ Is(be, be)
  BY TypedFacts, IsItself
<1>2. n \in Nat /\ m \in Nat /\ x \in Int
  BY DEF Takes
<1>3. Copied(p, c) = Plus(p, Plus(<<ga>>, Scaled(be, c))) /\ Put(a, b) = a + (ga + be * b)
  BY DEF Copied, Put
<1> HIDE DEF ga, be
<1>4. Takes(<<ga>>, 1, x, ga)
  BY <1>1, <1>2, FieldIsInt, TakesShort
<1>5. Takes(Scaled(be, c), m, x, be * b)
  BY <1>1, TakesScaled
<1>6. Takes(Plus(<<ga>>, Scaled(be, c)), Longer(1, m), x, ga + be * b)
  BY <1>4, <1>5, TakesPlus
<1>7. Takes(Plus(p, Plus(<<ga>>, Scaled(be, c))), Longer(n, Longer(1, m)), x, a + (ga + be * b))
  BY <1>6, TakesPlus
<1>8. Longer(n, Longer(1, m)) = n
  BY <1>2 DEF Longer
<1>9. QED
  BY <1>3, <1>7, <1>8

GatesAt(x, L, R, O, P) ==
  Eval(Selector["ql"], x) * L + (Eval(Selector["qr"], x) * R + (Eval(Selector["qo"], x) * O
    + (Eval(Selector["qm"], x) * (L * R) + (Eval(Selector["qk"], x) + P))))
NextAt(x, L, R, O, W) ==
  (W * Put(L, Eval(Permutation[0], x))) * (Put(R, Eval(Permutation[1], x)) * Put(O, Eval(Permutation[2], x)))
ThisAt(x, L, R, O, Z) == (Z * Put(L, x)) * (Put(R, SHIFT * x) * Put(O, (SHIFT * SHIFT) * x))
StartAt(x, Z) == Eval(FirstRow, x) * (Z + (0 - 1))
IdentityAt(x, L, R, O, Z, W, P) ==
  GatesAt(x, L, R, O, P)
  + (challenge.alpha * (NextAt(x, L, R, O, W) + (0 - 1) * ThisAt(x, L, R, O, Z))
     + (challenge.alpha * challenge.alpha) * StartAt(x, Z))

PublicPoly == Interpolated([i \in Rows |-> Public(i)])

LEMMA SetupTakes ==
  ASSUME NEW x \in Int
  PROVE  /\ \A s \in SelectorNames : Takes(Selector[s], N, x, Eval(Selector[s], x))
         /\ \A v \in Wires : Takes(Permutation[v], N, x, Eval(Permutation[v], x))
         /\ Takes(FirstRow, N, x, Eval(FirstRow, x))
<1>1. 0 \in Rows
  BY SizeFacts DEF Rows
<1>2. Basis[0] \in Poly /\ Len(Basis[0]) = N
  BY <1>1, BasisFacts
<1>3. FirstRow \in Poly /\ Len(FirstRow) = N
  BY <1>2 DEF FirstRow
<1>4. QED
  BY <1>3, SetupFacts, TakesItself

LEMMA GatesTakes ==
  ASSUME NEW l, NEW r, NEW o, NEW pub, NEW x \in Int, NEW L, NEW R, NEW O, NEW P,
         Takes(l, N + 2, x, L), Takes(r, N + 2, x, R), Takes(o, N + 2, x, O), Takes(pub, N, x, P)
  PROVE  Takes(Plus(Times(Selector["ql"], l), Plus(Times(Selector["qr"], r),
               Plus(Times(Selector["qo"], o), Plus(Times(Selector["qm"], Times(l, r)),
               Plus(Selector["qk"], pub))))), 3 * N + 2, x, GatesAt(x, L, R, O, P))
<1> DEFINE ql == Selector["ql"]
           qr == Selector["qr"]
           qo == Selector["qo"]
           qm == Selector["qm"]
           qk == Selector["qk"]
           vql == Eval(ql, x)
           vqr == Eval(qr, x)
           vqo == Eval(qo, x)
           vqm == Eval(qm, x)
           vqk == Eval(qk, x)
<1>0. N \in Nat /\ N >= 1
  BY SizeFacts
<1>1. Takes(ql, N, x, vql) /\ Takes(qr, N, x, vqr) /\ Takes(qo, N, x, vqo) /\ Takes(qm, N, x, vqm) /\ Takes(qk, N, x, vqk)
  BY SetupTakes DEF SelectorNames
<1> HIDE DEF ql, qr, qo, qm, qk, vql, vqr, vqo, vqm, vqk
<1>2. Takes(Times(ql, l), 2 * N + 1, x, vql * L)
  <2>1. N > 0 /\ N + 2 > 0 /\ (N) + (N + 2) - 1 = 2 * N + 1
    BY <1>0
  <2>2. Takes(Times(ql, l), (N) + (N + 2) - 1, x, vql * L)
    BY <1>1, <2>1, TakesTimes
  <2>3. QED
    BY <2>1, <2>2
<1>3. Takes(Times(qr, r), 2 * N + 1, x, vqr * R)
  <2>1. N > 0 /\ N + 2 > 0 /\ (N) + (N + 2) - 1 = 2 * N + 1
    BY <1>0
  <2>2. Takes(Times(qr, r), (N) + (N + 2) - 1, x, vqr * R)
    BY <1>1, <2>1, TakesTimes
  <2>3. QED
    BY <2>1, <2>2
<1>4. Takes(Times(qo, o), 2 * N + 1, x, vqo * O)
  <2>1. N > 0 /\ N + 2 > 0 /\ (N) + (N + 2) - 1 = 2 * N + 1
    BY <1>0
  <2>2. Takes(Times(qo, o), (N) + (N + 2) - 1, x, vqo * O)
    BY <1>1, <2>1, TakesTimes
  <2>3. QED
    BY <2>1, <2>2
<1>5. Takes(Times(l, r), 2 * N + 3, x, L * R)
  <2>1. N + 2 > 0 /\ N + 2 > 0 /\ (N + 2) + (N + 2) - 1 = 2 * N + 3
    BY <1>0
  <2>2. Takes(Times(l, r), (N + 2) + (N + 2) - 1, x, L * R)
    BY <1>1, <2>1, TakesTimes
  <2>3. QED
    BY <2>1, <2>2
<1>6. Takes(Times(qm, Times(l, r)), 3 * N + 2, x, vqm * (L * R))
  <2>1. N > 0 /\ 2 * N + 3 > 0 /\ (N) + (2 * N + 3) - 1 = 3 * N + 2
    BY <1>0
  <2>2. Takes(Times(qm, Times(l, r)), (N) + (2 * N + 3) - 1, x, vqm * (L * R))
    BY <1>1, <1>5, <2>1, TakesTimes
  <2>3. QED
    BY <2>1, <2>2
<1>7. Takes(Plus(qk, pub), N, x, vqk + P)
  <2>1. Longer(N, N) = N
    BY <1>0 DEF Longer
  <2>2. Takes(Plus(qk, pub), Longer(N, N), x, vqk + P)
    BY <1>1, <2>1, TakesPlus
  <2>3. QED
    BY <2>1, <2>2
<1>8. Takes(Plus(Times(qm, Times(l, r)), Plus(qk, pub)), 3 * N + 2, x, (vqm * (L * R)) + (vqk + P))
  <2>1. Longer(3 * N + 2, N) = 3 * N + 2
    BY <1>0 DEF Longer
  <2>2. Takes(Plus(Times(qm, Times(l, r)), Plus(qk, pub)), Longer(3 * N + 2, N), x, (vqm * (L * R)) + (vqk + P))
    BY <1>6, <1>7, <2>1, TakesPlus
  <2>3. QED
    BY <2>1, <2>2
<1>9. Takes(Plus(Times(qo, o), Plus(Times(qm, Times(l, r)), Plus(qk, pub))), 3 * N + 2, x, (vqo * O) + ((vqm * (L * R)) + (vqk + P)))
  <2>1. Longer(2 * N + 1, 3 * N + 2) = 3 * N + 2
    BY <1>0 DEF Longer
  <2>2. Takes(Plus(Times(qo, o), Plus(Times(qm, Times(l, r)), Plus(qk, pub))), Longer(2 * N + 1, 3 * N + 2), x, (vqo * O) + ((vqm * (L * R)) + (vqk + P)))
    BY <1>4, <1>8, <2>1, TakesPlus
  <2>3. QED
    BY <2>1, <2>2
<1>10. Takes(Plus(Times(qr, r), Plus(Times(qo, o), Plus(Times(qm, Times(l, r)), Plus(qk, pub)))), 3 * N + 2, x, (vqr * R) + ((vqo * O) + ((vqm * (L * R)) + (vqk + P))))
  <2>1. Longer(2 * N + 1, 3 * N + 2) = 3 * N + 2
    BY <1>0 DEF Longer
  <2>2. Takes(Plus(Times(qr, r), Plus(Times(qo, o), Plus(Times(qm, Times(l, r)), Plus(qk, pub)))), Longer(2 * N + 1, 3 * N + 2), x, (vqr * R) + ((vqo * O) + ((vqm * (L * R)) + (vqk + P))))
    BY <1>3, <1>9, <2>1, TakesPlus
  <2>3. QED
    BY <2>1, <2>2
<1>11. Takes(Plus(Times(ql, l), Plus(Times(qr, r), Plus(Times(qo, o), Plus(Times(qm, Times(l, r)), Plus(qk, pub))))), 3 * N + 2, x, (vql * L) + ((vqr * R) + ((vqo * O) + ((vqm * (L * R)) + (vqk + P)))))
  <2>1. Longer(2 * N + 1, 3 * N + 2) = 3 * N + 2
    BY <1>0 DEF Longer
  <2>2. Takes(Plus(Times(ql, l), Plus(Times(qr, r), Plus(Times(qo, o), Plus(Times(qm, Times(l, r)), Plus(qk, pub))))), Longer(2 * N + 1, 3 * N + 2), x, (vql * L) + ((vqr * R) + ((vqo * O) + ((vqm * (L * R)) + (vqk + P)))))
    BY <1>10, <1>2, <2>1, TakesPlus
  <2>3. QED
    BY <2>1, <2>2
<1>12. QED
  BY <1>11 DEF GatesAt, ql, qr, qo, qm, qk, vql, vqr, vqo, vqm, vqk

LEMMA TakesCopies ==
  ASSUME NEW p, NEW q, NEW s, NEW t, NEW x, NEW a, NEW b, NEW c, NEW d,
         Takes(p, N + 3, x, a), Takes(q, N + 2, x, b), Takes(s, N + 2, x, c), Takes(t, N + 2, x, d)
  PROVE  Takes(Times(Times(p, q), Times(s, t)), 4 * N + 6, x, (a * b) * (c * d))
<1>0. N \in Nat /\ N >= 1
  BY SizeFacts
<1>1. Takes(Times(p, q), 2 * N + 4, x, a * b)
  <2>1. N + 3 > 0 /\ N + 2 > 0 /\ (N + 3) + (N + 2) - 1 = 2 * N + 4
    BY <1>0
  <2>2. Takes(Times(p, q), (N + 3) + (N + 2) - 1, x, a * b)
    BY <1>0, <2>1, TakesTimes
  <2>3. QED
    BY <2>1, <2>2
<1>2. Takes(Times(s, t), 2 * N + 3, x, c * d)
  <2>1. N + 2 > 0 /\ N + 2 > 0 /\ (N + 2) + (N + 2) - 1 = 2 * N + 3
    BY <1>0
  <2>2. Takes(Times(s, t), (N + 2) + (N + 2) - 1, x, c * d)
    BY <1>0, <2>1, TakesTimes
  <2>3. QED
    BY <2>1, <2>2
<1>3. Takes(Times(Times(p, q), Times(s, t)), 4 * N + 6, x, (a * b) * (c * d))
  <2>1. 2 * N + 4 > 0 /\ 2 * N + 3 > 0 /\ (2 * N + 4) + (2 * N + 3) - 1 = 4 * N + 6
    BY <1>0
  <2>2. Takes(Times(Times(p, q), Times(s, t)), (2 * N + 4) + (2 * N + 3) - 1, x, (a * b) * (c * d))
    BY <1>1, <1>2, <2>1, TakesTimes
  <2>3. QED
    BY <2>1, <2>2
<1>4. QED
  BY <1>3

LEMMA IdentityTakes ==
  ASSUME Typed, NEW l, NEW r, NEW o, NEW z, NEW x \in Int, NEW L, NEW R, NEW O, NEW Z, NEW W, NEW P,
         Takes(l, N + 2, x, L), Takes(r, N + 2, x, R), Takes(o, N + 2, x, O), Takes(z, N + 3, x, Z),
         Takes(Rotated(z), N + 3, x, W), Takes(PublicPoly, N, x, P)
  PROVE  Takes(Identity(l, r, o, z), 4 * N + 6, x, IdentityAt(x, L, R, O, Z, W, P))
<1> DEFINE gates == Plus(Times(Selector["ql"], l), Plus(Times(Selector["qr"], r),
               Plus(Times(Selector["qo"], o), Plus(Times(Selector["qm"], Times(l, r)),
               Plus(Selector["qk"], PublicPoly)))))
           next == Times(Times(Rotated(z), Copied(l, Permutation[0])),
                    Times(Copied(r, Permutation[1]), Copied(o, Permutation[2])))
           this == Times(Times(z, Copied(l, <<0, 1>>)),
                    Times(Copied(r, <<0, SHIFT>>), Copied(o, <<0, (SHIFT * SHIFT) % PRIME>>)))
           start == Times(FirstRow, Plus(z, <<PRIME - 1>>))
           al == challenge.alpha
           a2 == (challenge.alpha * challenge.alpha) % PRIME
           vg == GatesAt(x, L, R, O, P)
           vn == NextAt(x, L, R, O, W)
           vt == ThisAt(x, L, R, O, Z)
           vs == StartAt(x, Z)
<1>0. N \in Nat /\ N >= 1
  BY SizeFacts
<1>1. Takes(gates, 3 * N + 2, x, vg)
  BY GatesTakes
<1>2. Takes(next, 4 * N + 6, x, vn)
  <2>1. Takes(Permutation[0], N, x, Eval(Permutation[0], x)) /\ Takes(Permutation[1], N, x, Eval(Permutation[1], x))
        /\ Takes(Permutation[2], N, x, Eval(Permutation[2], x))
    BY SetupTakes DEF Wires
  <2>2. N <= N + 2 /\ N + 2 > 0
    BY <1>0
  <2>3. /\ Takes(Copied(l, Permutation[0]), N + 2, x, Put(L, Eval(Permutation[0], x)))
        /\ Takes(Copied(r, Permutation[1]), N + 2, x, Put(R, Eval(Permutation[1], x)))
        /\ Takes(Copied(o, Permutation[2]), N + 2, x, Put(O, Eval(Permutation[2], x)))
    BY <2>1, <2>2, CopiedTakes
  <2>4. QED
    BY <2>3, TakesCopies DEF NextAt
<1>3. Takes(this, 4 * N + 6, x, vt)
  <2> DEFINE sq == (SHIFT * SHIFT) % PRIME
  <2>1. SHIFT \in Int /\ SHIFT \in Field /\ sq \in Field /\ sq \in Int /\ Is(sq, SHIFT * SHIFT) /\ 0 \in Field /\ 1 \in Field
        /\ Is(x, x)
    <3>1. SHIFT \in Int /\ SHIFT \in Field
      BY SizeFacts, FieldIsInt
    <3>2. QED
      BY <3>1, FieldOps, FieldIsInt, IsItself DEF Is
  <2> HIDE DEF sq
  <2>2. Takes(<<0, 1>>, 2, x, x) /\ Takes(<<0, SHIFT>>, 2, x, SHIFT * x)
    <3>1. Takes(<<0, 1>>, 2, x, 0 + 1 * x) /\ Takes(<<0, SHIFT>>, 2, x, 0 + SHIFT * x)
      BY <2>1, TakesShort
    <3>2. 0 + 1 * x = x /\ 0 + SHIFT * x = SHIFT * x
      BY <2>1
    <3>3. QED
      BY <3>1, <3>2
  <2>3. Takes(<<0, sq>>, 2, x, (SHIFT * SHIFT) * x)
    <3>1. Takes(<<0, sq>>, 2, x, 0 + sq * x)
      BY <2>1, TakesShort
    <3>2. 0 + sq * x = sq * x
      BY <2>1
    <3>3. Is(sq * x, (SHIFT * SHIFT) * x)
      BY <2>1, IsMul
    <3>4. QED
      BY <3>1, <3>2, <3>3, TakesAs
  <2>4. 2 <= N + 2 /\ N + 2 > 0
    BY <1>0
  <2>5. /\ Takes(Copied(l, <<0, 1>>), N + 2, x, Put(L, x))
        /\ Takes(Copied(r, <<0, SHIFT>>), N + 2, x, Put(R, SHIFT * x))
        /\ Takes(Copied(o, <<0, sq>>), N + 2, x, Put(O, (SHIFT * SHIFT) * x))
    BY <2>2, <2>3, <2>4, CopiedTakes
  <2>6. QED
    BY <2>5, TakesCopies DEF ThisAt, sq
<1>4. Is(PRIME - 1, 0 - 1) /\ PRIME - 1 \in Field
  <2>1. Is(1, 1)
    BY IsItself
  <2>2. QED
    BY <2>1, IsInverted, PrimeIsPositive DEF Field
<1>5. Takes(start, 2 * N + 2, x, vs)
  <2> DEFINE b0 == FirstRow
             vb0 == Eval(FirstRow, x)
             m1 == <<PRIME - 1>>
  <2>1. Takes(b0, N, x, vb0) /\ Takes(m1, 1, x, 0 - 1)
    <3>1. Takes(m1, 1, x, PRIME - 1)
      BY <1>4, FieldIsInt, TakesShort
    <3>2. QED
      BY <1>4, <3>1, SetupTakes, TakesAs
  <2> HIDE DEF b0, vb0, m1
  <2>2. Takes(Plus(z, m1), N + 3, x, Z + (0 - 1))
    <3>1. Longer(N + 3, 1) = N + 3
      BY <1>0 DEF Longer
    <3>2. Takes(Plus(z, m1), Longer(N + 3, 1), x, Z + (0 - 1))
      BY <2>1, <3>1, TakesPlus
    <3>3. QED
      BY <3>1, <3>2
  <2>3. Takes(Times(b0, Plus(z, m1)), 2 * N + 2, x, vb0 * (Z + (0 - 1)))
    <3>1. N > 0 /\ N + 3 > 0 /\ (N) + (N + 3) - 1 = 2 * N + 2
      BY <1>0
    <3>2. Takes(Times(b0, Plus(z, m1)), (N) + (N + 3) - 1, x, vb0 * (Z + (0 - 1)))
      BY <2>1, <2>2, <3>1, TakesTimes
    <3>3. QED
      BY <3>1, <3>2
  <2>4. QED
    BY <2>3 DEF StartAt, b0, vb0, m1
<1>6. Is(al, al) /\ Is(a2, al * al)
  <2>1. al \in Int
    BY TypedFacts
  <2>2. QED
    BY <2>1, IsItself, IsOf
<1>7. Identity(l, r, o, z) = Plus(gates, Plus(Scaled(al, Plus(next, Scaled(PRIME - 1, this))), Scaled(a2, start)))
  BY DEF Identity, PublicPoly
<1>8. IdentityAt(x, L, R, O, Z, W, P) = vg + ((al * (vn + ((0 - 1) * vt))) + ((al * al) * vs))
  BY DEF IdentityAt
<1> HIDE DEF gates, next, this, start, al, a2, vg, vn, vt, vs
<1>9. Takes(gates, 3 * N + 2, x, vg) /\ Takes(next, 4 * N + 6, x, vn) /\ Takes(this, 4 * N + 6, x, vt) /\ Takes(start, 2 * N + 2, x, vs)
      /\ Is(al, al) /\ Is(a2, al * al) /\ Is(PRIME - 1, 0 - 1)
  BY <1>1, <1>2, <1>3, <1>4, <1>5, <1>6
<1>10. Takes(Scaled(PRIME - 1, this), 4 * N + 6, x, (0 - 1) * vt)
  BY <1>9, <1>0, TakesScaled
<1>11. Takes(Plus(next, Scaled(PRIME - 1, this)), 4 * N + 6, x, vn + ((0 - 1) * vt))
  <2>1. Longer(4 * N + 6, 4 * N + 6) = 4 * N + 6
    BY <1>0 DEF Longer
  <2>2. Takes(Plus(next, Scaled(PRIME - 1, this)), Longer(4 * N + 6, 4 * N + 6), x, vn + ((0 - 1) * vt))
    BY <1>10, <1>9, <2>1, TakesPlus
  <2>3. QED
    BY <2>1, <2>2
<1>12. Takes(Scaled(al, Plus(next, Scaled(PRIME - 1, this))), 4 * N + 6, x, al * (vn + ((0 - 1) * vt)))
  BY <1>11, <1>9, TakesScaled
<1>13. Takes(Scaled(a2, start), 2 * N + 2, x, (al * al) * vs)
  BY <1>9, <1>0, TakesScaled
<1>14. Takes(Plus(Scaled(al, Plus(next, Scaled(PRIME - 1, this))), Scaled(a2, start)), 4 * N + 6, x, (al * (vn + ((0 - 1) * vt))) + ((al * al) * vs))
  <2>1. Longer(4 * N + 6, 2 * N + 2) = 4 * N + 6
    BY <1>0 DEF Longer
  <2>2. Takes(Plus(Scaled(al, Plus(next, Scaled(PRIME - 1, this))), Scaled(a2, start)), Longer(4 * N + 6, 2 * N + 2), x, (al * (vn + ((0 - 1) * vt))) + ((al * al) * vs))
    BY <1>12, <1>13, <2>1, TakesPlus
  <2>3. QED
    BY <2>1, <2>2
<1>15. Takes(Plus(gates, Plus(Scaled(al, Plus(next, Scaled(PRIME - 1, this))), Scaled(a2, start))), 4 * N + 6, x, vg + ((al * (vn + ((0 - 1) * vt))) + ((al * al) * vs)))
  <2>1. Longer(3 * N + 2, 4 * N + 6) = 4 * N + 6
    BY <1>0 DEF Longer
  <2>2. Takes(Plus(gates, Plus(Scaled(al, Plus(next, Scaled(PRIME - 1, this))), Scaled(a2, start))), Longer(3 * N + 2, 4 * N + 6), x, vg + ((al * (vn + ((0 - 1) * vt))) + ((al * al) * vs)))
    BY <1>14, <1>9, <2>1, TakesPlus
  <2>3. QED
    BY <2>1, <2>2
<1>16. QED
  BY <1>7, <1>8, <1>15
-----------------------------------------------------------------------------
(* The public inputs' polynomial. *)

LEMMA InterpolatedSteps ==
  ASSUME NEW v \in [Rows -> Int]
  PROVE  \E s : /\ Interpolated(v) = s[N] /\ s[0] = <<>>
                /\ \A m \in 0 .. N : s[m] \in Poly
                /\ \A m \in Rows : s[m + 1] = Plus(s[m], Scaled(v[m], Basis[m]))
<1>0. N \in Nat /\ N >= 1
  BY SizeFacts
<1>1. PICK s : IsInterpolated(v, s) /\ Interpolated(v) = s[N]
  BY InterpolatedExists
<1>2. \A i \in 0 .. N : s[i] = IF i = 0 THEN <<>> ELSE Plus(s[i - 1], Scaled(v[i - 1], Basis[i - 1]))
  <2> DEFINE h(i) == IF i = 0 THEN <<>> ELSE Plus(s[i - 1], Scaled(v[i - 1], Basis[i - 1]))
  <2>1. s = [i \in 0 .. N |-> h(i)]
    BY <1>1, Zenon DEF IsInterpolated
  <2> HIDE DEF h
  <2>2. \A i \in 0 .. N : s[i] = h(i)
    BY <2>1
  <2>3. QED
    BY <2>2 DEF h
<1>3. s[0] = <<>> /\ <<>> \in Poly
  BY <1>0, <1>2 DEF Poly
<1>4. \A m \in Rows : s[m + 1] = Plus(s[m], Scaled(v[m], Basis[m]))
  <2>1. TAKE m \in Rows
  <2>2. m + 1 \in 0 .. N /\ m + 1 # 0 /\ (m + 1) - 1 = m
    BY <1>0 DEF Rows
  <2>3. QED
    BY <1>2, <2>2
<1> DEFINE S == {m \in Nat : m <= N => s[m] \in Poly}
<1>5. 0 \in S
  BY <1>3
<1>6. ASSUME NEW m \in Nat, m \in S PROVE m + 1 \in S
  <2>1. SUFFICES ASSUME m + 1 <= N PROVE s[m + 1] \in Poly
    OBVIOUS
  <2>2. m \in Rows /\ m <= N
    BY <1>0, <2>1 DEF Rows
  <2>3. v[m] \in Int /\ Basis[m] \in Poly /\ s[m] \in Poly
    BY <1>6, <2>2, BasisFacts
  <2>4. Scaled(v[m], Basis[m]) \in Poly
    BY <2>3, ScaledFacts
  <2>5. QED
    BY <1>4, <2>2, <2>3, <2>4, PlusFacts
<1>7. \A m \in Nat : m \in S
  <2> HIDE DEF S
  <2>1. QED
    BY <1>5, <1>6, NatInductionOnSet
<1>8. \A m \in 0 .. N : s[m] \in Poly
  BY <1>7
<1>9. QED
  BY <1>1, <1>3, <1>4, <1>8

LEMMA PublicFacts ==
  ASSUME Typed
  PROVE  /\ PublicPoly \in Poly /\ Len(PublicPoly) = N
         /\ \A i \in Rows : Public(i) \in Field /\ Public(i) \in Int /\ Is(Eval(PublicPoly, Power(i)), Public(i))
         /\ \A x \in Field : ~InDomain(x) => Is(Eval(PublicPoly, x), PI(inst.public, x))
<1> DEFINE pub == inst.public
           v == [i \in Rows |-> Public(i)]
<1>0. N \in Nat /\ N >= 1 /\ NbPublic \in 1 .. N /\ NbPublic \in Nat
  BY SizeFacts
<1>1. \A k \in 1 .. NbPublic : pub[k] \in Field /\ pub[k] \in Int
  <2>1. pub \in [1 .. NbPublic -> Field]
    BY TypedFacts DEF PublicInputs
  <2>2. QED
    BY <2>1, FieldIsInt
<1>2. \A i \in Rows : Public(i) \in Field /\ Public(i) \in Int
  <2>1. TAKE i \in Rows
  <2>2. CASE i < NbPublic
    <3>1. i + 1 \in 1 .. NbPublic
      BY <1>0, <2>2 DEF Rows
    <3>2. QED
      BY <1>1, <2>2, <3>1 DEF Public
  <2>3. CASE ~(i < NbPublic)
    BY <2>3, FieldIsInt DEF Public
  <2>4. QED
    BY <2>2, <2>3
<1>3. v \in [Rows -> Int] /\ PublicPoly = Interpolated(v) /\ \A i \in Rows : v[i] = Public(i)
  BY <1>2 DEF PublicPoly
<1> HIDE DEF v
<1>4. /\ PublicPoly \in Poly /\ Len(PublicPoly) = N
      /\ \A i \in Rows : Cong(Eval(PublicPoly, Power(i)), v[i])
  BY <1>3, InterpolatedFacts
<1>5. \A i \in Rows : Is(Eval(PublicPoly, Power(i)), Public(i))
  BY <1>2, <1>3, <1>4, DomainFacts, PowerFacts, EvalInt DEF Is
<1>6. ASSUME NEW x \in Field, ~InDomain(x) PROVE Is(Eval(PublicPoly, x), PI(inst.public, x))
  <2> DEFINE D == 1 .. NbPublic
             f == [k \in D |-> Lagrange(x)[k] * pub[k]]
             g == Sums(f, D)
             t(m) == 1 .. (IF m < NbPublic THEN m ELSE NbPublic)
  <2>1. f \in [D -> Int] /\ IsFiniteSet(D) /\ PI(pub, x) = g[D]
    BY <1>6, TypedFacts, PIFacts
  <2>2. /\ g[{}] = 0
        /\ \A s \in SUBSET D : g[s] \in Int
        /\ \A s \in SUBSET D : \A y \in s : Cong(g[s], f[y] + g[s \ {y}])
    <3> HIDE DEF f, D
    <3>1. QED
      BY <2>1, SumSteps DEF SumLike
  <2>3. x \in Int
    BY FieldIsInt
  <2>4. PICK s : /\ Interpolated(v) = s[N] /\ s[0] = <<>>
                 /\ \A m \in 0 .. N : s[m] \in Poly
                 /\ \A m \in Rows : s[m + 1] = Plus(s[m], Scaled(v[m], Basis[m]))
    BY <1>3, InterpolatedSteps
  <2>5. \A k \in D : f[k] = Lagrange(x)[k] * pub[k]
    OBVIOUS
  <2> HIDE DEF f, g
  <2> DEFINE S == {m \in Nat : m <= N => Is(Eval(s[m], x), g[t(m)])}
  <2>6. 0 \in S
    <3>1. t(0) = {}
      BY <1>0
    <3>2. Eval(<<>>, x) = 0
      <4>1. <<>> \in Poly /\ Len(<<>>) = 0 /\ 1 \in Nat \ {0} /\ 1 > 0
        BY DEF Poly
      <4>2. QED
        BY <2>3, <4>1, SufStep
    <3>3. Is(0, 0)
      BY IsItself
    <3>4. QED
      BY <2>2, <2>4, <3>1, <3>2, <3>3
  <2>7. ASSUME NEW m \in Nat, m \in S PROVE m + 1 \in S
    <3>1. SUFFICES ASSUME m + 1 <= N PROVE Is(Eval(s[m + 1], x), g[t(m + 1)])
      OBVIOUS
    <3>2. m \in Rows /\ m <= N /\ m \in 0 .. N
      BY <1>0, <3>1 DEF Rows
    <3> DEFINE e == Eval(s[m], x)
               b == Eval(Basis[m], x)
               c == v[m]
               d == g[t(m)]
    <3>3. Is(e, d) /\ e \in Int /\ d \in Int
      BY <2>7, <3>2 DEF Is
    <3>4. c \in Int /\ b \in Int /\ Basis[m] \in Poly /\ s[m] \in Poly
      BY <1>3, <2>3, <2>4, <3>2, BasisFacts, EvalInt
    <3>5. Is(Eval(s[m + 1], x), e + c * b)
      <4>1. Is(Eval(Scaled(c, Basis[m]), x), c * b) /\ Scaled(c, Basis[m]) \in Poly
        <5>1. Scaled(c, Basis[m]) \in Poly
          BY <3>4, ScaledFacts
        <5>2. Cong(Eval(Scaled(c, Basis[m]), x), c * b)
          BY <2>3, <3>4, EvalScaled
        <5>3. c * b \in Int
          BY <3>4
        <5>4. QED
          BY <2>3, <5>1, <5>2, <5>3, EvalInt DEF Is
      <4> DEFINE q == Scaled(c, Basis[m])
                 a == Eval(q, x)
      <4>2. Is(a, c * b) /\ q \in Poly
        BY <4>1
      <4>3. s[m + 1] = Plus(s[m], q)
        BY <2>4, <3>2
      <4> HIDE DEF q, c, b
      <4>4. Is(Eval(Plus(s[m], q), x), e + a)
        <5>1. Cong(Eval(Plus(s[m], q), x), e + a) /\ Plus(s[m], q) \in Poly
          BY <2>3, <3>4, <4>2, EvalPlus, PlusFacts
        <5>2. e + a \in Int
          BY <3>3, <4>2 DEF Is
        <5>3. QED
          BY <2>3, <5>1, <5>2, EvalInt DEF Is
      <4>5. Is(e, e)
        BY <3>3, IsItself
      <4>6. Is(e + a, e + c * b)
        BY <4>2, <4>5, IsPlus
      <4>7. QED
        BY <4>3, <4>4, <4>6, IsChain
    <3>6. CASE m < NbPublic
      <4>1. /\ m + 1 \in D /\ t(m) = 1 .. m /\ t(m + 1) = 1 .. m + 1 /\ t(m + 1) \in SUBSET D
            /\ t(m + 1) \ {m + 1} = t(m) /\ m + 1 \in t(m + 1) /\ m \in 0 .. NbPublic - 1
        <5>1. m + 1 <= NbPublic
          BY <1>0, <3>6
        <5>2. t(m) = 1 .. m
          BY <3>6
        <5>3. t(m + 1) = 1 .. m + 1
          <6>1. CASE m + 1 < NbPublic
            BY <6>1
          <6>2. CASE m + 1 = NbPublic
            BY <6>2, <1>0
          <6>3. QED
            BY <1>0, <5>1, <6>1, <6>2
        <5>4. QED
          BY <1>0, <5>1, <5>2, <5>3
      <4>2. Cong(g[t(m + 1)], f[m + 1] + g[t(m)]) /\ g[t(m + 1)] \in Int
        BY <2>2, <4>1
      <4>3. f[m + 1] = b * c
        <5>1. f[m + 1] = Lagrange(x)[m + 1] * pub[m + 1] /\ Lagrange(x)[m + 1] = b
          BY <1>6, <2>5, <4>1, LagrangeIsBasis
        <5>2. c = pub[m + 1]
          BY <1>3, <3>2, <3>6 DEF Public
        <5>3. QED
          BY <5>1, <5>2
      <4> DEFINE k == g[t(m + 1)]
      <4>4. Is(k, b * c + d)
        <5>1. b * c + d \in Int
          BY <3>3, <3>4
        <5>2. QED
          BY <4>2, <4>3, <5>1 DEF Is
      <4>5. Is(e + c * b, d + c * b)
        <5>1. Is(c, c) /\ Is(b, b)
          BY <3>4, IsItself
        <5> HIDE DEF e, c, b, d
        <5>2. QED
          BY <3>3, <5>1, IsPlus, IsMul, Zenon
      <4>6. d + c * b = b * c + d
        <5> HIDE DEF c, b, d
        <5>1. QED
          BY <3>3, <3>4
      <4>7. Is(e + c * b, k)
        BY <4>4, <4>5, <4>6, IsBack, IsChain
      <4>8. QED
        BY <3>5, <4>7, IsChain
    <3>7. CASE ~(m < NbPublic)
      <4>1. t(m) = D /\ t(m + 1) = D
        BY <1>0, <3>7
      <4>2. c = 0
        BY <1>3, <3>2, <3>7 DEF Public
      <4>3. e + c * b = e
        <5> HIDE DEF c, b
        <5>1. QED
          BY <3>3, <3>4, <4>2
      <4>4. QED
        BY <3>3, <3>5, <4>1, <4>3, IsChain
    <3>8. QED
      BY <3>6, <3>7
  <2>8. \A m \in Nat : m \in S
    <3> HIDE DEF S
    <3>1. QED
      BY <2>6, <2>7, NatInductionOnSet
  <2>9. N \in S /\ t(N) = D /\ N <= N
    BY <1>0, <2>8
  <2>10. Is(Eval(s[N], x), g[D])
    BY <1>0, <2>9
  <2>11. QED
    BY <1>3, <2>1, <2>4, <2>10
<1>7. QED
  BY <1>2, <1>4, <1>5, <1>6

-----------------------------------------------------------------------------
(* The prover's identity and quotient. *)

Whole == Identity(Wire(0), Wire(1), Wire(2), GrandProduct)

WholeAt(x) ==
  IdentityAt(x, Eval(Wire(0), x), Eval(Wire(1), x), Eval(Wire(2), x),
             Eval(GrandProduct, x), Eval(GrandProduct, OMEGA * x), Eval(PublicPoly, x))

LEMMA ProverTakes ==
  ASSUME Typed, NEW x \in Int
  PROVE  /\ Takes(Wire(0), N + 2, x, Eval(Wire(0), x)) /\ Takes(Wire(1), N + 2, x, Eval(Wire(1), x))
         /\ Takes(Wire(2), N + 2, x, Eval(Wire(2), x)) /\ Takes(GrandProduct, N + 3, x, Eval(GrandProduct, x))
         /\ Takes(Whole, 4 * N + 6, x, WholeAt(x))
<1>0. N \in Nat /\ N >= 1
  BY SizeFacts
<1>1. \A w \in Wires : Takes(Wire(w), N + 2, x, Eval(Wire(w), x))
  BY WireFacts, TakesItself
<1>2. GrandProduct \in Poly /\ Len(GrandProduct) = N + 3
  BY GrandProductFacts
<1>3. Takes(GrandProduct, N + 3, x, Eval(GrandProduct, x))
  BY <1>2, TakesItself
<1>4. Takes(Rotated(GrandProduct), N + 3, x, Eval(GrandProduct, OMEGA * x))
  <2>1. Len(GrandProduct) <= N + 3
    BY <1>0, <1>2
  <2>2. QED
    BY <1>2, <2>1, RotatedFacts
<1>5. Takes(PublicPoly, N, x, Eval(PublicPoly, x))
  BY PublicFacts, TakesItself
<1>6. 0 \in Wires /\ 1 \in Wires /\ 2 \in Wires
  BY DEF Wires
<1>7. Takes(Wire(0), N + 2, x, Eval(Wire(0), x)) /\ Takes(Wire(1), N + 2, x, Eval(Wire(1), x))
      /\ Takes(Wire(2), N + 2, x, Eval(Wire(2), x))
  BY <1>1, <1>6
<1>8. Takes(Whole, 4 * N + 6, x, WholeAt(x))
  BY <1>3, <1>4, <1>5, <1>7, IdentityTakes DEF Whole, WholeAt
<1>9. QED
  BY <1>3, <1>7, <1>8

LEMMA QuotientFacts ==
  ASSUME Typed
  PROVE  /\ Quotient \in Poly /\ Len(Quotient) = 3 * N + 6 /\ Whole \in Poly
         /\ (\A i \in Rows : Is(WholeAt(Power(i)), 0))
            => \A x \in Int : Is(Eval(Whole, x), Eval(Vanishing, x) * Eval(Quotient, x))
<1>0. N \in Nat /\ N >= 1 /\ 0 \in Int
  BY SizeFacts
<1>1. Whole \in Poly /\ Len(Whole) = 4 * N + 6 /\ \A x \in Int : Is(Eval(Whole, x), WholeAt(x))
  <2>1. \A x \in Int : Takes(Whole, 4 * N + 6, x, WholeAt(x))
    BY ProverTakes
  <2>2. QED
    BY <1>0, <2>1 DEF Takes
<1>2. Len(Whole) > N /\ Len(Whole) - N = 3 * N + 6
  BY <1>0, <1>1
<1>3. Quotient = OverZ(Whole)
  BY DEF Quotient, Whole
<1>4. /\ OverZ(Whole) \in Poly /\ Len(OverZ(Whole)) = Len(Whole) - N
      /\ (\A i \in Rows : Cong(Eval(Whole, Power(i)), 0))
         => \A x \in Int : Is(Eval(Whole, x), Eval(Vanishing, x) * Eval(OverZ(Whole), x))
  BY <1>1, <1>2, OverZFacts
<1>5. ASSUME \A i \in Rows : Is(WholeAt(Power(i)), 0), NEW i \in Rows PROVE Cong(Eval(Whole, Power(i)), 0)
  <2>1. Power(i) \in Int
    BY DomainFacts, PowerFacts
  <2>2. Is(Eval(Whole, Power(i)), WholeAt(Power(i))) /\ Is(WholeAt(Power(i)), 0)
    BY <1>1, <1>5, <2>1
  <2>3. Is(Eval(Whole, Power(i)), 0)
    BY <2>2, IsChain
  <2>4. QED
    BY <2>3 DEF Is
<1>6. QED
  BY <1>1, <1>2, <1>3, <1>4, <1>5

\* The quotient is the sum of its three parts, each times a power.
Parts(y, a, b, c) == a + (y * b + (y * y) * c)

LEMMA PartsFacts ==
  ASSUME NEW h \in Poly, Len(h) = 3 * N + 6, NEW x \in Int
  PROVE  /\ Takes(Part(h, 0), N + 2, x, Eval(Part(h, 0), x)) /\ Takes(Part(h, 1), N + 2, x, Eval(Part(h, 1), x))
         /\ Takes(Part(h, 2), N + 2, x, Eval(Part(h, 2), x))
         /\ Is(Eval(h, x), Parts(Pow(x, N + 2), Eval(Part(h, 0), x), Eval(Part(h, 1), x), Eval(Part(h, 2), x)))
<1> DEFINE m == N + 2
           y == Pow(x, m)
           a == Eval(Part(h, 0), x)
           b == Eval(Part(h, 1), x)
           c == Eval(Part(h, 2), x)
           s1 == Suf(h, x, 1)
           s2 == Suf(h, x, m + 1)
           s3 == Suf(h, x, 2 * m + 1)
           s4 == Suf(h, x, 3 * m + 1)
<1>0. N \in Nat /\ m \in Nat /\ m = N + 2 /\ y \in Int
  <2>1. N \in Nat /\ m \in Nat /\ m = N + 2
    BY SizeFacts
  <2> HIDE DEF m
  <2>2. QED
    BY <2>1, PowSteps
<1> HIDE DEF m, y
<1>1. /\ 0 * m = 0 /\ 1 * m = m /\ 1 * m = 0 + m /\ 2 * m = m + m /\ 3 * m = 2 * m + m /\ 3 * m + 1 > 3 * N + 6
      /\ 0 + 1 = 1 /\ 1 + 1 = 2 /\ 2 + 1 = 3 /\ 0 + m + 1 = m + 1 /\ m + m + 1 = 2 * m + 1 /\ 2 * m + m + 1 = 3 * m + 1
      /\ 1 \in Nat \ {0} /\ m + 1 \in Nat \ {0} /\ 2 * m + 1 \in Nat \ {0} /\ 3 * m + 1 \in Nat \ {0}
      /\ 2 * m \in Nat /\ 0 \in Nat
  BY <1>0
<1>2. Part(h, 0) = Slice(h, 0, 0 + m) /\ Part(h, 1) = Slice(h, m, m + m) /\ Part(h, 2) = Slice(h, 2 * m, 2 * m + m)
  BY <1>0, <1>1 DEF Part
<1>3. /\ Part(h, 0) \in Poly /\ Len(Part(h, 0)) = m /\ Part(h, 1) \in Poly /\ Len(Part(h, 1)) = m
      /\ Part(h, 2) \in Poly /\ Len(Part(h, 2)) = m
      /\ Cong(s1, a + y * s2) /\ Cong(s2, b + y * s3) /\ Cong(s3, c + y * s4)
  <2>1. Part(h, 0) \in Poly /\ Len(Part(h, 0)) = m /\ Cong(Suf(h, x, 0 + 1), a + y * Suf(h, x, 0 + m + 1))
    BY <1>0, <1>1, <1>2, SliceFacts DEF y
  <2>2. Part(h, 1) \in Poly /\ Len(Part(h, 1)) = m /\ Cong(Suf(h, x, m + 1), b + y * Suf(h, x, m + m + 1))
    BY <1>0, <1>1, <1>2, SliceFacts DEF y
  <2>3. Part(h, 2) \in Poly /\ Len(Part(h, 2)) = m /\ Cong(Suf(h, x, 2 * m + 1), c + y * Suf(h, x, 2 * m + m + 1))
    BY <1>0, <1>1, <1>2, SliceFacts DEF y
  <2>4. QED
    BY <1>1, <2>1, <2>2, <2>3
<1>4. Takes(Part(h, 0), m, x, a) /\ Takes(Part(h, 1), m, x, b) /\ Takes(Part(h, 2), m, x, c)
  BY <1>3, TakesItself
<1>5. s1 \in Int /\ s2 \in Int /\ s3 \in Int /\ s4 = 0 /\ Eval(h, x) = s1
  <2>1. \A k \in Nat \ {0} : Suf(h, x, k) \in Int /\ (k > 3 * N + 6 => Suf(h, x, k) = 0)
    BY SufStep
  <2>2. QED
    BY <1>1, <2>1, SufStep
<1>6. a \in Int /\ b \in Int /\ c \in Int
  BY <1>3, EvalInt
<1> HIDE DEF a, b, c, s1, s2, s3, s4
<1>7. Is(s3, c) /\ Is(s2, b + y * s3) /\ Is(s1, a + y * s2) /\ Is(a, a) /\ Is(b, b) /\ Is(y, y)
  <2>1. c + y * s4 = c
    BY <1>0, <1>5, <1>6
  <2>2. b + y * s3 \in Int /\ a + y * s2 \in Int
    BY <1>0, <1>5, <1>6
  <2>3. QED
    BY <1>0, <1>3, <1>5, <1>6, <2>1, <2>2, IsItself DEF Is
<1>8. Is(s2, b + y * c)
  <2>1. Is(b + y * s3, b + y * c)
    BY <1>7, IsPlus, IsMul, Zenon
  <2>2. QED
    BY <1>7, <2>1, IsChain
<1>9. Is(s1, a + y * (b + y * c))
  <2>1. Is(a + y * s2, a + y * (b + y * c))
    BY <1>7, <1>8, IsPlus, IsMul, Zenon
  <2>2. QED
    BY <1>7, <2>1, IsChain
<1>10. a + y * (b + y * c) = Parts(y, a, b, c)
  BY <1>0, <1>6 DEF Parts
<1>11. Is(Eval(h, x), Parts(y, a, b, c))
  BY <1>5, <1>9, <1>10
<1>12. QED
  BY <1>0, <1>4, <1>11 DEF a, b, c, y
-----------------------------------------------------------------------------
(* What the linearized polynomial and the batch take. *)

\* What the last permutation polynomial and the grand product are multiplied with.
S3Weight(pf) ==
  challenge.alpha * ((Put(pf["L_AT_Z"], pf["S1_AT_Z"]) * Put(pf["R_AT_Z"], pf["S2_AT_Z"]))
                     * (pf["GRAND_PRODUCT_AT_Z_OMEGA"] * challenge.beta))
ZWeight(pf) ==
  (challenge.alpha * challenge.alpha) * Eval(FirstRow, challenge.zeta)
  - challenge.alpha * (Put(pf["L_AT_Z"], challenge.zeta)
                       * (Put(pf["R_AT_Z"], SHIFT * challenge.zeta)
                          * Put(pf["O_AT_Z"], (SHIFT * SHIFT) * challenge.zeta)))
LinearGates(pf, x) ==
  pf["L_AT_Z"] * Eval(Selector["ql"], x) + (pf["R_AT_Z"] * Eval(Selector["qr"], x)
    + (pf["O_AT_Z"] * Eval(Selector["qo"], x) + ((pf["L_AT_Z"] * pf["R_AT_Z"]) * Eval(Selector["qm"], x)
    + Eval(Selector["qk"], x))))
LinearAt(pf, x, Z, H) ==
  LinearGates(pf, x) + ((S3Weight(pf) * Eval(Permutation[2], x) + ZWeight(pf) * Z) + (0 - Zz(challenge.zeta)) * H)

IntegerScalars(pf) == \A s \in Scalars : pf[s] \in Int

LEMMA IntegerFacts ==
  ASSUME NEW pf, IntegerScalars(pf)
  PROVE  /\ pf["L_AT_Z"] \in Int /\ pf["R_AT_Z"] \in Int /\ pf["O_AT_Z"] \in Int
         /\ pf["S1_AT_Z"] \in Int /\ pf["S2_AT_Z"] \in Int /\ pf["GRAND_PRODUCT_AT_Z_OMEGA"] \in Int
BY DEF IntegerScalars, Scalars

LEMMA PutInt ==
  ASSUME Typed, NEW a \in Int, NEW b \in Int
  PROVE  Put(a, b) \in Int /\ Put(a, b) = a + challenge.beta * b + challenge.gamma
                           /\ Put(a, b) = b * challenge.beta + challenge.gamma + a
                           /\ Put(a, b) = b * challenge.beta + a + challenge.gamma
<1> DEFINE be == challenge.beta
           ga == challenge.gamma
<1>1. be \in Int /\ ga \in Int
  BY TypedFacts
<1>2. Put(a, b) = a + (ga + be * b)
  BY DEF Put
<1> HIDE DEF be, ga
<1> DEFINE t == be * b
<1>3. t \in Int /\ t = b * be
  BY <1>1
<1>4. Put(a, b) = a + (ga + t)
  BY <1>2
<1> HIDE DEF t
<1>5. Put(a, b) \in Int /\ Put(a, b) = a + t + ga /\ Put(a, b) = b * be + ga + a /\ Put(a, b) = b * be + a + ga
  BY <1>1, <1>3, <1>4
<1>6. QED
  BY <1>5 DEF t, be, ga

LEMMA FirstRowInt == ASSUME NEW x \in Int PROVE Eval(FirstRow, x) \in Field /\ Eval(FirstRow, x) \in Int
<1>1. FirstRow \in Poly
  <2>1. 0 \in Rows
    BY SizeFacts DEF Rows
  <2>2. QED
    BY <2>1, BasisFacts DEF FirstRow
<1>2. QED
  BY <1>1, EvalInt

LEMMA ZetaFacts ==
  ASSUME Typed
  PROVE  /\ challenge.zeta \in Field /\ challenge.zeta \in Int /\ challenge.zeta \in Nat
         /\ challenge.r \in Field /\ challenge.r \in Int /\ challenge.r \in Nat
         /\ challenge.u \in Field /\ challenge.u \in Int
         /\ SHIFT \in Int /\ OMEGA \in Int
BY TypedFacts, ChallengeFacts, FieldIsNat, FieldIsInt, SizeFacts

\* The prover's two multipliers.
LEMMA MultiplierFacts ==
  ASSUME Typed, NEW pf, IntegerScalars(pf)
  PROVE  LET ch == challenge
             start == Eval(FirstRow, ch.zeta)
             P(s, label) == pf[s] + ch.beta * label + ch.gamma
             next == P("L_AT_Z", pf["S1_AT_Z"]) ** P("R_AT_Z", pf["S2_AT_Z"])
                     ** pf["GRAND_PRODUCT_AT_Z_OMEGA"] ** ch.beta
             this == P("L_AT_Z", ch.zeta) ** P("R_AT_Z", SHIFT * ch.zeta) ** P("O_AT_Z", SHIFT * SHIFT * ch.zeta)
         IN /\ Is((ch.alpha * next) % PRIME, S3Weight(pf))
            /\ Is((ch.alpha * ch.alpha * start - ch.alpha * this) % PRIME, ZWeight(pf))
<1> DEFINE al == challenge.alpha
           be == challenge.beta
           zeta == challenge.zeta
           start == Eval(FirstRow, zeta)
           zw == pf["GRAND_PRODUCT_AT_Z_OMEGA"]
           a1 == Put(pf["L_AT_Z"], pf["S1_AT_Z"])
           a2 == Put(pf["R_AT_Z"], pf["S2_AT_Z"])
           b1 == Put(pf["L_AT_Z"], zeta)
           b2 == Put(pf["R_AT_Z"], SHIFT * zeta)
           b3 == Put(pf["O_AT_Z"], (SHIFT * SHIFT) * zeta)
<1>1. /\ al \in Int /\ be \in Int /\ zeta \in Int /\ start \in Int /\ zw \in Int
      /\ SHIFT * zeta \in Int /\ (SHIFT * SHIFT) * zeta \in Int /\ (SHIFT * SHIFT) * zeta = SHIFT * SHIFT * zeta
  <2>1. /\ al \in Int /\ be \in Int /\ zeta \in Int /\ start \in Int /\ zw \in Int /\ SHIFT \in Int
    BY TypedFacts, ZetaFacts, IntegerFacts, FirstRowInt
  <2>2. QED
    BY <2>1
<1>2. /\ a1 \in Int /\ a1 = pf["L_AT_Z"] + be * pf["S1_AT_Z"] + challenge.gamma
      /\ a2 \in Int /\ a2 = pf["R_AT_Z"] + be * pf["S2_AT_Z"] + challenge.gamma
      /\ b1 \in Int /\ b1 = pf["L_AT_Z"] + be * zeta + challenge.gamma
      /\ b2 \in Int /\ b2 = pf["R_AT_Z"] + be * (SHIFT * zeta) + challenge.gamma
      /\ b3 \in Int /\ b3 = pf["O_AT_Z"] + be * (SHIFT * SHIFT * zeta) + challenge.gamma
  <2>1. \A s, t \in Int : Put(s, t) \in Int /\ Put(s, t) = s + be * t + challenge.gamma
    BY PutInt
  <2>2. pf["L_AT_Z"] \in Int /\ pf["R_AT_Z"] \in Int /\ pf["O_AT_Z"] \in Int /\ pf["S1_AT_Z"] \in Int /\ pf["S2_AT_Z"] \in Int
    BY IntegerFacts
  <2> HIDE DEF be, zeta
  <2>3. a1 \in Int /\ a1 = pf["L_AT_Z"] + be * pf["S1_AT_Z"] + challenge.gamma
    BY <2>1, <2>2
  <2>4. a2 \in Int /\ a2 = pf["R_AT_Z"] + be * pf["S2_AT_Z"] + challenge.gamma
    BY <2>1, <2>2
  <2>5. b1 \in Int /\ b1 = pf["L_AT_Z"] + be * zeta + challenge.gamma
    BY <1>1, <2>1, <2>2
  <2>6. b2 \in Int /\ b2 = pf["R_AT_Z"] + be * (SHIFT * zeta) + challenge.gamma
    BY <1>1, <2>1, <2>2
  <2>7. b3 \in Int /\ b3 = pf["O_AT_Z"] + be * (SHIFT * SHIFT * zeta) + challenge.gamma
    <3>1. b3 = pf["O_AT_Z"] + be * ((SHIFT * SHIFT) * zeta) + challenge.gamma /\ b3 \in Int
      BY <1>1, <2>1, <2>2
    <3>2. QED
      BY <1>1, <3>1
  <2>8. QED
    BY <2>3, <2>4, <2>5, <2>6, <2>7
<1>3. S3Weight(pf) = al * ((a1 * a2) * (zw * be)) /\ ZWeight(pf) = al * al * start - al * (b1 * (b2 * b3))
  BY DEF S3Weight, ZWeight
<1> HIDE DEF al, be, zeta, start, zw, a1, a2, b1, b2, b3
<1>4. Is(al, al) /\ Is(be, be) /\ Is(start, start) /\ Is(zw, zw) /\ Is(a1, a1) /\ Is(a2, a2)
      /\ Is(b1, b1) /\ Is(b2, b2) /\ Is(b3, b3)
  BY <1>1, <1>2, IsItself
<1>5. Is(a1 ** a2 ** zw,
        a1 * a2 * zw)
  BY <1>4, IsOp, Zenon
<1>6. Is(al * (a1 ** a2 ** zw ** be),
        al * (a1 * a2 * zw * be))
  BY <1>4, <1>5, IsMul, IsOp, Zenon
<1>7. Is((al * (a1 ** a2 ** zw ** be)) % PRIME,
        al * (a1 * a2 * zw * be))
  BY <1>6, IsMod, Zenon
<1>8. Is(al * al * start,
        al * al * start)
  BY <1>4, IsMul, Zenon
<1>9. Is(b1 ** b2 ** b3,
        b1 * b2 * b3)
  BY <1>4, IsOp, Zenon
<1>10. Is(al * al * start - al * (b1 ** b2 ** b3),
        al * al * start - al * (b1 * b2 * b3))
  BY <1>4, <1>8, <1>9, IsMinus, IsMul, Zenon
<1>11. Is((al * al * start - al * (b1 ** b2 ** b3)) % PRIME,
        al * al * start - al * (b1 * b2 * b3))
  BY <1>10, IsMod, Zenon
<1>12. al * (a1 * a2 * zw * be) = al * ((a1 * a2) * (zw * be))
  BY <1>1, <1>2
<1>13. al * al * start - al * (b1 * b2 * b3) = al * al * start - al * (b1 * (b2 * b3))
  <2>1. b1 * b2 * b3 = b1 * (b2 * b3)
    BY <1>2
  <2>2. QED
    BY <2>1
<1>14. QED
  BY <1>2, <1>3, <1>7, <1>11, <1>12, <1>13 DEF al, be, zeta, start, zw

LEMMA LinearizedTakes ==
  ASSUME Typed, NEW pf, IntegerScalars(pf), NEW z, NEW h \in Poly, Len(h) = 3 * N + 6,
         NEW x \in Int, NEW Z, Takes(z, N + 3, x, Z)
  PROVE  Takes(Linearized(pf, z, h), N + 3, x,
               LinearAt(pf, x, Z, Parts(expmod(challenge.zeta, N + 2),
                                        Eval(Part(h, 0), x), Eval(Part(h, 1), x), Eval(Part(h, 2), x))))
<1> DEFINE ch == challenge
           start == Eval(FirstRow, ch.zeta)
           P(s, label) == pf[s] + ch.beta * label + ch.gamma
           next == P("L_AT_Z", pf["S1_AT_Z"]) ** P("R_AT_Z", pf["S2_AT_Z"])
                   ** pf["GRAND_PRODUCT_AT_Z_OMEGA"] ** ch.beta
           this == P("L_AT_Z", ch.zeta) ** P("R_AT_Z", SHIFT * ch.zeta) ** P("O_AT_Z", SHIFT * SHIFT * ch.zeta)
           k1 == (ch.alpha * next) % PRIME
           k2 == (ch.alpha * ch.alpha * start - ch.alpha * this) % PRIME
           kv == (0 - (expmod(ch.zeta, N) - 1)) % PRIME
           w1 == S3Weight(pf)
           w2 == ZWeight(pf)
           v == Zz(ch.zeta)
           y == expmod(ch.zeta, N + 2)
           y2 == expmod(ch.zeta, 2 * (N + 2))
           l == pf["L_AT_Z"]
           rr == pf["R_AT_Z"]
           o == pf["O_AT_Z"]
           ql == Selector["ql"]
           qr == Selector["qr"]
           qo == Selector["qo"]
           qm == Selector["qm"]
           qk == Selector["qk"]
           vql == Eval(ql, x)
           vqr == Eval(qr, x)
           vqo == Eval(qo, x)
           vqm == Eval(qm, x)
           vqk == Eval(qk, x)
           p2 == Permutation[2]
           vp2 == Eval(p2, x)
           h0 == Part(h, 0)
           h1 == Part(h, 1)
           h2 == Part(h, 2)
           a == Eval(h0, x)
           b == Eval(h1, x)
           c == Eval(h2, x)
           gates == Plus(Scaled(l, ql), Plus(Scaled(rr, qr), Plus(Scaled(o, qo), Plus(Scaled(l * rr, qm), qk))))
           copies == Plus(Scaled(k1, p2), Scaled(k2, z))
           parts == Plus(h0, Plus(Scaled(y, h1), Scaled(y2, h2)))
           vg == (l * vql) + ((rr * vqr) + ((o * vqo) + (((l * rr) * vqm) + vqk)))
           vc == (w1 * vp2) + (w2 * Z)
           vh == a + ((y * b) + ((y * y) * c))
<1>0. N \in Nat /\ N >= 1
  BY SizeFacts
<1>1. Takes(ql, N, x, vql) /\ Takes(qr, N, x, vqr) /\ Takes(qo, N, x, vqo) /\ Takes(qm, N, x, vqm) /\ Takes(qk, N, x, vqk) /\ Takes(p2, N, x, vp2)
  BY SetupTakes DEF SelectorNames, Wires
<1>2. Takes(h0, N + 2, x, a) /\ Takes(h1, N + 2, x, b) /\ Takes(h2, N + 2, x, c)
  BY PartsFacts
<1>3. Is(k1, w1) /\ Is(k2, w2)
  BY MultiplierFacts
<1>4. Is(l, l) /\ Is(rr, rr) /\ Is(o, o) /\ Is(l * rr, l * rr)
  <2>1. l \in Int /\ rr \in Int /\ o \in Int
    BY IntegerFacts
  <2> HIDE DEF l, rr, o
  <2>2. l * rr \in Int
    BY <2>1
  <2>3. QED
    BY <2>1, <2>2, IsItself
<1>5. Is(y, y) /\ Is(y2, y * y) /\ Is(kv, 0 - v)
  <2> DEFINE zeta == challenge.zeta
  <2>1. zeta \in Nat /\ zeta \in Int /\ zeta \in Field
    BY ZetaFacts
  <2> HIDE DEF zeta
  <2> DEFINE m == N + 2
             f == expmod(zeta, N)
             vv == Zz(zeta)
             yy == expmod(zeta, m)
             yyy == expmod(zeta, 2 * m)
  <2>2. m \in Nat /\ 2 * m = m + m /\ 2 * m \in Nat
    BY <1>0
  <2>3. y = yy /\ y2 = yyy /\ v = vv /\ kv = (0 - (f - 1)) % PRIME
    BY DEF zeta
  <2> HIDE DEF m
  <2>4. yy = Pow(zeta, m) /\ yyy = Pow(zeta, m + m) /\ f = Pow(zeta, N)
    BY <1>0, <2>1, <2>2, expmodIsPow
  <2>5. Cong(Pow(zeta, m + m), Pow(zeta, m) * Pow(zeta, m)) /\ Pow(zeta, m) \in Int /\ Pow(zeta, m + m) \in Int /\ Pow(zeta, N) \in Int
    BY <1>0, <2>1, <2>2, PowAdd, PowSteps
  <2>6. vv \in Int /\ Cong(vv, Pow(zeta, N) - 1)
    BY <2>1, ZzFacts
  <2> HIDE DEF f, vv, yy, yyy, v, y, y2, kv
  <2>7. yy \in Int /\ Is(yyy, yy * yy) /\ f \in Int /\ Is(vv, f - 1)
    <3>1. yy \in Int /\ yyy \in Int /\ f \in Int /\ Cong(yyy, yy * yy) /\ Cong(vv, f - 1)
      BY <2>4, <2>5, <2>6
    <3>2. yy * yy \in Int /\ f - 1 \in Int
      BY <3>1
    <3>3. QED
      BY <2>6, <3>1, <3>2 DEF Is
  <2>8. Is(0 - (f - 1), 0 - vv)
    <3>1. Is(0, 0) /\ Is(f - 1, vv)
      BY <2>7, IsItself, IsBack
    <3>2. QED
      BY <3>1, IsMinus
  <2>9. QED
    BY <2>3, <2>7, <2>8, IsItself, IsMod
<1>6. Linearized(pf, z, h) = Plus(gates, Plus(copies, Scaled(kv, parts)))
  BY DEF Linearized
<1>7. vh = Parts(y, a, b, c) /\ vg = LinearGates(pf, x)
  BY DEF Parts, LinearGates
<1>8. LinearAt(pf, x, Z, vh) = vg + (vc + ((0 - v) * vh))
  BY <1>7 DEF LinearAt
<1> HIDE DEF ch, start, P, next, this, k1, k2, kv, w1, w2, v, y, y2, l, rr, o, ql, qr, qo, qm, qk, vql, vqr, vqo, vqm, vqk, p2, vp2, h0, h1, h2, a, b, c
<1>9. /\ Is(k1, w1) /\ Is(k2, w2) /\ Is(l, l) /\ Is(rr, rr) /\ Is(o, o) /\ Is(l * rr, l * rr) /\ Is(y, y) /\ Is(y2, y * y)
      /\ Is(kv, 0 - v) /\ Takes(z, N + 3, x, Z)
      /\ Takes(ql, N, x, vql) /\ Takes(qr, N, x, vqr) /\ Takes(qo, N, x, vqo) /\ Takes(qm, N, x, vqm) /\ Takes(qk, N, x, vqk) /\ Takes(p2, N, x, vp2)
      /\ Takes(h0, N + 2, x, a) /\ Takes(h1, N + 2, x, b) /\ Takes(h2, N + 2, x, c)
  BY <1>1, <1>2, <1>3, <1>4, <1>5
<1>10. Takes(Scaled(l, ql), N, x, l * vql)
  BY <1>9, <1>0, TakesScaled
<1>11. Takes(Scaled(rr, qr), N, x, rr * vqr)
  BY <1>9, <1>0, TakesScaled
<1>12. Takes(Scaled(o, qo), N, x, o * vqo)
  BY <1>9, <1>0, TakesScaled
<1>13. Takes(Scaled(l * rr, qm), N, x, (l * rr) * vqm)
  BY <1>9, <1>0, TakesScaled
<1>14. Takes(Plus(Scaled(l * rr, qm), qk), N, x, ((l * rr) * vqm) + vqk)
  <2>1. Longer(N, N) = N
    BY <1>0 DEF Longer
  <2>2. Takes(Plus(Scaled(l * rr, qm), qk), Longer(N, N), x, ((l * rr) * vqm) + vqk)
    BY <1>13, <1>9, <2>1, TakesPlus
  <2>3. QED
    BY <2>1, <2>2
<1>15. Takes(Plus(Scaled(o, qo), Plus(Scaled(l * rr, qm), qk)), N, x, (o * vqo) + (((l * rr) * vqm) + vqk))
  <2>1. Longer(N, N) = N
    BY <1>0 DEF Longer
  <2>2. Takes(Plus(Scaled(o, qo), Plus(Scaled(l * rr, qm), qk)), Longer(N, N), x, (o * vqo) + (((l * rr) * vqm) + vqk))
    BY <1>12, <1>14, <2>1, TakesPlus
  <2>3. QED
    BY <2>1, <2>2
<1>16. Takes(Plus(Scaled(rr, qr), Plus(Scaled(o, qo), Plus(Scaled(l * rr, qm), qk))), N, x, (rr * vqr) + ((o * vqo) + (((l * rr) * vqm) + vqk)))
  <2>1. Longer(N, N) = N
    BY <1>0 DEF Longer
  <2>2. Takes(Plus(Scaled(rr, qr), Plus(Scaled(o, qo), Plus(Scaled(l * rr, qm), qk))), Longer(N, N), x, (rr * vqr) + ((o * vqo) + (((l * rr) * vqm) + vqk)))
    BY <1>11, <1>15, <2>1, TakesPlus
  <2>3. QED
    BY <2>1, <2>2
<1>17. Takes(Plus(Scaled(l, ql), Plus(Scaled(rr, qr), Plus(Scaled(o, qo), Plus(Scaled(l * rr, qm), qk)))), N, x, (l * vql) + ((rr * vqr) + ((o * vqo) + (((l * rr) * vqm) + vqk))))
  <2>1. Longer(N, N) = N
    BY <1>0 DEF Longer
  <2>2. Takes(Plus(Scaled(l, ql), Plus(Scaled(rr, qr), Plus(Scaled(o, qo), Plus(Scaled(l * rr, qm), qk)))), Longer(N, N), x, (l * vql) + ((rr * vqr) + ((o * vqo) + (((l * rr) * vqm) + vqk))))
    BY <1>10, <1>16, <2>1, TakesPlus
  <2>3. QED
    BY <2>1, <2>2
<1>18. Takes(Scaled(k1, p2), N, x, w1 * vp2)
  BY <1>9, <1>0, TakesScaled
<1>19. Takes(Scaled(k2, z), N + 3, x, w2 * Z)
  BY <1>9, <1>0, TakesScaled
<1>20. Takes(Plus(Scaled(k1, p2), Scaled(k2, z)), N + 3, x, (w1 * vp2) + (w2 * Z))
  <2>1. Longer(N, N + 3) = N + 3
    BY <1>0 DEF Longer
  <2>2. Takes(Plus(Scaled(k1, p2), Scaled(k2, z)), Longer(N, N + 3), x, (w1 * vp2) + (w2 * Z))
    BY <1>18, <1>19, <2>1, TakesPlus
  <2>3. QED
    BY <2>1, <2>2
<1>21. Takes(Scaled(y, h1), N + 2, x, y * b)
  BY <1>9, <1>0, TakesScaled
<1>22. Takes(Scaled(y2, h2), N + 2, x, (y * y) * c)
  BY <1>9, <1>0, TakesScaled
<1>23. Takes(Plus(Scaled(y, h1), Scaled(y2, h2)), N + 2, x, (y * b) + ((y * y) * c))
  <2>1. Longer(N + 2, N + 2) = N + 2
    BY <1>0 DEF Longer
  <2>2. Takes(Plus(Scaled(y, h1), Scaled(y2, h2)), Longer(N + 2, N + 2), x, (y * b) + ((y * y) * c))
    BY <1>21, <1>22, <2>1, TakesPlus
  <2>3. QED
    BY <2>1, <2>2
<1>24. Takes(Plus(h0, Plus(Scaled(y, h1), Scaled(y2, h2))), N + 2, x, a + ((y * b) + ((y * y) * c)))
  <2>1. Longer(N + 2, N + 2) = N + 2
    BY <1>0 DEF Longer
  <2>2. Takes(Plus(h0, Plus(Scaled(y, h1), Scaled(y2, h2))), Longer(N + 2, N + 2), x, a + ((y * b) + ((y * y) * c)))
    BY <1>23, <1>9, <2>1, TakesPlus
  <2>3. QED
    BY <2>1, <2>2
<1> HIDE DEF gates, copies, parts, vg, vc, vh
<1>25. Takes(gates, N, x, vg) /\ Takes(copies, N + 3, x, vc) /\ Takes(parts, N + 2, x, vh) /\ Is(kv, 0 - v)
  BY <1>9, <1>17, <1>20, <1>24 DEF gates, copies, parts, vg, vc, vh
<1>26. Takes(Scaled(kv, parts), N + 2, x, (0 - v) * vh)
  BY <1>25, <1>0, TakesScaled
<1>27. Takes(Plus(copies, Scaled(kv, parts)), N + 3, x, vc + ((0 - v) * vh))
  <2>1. Longer(N + 3, N + 2) = N + 3
    BY <1>0 DEF Longer
  <2>2. Takes(Plus(copies, Scaled(kv, parts)), Longer(N + 3, N + 2), x, vc + ((0 - v) * vh))
    BY <1>25, <1>26, <2>1, TakesPlus
  <2>3. QED
    BY <2>1, <2>2
<1>28. Takes(Plus(gates, Plus(copies, Scaled(kv, parts))), N + 3, x, vg + (vc + ((0 - v) * vh)))
  <2>1. Longer(N, N + 3) = N + 3
    BY <1>0 DEF Longer
  <2>2. Takes(Plus(gates, Plus(copies, Scaled(kv, parts))), Longer(N, N + 3), x, vg + (vc + ((0 - v) * vh)))
    BY <1>25, <1>27, <2>1, TakesPlus
  <2>3. QED
    BY <2>1, <2>2
<1>29. QED
  BY <1>6, <1>7, <1>8, <1>28 DEF y, a, b, c, h0, h1, h2, ch

-----------------------------------------------------------------------------
(* The proof that the prover makes. *)

ProverClaimed == Claimed(Wire(0), Wire(1), Wire(2), GrandProduct, Quotient)
ProverBatch == Batch(ProverClaimed, Wire(0), Wire(1), Wire(2), GrandProduct, Quotient)

LEMMA ProvedIs ==
  /\ Proved["L_COM"] = Eval(Wire(0), tau) /\ Proved["R_COM"] = Eval(Wire(1), tau) /\ Proved["O_COM"] = Eval(Wire(2), tau)
  /\ Proved["H_0"] = Eval(Part(Quotient, 0), tau) /\ Proved["H_1"] = Eval(Part(Quotient, 1), tau)
  /\ Proved["H_2"] = Eval(Part(Quotient, 2), tau) /\ Proved["GRAND_PRODUCT"] = Eval(GrandProduct, tau)
  /\ Proved["BATCH_OPENING_AT_Z"] = Eval(Opened(ProverBatch, challenge.zeta), tau)
  /\ Proved["OPENING_AT_Z_OMEGA"] = Eval(Opened(GrandProduct, (challenge.zeta * OMEGA) % PRIME), tau)
  /\ Proved["L_AT_Z"] = Eval(Wire(0), challenge.zeta) /\ Proved["R_AT_Z"] = Eval(Wire(1), challenge.zeta)
  /\ Proved["O_AT_Z"] = Eval(Wire(2), challenge.zeta) /\ Proved["S1_AT_Z"] = Eval(Permutation[0], challenge.zeta)
  /\ Proved["S2_AT_Z"] = Eval(Permutation[1], challenge.zeta)
  /\ Proved["GRAND_PRODUCT_AT_Z_OMEGA"] = Eval(GrandProduct, (challenge.zeta * OMEGA) % PRIME)
  /\ \A s \in Scalars : ProverClaimed[s] = Proved[s]
  /\ Proved = [p \in Points \cup Scalars |-> Proved[p]]
<1> DEFINE openings == [BATCH_OPENING_AT_Z |-> Eval(Opened(ProverBatch, challenge.zeta), tau),
                        OPENING_AT_Z_OMEGA |-> Eval(Opened(GrandProduct, (challenge.zeta * OMEGA) % PRIME), tau)]
           g(p) == IF p \in DOMAIN openings THEN openings[p] ELSE ProverClaimed[p]
<1>1. Proved = [p \in Points \cup Scalars |-> g(p)]
  BY DEF Proved, ProverClaimed, ProverBatch
<1>2. DOMAIN openings = {"BATCH_OPENING_AT_Z", "OPENING_AT_Z_OMEGA"}
  OBVIOUS
<1>3. g("BATCH_OPENING_AT_Z") = Eval(Opened(ProverBatch, challenge.zeta), tau)
  BY <1>2
<1>4. g("OPENING_AT_Z_OMEGA") = Eval(Opened(GrandProduct, (challenge.zeta * OMEGA) % PRIME), tau)
  BY <1>2
<1>5. \A p : p \notin {"BATCH_OPENING_AT_Z", "OPENING_AT_Z_OMEGA"} => g(p) = ProverClaimed[p]
  BY <1>2
<1> HIDE DEF g
<1>6. \A p \in Points \cup Scalars : Proved[p] = g(p)
  BY <1>1
<1>7. Proved = [p \in Points \cup Scalars |-> Proved[p]]
  BY <1>1
<1>8. /\ Proved["BATCH_OPENING_AT_Z"] = Eval(Opened(ProverBatch, challenge.zeta), tau)
      /\ Proved["OPENING_AT_Z_OMEGA"] = Eval(Opened(GrandProduct, (challenge.zeta * OMEGA) % PRIME), tau)
  BY <1>3, <1>4, <1>6 DEF Points
<1>9. \A p \in Scalars \cup {"L_COM", "R_COM", "O_COM", "H_0", "H_1", "H_2", "GRAND_PRODUCT"} : Proved[p] = ProverClaimed[p]
  BY <1>5, <1>6 DEF Points, Scalars
<1>10. /\ Proved["L_COM"] = ProverClaimed["L_COM"] /\ Proved["R_COM"] = ProverClaimed["R_COM"]
       /\ Proved["O_COM"] = ProverClaimed["O_COM"] /\ Proved["H_0"] = ProverClaimed["H_0"]
       /\ Proved["H_1"] = ProverClaimed["H_1"] /\ Proved["H_2"] = ProverClaimed["H_2"]
       /\ Proved["GRAND_PRODUCT"] = ProverClaimed["GRAND_PRODUCT"]
  BY <1>9
<1>11. /\ Proved["L_AT_Z"] = ProverClaimed["L_AT_Z"] /\ Proved["R_AT_Z"] = ProverClaimed["R_AT_Z"]
       /\ Proved["O_AT_Z"] = ProverClaimed["O_AT_Z"] /\ Proved["S1_AT_Z"] = ProverClaimed["S1_AT_Z"]
       /\ Proved["S2_AT_Z"] = ProverClaimed["S2_AT_Z"]
       /\ Proved["GRAND_PRODUCT_AT_Z_OMEGA"] = ProverClaimed["GRAND_PRODUCT_AT_Z_OMEGA"]
  BY <1>9 DEF Scalars
<1>12. QED
  BY <1>7, <1>8, <1>9, <1>10, <1>11 DEF ProverClaimed, Claimed

LEMMA ProvedScalars == ASSUME Typed PROVE IntegerScalars(ProverClaimed) /\ IntegerScalars(Proved)
<1>1. challenge.zeta \in Int /\ OMEGA \in Int
  BY ZetaFacts
<1>2. (challenge.zeta * OMEGA) % PRIME \in Int
  BY <1>1, FieldOps
<1>3. \A w \in Wires : Wire(w) \in Poly /\ Permutation[w] \in Poly
  BY WireFacts, SetupFacts
<1>4. /\ Wire(0) \in Poly /\ Wire(1) \in Poly /\ Wire(2) \in Poly /\ Permutation[0] \in Poly /\ Permutation[1] \in Poly
      /\ GrandProduct \in Poly
  BY <1>3, GrandProductFacts DEF Wires
<1>5. /\ Proved["L_AT_Z"] \in Int /\ Proved["R_AT_Z"] \in Int /\ Proved["O_AT_Z"] \in Int /\ Proved["S1_AT_Z"] \in Int
      /\ Proved["S2_AT_Z"] \in Int /\ Proved["GRAND_PRODUCT_AT_Z_OMEGA"] \in Int
  BY <1>1, <1>2, <1>4, ProvedIs, EvalInt
<1>6. \A s \in Scalars : Proved[s] \in Int
  BY <1>5 DEF Scalars
<1>7. QED
  BY <1>6, ProvedIs DEF IntegerScalars

QuotientAt(x) ==
  Parts(expmod(challenge.zeta, N + 2), Eval(Part(Quotient, 0), x), Eval(Part(Quotient, 1), x), Eval(Part(Quotient, 2), x))
ProverLinearAt(x) == LinearAt(Proved, x, Eval(GrandProduct, x), QuotientAt(x))
WiresAt(r, a, b, c, d, e) == r * a + (expmod(r, 2) * b + (expmod(r, 3) * c + (expmod(r, 4) * d + expmod(r, 5) * e)))
BatchAt(x) ==
  ProverLinearAt(x) + WiresAt(challenge.r, Eval(Wire(0), x), Eval(Wire(1), x), Eval(Wire(2), x),
                              Eval(Permutation[0], x), Eval(Permutation[1], x))

LEMMA BatchTakes ==
  ASSUME Typed, NEW x \in Int
  PROVE  Takes(ProverBatch, N + 3, x, BatchAt(x)) /\ ProverLinearAt(x) \in Int
<1> DEFINE l == Wire(0)
           r == Wire(1)
           o == Wire(2)
           p0 == Permutation[0]
           p1 == Permutation[1]
           q == challenge.r
           e1 == expmod(challenge.r, 1)
           e2 == expmod(challenge.r, 2)
           e3 == expmod(challenge.r, 3)
           e4 == expmod(challenge.r, 4)
           e5 == expmod(challenge.r, 5)
           vl == Eval(l, x)
           vr == Eval(r, x)
           vo == Eval(o, x)
           vp0 == Eval(p0, x)
           vp1 == Eval(p1, x)
           lin == Linearized(ProverClaimed, GrandProduct, Quotient)
           vlin == ProverLinearAt(x)
<1>0. N \in Nat /\ N >= 1
  BY SizeFacts
<1>1. Takes(l, N + 2, x, vl) /\ Takes(r, N + 2, x, vr) /\ Takes(o, N + 2, x, vo)
  BY ProverTakes
<1>2. Takes(p0, N, x, vp0) /\ Takes(p1, N, x, vp1)
  BY SetupTakes DEF Wires
<1>3. Takes(lin, N + 3, x, vlin)
  <2>1. Quotient \in Poly /\ Len(Quotient) = 3 * N + 6 /\ Takes(GrandProduct, N + 3, x, Eval(GrandProduct, x))
    BY QuotientFacts, ProverTakes
  <2>2. Takes(lin, N + 3, x, LinearAt(ProverClaimed, x, Eval(GrandProduct, x), QuotientAt(x)))
    BY <2>1, ProvedScalars, LinearizedTakes DEF QuotientAt
  <2>3. /\ ProverClaimed["L_AT_Z"] = Proved["L_AT_Z"] /\ ProverClaimed["R_AT_Z"] = Proved["R_AT_Z"]
        /\ ProverClaimed["O_AT_Z"] = Proved["O_AT_Z"] /\ ProverClaimed["S1_AT_Z"] = Proved["S1_AT_Z"]
        /\ ProverClaimed["S2_AT_Z"] = Proved["S2_AT_Z"]
        /\ ProverClaimed["GRAND_PRODUCT_AT_Z_OMEGA"] = Proved["GRAND_PRODUCT_AT_Z_OMEGA"]
    BY ProvedIs DEF Scalars
  <2>4. /\ S3Weight(ProverClaimed) = S3Weight(Proved) /\ ZWeight(ProverClaimed) = ZWeight(Proved)
        /\ LinearGates(ProverClaimed, x) = LinearGates(Proved, x)
    BY <2>3 DEF S3Weight, ZWeight, LinearGates
  <2>5. LinearAt(ProverClaimed, x, Eval(GrandProduct, x), QuotientAt(x)) = ProverLinearAt(x)
    BY <2>4 DEF LinearAt, ProverLinearAt
  <2>6. QED
    BY <2>2, <2>5
<1>4. Is(e1, q) /\ Is(e2, e2) /\ Is(e3, e3) /\ Is(e4, e4) /\ Is(e5, e5)
  <2>1. q \in Nat /\ q \in Int
    BY ZetaFacts
  <2> HIDE DEF q
  <2>2. expmod(q, 1) \in Int /\ expmod(q, 2) \in Int /\ expmod(q, 3) \in Int /\ expmod(q, 4) \in Int /\ expmod(q, 5) \in Int
    BY <2>1, ModPowInt
  <2>3. Cong(expmod(q, 1), q)
    <3>1. expmod(q, 1) = Pow(q, 1)
      BY <2>1, expmodIsPow
    <3>2. QED
      BY <2>1, <3>1, PowOne
  <2>4. QED
    BY <2>1, <2>2, <2>3, IsItself DEF Is, q
<1>5. ProverBatch = Plus(lin, Plus(Scaled(e1, l), Plus(Scaled(e2, r), Plus(Scaled(e3, o), Plus(Scaled(e4, p0), Scaled(e5, p1))))))
  BY DEF ProverBatch, Batch
<1>6. BatchAt(x) = vlin + ((q * vl) + ((e2 * vr) + ((e3 * vo) + ((e4 * vp0) + (e5 * vp1)))))
  BY DEF BatchAt, WiresAt
<1> HIDE DEF l, r, o, p0, p1, q, e1, e2, e3, e4, e5, vl, vr, vo, vp0, vp1, lin, vlin
<1>7. /\ Takes(l, N + 2, x, vl) /\ Takes(r, N + 2, x, vr) /\ Takes(o, N + 2, x, vo) /\ Takes(p0, N, x, vp0) /\ Takes(p1, N, x, vp1)
      /\ Takes(lin, N + 3, x, vlin) /\ Is(e1, q) /\ Is(e2, e2) /\ Is(e3, e3) /\ Is(e4, e4) /\ Is(e5, e5)
  BY <1>1, <1>2, <1>3, <1>4
<1>8. Takes(Scaled(e1, l), N + 2, x, q * vl)
  BY <1>7, <1>0, TakesScaled
<1>9. Takes(Scaled(e2, r), N + 2, x, e2 * vr)
  BY <1>7, <1>0, TakesScaled
<1>10. Takes(Scaled(e3, o), N + 2, x, e3 * vo)
  BY <1>7, <1>0, TakesScaled
<1>11. Takes(Scaled(e4, p0), N, x, e4 * vp0)
  BY <1>7, <1>0, TakesScaled
<1>12. Takes(Scaled(e5, p1), N, x, e5 * vp1)
  BY <1>7, <1>0, TakesScaled
<1>13. Takes(Plus(Scaled(e4, p0), Scaled(e5, p1)), N, x, (e4 * vp0) + (e5 * vp1))
  <2>1. Longer(N, N) = N
    BY <1>0 DEF Longer
  <2>2. Takes(Plus(Scaled(e4, p0), Scaled(e5, p1)), Longer(N, N), x, (e4 * vp0) + (e5 * vp1))
    BY <1>11, <1>12, <2>1, TakesPlus
  <2>3. QED
    BY <2>1, <2>2
<1>14. Takes(Plus(Scaled(e3, o), Plus(Scaled(e4, p0), Scaled(e5, p1))), N + 2, x, (e3 * vo) + ((e4 * vp0) + (e5 * vp1)))
  <2>1. Longer(N + 2, N) = N + 2
    BY <1>0 DEF Longer
  <2>2. Takes(Plus(Scaled(e3, o), Plus(Scaled(e4, p0), Scaled(e5, p1))), Longer(N + 2, N), x, (e3 * vo) + ((e4 * vp0) + (e5 * vp1)))
    BY <1>10, <1>13, <2>1, TakesPlus
  <2>3. QED
    BY <2>1, <2>2
<1>15. Takes(Plus(Scaled(e2, r), Plus(Scaled(e3, o), Plus(Scaled(e4, p0), Scaled(e5, p1)))), N + 2, x, (e2 * vr) + ((e3 * vo) + ((e4 * vp0) + (e5 * vp1))))
  <2>1. Longer(N + 2, N + 2) = N + 2
    BY <1>0 DEF Longer
  <2>2. Takes(Plus(Scaled(e2, r), Plus(Scaled(e3, o), Plus(Scaled(e4, p0), Scaled(e5, p1)))), Longer(N + 2, N + 2), x, (e2 * vr) + ((e3 * vo) + ((e4 * vp0) + (e5 * vp1))))
    BY <1>14, <1>9, <2>1, TakesPlus
  <2>3. QED
    BY <2>1, <2>2
<1>16. Takes(Plus(Scaled(e1, l), Plus(Scaled(e2, r), Plus(Scaled(e3, o), Plus(Scaled(e4, p0), Scaled(e5, p1))))), N + 2, x, (q * vl) + ((e2 * vr) + ((e3 * vo) + ((e4 * vp0) + (e5 * vp1)))))
  <2>1. Longer(N + 2, N + 2) = N + 2
    BY <1>0 DEF Longer
  <2>2. Takes(Plus(Scaled(e1, l), Plus(Scaled(e2, r), Plus(Scaled(e3, o), Plus(Scaled(e4, p0), Scaled(e5, p1))))), Longer(N + 2, N + 2), x, (q * vl) + ((e2 * vr) + ((e3 * vo) + ((e4 * vp0) + (e5 * vp1)))))
    BY <1>15, <1>8, <2>1, TakesPlus
  <2>3. QED
    BY <2>1, <2>2
<1>17. Takes(Plus(lin, Plus(Scaled(e1, l), Plus(Scaled(e2, r), Plus(Scaled(e3, o), Plus(Scaled(e4, p0), Scaled(e5, p1)))))), N + 3, x, vlin + ((q * vl) + ((e2 * vr) + ((e3 * vo) + ((e4 * vp0) + (e5 * vp1))))))
  <2>1. Longer(N + 3, N + 2) = N + 3
    BY <1>0 DEF Longer
  <2>2. Takes(Plus(lin, Plus(Scaled(e1, l), Plus(Scaled(e2, r), Plus(Scaled(e3, o), Plus(Scaled(e4, p0), Scaled(e5, p1)))))), Longer(N + 3, N + 2), x, vlin + ((q * vl) + ((e2 * vr) + ((e3 * vo) + ((e4 * vp0) + (e5 * vp1))))))
    BY <1>16, <1>7, <2>1, TakesPlus
  <2>3. QED
    BY <2>1, <2>2
<1>18. vlin \in Int
  BY <1>7 DEF Takes, Is
<1>19. QED
  BY <1>5, <1>6, <1>18, <1>17 DEF vlin
\* A polynomial takes the same at numbers that are the same modulo PRIME.
LEMMA EvalOfCong ==
  ASSUME NEW p \in Poly, NEW a \in Int, NEW b \in Int, Cong(a, b)
  PROVE  Eval(p, a) = Eval(p, b)
<1>1. Eval(p, a) \in Field /\ Eval(p, b) \in Field /\ Eval(p, a) \in Int /\ Eval(p, b) \in Int
  BY EvalInt
<1>2. CASE Len(p) > 0
  <2> DEFINE e == Eval(Opened(p, b), a)
             f == Eval(p, a)
             g == Eval(p, b)
  <2>1. Opened(p, b) \in Poly /\ Cong((a - b) * e, f - g)
    BY <1>2, OpenedFacts
  <2>2. e \in Int /\ f \in Int /\ g \in Int /\ f \in Field /\ g \in Field
    BY <1>1, <2>1, EvalInt
  <2> HIDE DEF e, f, g
  <2>3. Is(a, b) /\ Is(b, b) /\ Is(e, e) /\ Is((a - b) * e, f - g) /\ Is(g, g)
    <3>1. (a - b) * e \in Int /\ f - g \in Int
      BY <2>2
    <3>2. QED
      BY <2>1, <2>2, <3>1, IsItself DEF Is
  <2>4. Is((a - b) * e, (b - b) * e)
    BY <2>3, IsMinus, IsMul
  <2>5. (b - b) * e = 0 /\ (f - g) + g = f /\ 0 + g = g
    <3>1. b - b = 0 /\ 0 * e = 0
      BY <2>2
    <3>2. QED
      BY <2>2, <3>1
  <2>6. Is(f - g, 0)
    BY <2>3, <2>4, <2>5, IsBack, IsChain
  <2>7. Is((f - g) + g, 0 + g)
    BY <2>3, <2>6, IsPlus
  <2>8. Cong(f, g)
    BY <2>5, <2>7 DEF Is
  <2>9. QED
    BY <2>2, <2>8, CongIsEqual DEF f, g
<1>3. CASE ~(Len(p) > 0)
  <2>1. Len(p) = 0 /\ 1 \in Nat \ {0} /\ 1 > Len(p)
    BY <1>3, PolyFacts
  <2>2. QED
    BY <2>1, SufStep
<1>4. QED
  BY <1>2, <1>3

LEMMA OpeningIs ==
  ASSUME NEW p \in Poly, Len(p) > 0, NEW z \in Int, NEW x \in Int
  PROVE  /\ Is((x - z) * Eval(Opened(p, z), x), Eval(p, x) - Eval(p, z))
         /\ Eval(Opened(p, z), x) \in Field /\ Eval(Opened(p, z), x) \in Int /\ Eval(p, x) \in Int /\ Eval(p, z) \in Int
<1>1. Opened(p, z) \in Poly /\ Cong((x - z) * Eval(Opened(p, z), x), Eval(p, x) - Eval(p, z))
  BY OpenedFacts
<1>2. /\ Eval(Opened(p, z), x) \in Int /\ Eval(Opened(p, z), x) \in Field /\ Eval(p, x) \in Int /\ Eval(p, z) \in Int
  BY <1>1, EvalInt
<1>3. (x - z) * Eval(Opened(p, z), x) \in Int /\ Eval(p, x) - Eval(p, z) \in Int
  BY <1>2
<1>4. QED
  BY <1>1, <1>2, <1>3 DEF Is

\* The value at zeta OMEGA.
LEMMA TurnedFacts ==
  ASSUME Typed
  PROVE  LET t == (challenge.zeta * OMEGA) % PRIME
         IN /\ t \in Field /\ t \in Int /\ Is(t, challenge.zeta * OMEGA)
            /\ Eval(GrandProduct, OMEGA * challenge.zeta) = Eval(GrandProduct, t)
<1> DEFINE zeta == challenge.zeta
           t == (zeta * OMEGA) % PRIME
<1>1. zeta \in Int /\ OMEGA \in Int
  BY ZetaFacts
<1> HIDE DEF zeta
<1>2. t \in Field /\ t \in Int /\ Cong(t, zeta * OMEGA) /\ zeta * OMEGA = OMEGA * zeta /\ zeta * OMEGA \in Int
  BY <1>1, FieldOps
<1> HIDE DEF t
<1>3. Cong(OMEGA * zeta, t) /\ OMEGA * zeta \in Int
  BY <1>2, CongSym
<1>4. Eval(GrandProduct, OMEGA * zeta) = Eval(GrandProduct, t)
  BY <1>2, <1>3, GrandProductFacts, EvalOfCong
<1>5. QED
  BY <1>2, <1>4 DEF Is, t, zeta

LEMMA ProvedFacts == ASSUME Typed PROVE Proved \in Proofs
<1>1. tau \in Int /\ challenge.zeta \in Int
  BY TypedFacts, ZetaFacts
<1> DEFINE t == (challenge.zeta * OMEGA) % PRIME
<1>2. t \in Int
  BY TurnedFacts
<1> HIDE DEF t
<1>3. \A w \in Wires : Wire(w) \in Poly /\ Permutation[w] \in Poly
  BY WireFacts, SetupFacts
<1>4. /\ Wire(0) \in Poly /\ Wire(1) \in Poly /\ Wire(2) \in Poly /\ Permutation[0] \in Poly /\ Permutation[1] \in Poly
      /\ GrandProduct \in Poly
  BY <1>3, GrandProductFacts DEF Wires
<1>5. Part(Quotient, 0) \in Poly /\ Part(Quotient, 1) \in Poly /\ Part(Quotient, 2) \in Poly
  BY <1>1, QuotientFacts, PartsFacts DEF Takes
<1>6. ProverBatch \in Poly
  BY <1>1, BatchTakes DEF Takes
<1>7. Opened(ProverBatch, challenge.zeta) \in Poly /\ Opened(GrandProduct, t) \in Poly
  BY <1>1, <1>2, <1>4, <1>6, OpenedIsPoly
<1>8. /\ Proved["L_COM"] \in Field /\ Proved["R_COM"] \in Field /\ Proved["O_COM"] \in Field
      /\ Proved["H_0"] \in Field /\ Proved["H_1"] \in Field /\ Proved["H_2"] \in Field
      /\ Proved["GRAND_PRODUCT"] \in Field /\ Proved["BATCH_OPENING_AT_Z"] \in Field
      /\ Proved["OPENING_AT_Z_OMEGA"] \in Field
  BY <1>1, <1>4, <1>5, <1>7, ProvedIs, EvalInt DEF t
<1>9. /\ Proved["L_AT_Z"] \in Field /\ Proved["R_AT_Z"] \in Field /\ Proved["O_AT_Z"] \in Field
      /\ Proved["S1_AT_Z"] \in Field /\ Proved["S2_AT_Z"] \in Field /\ Proved["GRAND_PRODUCT_AT_Z_OMEGA"] \in Field
  BY <1>1, <1>2, <1>4, ProvedIs, EvalInt DEF t
<1>10. \A p \in Points \cup Scalars : Proved[p] \in Field
  BY <1>8, <1>9 DEF Points, Scalars
<1>11. QED
  BY <1>10, ProvedIs DEF Proofs

\* The contract's two multipliers are the prover's.
LEMMA SameMultipliers ==
  ASSUME Typed, NEW pf \in Proofs
  PROVE  /\ Is(PermutationScalars(pf, challenge).s1, S3Weight(pf))
         /\ ~InDomain(challenge.zeta) => Is(PermutationScalars(pf, challenge).s2, ZWeight(pf))
<1> DEFINE al == challenge.alpha
           be == challenge.beta
           ga == challenge.gamma
           zeta == challenge.zeta
           start == Eval(FirstRow, zeta)
           zw == pf["GRAND_PRODUCT_AT_Z_OMEGA"]
           l == pf["L_AT_Z"]
           rr == pf["R_AT_Z"]
           o == pf["O_AT_Z"]
           s1 == pf["S1_AT_Z"]
           s2 == pf["S2_AT_Z"]
           a1 == Put(l, s1)
           a2 == Put(rr, s2)
           b1 == Put(l, zeta)
           b2 == Put(rr, SHIFT * zeta)
           b3 == Put(o, (SHIFT * SHIFT) * zeta)
           k1 == PermutationScalars(pf, challenge).s1
           k2 == PermutationScalars(pf, challenge).s2
           aa == alpha2Lagrange(challenge)
<1>0. challenge \in Challenges
  BY TypedFacts
<1>1. Is(k1, zw * be * (s1 * be + l + ga) * (s2 * be + rr + ga) * al)
      /\ Is(k2, (0 - (be * zeta + l + ga) * (be * zeta * SHIFT + rr + ga) * (be * zeta * (SHIFT * SHIFT) + o + ga)) * al + aa)
  BY <1>0, ScalarsFacts
<1>2. al \in Int /\ be \in Int /\ ga \in Int /\ zeta \in Int /\ start \in Int /\ SHIFT \in Int
  BY TypedFacts, ZetaFacts, FirstRowInt
<1>3. zw \in Int /\ l \in Int /\ rr \in Int /\ o \in Int /\ s1 \in Int /\ s2 \in Int
  BY ProofFacts, FieldIsInt
<1>4. aa \in Int /\ (~InDomain(zeta) => Is(aa, al * al * start))
  BY <1>0, Alpha2Facts
<1>5. S3Weight(pf) = al * ((a1 * a2) * (zw * be)) /\ ZWeight(pf) = (al * al) * start - al * (b1 * (b2 * b3))
  BY DEF S3Weight, ZWeight
<1>6. \A s, t \in Int : Put(s, t) \in Int /\ Put(s, t) = t * be + s + ga /\ Put(s, t) = s + be * t + ga
  BY PutInt
<1> HIDE DEF al, be, ga, zeta, start, zw, l, rr, o, s1, s2, k1, k2, aa
<1>7. a1 \in Int /\ a2 \in Int /\ a1 = s1 * be + l + ga /\ a2 = s2 * be + rr + ga
  BY <1>3, <1>6
<1>8. b1 \in Int /\ b1 = be * zeta + l + ga
  <2>1. b1 \in Int /\ b1 = zeta * be + l + ga
    BY <1>2, <1>3, <1>6
  <2>2. QED
    BY <1>2, <2>1
<1>9. b2 \in Int /\ b2 = be * zeta * SHIFT + rr + ga
  <2>1. SHIFT * zeta \in Int
    BY <1>2
  <2>2. b2 \in Int /\ b2 = (SHIFT * zeta) * be + rr + ga
    BY <1>3, <1>6, <2>1
  <2>3. (SHIFT * zeta) * be = be * zeta * SHIFT
    BY <1>2
  <2>4. QED
    BY <2>2, <2>3
<1>10. b3 \in Int /\ b3 = be * zeta * (SHIFT * SHIFT) + o + ga
  <2>1. (SHIFT * SHIFT) * zeta \in Int
    BY <1>2
  <2>2. b3 \in Int /\ b3 = ((SHIFT * SHIFT) * zeta) * be + o + ga
    BY <1>3, <1>6, <2>1
  <2>3. ((SHIFT * SHIFT) * zeta) * be = be * zeta * (SHIFT * SHIFT)
    BY <1>2
  <2>4. QED
    BY <2>2, <2>3
<1>11. Is(k1, zw * be * a1 * a2 * al) /\ Is(k2, (0 - b1 * b2 * b3) * al + aa)
  BY <1>1, <1>7, <1>8, <1>9, <1>10
<1> HIDE DEF a1, a2, b1, b2, b3
<1>12. zw * be * a1 * a2 * al = al * ((a1 * a2) * (zw * be))
  BY <1>2, <1>3, <1>7
<1>13. Is(k1, S3Weight(pf))
  BY <1>5, <1>11, <1>12
<1>14. ASSUME ~InDomain(zeta) PROVE Is(k2, ZWeight(pf))
  <2>1. (0 - b1 * b2 * b3) * al + al * al * start = (al * al) * start - al * (b1 * (b2 * b3))
    <3> DEFINE d == b1 * b2 * b3
    <3>1. d \in Int /\ b1 * (b2 * b3) = d
      BY <1>8, <1>9, <1>10
    <3> HIDE DEF d
    <3> DEFINE e == al * al * start
    <3>2. e \in Int
      BY <1>2
    <3>3. (0 - d) * al + e = e - al * d
      <4> HIDE DEF e
      <4>1. QED
        BY <1>2, <3>1, <3>2
    <3>4. QED
      BY <3>1, <3>3 DEF d
  <2>2. Is((0 - b1 * b2 * b3) * al, (0 - b1 * b2 * b3) * al)
    BY <1>2, <1>8, <1>9, <1>10, IsItself
  <2>3. Is((0 - b1 * b2 * b3) * al + aa, (0 - b1 * b2 * b3) * al + al * al * start)
    BY <1>4, <1>14, <2>2, IsPlus
  <2>4. QED
    BY <1>5, <1>11, <2>1, <2>3, IsChain
<1>15. QED
  BY <1>13, <1>14 DEF k1, k2, zeta

-----------------------------------------------------------------------------
(* What the prover sends, put into the equation. *)

\* The residual of an unchanged proof is the linearized polynomial at zeta,
\* less its claimed value.
LEMMA ProvedBalances ==
  ASSUME Typed, ~InDomain(challenge.zeta), NEW claim \in Int
  PROVE  Is(Residual(Proved, challenge, challenge.r, claim), ProverLinearAt(challenge.zeta) - claim)
<1> DEFINE l == Proved["L_AT_Z"]
           rr == Proved["R_AT_Z"]
           o == Proved["O_AT_Z"]
           s1 == Proved["S1_AT_Z"]
           s2 == Proved["S2_AT_Z"]
           zw == Proved["GRAND_PRODUCT_AT_Z_OMEGA"]
           lt == Proved["L_COM"]
           rt == Proved["R_COM"]
           ot == Proved["O_COM"]
           h0 == Proved["H_0"]
           h1 == Proved["H_1"]
           h2 == Proved["H_2"]
           zt == Proved["GRAND_PRODUCT"]
           bo == Proved["BATCH_OPENING_AT_Z"]
           oo == Proved["OPENING_AT_Z_OMEGA"]
           p0 == VK_S(0)
           p1 == VK_S(1)
           p2 == VK_S(2)
           w1 == S3Weight(Proved)
           w2 == ZWeight(Proved)
           k1 == PermutationScalars(Proved, challenge).s1
           k2 == PermutationScalars(Proved, challenge).s2
           u == challenge.u
           r == challenge.r
           zeta == challenge.zeta
           y == expmod(challenge.zeta, N + 2)
           v == Zz(challenge.zeta)
           r2 == expmod(challenge.r, 2)
           r3 == expmod(challenge.r, 3)
           r4 == expmod(challenge.r, 4)
           r5 == expmod(challenge.r, 5)
           g == LinearGates(Proved, tau)
           lz == ProverLinearAt(challenge.zeta)
           bt == Eval(ProverBatch, tau)
           bz == Eval(ProverBatch, challenge.zeta)
           t == (zeta * OMEGA) % PRIME
           gg == VK["ql"] * l + VK["qr"] * rr + VK["qo"] * o + VK["qm"] * (l * rr) + VK["qk"]
           rest(x, e) == (x + p2 * e + r4 * p0 + r5 * p1)
                         - (claim + r * l + r2 * rr + r3 * o + r4 * s1 + r5 * s2 + zw * u)
           points(e, f, h) == r * lt + r2 * rt + r3 * ot + (0 - v) * h0 + (0 - y * v) * h1 + (0 - y * y * v) * h2
                              + (e + u) * zt + f + h
<1>1. /\ tau \in Field /\ tau \in Int /\ challenge \in Challenges /\ Proved \in Proofs /\ zeta \in Int /\ zeta \in Field
      /\ u \in Int /\ r \in Int /\ r \in Nat /\ OMEGA \in Int /\ zeta \in Nat
  BY TypedFacts, ZetaFacts, ProvedFacts
<1>2. /\ l \in Int /\ rr \in Int /\ o \in Int /\ s1 \in Int /\ s2 \in Int /\ zw \in Int /\ lt \in Int /\ rt \in Int /\ ot \in Int
      /\ h0 \in Int /\ h1 \in Int /\ h2 \in Int /\ zt \in Int /\ bo \in Int /\ oo \in Int
  BY <1>1, ProofFacts, FieldIsInt
<1>3. /\ VK["ql"] \in Int /\ VK["qr"] \in Int /\ VK["qo"] \in Int /\ VK["qm"] \in Int /\ VK["qk"] \in Int
      /\ p0 \in Int /\ p1 \in Int /\ p2 \in Int
  BY <1>1, VKFacts
<1>4. y \in Int /\ v \in Int /\ r2 \in Int /\ r3 \in Int /\ r4 \in Int /\ r5 \in Int
  <2>1. N + 2 \in Nat /\ 2 \in Nat /\ 3 \in Nat /\ 4 \in Nat /\ 5 \in Nat
    BY SizeFacts
  <2>2. QED
    BY <1>1, <2>1, ModPowInt, ZzFacts
<1>5. Is(k1, w1) /\ Is(k2, w2)
  BY <1>1, SameMultipliers
<1>6. gg = g /\ g \in Int
  <2>1. /\ VK["ql"] = Eval(Selector["ql"], tau) /\ VK["qr"] = Eval(Selector["qr"], tau)
        /\ VK["qo"] = Eval(Selector["qo"], tau) /\ VK["qm"] = Eval(Selector["qm"], tau)
        /\ VK["qk"] = Eval(Selector["qk"], tau)
    BY SetupFacts DEF SelectorNames
  <2> DEFINE a == VK["ql"]
             b == VK["qr"]
             c == VK["qo"]
             d == VK["qm"]
             e == VK["qk"]
  <2>2. g = l * a + (rr * b + (o * c + ((l * rr) * d + e)))
    BY <2>1 DEF LinearGates
  <2>3. a \in Int /\ b \in Int /\ c \in Int /\ d \in Int /\ e \in Int
    BY <1>3
  <2> HIDE DEF g, a, b, c, d, e, l, rr, o
  <2>4. a * l = l * a /\ b * rr = rr * b /\ c * o = o * c /\ d * (l * rr) = (l * rr) * d
        /\ l * a \in Int /\ rr * b \in Int /\ o * c \in Int /\ (l * rr) * d \in Int
    BY <1>2, <2>3
  <2>5. a * l + b * rr + c * o + d * (l * rr) + e = l * a + (rr * b + (o * c + ((l * rr) * d + e)))
        /\ l * a + (rr * b + (o * c + ((l * rr) * d + e))) \in Int
    BY <2>3, <2>4
  <2>6. QED
    BY <2>2, <2>5 DEF a, b, c, d, e
\* The openings.
<1>7. Is((zeta - tau) * bo, bz - bt) /\ bz \in Int /\ bt \in Int
  <2> DEFINE b == Eval(Opened(ProverBatch, zeta), tau)
  <2>1. ProverBatch \in Poly /\ Len(ProverBatch) > 0
    <3>1. Takes(ProverBatch, N + 3, zeta, BatchAt(zeta)) /\ N + 3 > 0
      BY <1>1, BatchTakes, SizeFacts
    <3>2. QED
      BY <3>1 DEF Takes
  <2>2. Is((tau - zeta) * b, bt - bz) /\ b \in Int /\ bt \in Int /\ bz \in Int /\ bo = b
    BY <1>1, <2>1, OpeningIs, ProvedIs
  <2> HIDE DEF b, bt, bz, bo, zeta
  <2>3. Is(0 - (tau - zeta) * b, 0 - (bt - bz))
    <3>1. Is(0, 0)
      BY IsItself
    <3>2. QED
      BY <2>2, <3>1, IsMinus
  <2>4. 0 - (tau - zeta) * b = (zeta - tau) * b /\ 0 - (bt - bz) = bz - bt
    BY <1>1, <2>2
  <2>5. QED
    BY <2>2, <2>3, <2>4
<1>8. Is((u * (zeta * OMEGA) - u * tau) * oo, u * zw - u * zt)
  <2> DEFINE b == Eval(Opened(GrandProduct, t), tau)
  <2>1. t \in Int /\ Is(t, zeta * OMEGA)
    BY TurnedFacts
  <2>2. GrandProduct \in Poly /\ Len(GrandProduct) > 0
    BY GrandProductFacts, SizeFacts
  <2>3. Eval(GrandProduct, tau) = zt /\ Eval(GrandProduct, t) = zw /\ oo = b
    BY ProvedIs
  <2>4. Is((tau - t) * oo, zt - zw)
    <3> HIDE DEF t, zt, zw, oo
    <3>1. QED
      BY <1>1, <2>1, <2>2, <2>3, OpeningIs
  <2> HIDE DEF t, zt, zw, oo, zeta, u
  <2>5. Is(u, u) /\ Is(tau, tau) /\ Is(oo, oo) /\ Is(zeta * OMEGA, t)
    BY <1>1, <1>2, <2>1, IsItself, IsBack
  <2>6. Is((u * (zeta * OMEGA) - u * tau) * oo, (u * t - u * tau) * oo)
    BY <2>5, IsMul, IsMinus, Zenon
  <2>7. (u * t - u * tau) * oo = (0 - u) * ((tau - t) * oo)
    <3>1. u * t - u * tau = (0 - u) * (tau - t)
      BY <1>1, <2>1
    <3>2. ((0 - u) * (tau - t)) * oo = (0 - u) * ((tau - t) * oo)
      <4> DEFINE a == 0 - u
                 b2 == tau - t
      <4>1. a \in Int /\ b2 \in Int
        BY <1>1, <2>1
      <4> HIDE DEF a, b2
      <4>2. (a * b2) * oo = a * (b2 * oo)
        BY <1>2, <4>1
      <4>3. QED
        BY <4>2 DEF a, b2
    <3>3. QED
      BY <3>1, <3>2
  <2>8. Is((0 - u) * ((tau - t) * oo), (0 - u) * (zt - zw))
    <3>1. Is(0, 0)
      BY IsItself
    <3>2. Is(0 - u, 0 - u)
      BY <2>5, <3>1, IsMinus
    <3>3. QED
      BY <2>4, <3>2, IsMul
  <2>9. (0 - u) * (zt - zw) = u * zw - u * zt
    BY <1>1, <1>2
  <2>10. QED
    BY <2>6, <2>7, <2>8, <2>9, IsChain
\* The batch.
<1>9. Is(bt, (g + ((w1 * p2 + w2 * zt) + (0 - v) * (h0 + (y * h1 + (y * y) * h2))))
             + (r * lt + (r2 * rt + (r3 * ot + (r4 * p0 + r5 * p1)))))
  <2>1. Is(bt, BatchAt(tau))
    BY <1>1, BatchTakes DEF Takes
  <2>2. /\ Eval(Wire(0), tau) = lt /\ Eval(Wire(1), tau) = rt /\ Eval(Wire(2), tau) = ot /\ Eval(GrandProduct, tau) = zt
        /\ Eval(Part(Quotient, 0), tau) = h0 /\ Eval(Part(Quotient, 1), tau) = h1 /\ Eval(Part(Quotient, 2), tau) = h2
    BY ProvedIs
  <2>3. Eval(Permutation[0], tau) = p0 /\ Eval(Permutation[1], tau) = p1 /\ Eval(Permutation[2], tau) = p2
    BY SetupFacts DEF Wires
  <2>4. QED
    BY <2>1, <2>2, <2>3 DEF BatchAt, ProverLinearAt, LinearAt, QuotientAt, Parts, WiresAt
<1>10. Is(bz, lz + (r * l + (r2 * rr + (r3 * o + (r4 * s1 + r5 * s2))))) /\ lz \in Int
  <2>1. Is(bz, BatchAt(zeta)) /\ lz \in Int
    BY <1>1, BatchTakes DEF Takes
  <2>2. /\ Eval(Wire(0), zeta) = l /\ Eval(Wire(1), zeta) = rr /\ Eval(Wire(2), zeta) = o
        /\ Eval(Permutation[0], zeta) = s1 /\ Eval(Permutation[1], zeta) = s2
    BY ProvedIs
  <2>3. QED
    BY <2>1, <2>2 DEF BatchAt, WiresAt
<1>11. Residual(Proved, challenge, challenge.r, claim)
       = rest(gg, k1) + points(k2, (zeta - tau) * bo, (u * (zeta * OMEGA) - u * tau) * oo)
  BY DEF Residual, Rest, Weights
<1> DEFINE f == bz - bt
           h == u * zw - u * zt
<1>12. w1 \in Int /\ w2 \in Int
  BY <1>5 DEF Is
<1> HIDE DEF l, rr, o, s1, s2, zw, lt, rt, ot, h0, h1, h2, zt, bo, oo, p0, p1, p2, w1, w2, k1, k2, u, r, zeta, y, v, r2, r3, r4, r5, g, lz, bt, bz, t, gg, f, h
<1>13. Is((zeta - tau) * bo, f) /\ Is((u * (zeta * OMEGA) - u * tau) * oo, h) /\ f \in Int /\ h \in Int
  <2>1. Is((zeta - tau) * bo, f) /\ Is((u * (zeta * OMEGA) - u * tau) * oo, h)
    BY <1>7, <1>8 DEF f, h
  <2>2. QED
    BY <2>1 DEF Is
<1>14. Is(rest(gg, k1), rest(g, w1))
  <2> DEFINE a == r4 * p0
             b == r5 * p1
             c == claim + r * l + r2 * rr + r3 * o + r4 * s1 + r5 * s2 + zw * u
  <2>1. a \in Int /\ b \in Int /\ c \in Int
    BY <1>1, <1>2, <1>3, <1>4
  <2> HIDE DEF a, b, c
  <2>2. Is(g, g) /\ Is(p2, p2) /\ Is(a, a) /\ Is(b, b) /\ Is(c, c)
    BY <1>3, <1>6, <2>1, IsItself
  <2>3. Is((g + p2 * k1 + a + b) - c, (g + p2 * w1 + a + b) - c)
    <3>1. Is(p2 * k1, p2 * w1)
      BY <1>5, <2>2, IsMul
    <3>2. Is(g + p2 * k1, g + p2 * w1)
      BY <2>2, <3>1, IsPlus
    <3>3. Is(g + p2 * k1 + a + b, g + p2 * w1 + a + b)
      BY <2>2, <3>2, IsPlus
    <3>4. QED
      BY <2>2, <3>3, IsMinus
  <2>4. QED
    BY <1>6, <2>3 DEF a, b, c
<1>15. Is(points(k2, (zeta - tau) * bo, (u * (zeta * OMEGA) - u * tau) * oo), points(w2, f, h))
  <2> DEFINE a == r * lt + r2 * rt + r3 * ot + (0 - v) * h0 + (0 - y * v) * h1 + (0 - y * y * v) * h2
  <2>1. a \in Int
    <3>1. (0 - v) \in Int /\ (0 - y * v) \in Int /\ (0 - y * y * v) \in Int
      BY <1>4
    <3>2. (0 - v) * h0 \in Int /\ (0 - y * v) * h1 \in Int /\ (0 - y * y * v) * h2 \in Int
      BY <1>2, <3>1
    <3>3. r * lt \in Int /\ r2 * rt \in Int /\ r3 * ot \in Int
      BY <1>1, <1>2, <1>4
    <3>4. QED
      BY <3>2, <3>3
  <2> HIDE DEF a
  <2>2. Is(a, a) /\ Is(u, u) /\ Is(zt, zt)
    BY <1>1, <1>2, <2>1, IsItself
  <2> DEFINE bb == (zeta - tau) * bo
             cc == (u * (zeta * OMEGA) - u * tau) * oo
  <2>3. Is(bb, f) /\ Is(cc, h)
    BY <1>13
  <2> HIDE DEF bb, cc
  <2>4. Is((k2 + u) * zt, (w2 + u) * zt)
    BY <1>5, <2>2, IsPlus, IsMul, Zenon
  <2>5. Is(a + (k2 + u) * zt + bb + cc, a + (w2 + u) * zt + f + h)
    BY <2>2, <2>3, <2>4, IsPlus, Zenon
  <2>6. QED
    BY <2>5 DEF a, bb, cc
<1>16. Is(Residual(Proved, challenge, challenge.r, claim), rest(g, w1) + points(w2, f, h))
  <2> HIDE DEF rest, points
  <2>1. QED
    BY <1>11, <1>14, <1>15, IsPlus
\* Nothing but the linearized value is left.
<1> DEFINE q0 == v * h0
           q1 == y * v * h1
           q2 == y * y * v * h2
           m1 == w1 * p2
           m2 == w2 * zt
           m3 == u * zt
           m4 == u * zw
           a1 == r * lt
           a2 == r2 * rt
           a3 == r3 * ot
           a4 == r4 * p0
           a5 == r5 * p1
           b1 == r * l
           b2 == r2 * rr
           b3 == r3 * o
           b4 == r4 * s1
           b5 == r5 * s2
           tt == (g + ((m1 + m2) - (q0 + q1 + q2))) + (a1 + (a2 + (a3 + (a4 + a5))))
           zz == lz + (b1 + (b2 + (b3 + (b4 + b5))))
<1>17. /\ q0 \in Int /\ q1 \in Int /\ q2 \in Int /\ m1 \in Int /\ m2 \in Int /\ m3 \in Int /\ m4 \in Int
       /\ a1 \in Int /\ a2 \in Int /\ a3 \in Int /\ a4 \in Int /\ a5 \in Int
       /\ b1 \in Int /\ b2 \in Int /\ b3 \in Int /\ b4 \in Int /\ b5 \in Int
  BY <1>1, <1>2, <1>3, <1>4, <1>12
<1>18. rest(g, w1) = (g + m1 + a4 + a5) - (claim + b1 + b2 + b3 + b4 + b5 + m4)
  <2>1. p2 * w1 = m1 /\ zw * u = m4
    BY <1>1, <1>2, <1>3, <1>12
  <2> HIDE DEF m1, m4
  <2>2. QED
    BY <2>1
<1>19. points(w2, f, h) = a1 + a2 + a3 + (0 - q0) + (0 - q1) + (0 - q2) + (m2 + m3) + (bz - bt) + (m4 - m3)
  <2>1. (0 - v) * h0 = 0 - q0
    BY <1>2, <1>4
  <2>2. (0 - y * v) * h1 = 0 - q1
    <3> DEFINE x == y * v
    <3>1. x \in Int
      BY <1>4
    <3>2. q1 = x * h1
      OBVIOUS
    <3> HIDE DEF x, q1
    <3>3. (0 - x) * h1 = 0 - q1
      BY <1>2, <3>1, <3>2
    <3>4. QED
      BY <3>3 DEF x
  <2>3. (0 - y * y * v) * h2 = 0 - q2
    <3> DEFINE x == y * y * v
    <3>1. x \in Int
      BY <1>4
    <3>2. q2 = x * h2
      OBVIOUS
    <3> HIDE DEF x, q2
    <3>3. (0 - x) * h2 = 0 - q2
      BY <1>2, <3>1, <3>2
    <3>4. QED
      BY <3>3 DEF x
  <2>4. (w2 + u) * zt = m2 + m3
    BY <1>1, <1>2, <1>12
  <2>5. f = bz - bt /\ h = m4 - m3
    BY DEF f, h
  <2> HIDE DEF q0, q1, q2, m2, m3, m4
  <2>6. QED
    BY <2>1, <2>2, <2>3, <2>4, <2>5
<1>20. Is(bt, tt) /\ Is(bz, zz)
  <2>1. (0 - v) * (h0 + (y * h1 + (y * y) * h2)) = 0 - (q0 + q1 + q2)
    <3> DEFINE x1 == y * h1
               x2 == (y * y) * h2
    <3>1. x1 \in Int /\ x2 \in Int
      BY <1>2, <1>4
    <3>2. q1 = v * x1
      BY <1>2, <1>4
    <3>3. q2 = v * x2
      <4> DEFINE x == y * y
      <4>1. x \in Int
        BY <1>4
      <4>2. q2 = x * v * h2 /\ x2 = x * h2
        OBVIOUS
      <4> HIDE DEF x, q2, x2
      <4>3. QED
        BY <1>2, <1>4, <4>1, <4>2
    <3> HIDE DEF x1, x2, q1, q2
    <3>4. (0 - v) * (h0 + (x1 + x2)) = 0 - (q0 + q1 + q2)
      BY <1>2, <1>4, <3>1, <3>2, <3>3
    <3>5. QED
      BY <3>4 DEF x1, x2
  <2> DEFINE x == (0 - v) * (h0 + (y * h1 + (y * y) * h2))
  <2>2. (m1 + m2) + x = (m1 + m2) - (q0 + q1 + q2)
    <3>1. x = 0 - (q0 + q1 + q2)
      BY <2>1
    <3> HIDE DEF x, m1, m2, q0, q1, q2
    <3>2. QED
      BY <1>17, <3>1
  <2>3. QED
    BY <1>9, <1>10, <2>2
<1> HIDE DEF rest, points, q0, q1, q2, m1, m2, m3, m4, a1, a2, a3, a4, a5, b1, b2, b3, b4, b5
<1> DEFINE k == (g + m1 + a4 + a5) - (claim + b1 + b2 + b3 + b4 + b5 + m4)
                + (a1 + a2 + a3 + (0 - q0) + (0 - q1) + (0 - q2) + (m2 + m3) + (m4 - m3))
<1>21. rest(g, w1) + points(w2, f, h) = k + (bz - bt) /\ k \in Int
  BY <1>6, <1>7, <1>17, <1>18, <1>19
<1>22. tt \in Int /\ zz \in Int /\ k + (zz - tt) = lz - claim
  BY <1>6, <1>10, <1>17
<1> HIDE DEF k, tt, zz
<1>23. Is(k + (bz - bt), k + (zz - tt))
  <2>1. Is(k, k)
    BY <1>21, IsItself
  <2>2. QED
    BY <1>20, <2>1, IsPlus, IsMinus, Zenon
<1>24. Is(Residual(Proved, challenge, challenge.r, claim), lz - claim)
  BY <1>16, <1>21, <1>22, <1>23, IsChain
<1>25. QED
  BY <1>24 DEF lz

\* Less what the contract claims, it is the identity less the quotient times
\* what vanishes on the domain.
LEMMA ClaimBalances ==
  ASSUME Typed, ~InDomain(challenge.zeta)
  PROVE  /\ Is(ProverLinearAt(challenge.zeta) - Claim(Proved, inst.public, challenge),
               WholeAt(challenge.zeta) - Zz(challenge.zeta) * Eval(Quotient, challenge.zeta))
         /\ Claim(Proved, inst.public, challenge) \in Int
<1> DEFINE l == Proved["L_AT_Z"]
           rr == Proved["R_AT_Z"]
           o == Proved["O_AT_Z"]
           s1 == Proved["S1_AT_Z"]
           s2 == Proved["S2_AT_Z"]
           zw == Proved["GRAND_PRODUCT_AT_Z_OMEGA"]
           Z == Eval(GrandProduct, challenge.zeta)
           S3 == Eval(Permutation[2], challenge.zeta)
           start == Eval(FirstRow, challenge.zeta)
           pi == PI(inst.public, challenge.zeta)
           pp == Eval(PublicPoly, challenge.zeta)
           aa == alpha2Lagrange(challenge)
           al == challenge.alpha
           be == challenge.beta
           ga == challenge.gamma
           zeta == challenge.zeta
           v == Zz(challenge.zeta)
           q == Eval(Quotient, challenge.zeta)
           H == QuotientAt(challenge.zeta)
           a1 == Put(l, s1)
           a2 == Put(rr, s2)
           a3 == Put(o, S3)
           b1 == Put(l, zeta)
           b2 == Put(rr, SHIFT * zeta)
           b3 == Put(o, (SHIFT * SHIFT) * zeta)
           lg == LinearGates(Proved, zeta)
           gp == GatesAt(zeta, l, rr, o, pp)
           c == Claim(Proved, inst.public, challenge)
           b == b1 * (b2 * b3)
<1>1. /\ challenge \in Challenges /\ Proved \in Proofs /\ inst.public \in PublicInputs
      /\ zeta \in Int /\ zeta \in Field /\ zeta \in Nat /\ al \in Int /\ be \in Int /\ ga \in Int /\ SHIFT \in Int /\ OMEGA \in Int
  BY TypedFacts, ZetaFacts, ProvedFacts
<1>2. l \in Int /\ rr \in Int /\ o \in Int /\ s1 \in Int /\ s2 \in Int /\ zw \in Int
  BY <1>1, ProofFacts, FieldIsInt
<1>3. start \in Int /\ S3 \in Int /\ Z \in Int
  <2>1. Takes(Permutation[2], N, zeta, S3) /\ Takes(GrandProduct, N + 3, zeta, Z)
    BY <1>1, SetupTakes, ProverTakes DEF Wires
  <2>2. QED
    BY <1>1, <2>1, FirstRowInt DEF Takes, Is
<1>4. pi \in Int /\ pp \in Int /\ Is(pp, pi)
  <2>1. Is(pp, pi)
    BY <1>1, PublicFacts
  <2>2. QED
    BY <2>1 DEF Is
<1>5. aa \in Int /\ Is(aa, al * al * start)
  BY <1>1, Alpha2Facts
<1>6. v \in Int
  BY <1>1, ZzFacts
<1>7. H \in Int /\ q \in Int /\ Is(H, q)
  <2>1. Quotient \in Poly /\ Len(Quotient) = 3 * N + 6
    BY QuotientFacts
  <2>2. expmod(zeta, N + 2) = Pow(zeta, N + 2)
    BY <1>1, SizeFacts, expmodIsPow
  <2>3. Is(q, H)
    BY <1>1, <2>1, <2>2, PartsFacts DEF QuotientAt
  <2>4. QED
    BY <2>3, IsBack DEF Is
<1>8. c \in Int /\ c = aa - pi - (s1 * be + ga + l) * (s2 * be + ga + rr) * (o + ga) * al * zw
  BY <1>1, ClaimFacts DEF Claim
<1>9. /\ a1 \in Int /\ a2 \in Int /\ a3 \in Int /\ b1 \in Int /\ b2 \in Int /\ b3 \in Int
      /\ a1 = s1 * be + ga + l /\ a2 = s2 * be + ga + rr /\ a3 = o + be * S3 + ga
  <2>1. \A s, t \in Int : Put(s, t) \in Int /\ Put(s, t) = s + be * t + ga /\ Put(s, t) = t * be + ga + s
    BY PutInt
  <2>2. SHIFT * zeta \in Int /\ (SHIFT * SHIFT) * zeta \in Int
    BY <1>1
  <2> HIDE DEF l, rr, o, s1, s2, be, ga, zeta, S3
  <2>3. a1 \in Int /\ a1 = s1 * be + ga + l
    BY <1>2, <2>1
  <2>4. a2 \in Int /\ a2 = s2 * be + ga + rr
    BY <1>2, <2>1
  <2>5. a3 \in Int /\ a3 = o + be * S3 + ga
    BY <1>2, <1>3, <2>1
  <2>6. b1 \in Int /\ b2 \in Int /\ b3 \in Int
    BY <1>1, <1>2, <2>1, <2>2
  <2>7. QED
    BY <2>3, <2>4, <2>5, <2>6
<1>10. lg \in Int /\ gp = lg + pp
  <2>1. \A s \in SelectorNames : Eval(Selector[s], zeta) \in Int
    BY <1>1, SetupFacts, EvalInt
  <2> DEFINE d1 == Eval(Selector["ql"], zeta)
             d2 == Eval(Selector["qr"], zeta)
             d3 == Eval(Selector["qo"], zeta)
             d4 == Eval(Selector["qm"], zeta)
             d5 == Eval(Selector["qk"], zeta)
  <2>2. d1 \in Int /\ d2 \in Int /\ d3 \in Int /\ d4 \in Int /\ d5 \in Int
    BY <2>1 DEF SelectorNames
  <2>3. lg = l * d1 + (rr * d2 + (o * d3 + ((l * rr) * d4 + d5)))
    BY DEF LinearGates
  <2>4. gp = d1 * l + (d2 * rr + (d3 * o + (d4 * (l * rr) + (d5 + pp))))
    BY DEF GatesAt
  <2> HIDE DEF d1, d2, d3, d4, d5, l, rr, o, pp, lg, gp
  <2>5. d1 * l = l * d1 /\ d2 * rr = rr * d2 /\ d3 * o = o * d3 /\ d4 * (l * rr) = (l * rr) * d4
        /\ l * d1 \in Int /\ rr * d2 \in Int /\ o * d3 \in Int /\ (l * rr) * d4 \in Int
    BY <1>2, <2>2
  <2>6. QED
    BY <1>4, <2>2, <2>3, <2>4, <2>5
<1>11. ProverLinearAt(zeta) = lg + (((al * ((a1 * a2) * (zw * be))) * S3 + ((al * al) * start - al * b) * Z) + (0 - v) * H)
  BY DEF ProverLinearAt, LinearAt, S3Weight, ZWeight
<1>12. WholeAt(zeta) = gp + (al * ((zw * a1) * (a2 * a3) + (0 - 1) * ((Z * b1) * (b2 * b3))) + (al * al) * (start * (Z + (0 - 1))))
  <2>1. /\ Eval(Wire(0), zeta) = l /\ Eval(Wire(1), zeta) = rr /\ Eval(Wire(2), zeta) = o
        /\ Eval(Permutation[0], zeta) = s1 /\ Eval(Permutation[1], zeta) = s2
        /\ Eval(GrandProduct, (zeta * OMEGA) % PRIME) = zw
    BY ProvedIs
  <2>2. Eval(GrandProduct, OMEGA * zeta) = zw
    BY <2>1, TurnedFacts
  <2>3. QED
    BY <2>1, <2>2 DEF WholeAt, IdentityAt, NextAt, ThisAt, StartAt
<1>13. b \in Int
  BY <1>9
<1> HIDE DEF l, rr, o, s1, s2, zw, Z, S3, start, pi, pp, aa, al, be, ga, zeta, v, q, H, a1, a2, a3, b1, b2, b3, lg, gp, b, c
<1> DEFINE aaa == a1 * a2
           x == aaa * al * zw
           og == o + ga
           st == al * al * start
           vH == (0 - v) * H
           vq == (0 - v) * q
<1>14. aaa \in Int /\ x \in Int /\ og \in Int /\ st \in Int /\ vH \in Int /\ vq \in Int /\ Is(vH, vq)
  <2>1. aaa \in Int /\ og \in Int /\ st \in Int /\ vH \in Int /\ vq \in Int
    BY <1>1, <1>2, <1>3, <1>6, <1>7, <1>9
  <2>2. x \in Int
    <3> HIDE DEF aaa
    <3>1. QED
      BY <1>1, <1>2, <2>1
  <2>3. Is(0 - v, 0 - v)
    BY <1>6, IsItself
  <2>4. Is((0 - v) * H, (0 - v) * q)
    BY <1>7, <2>3, IsMul
  <2>5. QED
    BY <2>1, <2>2, <2>4
<1>15. c = aa - pi - x * og
  <2>1. c = aa - pi - aaa * og * al * zw
    BY <1>8, <1>9
  <2>2. aaa * og * al * zw = x * og
    <3> HIDE DEF aaa, og
    <3>1. QED
      BY <1>1, <1>2, <1>14
  <2>3. QED
    BY <2>1, <2>2
<1>16. (al * (aaa * (zw * be))) * S3 = x * (be * S3)
  <2> HIDE DEF aaa
  <2> DEFINE f == aaa * (zw * be)
  <2>1. al * f = x * be
    BY <1>1, <1>2, <1>14
  <2>2. (x * be) * S3 = x * (be * S3)
    <3> HIDE DEF x
    <3>1. QED
      BY <1>1, <1>3, <1>14
  <2>3. QED
    BY <2>1, <2>2
<1>17. (zw * a1) * (a2 * a3) = (aaa * zw) * a3
  <2>1. (zw * a1) * (a2 * a3) = zw * (a1 * (a2 * a3))
    <3> DEFINE f == a2 * a3
    <3>1. f \in Int
      BY <1>9
    <3> HIDE DEF f
    <3>2. (zw * a1) * f = zw * (a1 * f)
      BY <1>2, <1>9, <3>1
    <3>3. QED
      BY <3>2 DEF f
  <2>2. a1 * (a2 * a3) = aaa * a3
    BY <1>9
  <2> HIDE DEF aaa
  <2>3. zw * (aaa * a3) = (aaa * zw) * a3
    BY <1>2, <1>9, <1>14
  <2>4. QED
    BY <2>1, <2>2, <2>3
<1>18. al * ((aaa * zw) * a3) = x * (be * S3) + x * og
  <2> HIDE DEF aaa
  <2> DEFINE f == aaa * zw
  <2>1. f \in Int
    BY <1>2, <1>14
  <2>2. x = al * f
    BY <1>1, <1>2, <1>14
  <2> HIDE DEF f, x
  <2>3. al * (f * a3) = x * a3
    BY <1>1, <1>9, <2>1, <2>2
  <2> DEFINE g == be * S3
  <2>4. g \in Int
    BY <1>1, <1>3
  <2> HIDE DEF og
  <2>5. a3 = g + og
    BY <1>1, <1>2, <1>3, <1>9, <2>4 DEF og
  <2> HIDE DEF g
  <2>6. x * a3 = x * g + x * og
    BY <1>14, <2>4, <2>5
  <2>7. QED
    BY <2>3, <2>6 DEF f, g
<1>19. (Z * b1) * (b2 * b3) = Z * b
  <2> DEFINE f == b2 * b3
  <2>1. f \in Int /\ b = b1 * f
    BY <1>9 DEF b
  <2> HIDE DEF f
  <2>2. (Z * b1) * f = Z * b
    BY <1>3, <1>9, <2>1
  <2>3. QED
    BY <2>2 DEF f
<1> HIDE DEF aaa, x, og, st, vH, vq
<1> DEFINE n1 == x * (be * S3)
           n2 == x * og
           n3 == al * (Z * b)
           n4 == st * Z
<1>20. n1 \in Int /\ n2 \in Int /\ n3 \in Int /\ n4 \in Int
  BY <1>1, <1>3, <1>13, <1>14
<1>21. ((al * al) * start - al * b) * Z = n4 - n3
  <2> DEFINE f == al * b
  <2>1. f \in Int /\ n3 = f * Z
    BY <1>1, <1>3, <1>13
  <2>2. (al * al) * start = st
    BY DEF st
  <2> HIDE DEF f, n3
  <2>3. (st - f) * Z = n4 - n3
    BY <1>3, <1>14, <2>1
  <2>4. QED
    BY <2>2, <2>3 DEF f
<1>22. (al * al) * (start * (Z + (0 - 1))) = n4 - st
  <2> DEFINE f == Z + (0 - 1)
             g == al * al
  <2>1. f \in Int /\ g \in Int /\ st = g * start
    BY <1>1, <1>3 DEF st
  <2>2. st * f = n4 - st
    BY <1>3, <1>14
  <2> HIDE DEF f, g, n4
  <2>3. g * (start * f) = st * f
    BY <1>3, <2>1
  <2>4. QED
    BY <2>2, <2>3 DEF f, g
<1>23. al * ((zw * a1) * (a2 * a3) + (0 - 1) * ((Z * b1) * (b2 * b3))) = n1 + n2 - n3
  <2> DEFINE f == (aaa * zw) * a3
             g == Z * b
  <2>1. f \in Int /\ g \in Int
    BY <1>2, <1>3, <1>9, <1>13, <1>14
  <2>2. al * f = n1 + n2 /\ n3 = al * g
    BY <1>18
  <2>3. (zw * a1) * (a2 * a3) = f /\ (Z * b1) * (b2 * b3) = g
    BY <1>17, <1>19
  <2> HIDE DEF f, g, n1, n2, n3
  <2>4. al * (f + (0 - 1) * g) = al * f - al * g
    BY <1>1, <2>1
  <2>5. QED
    BY <1>20, <2>2, <2>3, <2>4
<1>24. (al * ((a1 * a2) * (zw * be))) * S3 = n1
  BY <1>16 DEF aaa
<1> HIDE DEF n1, n2, n3, n4
<1>25. ProverLinearAt(zeta) = lg + ((n1 + (n4 - n3)) + vH)
  BY <1>11, <1>21, <1>24 DEF vH
<1>26. WholeAt(zeta) = (lg + pp) + ((n1 + n2 - n3) + (n4 - st))
  BY <1>10, <1>12, <1>22, <1>23
<1>27. c = aa - pi - n2
  BY <1>15 DEF n2
<1>28. Is(c, st - pp - n2)
  <2>1. Is(aa, st) /\ Is(pi, pp) /\ Is(n2, n2)
    BY <1>4, <1>5, <1>20, IsBack, IsItself DEF st
  <2>2. Is(aa - pi - n2, st - pp - n2)
    BY <2>1, IsMinus, Zenon
  <2>3. QED
    BY <1>27, <2>2
<1>29. Is(ProverLinearAt(zeta) - c, (lg + ((n1 + (n4 - n3)) + vq)) - (st - pp - n2))
  <2> DEFINE f == n1 + (n4 - n3)
  <2>1. f \in Int
    BY <1>20
  <2> HIDE DEF f
  <2>2. Is(lg, lg) /\ Is(f, f)
    BY <1>10, <2>1, IsItself
  <2>3. Is(lg + (f + vH), lg + (f + vq))
    BY <1>14, <2>2, IsPlus, Zenon
  <2>4. QED
    BY <1>25, <1>28, <2>3, IsMinus DEF f
<1>30. (lg + ((n1 + (n4 - n3)) + vq)) - (st - pp - n2) = WholeAt(zeta) - v * q
  <2>1. vq = 0 - v * q /\ v * q \in Int
    BY <1>6, <1>7 DEF vq
  <2> DEFINE f == v * q
  <2>2. vq = 0 - f /\ f \in Int
    BY <2>1
  <2> HIDE DEF f
  <2>3. (lg + ((n1 + (n4 - n3)) + vq)) - (st - pp - n2) = WholeAt(zeta) - f
    BY <1>4, <1>10, <1>14, <1>20, <1>26, <2>2
  <2>4. QED
    BY <2>3 DEF f
<1>31. QED
  BY <1>8, <1>29, <1>30 DEF c, zeta, v, q

-----------------------------------------------------------------------------
(* What acceptance comes to. *)

\* The verdict, with the residual in the place of the pairing check.
LEMMA AcceptsIs ==
  ASSUME Typed, NEW pf \in Proofs, NEW pub \in PublicInputs,
         linearized_poly_at_z(pf, pub, challenge) # PRIME
  PROVE  LET ch == challenge  lin == linearized_poly_at_z(pf, pub, challenge)
         IN Accepts(pf, pub, ch)
            <=> /\ WellFormed(pf, pub) /\ FoldedH(pf, ch.zeta) \in Field /\ ~InDomain(ch.zeta)
                /\ ClaimsPoint(pf, ch, ch.r, lin) # 0 /\ QuotientPoint(pf, ch) # 0
                /\ Cong(Residual(pf, ch, ch.r, Claim(pf, pub, ch)), 0)
<1> DEFINE ch == challenge
           lin == linearized_poly_at_z(pf, pub, challenge)
           claim == Claim(pf, pub, ch)
<1>1. tau \in Field /\ ch \in Challenges /\ ch.r \in Field /\ ch.zeta \in Field
  BY TypedFacts, ZetaFacts
<1>2. ChallengeR(ch, lin) = ch.r
  BY DEF ChallengeR
<1>3. Accepts(pf, pub, ch)
      <=> /\ WellFormed(pf, pub) /\ FoldedH(pf, ch.zeta) \in Field
          /\ Opens(pf, ch.zeta, ch.u, FoldedDigest(pf, ch.r, LinearCommitment(pf, ch, FoldedH(pf, ch.zeta))),
                   FoldedClaims(pf, ch.r, lin))
  BY <1>2 DEF Accepts
<1>4. FoldedH(pf, ch.zeta) \in Field => ~InDomain(ch.zeta)
  BY <1>1, AcceptedOutside
<1> HIDE DEF ch, lin, claim
<1>5. ASSUME ~InDomain(ch.zeta)
      PROVE  Opens(pf, ch.zeta, ch.u, FoldedDigest(pf, ch.r, LinearCommitment(pf, ch, FoldedH(pf, ch.zeta))),
                   FoldedClaims(pf, ch.r, lin))
             <=> /\ ClaimsPoint(pf, ch, ch.r, lin) # 0 /\ QuotientPoint(pf, ch) # 0
                 /\ Cong(Residual(pf, ch, ch.r, claim), 0)
  <2>1. Is(lin, claim)
    BY <1>1, <1>5, ClaimFacts DEF ch, lin, claim
  <2>2. QED
    BY <1>1, <2>1, EquationIs
<1>6. QED
  BY <1>3, <1>4, <1>5 DEF ch, lin, claim

\* The residual of the prover's proof is the identity less the quotient times
\* what vanishes on the domain.
LEMMA ProvedResidual ==
  ASSUME Typed, ~InDomain(challenge.zeta)
  PROVE  Is(Residual(Proved, challenge, challenge.r, Claim(Proved, inst.public, challenge)),
            Eval(Whole, challenge.zeta) - Zz(challenge.zeta) * Eval(Quotient, challenge.zeta))
<1> DEFINE zeta == challenge.zeta
           c == Claim(Proved, inst.public, challenge)
           q == Eval(Quotient, zeta)
           v == Zz(zeta)
           res == Residual(Proved, challenge, challenge.r, c)
<1>1. zeta \in Int /\ zeta \in Field
  BY ZetaFacts
<1>2. Is(ProverLinearAt(zeta) - c, WholeAt(zeta) - v * q) /\ c \in Int
  BY ClaimBalances
<1>3. Is(res, ProverLinearAt(zeta) - c)
  <2> HIDE DEF c
  <2>1. QED
    BY <1>2, ProvedBalances
<1>4. Is(WholeAt(zeta), Eval(Whole, zeta))
  BY <1>1, ProverTakes, IsBack DEF Takes
<1>5. v \in Int /\ q \in Int
  BY <1>1, ZzFacts, QuotientFacts, EvalInt
<1> HIDE DEF zeta, c, q, v, res
<1>6. v * q \in Int
  BY <1>5
<1>7. Is(WholeAt(zeta) - v * q, Eval(Whole, zeta) - v * q)
  BY <1>4, <1>6, IsItself, IsMinus
<1>8. QED
  BY <1>2, <1>3, <1>7, IsChain DEF zeta, c, q, v, res

\* An accepted proof of the prover's fits the identity at zeta.
LEMMA AcceptedFits ==
  ASSUME Typed, linearized_poly_at_z(Proved, inst.public, challenge) # PRIME,
         Accepts(Proved, inst.public, challenge)
  PROVE  Eval(Whole, challenge.zeta) = Eval(Quotient, challenge.zeta) ** Zz(challenge.zeta)
<1> DEFINE zeta == challenge.zeta
           e == Eval(Whole, zeta)
           q == Eval(Quotient, zeta)
           v == Zz(zeta)
           res == Residual(Proved, challenge, challenge.r, Claim(Proved, inst.public, challenge))
<1>1. zeta \in Int /\ zeta \in Field /\ Proved \in Proofs /\ inst.public \in PublicInputs
  BY ZetaFacts, ProvedFacts, TypedFacts
<1>2. ~InDomain(zeta) /\ Cong(res, 0)
  BY <1>1, AcceptsIs
<1>3. Is(res, e - v * q)
  BY <1>2, ProvedResidual
<1>4. e \in Field /\ e \in Int /\ q \in Int /\ v \in Int
  BY <1>1, QuotientFacts, EvalInt, ZzFacts
<1> HIDE DEF e, q, v, res
<1>5. v * q \in Int /\ 0 \in Int
  BY <1>4
<1>6. Is(e - v * q, 0)
  <2>1. Is(res, 0)
    BY <1>2, <1>3, <1>5 DEF Is
  <2>2. QED
    BY <1>3, <2>1, IsBack, IsChain
<1>7. Is(e, v * q)
  <2>1. Is((e - v * q) + v * q, 0 + v * q)
    BY <1>5, <1>6, IsItself, IsPlus
  <2> DEFINE f == v * q
  <2>2. f \in Int /\ Is((e - f) + f, 0 + f)
    BY <1>5, <2>1
  <2> HIDE DEF f
  <2>3. (e - f) + f = e /\ 0 + f = f
    BY <1>4, <2>2
  <2>4. QED
    BY <2>2, <2>3 DEF f
<1>8. q ** v \in Field /\ Is(q ** v, v * q)
  <2>1. q ** v \in Field /\ Cong(q ** v, q * v) /\ q ** v \in Int
    BY <1>4, FieldOps DEF **
  <2>2. q * v = v * q
    BY <1>4
  <2>3. QED
    BY <1>5, <2>1, <2>2 DEF Is
<1>9. Cong(e, q ** v)
  BY <1>7, <1>8, IsBack, IsChain DEF Is
<1>10. QED
  BY <1>4, <1>8, <1>9, CongIsEqual DEF e, q, v, zeta

-----------------------------------------------------------------------------
(* The accumulator closes when the copies hold. *)

Places == Wires \X Rows
Left == [p \in Places |-> Shifted(p, Label(Sigma[p]))]
Right == [p \in Places |-> Shifted(p, Label(p))]
Upto(m) == {p \in Places : p[2] < m}
Copies == \A p \in Places : inst.wires[Sigma[p]] = inst.wires[p]

LEMMA PlacesFinite == IsFiniteSet(Places)
<1>1. IsFiniteSet(0 .. 2)
  <2>1. 0 \in Int /\ 2 \in Int
    OBVIOUS
  <2>2. QED
    BY <2>1, FS_Interval
<1>2. IsFiniteSet(Wires) /\ IsFiniteSet(Rows)
  BY <1>1, DomainFacts DEF Wires
<1>3. QED
  BY <1>2, FS_Product DEF Places

LEMMA PlacesFacts ==
  ASSUME Typed
  PROVE  /\ IsFiniteSet(Places) /\ Left \in [Places -> Int] /\ Right \in [Places -> Int]
         /\ Sigma \in [Places -> Places] /\ {Sigma[p] : p \in Places} = Places
<1>2. IsFiniteSet(Places)
  BY PlacesFinite
<1>3. Sigma \in [Places -> Places] /\ \A p, q \in Places : Sigma[p] = Sigma[q] => p = q
  BY PlonkAssumption DEF Places
<1>4. Sigma \in Injection(Places, Places)
  BY <1>3 DEF Injection, IsInjective
<1>5. Sigma \in Surjection(Places, Places)
  BY <1>2, <1>4, FS_Injection
<1>6. {Sigma[p] : p \in Places} = Places
  BY <1>3, <1>5 DEF Surjection
<1>7. \A p, q \in Places : Shifted(p, Label(q)) \in Int
  BY ShiftedFacts DEF Places
<1>8. Left \in [Places -> Int] /\ Right \in [Places -> Int]
  BY <1>3, <1>7 DEF Left, Right
<1>9. QED
  BY <1>2, <1>3, <1>6, <1>8

\* A permutation of the places permutes the factors.
LEMMA SameProduct ==
  ASSUME Typed, Copies
  PROVE  Products(Left, Places)[Places] = Products(Right, Places)[Places]
<1>1. /\ IsFiniteSet(Places) /\ Left \in [Places -> Int] /\ Right \in [Places -> Int]
      /\ Sigma \in [Places -> Places] /\ {Sigma[p] : p \in Places} = Places
  BY PlacesFacts
<1>2. \A p, q \in Places : Sigma[p] = Sigma[q] => p = q
  BY PlonkAssumption DEF Places
<1>3. \A p \in Places : Left[p] = Right[Sigma[p]]
  <2>1. TAKE p \in Places
  <2>2. Sigma[p] \in Places /\ inst.wires[Sigma[p]] = inst.wires[p]
    BY <1>1 DEF Copies
  <2>3. Shifted(p, Label(Sigma[p])) = Shifted(Sigma[p], Label(Sigma[p]))
    BY <2>2 DEF Shifted
  <2>4. QED
    BY <2>2, <2>3 DEF Left, Right
<1>4. Renames(Places, Sigma, Products(Left, Places), Products(Right, Places))
  BY <1>1, <1>2, <1>3, ProductReindex
<1>5. Places \in SUBSET Places
  OBVIOUS
<1>6. Products(Left, Places)[Places] = Products(Right, Places)[{Sigma[p] : p \in Places}]
  BY <1>4, <1>5 DEF Renames
<1>7. QED
  BY <1>1, <1>6

\* A row takes part with its three wires.
LEMMA RowPeels ==
  ASSUME NEW f \in [Places -> Int], NEW m \in Rows
  PROVE  /\ Products(f, Places)[Upto(0)] = 1
         /\ \A j \in Nat : Products(f, Places)[Upto(j)] \in Int
         /\ Is(Products(f, Places)[Upto(m + 1)], (f[<<0, m>>] ** f[<<1, m>>] ** f[<<2, m>>]) * Products(f, Places)[Upto(m)])
<1> DEFINE g == Products(f, Places)
           a == <<0, m>>
           b == <<1, m>>
           c == <<2, m>>
           s3 == Upto(m + 1)
           s2 == s3 \ {c}
           s1 == s2 \ {b}
           s0 == s1 \ {a}
           fa == f[a]
           fb == f[b]
           fc == f[c]
<1>0. m \in Nat /\ \A i \in Rows : i \in Nat
  BY DomainFacts
<1>1. IsFiniteSet(Places)
  BY PlacesFinite
<1>2. /\ g[{}] = 1
      /\ \A s \in SUBSET Places : g[s] \in Field /\ g[s] \in Int
      /\ \A s \in SUBSET Places : \A y \in s : Cong(g[s], f[y] * g[s \ {y}])
  <2>1. ProductLike(f, Places, g)
    BY <1>1, ProductSteps
  <2>2. QED
    BY <2>1 DEF ProductLike
<1>3. Upto(0) = {}
  <2>1. \A p \in Places : p[2] \in Nat
    BY <1>0 DEF Places
  <2>2. \A i \in Nat : ~(i < 0)
    OBVIOUS
  <2>3. QED
    BY <2>1, <2>2 DEF Upto
<1>4. \A j \in Nat : Upto(j) \in SUBSET Places
  BY DEF Upto
<1>5. a \in Places /\ b \in Places /\ c \in Places /\ a # b /\ a # c /\ b # c
  BY DEF Places, Wires
<1>6. a \in s3 /\ b \in s3 /\ c \in s3
  <2>1. m < m + 1 /\ a[2] = m /\ b[2] = m /\ c[2] = m
    BY <1>0
  <2> HIDE DEF a, b, c
  <2>2. QED
    BY <1>5, <2>1 DEF Upto
<1>7. s0 = Upto(m)
  <2>1. \A p \in Places : p[2] < m + 1 <=> p[2] < m \/ p[2] = m
    <3>1. \A i \in Nat : i < m + 1 <=> i < m \/ i = m
      BY <1>0
    <3>2. \A p \in Places : p[2] \in Nat
      BY <1>0 DEF Places
    <3>3. QED
      BY <3>1, <3>2
  <2>2. \A p \in Places : p[2] = m <=> p \in {a, b, c}
    <3>1. ASSUME NEW p \in Places, p[2] = m PROVE p \in {a, b, c}
      <4>1. p = <<p[1], p[2]>> /\ p[1] \in {0, 1, 2}
        BY DEF Places, Wires
      <4>2. QED
        BY <3>1, <4>1
    <3>2. QED
      BY <3>1
  <2>3. ~(m < m) /\ a[2] = m /\ b[2] = m /\ c[2] = m
    BY <1>0
  <2> HIDE DEF a, b, c
  <2>4. \A p \in Places : p \in Upto(m) <=> p \in Upto(m + 1) /\ p \notin {a, b, c}
    BY <2>1, <2>2, <2>3 DEF Upto
  <2>5. Upto(m) \subseteq Places /\ Upto(m + 1) \subseteq Places
    BY DEF Upto
  <2>6. QED
    BY <2>4, <2>5
<1>8. s3 \in SUBSET Places /\ s2 \in SUBSET Places /\ s1 \in SUBSET Places /\ s0 \in SUBSET Places
  BY DEF Upto
<1>9. c \in s3 /\ b \in s2 /\ a \in s1
  BY <1>5, <1>6
<1>10. fa \in Int /\ fb \in Int /\ fc \in Int
  BY <1>5
<1> HIDE DEF g, a, b, c, s3, s2, s1, s0
<1> DEFINE g3 == g[s3]
           g2 == g[s2]
           g1 == g[s1]
           g0 == g[s0]
<1>11. g3 \in Int /\ g2 \in Int /\ g1 \in Int /\ g0 \in Int
  BY <1>2, <1>8
<1>12. Cong(g3, fc * g2) /\ Cong(g2, fb * g1) /\ Cong(g1, fa * g0)
  <2>1. Cong(g3, fc * g2)
    BY <1>2, <1>8, <1>9 DEF s2
  <2>2. Cong(g2, fb * g1)
    BY <1>2, <1>8, <1>9 DEF s1
  <2>3. Cong(g1, fa * g0)
    BY <1>2, <1>8, <1>9 DEF s0
  <2>4. QED
    BY <2>1, <2>2, <2>3
<1> HIDE DEF g3, g2, g1, g0, fa, fb, fc
<1>13. Is(g3, fc * g2) /\ Is(g2, fb * g1) /\ Is(g1, fa * g0) /\ Is(fa, fa) /\ Is(fb, fb) /\ Is(fc, fc) /\ Is(g0, g0)
  <2>1. fc * g2 \in Int /\ fb * g1 \in Int /\ fa * g0 \in Int
    BY <1>10, <1>11
  <2>2. QED
    BY <1>10, <1>11, <1>12, <2>1, IsItself DEF Is
<1>14. Is(g3, fc * (fb * (fa * g0)))
  <2>1. Is(fb * g1, fb * (fa * g0))
    BY <1>13, IsMul
  <2>2. Is(g2, fb * (fa * g0))
    BY <1>13, <2>1, IsChain
  <2>3. Is(fc * g2, fc * (fb * (fa * g0)))
    BY <1>13, <2>2, IsMul
  <2>4. QED
    BY <1>13, <2>3, IsChain
<1>15. Is((fa ** fb ** fc) * g0, (fa * fb * fc) * g0)
  <2>1. Is(fa ** fb, fa * fb)
    BY <1>13, IsOp
  <2>2. Is(fa ** fb ** fc, fa * fb * fc)
    BY <1>13, <2>1, IsOp
  <2>3. QED
    BY <1>13, <2>2, IsMul
<1>16. (fa * fb * fc) * g0 = fc * (fb * (fa * g0))
  <2> DEFINE d == fa * g0
             e == fa * fb
  <2>1. d \in Int /\ e \in Int /\ fb * d = e * g0
    BY <1>10, <1>11
  <2> HIDE DEF d, e
  <2>2. (e * fc) * g0 = fc * (e * g0)
    BY <1>10, <1>11, <2>1
  <2>3. QED
    BY <2>1, <2>2 DEF d, e
<1>17. Is(g3, (fa ** fb ** fc) * g0)
  BY <1>14, <1>15, <1>16, IsBack, IsChain
<1>18. g[Upto(0)] = 1 /\ \A j \in Nat : g[Upto(j)] \in Int
  BY <1>2, <1>3, <1>4
<1>19. QED
  BY <1>7, <1>17, <1>18 DEF g, g3, g0, s3, fa, fb, fc, a, b, c
\* Its value in a row, times the denominators so far, is the numerators so far;
\* after the last row all of them are the same, and it is where it has started.
LEMMA Closes ==
  ASSUME Typed, Copies, Provable, NEW z \in [Rows -> Field], IsAccumulator(z)
  PROVE  \A i \in Rows : Is((IF i = N - 1 THEN 1 ELSE z[i + 1]) * Denominator(i), z[i] * Numerator(i))
<1> DEFINE D(j) == Products(Left, Places)[Upto(j)]
           E(j) == Products(Right, Places)[Upto(j)]
<1>0. N \in Nat /\ N >= 1 /\ Rows \subseteq Nat /\ 0 \in Int /\ 1 \in Int
  BY SizeFacts, DomainFacts
<1>1. \A i \in Rows : /\ Denominator(i) \in Field /\ Numerator(i) \in Field /\ Denominator(i) \in Int /\ Numerator(i) \in Int
                      /\ Denominator(i) \in Nat /\ ~Cong(Denominator(i), 0) /\ z[i] \in Int
  <2>1. TAKE i \in Rows
  <2>2. Denominator(i) \in Field /\ Numerator(i) \in Field /\ Denominator(i) \in Nat
    BY ShiftedFacts
  <2>3. Denominator(i) # 0
    BY DEF Provable
  <2>4. QED
    BY <2>2, <2>3, FieldIsInt
<1>2. ASSUME NEW i \in Rows
      PROVE  Is(D(i + 1), Denominator(i) * D(i)) /\ Is(E(i + 1), Numerator(i) * E(i))
  <2>1. /\ Left[<<0, i>>] ** Left[<<1, i>>] ** Left[<<2, i>>] = Denominator(i)
        /\ Right[<<0, i>>] ** Right[<<1, i>>] ** Right[<<2, i>>] = Numerator(i)
    <3>1. <<0, i>> \in Places /\ <<1, i>> \in Places /\ <<2, i>> \in Places
      BY DEF Places, Wires
    <3>2. QED
      BY <3>1 DEF Left, Right, Denominator, Numerator
  <2>2. QED
    BY <2>1, PlacesFacts, RowPeels
<1>3. D(0) = 1 /\ E(0) = 1 /\ \A j \in Nat : D(j) \in Int /\ E(j) \in Int
  <2>1. 0 \in Rows
    BY <1>0 DEF Rows
  <2>2. QED
    BY <2>1, PlacesFacts, RowPeels
<1>4. D(N) = E(N)
  <2>1. Upto(N) = Places
    <3>1. \A p \in Places : p[2] < N
      BY <1>0 DEF Places, Rows
    <3>2. QED
      BY <3>1 DEF Upto
  <2>2. QED
    BY <2>1, SameProduct
<1>5. \A i \in Rows : z[i] = IF i = 0 THEN 1 ELSE z[i - 1] ** Numerator(i - 1) ** Inv(Denominator(i - 1))
  <2> DEFINE h(i) == IF i = 0 THEN 1 ELSE z[i - 1] ** Numerator(i - 1) ** Inv(Denominator(i - 1))
  <2>1. z = [i \in Rows |-> h(i)]
    BY DEF IsAccumulator
  <2> HIDE DEF h
  <2>2. \A i \in Rows : z[i] = h(i)
    BY <2>1
  <2>3. QED
    BY <2>2 DEF h
<1> HIDE DEF D, E
\* From a row to the next.
<1>6. ASSUME NEW m \in Rows, m + 1 \in Rows PROVE Is(z[m + 1] * Denominator(m), z[m] * Numerator(m))
  <2> DEFINE a == z[m]
             b == Numerator(m)
             d == Denominator(m)
             c == Inv(d)
             e == z[m + 1]
  <2>1. m + 1 # 0 /\ (m + 1) - 1 = m
    BY <1>0
  <2>2. e = a ** b ** c
    BY <1>5, <1>6, <2>1
  <2>3. a \in Int /\ b \in Int /\ d \in Int /\ c \in Int /\ Cong(d * c, 1)
    BY <1>1, InvFacts
  <2> HIDE DEF a, b, c, d, e
  <2>4. Is(a, a) /\ Is(b, b) /\ Is(c, c) /\ Is(d, d) /\ Is(d * c, 1)
    <3>1. d * c \in Int
      BY <2>3
    <3>2. QED
      BY <1>0, <2>3, <3>1, IsItself DEF Is
  <2>5. Is(e * d, (a * b * c) * d)
    <3>1. Is(a ** b, a * b)
      BY <2>4, IsOp
    <3>2. Is(a ** b ** c, a * b * c)
      BY <2>4, <3>1, IsOp
    <3>3. QED
      BY <2>2, <2>4, <3>2, IsMul
  <2>6. (a * b * c) * d = (a * b) * (d * c)
    <3> DEFINE f == a * b
    <3>1. f \in Int
      BY <2>3
    <3> HIDE DEF f
    <3>2. (f * c) * d = f * (d * c)
      BY <2>3, <3>1
    <3>3. QED
      BY <3>2 DEF f
  <2>7. Is((a * b) * (d * c), (a * b) * 1)
    BY <2>4, IsMul
  <2>8. (a * b) * 1 = a * b
    BY <2>3
  <2>9. Is(e * d, a * b)
    BY <2>5, <2>6, <2>7, <2>8, IsChain
  <2>10. QED
    BY <2>9 DEF a, b, d, e
<1> DEFINE S == {m \in Nat : m \in Rows => Is(z[m] * D(m), E(m)) /\ ~Cong(D(m), 0)}
<1>7. 0 \in S
  <2>1. 0 \in Rows => z[0] = 1
    BY <1>5
  <2>2. 1 * 1 = 1 /\ Is(1, 1) /\ ~Cong(1, 0)
    BY IsItself, FieldIsInt
  <2>3. QED
    BY <1>3, <2>1, <2>2
<1>8. ASSUME NEW m \in Nat, m \in S PROVE m + 1 \in S
  <2>1. SUFFICES ASSUME m + 1 \in Rows PROVE Is(z[m + 1] * D(m + 1), E(m + 1)) /\ ~Cong(D(m + 1), 0)
    OBVIOUS
  <2>2. m \in Rows /\ m + 1 \in Nat
    BY <1>0, <2>1 DEF Rows
  <2> DEFINE a == z[m]
             b == Numerator(m)
             d == Denominator(m)
             e == z[m + 1]
             f == D(m)
             ff == D(m + 1)
             g == E(m)
             gg == E(m + 1)
  <2>3. Is(a * f, g) /\ ~Cong(f, 0) /\ Is(ff, d * f) /\ Is(gg, b * g) /\ Is(e * d, a * b) /\ ~Cong(d, 0)
    BY <1>1, <1>2, <1>6, <1>8, <2>1, <2>2
  <2>4. a \in Int /\ b \in Int /\ d \in Int /\ e \in Int /\ f \in Int /\ ff \in Int /\ g \in Int /\ gg \in Int
    BY <1>1, <1>3, <2>1, <2>2
  <2> HIDE DEF a, b, d, e, f, ff, g, gg
  <2>5. Is(e * ff, e * (d * f))
    BY <2>3, <2>4, IsItself, IsMul
  <2>6. e * (d * f) = (e * d) * f
    BY <2>4
  <2>7. Is((e * d) * f, (a * b) * f)
    BY <2>3, <2>4, IsItself, IsMul
  <2>8. (a * b) * f = b * (a * f)
    BY <2>4
  <2>9. Is(b * (a * f), b * g)
    BY <2>3, <2>4, IsItself, IsMul
  <2>10. Is(e * ff, gg)
    <3>1. Is(e * ff, b * g)
      BY <2>5, <2>6, <2>7, <2>8, <2>9, IsChain
    <3>2. QED
      BY <2>3, <3>1, IsBack, IsChain
  <2>11. ~Cong(ff, 0)
    <3>1. SUFFICES ASSUME Cong(ff, 0) PROVE FALSE
      OBVIOUS
    <3>2. Cong(d * f, 0) /\ d * f \in Int
      <4>1. d * f \in Int
        BY <2>4
      <4>2. Cong(d * f, ff)
        BY <2>3, IsBack DEF Is
      <4>3. QED
        BY <1>0, <2>4, <3>1, <4>1, <4>2, CongTrans
    <3>3. QED
      BY <2>3, <2>4, <3>2, NoZeroDivisors
  <2>12. QED
    BY <2>10, <2>11 DEF e, ff, gg
<1>9. \A m \in Nat : m \in S
  <2> HIDE DEF S
  <2>1. QED
    BY <1>7, <1>8, NatInductionOnSet
\* The last row.
<1>10. ASSUME NEW m \in Rows, m = N - 1 PROVE Is(1 * Denominator(m), z[m] * Numerator(m))
  <2> DEFINE a == z[m]
             b == Numerator(m)
             d == Denominator(m)
             f == D(m)
             g == E(m)
             t == D(N)
  <2>1. m \in Nat /\ m + 1 = N /\ N \in Nat
    BY <1>0, <1>10
  <2>2. Is(a * f, g) /\ ~Cong(f, 0) /\ Is(t, d * f) /\ Is(t, b * g)
    <3>1. Is(D(m + 1), d * f) /\ Is(E(m + 1), b * g)
      BY <1>2
    <3>2. QED
      BY <1>4, <1>9, <2>1, <3>1
  <2>3. a \in Int /\ b \in Int /\ d \in Int /\ f \in Int /\ g \in Int
    BY <1>1, <1>3, <2>1
  <2> HIDE DEF a, b, d, f, g, t
  <2>4. Is(d * f, b * g)
    BY <2>2, IsBack, IsChain
  <2>5. Is(b * g, b * (a * f))
    BY <2>2, <2>3, IsBack, IsItself, IsMul
  <2>6. b * (a * f) = f * (a * b) /\ d * f = f * d
    BY <2>3
  <2>7. Is(f * d, f * (a * b))
    BY <2>4, <2>5, <2>6, IsChain
  <2>8. a * b \in Int /\ 1 * d = d /\ 1 * d \in Int
    BY <2>3
  <2>9. Cong(d, a * b)
    BY <2>2, <2>3, <2>7, <2>8, CongCancel DEF Is
  <2>10. Is(1 * d, a * b)
    BY <2>3, <2>8, <2>9 DEF Is
  <2>11. QED
    BY <2>10 DEF a, b, d
<1>11. ASSUME NEW i \in Rows PROVE Is((IF i = N - 1 THEN 1 ELSE z[i + 1]) * Denominator(i), z[i] * Numerator(i))
  <2>1. CASE i = N - 1
    BY <1>10, <2>1
  <2>2. CASE i # N - 1
    <3>1. i + 1 \in Rows
      BY <1>0, <2>2 DEF Rows
    <3>2. QED
      BY <1>6, <2>2, <3>1
  <2>3. QED
    BY <2>1, <2>2
<1>12. QED
  BY <1>11

-----------------------------------------------------------------------------
(* The identity vanishes on the domain when the statement is true. *)

LEMMA LabelsOfRow ==
  ASSUME NEW i \in Rows
  PROVE  /\ Is(Label(<<0, i>>), Power(i)) /\ Is(Label(<<1, i>>), SHIFT * Power(i))
         /\ Is(Label(<<2, i>>), (SHIFT * SHIFT) * Power(i))
<1> DEFINE x == Power(i)
<1>1. x \in Int /\ SHIFT \in Nat /\ SHIFT \in Int
  BY DomainFacts, PowerFacts, SizeFacts, FieldIsInt
<1>2. \A w \in 0 .. 2 : Is(Label(<<w, i>>), expmod(SHIFT, w) * x)
  <2>1. TAKE w \in 0 .. 2
  <2> DEFINE p == <<w, i>>
  <2>2. p \in Wires \X Rows /\ p[1] = w /\ p[2] = i
    BY DEF Wires
  <2> HIDE DEF p
  <2>3. Is(Label(p), expmod(SHIFT, p[1]) * Power(p[2]))
    BY <2>2, LabelFacts
  <2>4. QED
    BY <2>2, <2>3 DEF p
<1> HIDE DEF x
<1>3. expmod(SHIFT, 0) = 1 /\ Is(expmod(SHIFT, 1), SHIFT) /\ Is(expmod(SHIFT, 2), SHIFT * SHIFT)
  <2>1. 0 \in Nat /\ 1 \in Nat /\ 2 \in Nat
    OBVIOUS
  <2>2. expmod(SHIFT, 0) = Pow(SHIFT, 0) /\ expmod(SHIFT, 1) = Pow(SHIFT, 1) /\ expmod(SHIFT, 2) = Pow(SHIFT, 2)
    BY <1>1, <2>1, expmodIsPow
  <2>3. Pow(SHIFT, 0) = 1 /\ Pow(SHIFT, 1) \in Int /\ Pow(SHIFT, 2) \in Int
    BY <1>1, <2>1, PowSteps
  <2>4. Cong(Pow(SHIFT, 1), SHIFT) /\ Cong(Pow(SHIFT, 2), SHIFT * SHIFT)
    BY <1>1, PowOne
  <2>5. SHIFT * SHIFT \in Int
    BY <1>1
  <2>6. QED
    BY <1>1, <2>2, <2>3, <2>4, <2>5 DEF Is
<1>4. Is(x, x) /\ 1 * x = x
  BY <1>1, IsItself
<1>5. Is(Label(<<0, i>>), x)
  <2>1. Is(Label(<<0, i>>), 1 * x)
    BY <1>2, <1>3
  <2>2. QED
    BY <1>4, <2>1
<1>6. Is(Label(<<1, i>>), SHIFT * x) /\ Is(Label(<<2, i>>), (SHIFT * SHIFT) * x)
  <2>1. Is(Label(<<1, i>>), expmod(SHIFT, 1) * x) /\ Is(Label(<<2, i>>), expmod(SHIFT, 2) * x)
    BY <1>2
  <2>2. Is(expmod(SHIFT, 1) * x, SHIFT * x) /\ Is(expmod(SHIFT, 2) * x, (SHIFT * SHIFT) * x)
    BY <1>3, <1>4, IsMul
  <2>3. QED
    BY <2>1, <2>2, IsChain
<1>7. QED
  BY <1>5, <1>6 DEF x

LEMMA PutIs ==
  ASSUME Typed, NEW p \in Wires \X Rows, NEW q \in Wires \X Rows, NEW a, NEW b,
         Is(a, inst.wires[p]), Is(b, Label(q))
  PROVE  Is(Put(a, b), Shifted(p, Label(q)))
<1> DEFINE w == inst.wires[p]
           d == Label(q)
           be == challenge.beta
           ga == challenge.gamma
<1>1. w \in Int /\ d \in Int /\ be \in Int /\ ga \in Int
  BY TypedFacts, LabelFacts
<1>2. Put(a, b) = a + (ga + be * b) /\ Shifted(p, d) = w + be * d + ga
  BY DEF Put, Shifted
<1>3. Is(a, w) /\ Is(b, d) /\ Is(be, be) /\ Is(ga, ga)
  BY <1>1, IsItself
<1> HIDE DEF w, d, be, ga
<1>4. Is(a + (ga + be * b), w + (ga + be * d))
  BY <1>3, IsPlus, IsMul, Zenon
<1>5. w + (ga + be * d) = w + be * d + ga
  <2> DEFINE f == be * d
  <2>1. f \in Int
    BY <1>1
  <2> HIDE DEF f
  <2>2. w + (ga + f) = w + f + ga
    BY <1>1, <2>1
  <2>3. QED
    BY <2>2 DEF f
<1>6. QED
  BY <1>2, <1>4, <1>5 DEF d

LEMMA GatesHold ==
  ASSUME Typed, Satisfied, NEW i \in Rows
  PROVE  Is(GatesAt(Power(i), Eval(Wire(0), Power(i)), Eval(Wire(1), Power(i)), Eval(Wire(2), Power(i)),
                    Eval(PublicPoly, Power(i))), 0)
<1> DEFINE x == Power(i)
           g == Gates[i]
           l == inst.wires[<<0, i>>]
           r == inst.wires[<<1, i>>]
           o == inst.wires[<<2, i>>]
           k == Public(i)
           L == Eval(Wire(0), x)
           R == Eval(Wire(1), x)
           O == Eval(Wire(2), x)
           P == Eval(PublicPoly, x)
           q1 == Eval(Selector["ql"], x)
           q2 == Eval(Selector["qr"], x)
           q3 == Eval(Selector["qo"], x)
           q4 == Eval(Selector["qm"], x)
           q5 == Eval(Selector["qk"], x)
           g1 == g.ql
           g2 == g.qr
           g3 == g.qo
           g4 == g.qm
           g5 == g.qk
<1>1. (g1 * l + g2 * r + g3 * o + g4 * (l * r) + g5 + k) % PRIME = 0
  BY DEF Satisfied
<1>2. Is(L, l) /\ Is(R, r) /\ Is(O, o) /\ Is(P, k)
  BY WireFacts, PublicFacts DEF Wires
<1>3. Is(q1, g1) /\ Is(q2, g2) /\ Is(q3, g3) /\ Is(q4, g4) /\ Is(q5, g5)
  BY SetupFacts DEF SelectorNames
<1>4. GatesAt(x, L, R, O, P) = q1 * L + (q2 * R + (q3 * O + (q4 * (L * R) + (q5 + P))))
  BY DEF GatesAt
<1> HIDE DEF x, g, l, r, o, k, L, R, O, P, q1, q2, q3, q4, q5, g1, g2, g3, g4, g5
<1>5. Is(q1 * L, g1 * l) /\ Is(q2 * R, g2 * r) /\ Is(q3 * O, g3 * o) /\ Is(q4 * (L * R), g4 * (l * r)) /\ Is(q5 + P, g5 + k)
  BY <1>2, <1>3, IsMul, IsPlus
<1>6. Is(q1 * L + (q2 * R + (q3 * O + (q4 * (L * R) + (q5 + P)))),
         g1 * l + (g2 * r + (g3 * o + (g4 * (l * r) + (g5 + k)))))
  BY <1>5, IsPlus
<1> DEFINE a1 == g1 * l
           a2 == g2 * r
           a3 == g3 * o
           a4 == g4 * (l * r)
<1>7. a1 \in Int /\ a2 \in Int /\ a3 \in Int /\ a4 \in Int /\ g5 \in Int /\ k \in Int
  BY <1>2, <1>3, <1>5 DEF Is
<1> HIDE DEF a1, a2, a3, a4
<1>8. a1 + (a2 + (a3 + (a4 + (g5 + k)))) = a1 + a2 + a3 + a4 + g5 + k /\ a1 + a2 + a3 + a4 + g5 + k \in Int /\ 0 \in Int
  BY <1>7
<1>9. Cong(a1 + a2 + a3 + a4 + g5 + k, 0)
  <2>1. (a1 + a2 + a3 + a4 + g5 + k) % PRIME = 0
    BY <1>1 DEF a1, a2, a3, a4
  <2> DEFINE f == a1 + a2 + a3 + a4 + g5 + k
  <2>2. f \in Int /\ f % PRIME = 0
    BY <1>8, <2>1
  <2> HIDE DEF f
  <2>3. Cong(f, 0)
    BY <1>8, <2>2, CongMod
  <2>4. QED
    BY <2>3 DEF f
<1>10. Is(a1 + (a2 + (a3 + (a4 + (g5 + k)))), 0)
  BY <1>8, <1>9 DEF Is
<1>11. QED
  BY <1>4, <1>6, <1>10, IsChain DEF a1, a2, a3, a4, x, L, R, O, P

\* The value at OMEGA times a row's point is that at the next row's.
LEMMA NextRow ==
  ASSUME NEW p \in Poly, NEW i \in Rows
  PROVE  Eval(p, OMEGA * Power(i)) = Eval(p, Power(IF i = N - 1 THEN 0 ELSE i + 1))
<1>0. N \in Nat /\ N >= 1 /\ OMEGA \in Int /\ i \in Nat /\ i \in 0 .. N + 2 /\ i + 1 \in 0 .. N + 2 /\ 0 \in 0 .. N + 2
  BY SizeFacts, FieldIsInt DEF Rows
<1>1. Power(i) = Pow(OMEGA, i) /\ Power(i + 1) = Pow(OMEGA, i + 1) /\ Power(i) \in Int /\ Power(i + 1) \in Int
      /\ Power(0) \in Int /\ Power(0) = 1 /\ Pow(OMEGA, N) = 1
  BY <1>0, PowerFacts
<1>2. Cong(Power(i + 1), OMEGA * Power(i))
  BY <1>0, <1>1, PowSteps
<1>3. OMEGA * Power(i) \in Int
  BY <1>0, <1>1
<1>4. Cong(OMEGA * Power(i), Power(i + 1))
  BY <1>1, <1>2, <1>3, CongSym
<1>5. Eval(p, OMEGA * Power(i)) = Eval(p, Power(i + 1))
  BY <1>1, <1>3, <1>4, EvalOfCong
<1>6. i = N - 1 => Power(i + 1) = Power(0)
  <2>1. i = N - 1 => i + 1 = N
    BY <1>0
  <2>2. QED
    BY <1>1, <2>1
<1>7. QED
  BY <1>5, <1>6

LEMMA WholeVanishes ==
  ASSUME Typed, Satisfied, Provable, NEW i \in Rows
  PROVE  Is(WholeAt(Power(i)), 0)
<1> DEFINE x == Power(i)
           L == Eval(Wire(0), x)
           R == Eval(Wire(1), x)
           O == Eval(Wire(2), x)
           Z == Eval(GrandProduct, x)
           W == Eval(GrandProduct, OMEGA * x)
           a1 == Put(L, Eval(Permutation[0], x))
           a2 == Put(R, Eval(Permutation[1], x))
           a3 == Put(O, Eval(Permutation[2], x))
           b1 == Put(L, x)
           b2 == Put(R, SHIFT * x)
           b3 == Put(O, (SHIFT * SHIFT) * x)
           c1 == Shifted(<<0, i>>, Label(Sigma[<<0, i>>]))
           c2 == Shifted(<<1, i>>, Label(Sigma[<<1, i>>]))
           c3 == Shifted(<<2, i>>, Label(Sigma[<<2, i>>]))
           d1 == Shifted(<<0, i>>, Label(<<0, i>>))
           d2 == Shifted(<<1, i>>, Label(<<1, i>>))
           d3 == Shifted(<<2, i>>, Label(<<2, i>>))
           den == Denominator(i)
           num == Numerator(i)
           s == Eval(FirstRow, x)
           al == challenge.alpha
<1>0. N \in Nat /\ N >= 1 /\ i \in Nat /\ 0 \in Int /\ 1 \in Int /\ 0 \in Rows
  BY SizeFacts DEF Rows
<1>1. x \in Int /\ al \in Int /\ s \in Int /\ SHIFT \in Int
  BY TypedFacts, ZetaFacts, FirstRowInt, DomainFacts, PowerFacts
<1>2. PICK z \in [Rows -> Field] : IsAccumulator(z) /\ \A j \in Rows : Is(Eval(GrandProduct, Power(j)), z[j])
  BY GrandProductFacts
<1> DEFINE zi == z[i]
           zn1 == IF i = N - 1 THEN 1 ELSE z[i + 1]
<1>3. Copies
  BY DEF Satisfied, Copies, Places
<1>4. Is(zn1 * den, zi * num)
  BY <1>2, <1>3, Closes
<1>5. z[0] = 1
  BY <1>0, <1>2 DEF IsAccumulator
<1>6. Is(Z, zi) /\ Is(W, zn1)
  <2> DEFINE j == IF i = N - 1 THEN 0 ELSE i + 1
  <2>1. j \in Rows /\ zn1 = z[j]
    BY <1>0, <1>5 DEF Rows
  <2>2. W = Eval(GrandProduct, Power(j))
    BY GrandProductFacts, NextRow
  <2> HIDE DEF j, zn1
  <2>3. QED
    BY <1>2, <2>1, <2>2
<1>7. /\ <<0, i>> \in Wires \X Rows /\ <<1, i>> \in Wires \X Rows /\ <<2, i>> \in Wires \X Rows
      /\ Sigma[<<0, i>>] \in Wires \X Rows /\ Sigma[<<1, i>>] \in Wires \X Rows /\ Sigma[<<2, i>>] \in Wires \X Rows
      /\ 0 \in Wires /\ 1 \in Wires /\ 2 \in Wires
  BY PlonkAssumption DEF Wires
<1>8. Is(L, inst.wires[<<0, i>>]) /\ Is(R, inst.wires[<<1, i>>]) /\ Is(O, inst.wires[<<2, i>>])
  BY <1>7, WireFacts
<1>9. Is(a1, c1) /\ Is(a2, c2) /\ Is(a3, c3)
  <2>1. /\ Is(Eval(Permutation[0], x), Label(Sigma[<<0, i>>])) /\ Is(Eval(Permutation[1], x), Label(Sigma[<<1, i>>]))
        /\ Is(Eval(Permutation[2], x), Label(Sigma[<<2, i>>]))
    BY <1>7, SetupFacts
  <2> HIDE DEF L, R, O, x
  <2>2. QED
    BY <1>7, <1>8, <2>1, PutIs
<1>10. Is(b1, d1) /\ Is(b2, d2) /\ Is(b3, d3)
  <2>1. Is(x, Label(<<0, i>>)) /\ Is(SHIFT * x, Label(<<1, i>>)) /\ Is((SHIFT * SHIFT) * x, Label(<<2, i>>))
    BY LabelsOfRow, IsBack
  <2> HIDE DEF L, R, O, x
  <2>2. QED
    BY <1>7, <1>8, <2>1, PutIs
<1>11. den = c1 ** c2 ** c3 /\ num = d1 ** d2 ** d3
  BY DEF Denominator, Numerator
<1>12. Is(s * (Z + (0 - 1)), 0)
  <2>1. Is(Z + (0 - 1), zi + (0 - 1))
    <3>1. Is(0 - 1, 0 - 1)
      BY <1>0, IsItself
    <3>2. QED
      BY <1>6, <3>1, IsPlus
  <2>2. CASE i = 0
    <3>1. zi + (0 - 1) = 0
      BY <1>5, <2>2
    <3>2. Is(s * (Z + (0 - 1)), s * 0)
      BY <1>1, <2>1, <3>1, IsItself, IsMul
    <3>3. s * 0 = 0
      BY <1>1
    <3>4. QED
      BY <3>2, <3>3
  <2>3. CASE i # 0
    <3>1. Cong(s, 0)
      <4>1. Cong(Eval(Basis[0], Power(i)), 0)
        BY <1>0, <2>3, BasisFacts
      <4>2. QED
        BY <4>1 DEF FirstRow
    <3>2. Is(s, 0)
      BY <1>0, <1>1, <3>1 DEF Is
    <3> HIDE DEF s, Z, zi
    <3>3. Is(s * (Z + (0 - 1)), 0 * (zi + (0 - 1)))
      BY <2>1, <3>2, IsMul
    <3>4. 0 * (zi + (0 - 1)) = 0
      BY <2>1 DEF Is
    <3>5. QED
      BY <3>3, <3>4
  <2>4. QED
    BY <2>2, <2>3
<1>13. Is(GatesAt(x, L, R, O, Eval(PublicPoly, x)), 0)
  BY GatesHold
<1> DEFINE ga == GatesAt(x, L, R, O, Eval(PublicPoly, x))
           st == s * (Z + (0 - 1))
<1>14. WholeAt(x) = ga + (al * ((W * a1) * (a2 * a3) + (0 - 1) * ((Z * b1) * (b2 * b3))) + (al * al) * st)
  BY DEF WholeAt, IdentityAt, NextAt, ThisAt, StartAt
<1>15. zi \in Int /\ zn1 \in Int
  BY <1>6 DEF Is
<1> HIDE DEF x, L, R, O, Z, W, a1, a2, a3, b1, b2, b3, c1, c2, c3, d1, d2, d3, den, num, s, al, zi, zn1, ga, st
<1>16. c1 \in Int /\ c2 \in Int /\ c3 \in Int /\ d1 \in Int /\ d2 \in Int /\ d3 \in Int
  BY <1>9, <1>10 DEF Is
<1>17. Is(den, (c1 * c2) * c3) /\ Is(num, (d1 * d2) * d3)
  <2>1. Is(c1, c1) /\ Is(c2, c2) /\ Is(c3, c3) /\ Is(d1, d1) /\ Is(d2, d2) /\ Is(d3, d3)
    BY <1>16, IsItself
  <2>2. Is(c1 ** c2, c1 * c2) /\ Is(d1 ** d2, d1 * d2)
    BY <2>1, IsOp
  <2>3. QED
    BY <1>11, <2>1, <2>2, IsOp
<1>18. Is((W * a1) * (a2 * a3), zn1 * den)
  <2>1. Is((W * a1) * (a2 * a3), (zn1 * c1) * (c2 * c3))
    BY <1>6, <1>9, IsMul
  <2>2. (zn1 * c1) * (c2 * c3) = zn1 * ((c1 * c2) * c3)
    <3> DEFINE e == zn1 * c1
    <3>1. e \in Int
      BY <1>15, <1>16
    <3> HIDE DEF e
    <3>2. e * (c2 * c3) = (e * c2) * c3
      BY <1>16, <3>1
    <3>3. e * c2 = zn1 * (c1 * c2)
      BY <1>15, <1>16 DEF e
    <3> DEFINE f == c1 * c2
    <3>4. f \in Int
      BY <1>16
    <3> HIDE DEF f
    <3>5. (zn1 * f) * c3 = zn1 * (f * c3)
      BY <1>15, <1>16, <3>4
    <3>6. QED
      BY <3>2, <3>3, <3>5 DEF e, f
  <2>3. Is(zn1 * ((c1 * c2) * c3), zn1 * den)
    BY <1>15, <1>17, IsBack, IsItself, IsMul
  <2>4. QED
    BY <2>1, <2>2, <2>3, IsChain
<1>19. Is((Z * b1) * (b2 * b3), zi * num)
  <2>1. Is((Z * b1) * (b2 * b3), (zi * d1) * (d2 * d3))
    BY <1>6, <1>10, IsMul
  <2>2. (zi * d1) * (d2 * d3) = zi * ((d1 * d2) * d3)
    <3> DEFINE e == zi * d1
    <3>1. e \in Int
      BY <1>15, <1>16
    <3> HIDE DEF e
    <3>2. e * (d2 * d3) = (e * d2) * d3
      BY <1>16, <3>1
    <3>3. e * d2 = zi * (d1 * d2)
      BY <1>15, <1>16 DEF e
    <3> DEFINE f == d1 * d2
    <3>4. f \in Int
      BY <1>16
    <3> HIDE DEF f
    <3>5. (zi * f) * d3 = zi * (f * d3)
      BY <1>15, <1>16, <3>4
    <3>6. QED
      BY <3>2, <3>3, <3>5 DEF e, f
  <2>3. Is(zi * ((d1 * d2) * d3), zi * num)
    BY <1>15, <1>17, IsBack, IsItself, IsMul
  <2>4. QED
    BY <2>1, <2>2, <2>3, IsChain
<1> DEFINE e == (W * a1) * (a2 * a3)
           f == (Z * b1) * (b2 * b3)
           k == zi * num
<1>20. Is(e, k) /\ Is(f, k) /\ k \in Int
  <2>1. Is(e, zi * num)
    BY <1>4, <1>18, IsChain
  <2>2. QED
    BY <1>19, <2>1 DEF Is
<1> HIDE DEF e, f, k
<1>21. Is(e + (0 - 1) * f, 0)
  <2>1. Is(0 - 1, 0 - 1)
    BY <1>0, IsItself
  <2>2. Is(e + (0 - 1) * f, k + (0 - 1) * k)
    BY <1>20, <2>1, IsPlus, IsMul
  <2>3. k + (0 - 1) * k = 0
    BY <1>20
  <2>4. QED
    BY <2>2, <2>3
<1>22. Is(ga + (al * (e + (0 - 1) * f) + (al * al) * st), 0 + (al * 0 + (al * al) * 0))
  <2>1. Is(ga, 0) /\ Is(st, 0) /\ Is(al, al)
    BY <1>1, <1>12, <1>13, IsItself DEF ga, st
  <2>2. QED
    BY <1>21, <2>1, IsPlus, IsMul, Zenon
<1>23. 0 + (al * 0 + (al * al) * 0) = 0
  BY <1>1
<1>24. QED
  BY <1>14, <1>22, <1>23 DEF x, e, f

-----------------------------------------------------------------------------
(* A true statement is accepted. *)

\* Where the gates and the copies hold, the pairing equation of the prover's
\* proof balances.
LEMMA TrueResidual ==
  ASSUME Typed, Satisfied, Provable, ~InDomain(challenge.zeta)
  PROVE  Is(Residual(Proved, challenge, challenge.r, Claim(Proved, inst.public, challenge)), 0)
<1> DEFINE zeta == challenge.zeta
           e == Eval(Whole, zeta)
           q == Eval(Quotient, zeta)
           n == Eval(Vanishing, zeta)
           v == Zz(zeta)
           w == Pow(zeta, N) - 1
           res == Residual(Proved, challenge, challenge.r, Claim(Proved, inst.public, challenge))
<1>1. zeta \in Int /\ zeta \in Field
  BY ZetaFacts
<1>2. Is(e, n * q)
  <2>1. \A i \in Rows : Is(WholeAt(Power(i)), 0)
    BY WholeVanishes
  <2>2. QED
    BY <1>1, <2>1, QuotientFacts
<1>3. Cong(n, w) /\ Cong(v, w) /\ v \in Int /\ q \in Int /\ n \in Int
  BY <1>1, EvalVanishing, ZzFacts, QuotientFacts, EvalInt, VanishingFacts
<1>4. w \in Int
  <2>1. Pow(zeta, N) \in Int
    BY <1>1, PowSteps, SizeFacts
  <2> HIDE DEF zeta
  <2>2. QED
    BY <2>1
<1>5. Is(res, e - v * q)
  BY ProvedResidual
<1> HIDE DEF zeta, e, q, n, v, w, res
<1>6. Is(n, w) /\ Is(w, v) /\ Is(q, q)
  BY <1>3, <1>4, IsItself, IsBack DEF Is
<1>7. Is(e, v * q)
  <2>1. Is(n * q, v * q)
    BY <1>6, IsChain, IsMul
  <2>2. QED
    BY <1>2, <2>1, IsChain
<1>8. v * q \in Int /\ (v * q) - (v * q) = 0
  <2> DEFINE f == v * q
  <2>1. f \in Int
    BY <1>3
  <2> HIDE DEF f
  <2>2. f - f = 0
    BY <2>1
  <2>3. QED
    BY <2>1, <2>2 DEF f
<1>9. Is(e - v * q, 0)
  BY <1>7, <1>8, IsItself, IsMinus
<1>10. QED
  BY <1>5, <1>9, IsChain DEF res

\* What is taken from the curve's order is below it unless it is 0.
LEMMA FoldedIsPoint ==
  ASSUME NEW pf \in Proofs, NEW zeta \in Field, FoldedH(pf, zeta) # PRIME
  PROVE  FoldedH(pf, zeta) \in Field
<1> DEFINE y == expmod(zeta, N + 2)
           a == ((pf["H_2"] ** y) + pf["H_1"]) ** y + pf["H_0"]
           b == a ** Zz(zeta)
<1>1. y \in Int /\ Zz(zeta) \in Int /\ pf["H_0"] \in Int /\ pf["H_1"] \in Int /\ pf["H_2"] \in Int
  <2>1. zeta \in Nat /\ N + 2 \in Nat
    BY FieldIsNat, SizeFacts
  <2>2. QED
    BY <2>1, ModPowInt, ZzFacts, ProofFacts DEF Points
<1>2. b \in Field
  <2> HIDE DEF y
  <2>1. pf["H_2"] ** y \in Int
    BY <1>1, FieldOps DEF **
  <2>2. (pf["H_2"] ** y) + pf["H_1"] \in Int
    BY <1>1, <2>1
  <2>3. ((pf["H_2"] ** y) + pf["H_1"]) ** y \in Int
    BY <1>1, <2>2, FieldOps DEF **
  <2>4. a \in Int
    BY <1>1, <2>3
  <2> HIDE DEF a
  <2>5. QED
    BY <1>1, <2>4, FieldOps DEF **
<1>3. FoldedH(pf, zeta) = PRIME - b
  BY DEF FoldedH, invert
<1> HIDE DEF b
<1>4. QED
  BY <1>2, <1>3, PrimeIsPositive DEF Field

\* The prover's proof is well formed.
LEMMA ProvedWellFormed == ASSUME Typed PROVE WellFormed(Proved, inst.public)
<1>1. Proved \in Proofs /\ inst.public \in PublicInputs
  BY ProvedFacts, TypedFacts
<1>2. Len(inst.public) = NbPublic /\ DOMAIN inst.public = 1 .. NbPublic
  <2>1. inst.public \in [1 .. NbPublic -> Field]
    BY <1>1 DEF PublicInputs
  <2>2. Len(inst.public) = NbPublic
    BY <2>1, SizeFacts, Stored
  <2>3. QED
    BY <2>1, <2>2
<1>3. \A x \in Field : InField(x)
  BY PrimeIsPositive DEF Field, InField
<1>4. \A s \in Scalars : Proved[s] \in Field
  BY <1>1 DEF Proofs
<1>5. \A i \in 1 .. NbPublic : inst.public[i] \in Field
  BY <1>1 DEF PublicInputs
<1>6. QED
  BY <1>2, <1>3, <1>4, <1>5 DEF WellFormed

\* The prover's proof of a true statement is accepted where the code meets no
\* point at infinity and no zero it does not reduce.
LEMMA TrueAccepted ==
  ASSUME Typed, Satisfied, Provable, ~InDomain(challenge.zeta),
         FoldedH(Proved, challenge.zeta) # PRIME,
         linearized_poly_at_z(Proved, inst.public, challenge) # PRIME,
         ClaimsPoint(Proved, challenge, challenge.r, linearized_poly_at_z(Proved, inst.public, challenge)) # 0,
         QuotientPoint(Proved, challenge) # 0
  PROVE  Accepts(Proved, inst.public, challenge)
<1>1. Proved \in Proofs /\ inst.public \in PublicInputs /\ challenge.zeta \in Field
  BY ProvedFacts, TypedFacts, ZetaFacts
<1>2. Cong(Residual(Proved, challenge, challenge.r, Claim(Proved, inst.public, challenge)), 0)
  BY TrueResidual DEF Is
<1>3. QED
  BY <1>1, <1>2, FoldedIsPoint, ProvedWellFormed, AcceptsIs

-----------------------------------------------------------------------------
(* Every point and every public input binds. *)

\* What the pairing equation adds that is no claim and no point of the proof.
Base(pf, ch, r) ==
  (VK["ql"] * pf["L_AT_Z"] + VK["qr"] * pf["R_AT_Z"] + VK["qo"] * pf["O_AT_Z"]
   + VK["qm"] * (pf["L_AT_Z"] * pf["R_AT_Z"]) + VK["qk"]
   + VK_S(2) * PermutationScalars(pf, ch).s1 + expmod(r, 4) * VK_S(0) + expmod(r, 5) * VK_S(1))
  - (r * pf["L_AT_Z"] + expmod(r, 2) * pf["R_AT_Z"] + expmod(r, 3) * pf["O_AT_Z"]
     + expmod(r, 4) * pf["S1_AT_Z"] + expmod(r, 5) * pf["S2_AT_Z"]
     + pf["GRAND_PRODUCT_AT_Z_OMEGA"] * ch.u)

\* It and the weights are integers, and the claim stands alone.
LEMMA ResidualTerms ==
  ASSUME tau \in Field, NEW pf \in Proofs, NEW ch \in Challenges, NEW r \in Field
  PROVE  /\ Base(pf, ch, r) \in Int
         /\ \A p \in Points : Weights(pf, ch, r)[p] \in Int
         /\ \A claim \in Int : Rest(pf, ch, r, claim) = Base(pf, ch, r) - claim
<1> DEFINE l == pf["L_AT_Z"]
           rr == pf["R_AT_Z"]
           o == pf["O_AT_Z"]
           s1 == pf["S1_AT_Z"]
           s2 == pf["S2_AT_Z"]
           zw == pf["GRAND_PRODUCT_AT_Z_OMEGA"]
           k1 == PermutationScalars(pf, ch).s1
           k2 == PermutationScalars(pf, ch).s2
           zeta == ch.zeta
           u == ch.u
           y == expmod(ch.zeta, N + 2)
           v == Zz(ch.zeta)
           r2 == expmod(r, 2)
           r3 == expmod(r, 3)
           r4 == expmod(r, 4)
           r5 == expmod(r, 5)
           om == OMEGA
           t1 == VK["ql"] * l
           t2 == VK["qr"] * rr
           t3 == VK["qo"] * o
           t4 == VK["qm"] * (l * rr)
           t5 == VK["qk"]
           t6 == VK_S(2) * k1
           t7 == r4 * VK_S(0)
           t8 == r5 * VK_S(1)
           x1 == r * l
           x2 == r2 * rr
           x3 == r3 * o
           x4 == r4 * s1
           x5 == r5 * s2
           x6 == zw * u
<1>0. r \in Nat /\ r \in Int /\ tau \in Int
  BY FieldIsNat, FieldIsInt
<1>1. l \in Int /\ rr \in Int /\ o \in Int /\ s1 \in Int /\ s2 \in Int /\ zw \in Int
  BY ProofFacts, FieldIsInt
<1>2. zeta \in Int /\ u \in Int /\ zeta \in Field /\ ch.zeta \in Nat /\ om \in Int
  BY ChallengeFacts, SizeFacts
<1>3. k1 \in Int /\ k2 \in Int
  BY ScalarsFacts DEF Is
<1>4. v \in Int /\ y \in Int /\ r2 \in Int /\ r3 \in Int /\ r4 \in Int /\ r5 \in Int
  BY <1>0, <1>2, SizeFacts, ZzFacts, ModPowInt
<1>5. Base(pf, ch, r) = (t1 + t2 + t3 + t4 + t5 + t6 + t7 + t8) - (x1 + x2 + x3 + x4 + x5 + x6)
  BY DEF Base
<1>6. \A claim : Rest(pf, ch, r, claim)
                 = (t1 + t2 + t3 + t4 + t5 + t6 + t7 + t8) - (claim + x1 + x2 + x3 + x4 + x5 + x6)
  BY DEF Rest
<1>7. Weights(pf, ch, r)
      = [L_COM |-> r, R_COM |-> r2, O_COM |-> r3,
         H_0 |-> 0 - v, H_1 |-> 0 - y * v, H_2 |-> 0 - y * y * v,
         GRAND_PRODUCT |-> k2 + u, BATCH_OPENING_AT_Z |-> zeta - tau,
         OPENING_AT_Z_OMEGA |-> u * (zeta * om) - u * tau]
  BY DEF Weights
<1> HIDE DEF l, rr, o, s1, s2, zw, k1, k2, zeta, u, y, v, r2, r3, r4, r5, om
<1>8. /\ t1 \in Int /\ t2 \in Int /\ t3 \in Int /\ t4 \in Int /\ t5 \in Int /\ t6 \in Int /\ t7 \in Int /\ t8 \in Int
  <2>1. l * rr \in Int
    BY <1>1
  <2>2. QED
    BY <1>1, <1>3, <1>4, <2>1, VKFacts
<1>9. x1 \in Int /\ x2 \in Int /\ x3 \in Int /\ x4 \in Int /\ x5 \in Int /\ x6 \in Int
  BY <1>0, <1>1, <1>2, <1>4
<1> HIDE DEF t1, t2, t3, t4, t5, t6, t7, t8, x1, x2, x3, x4, x5, x6
<1>10. Base(pf, ch, r) \in Int
  BY <1>5, <1>8, <1>9
<1>11. \A claim \in Int : Rest(pf, ch, r, claim) = Base(pf, ch, r) - claim
  BY <1>5, <1>6, <1>8, <1>9
<1>12. \A p \in Points : Weights(pf, ch, r)[p] \in Int
  <2>1. y * v \in Int /\ y * y \in Int /\ u * tau \in Int /\ zeta * om \in Int
    BY <1>0, <1>2, <1>4
  <2>2. y * y * v \in Int /\ u * (zeta * om) \in Int
    BY <1>2, <1>4, <2>1
  <2> DEFINE a == y * v
             b == y * y * v
             c == u * (zeta * om)
             d == u * tau
  <2>3. a \in Int /\ b \in Int /\ c \in Int /\ d \in Int
    BY <2>1, <2>2
  <2> HIDE DEF a, b, c, d
  <2>4. 0 - v \in Int /\ 0 - a \in Int /\ 0 - b \in Int /\ k2 + u \in Int /\ zeta - tau \in Int /\ c - d \in Int
    BY <1>0, <1>2, <1>3, <1>4, <2>3
  <2>5. QED
    BY <1>0, <1>4, <1>7, <2>4 DEF a, b, c, d, Points
<1>13. QED
  BY <1>10, <1>11, <1>12

PointSum(w, pf) ==
  w["L_COM"] * pf["L_COM"] + w["R_COM"] * pf["R_COM"] + w["O_COM"] * pf["O_COM"]
  + w["H_0"] * pf["H_0"] + w["H_1"] * pf["H_1"] + w["H_2"] * pf["H_2"]
  + w["GRAND_PRODUCT"] * pf["GRAND_PRODUCT"]
  + w["BATCH_OPENING_AT_Z"] * pf["BATCH_OPENING_AT_Z"]
  + w["OPENING_AT_Z_OMEGA"] * pf["OPENING_AT_Z_OMEGA"]

LEMMA ResidualIs ==
  ASSUME tau \in Field, NEW pf \in Proofs, NEW ch \in Challenges, NEW r \in Field, NEW claim \in Int
  PROVE  /\ Residual(pf, ch, r, claim) = (Base(pf, ch, r) - claim) + PointSum(Weights(pf, ch, r), pf)
         /\ PointSum(Weights(pf, ch, r), pf) \in Int /\ Residual(pf, ch, r, claim) \in Int
<1>1. Residual(pf, ch, r, claim) = Rest(pf, ch, r, claim) + PointSum(Weights(pf, ch, r), pf)
  BY DEF Residual, PointSum
<1>2. PointSum(Weights(pf, ch, r), pf) \in Int
  <2> DEFINE w == Weights(pf, ch, r)
  <2>1. \A p \in Points : w[p] \in Int /\ pf[p] \in Int
    BY ResidualTerms, ProofFacts
  <2> HIDE DEF w
  <2>2. \A p \in Points : w[p] * pf[p] \in Int
    BY <2>1
  <2> DEFINE g(p) == w[p] * pf[p]
  <2>3. PointSum(w, pf) = g("L_COM") + g("R_COM") + g("O_COM") + g("H_0") + g("H_1") + g("H_2")
                          + g("GRAND_PRODUCT") + g("BATCH_OPENING_AT_Z") + g("OPENING_AT_Z_OMEGA")
    BY DEF PointSum
  <2>4. \A p \in Points : g(p) \in Int
    BY <2>2
  <2> HIDE DEF g
  <2>5. QED
    BY <2>3, <2>4 DEF w, Points
<1>3. Residual(pf, ch, r, claim) \in Int
  BY <1>1, <1>2, ResidualTerms
<1>4. QED
  BY <1>1, <1>2, <1>3, ResidualTerms

\* Two claims that both balance agree.
LEMMA ClaimsAgree ==
  ASSUME tau \in Field, NEW pf \in Proofs, NEW ch \in Challenges, NEW r \in Field,
         NEW a \in Int, NEW b \in Int,
         Cong(Residual(pf, ch, r, a), 0), Cong(Residual(pf, ch, r, b), 0)
  PROVE  Cong(a, b)
<1> DEFINE base == Base(pf, ch, r)
           sum == PointSum(Weights(pf, ch, r), pf)
           m == base - a
           n == base - b
<1>1. base \in Int /\ sum \in Int /\ Cong(m + sum, 0) /\ Cong(n + sum, 0)
  BY ResidualTerms, ResidualIs
<1> HIDE DEF base, sum
<1>2. Cong((n + sum) - (m + sum), 0 - 0)
  BY <1>1, CongAdd
<1>3. (n + sum) - (m + sum) = a - b /\ 0 - 0 = 0
  BY <1>1
<1>4. Cong(a - b, 0)
  BY <1>2, <1>3
<1>5. QED
  BY <1>4 DEF Cong\* How the equation changes when a point does.
LEMMA PointMatters ==
  ASSUME NEW w, NEW pf, NEW d \in Int, NEW p \in Points,
         \A q \in Points : w[q] \in Int /\ pf[q] \in Int, DOMAIN pf = Points \cup Scalars
  PROVE  Is(PointSum(w, [pf EXCEPT ![p] = (@ + d) % PRIME]), PointSum(w, pf) + w[p] * d)
<1> DEFINE new == [pf EXCEPT ![p] = (@ + d) % PRIME]
           e(q) == IF q = p THEN w[p] * d ELSE 0
           g(q) == w[q] * pf[q]
           h(q) == w[q] * new[q]
<1>1. \A q \in Points : new[q] = IF q = p THEN (pf[q] + d) % PRIME ELSE pf[q]
  OBVIOUS
<1>2. w[p] * d \in Int
  OBVIOUS
<1>3. \A q \in Points : g(q) \in Int /\ e(q) \in Int
  BY <1>2
<1> HIDE DEF new
<1>4. ASSUME NEW q \in Points
      PROVE  Is(h(q), g(q) + e(q))
  <2>1. w[q] \in Int /\ pf[q] \in Int
    OBVIOUS
  <2>2. CASE q = p
    <3>1. new[q] = (pf[q] + d) % PRIME /\ pf[q] + d \in Int
      BY <1>1, <2>1, <2>2
    <3>2. Is(new[q], pf[q] + d) /\ Is(w[q], w[q])
      BY <2>1, <3>1, IsItself, IsMod
    <3>3. Is(w[q] * new[q], w[q] * (pf[q] + d))
      BY <3>2, IsMul
    <3>4. w[q] * (pf[q] + d) = w[q] * pf[q] + w[q] * d
      BY <2>1
    <3>5. QED
      BY <2>2, <3>3, <3>4
  <2>3. CASE q # p
    <3>1. new[q] = pf[q]
      BY <1>1, <2>3
    <3>2. g(q) + e(q) = g(q) /\ h(q) = g(q)
      BY <1>3, <2>3, <3>1
    <3>3. QED
      BY <1>3, <3>2, IsItself
  <2>4. QED
    BY <2>2, <2>3
<1>5. PointSum(w, pf) = g("L_COM") + g("R_COM") + g("O_COM") + g("H_0") + g("H_1") + g("H_2")
                        + g("GRAND_PRODUCT") + g("BATCH_OPENING_AT_Z") + g("OPENING_AT_Z_OMEGA")
  BY DEF PointSum
<1>6. PointSum(w, new) = h("L_COM") + h("R_COM") + h("O_COM") + h("H_0") + h("H_1") + h("H_2")
                         + h("GRAND_PRODUCT") + h("BATCH_OPENING_AT_Z") + h("OPENING_AT_Z_OMEGA")
  BY DEF PointSum
<1> DEFINE s(q) == g(q) + e(q)
<1>7. Is(PointSum(w, new), s("L_COM") + s("R_COM") + s("O_COM") + s("H_0") + s("H_1") + s("H_2")
                           + s("GRAND_PRODUCT") + s("BATCH_OPENING_AT_Z") + s("OPENING_AT_Z_OMEGA"))
  <2>1. \A q \in Points : Is(h(q), s(q))
    BY <1>4
  <2> HIDE DEF h, s
  <2>2. /\ Is(h("L_COM"), s("L_COM")) /\ Is(h("R_COM"), s("R_COM")) /\ Is(h("O_COM"), s("O_COM"))
        /\ Is(h("H_0"), s("H_0")) /\ Is(h("H_1"), s("H_1")) /\ Is(h("H_2"), s("H_2"))
        /\ Is(h("GRAND_PRODUCT"), s("GRAND_PRODUCT")) /\ Is(h("BATCH_OPENING_AT_Z"), s("BATCH_OPENING_AT_Z"))
        /\ Is(h("OPENING_AT_Z_OMEGA"), s("OPENING_AT_Z_OMEGA"))
    BY <2>1 DEF Points
  <2>3. Is(h("L_COM") + h("R_COM") + h("O_COM"), s("L_COM") + s("R_COM") + s("O_COM"))
    BY <2>2, IsPlus, Zenon
  <2>4. Is(h("L_COM") + h("R_COM") + h("O_COM") + h("H_0") + h("H_1") + h("H_2"),
           s("L_COM") + s("R_COM") + s("O_COM") + s("H_0") + s("H_1") + s("H_2"))
    BY <2>2, <2>3, IsPlus, Zenon
  <2>5. Is(h("L_COM") + h("R_COM") + h("O_COM") + h("H_0") + h("H_1") + h("H_2")
           + h("GRAND_PRODUCT") + h("BATCH_OPENING_AT_Z") + h("OPENING_AT_Z_OMEGA"),
           s("L_COM") + s("R_COM") + s("O_COM") + s("H_0") + s("H_1") + s("H_2")
           + s("GRAND_PRODUCT") + s("BATCH_OPENING_AT_Z") + s("OPENING_AT_Z_OMEGA"))
    BY <2>2, <2>4, IsPlus, Zenon
  <2>6. QED
    BY <1>6, <2>5
<1>8. e("L_COM") + e("R_COM") + e("O_COM") + e("H_0") + e("H_1") + e("H_2")
      + e("GRAND_PRODUCT") + e("BATCH_OPENING_AT_Z") + e("OPENING_AT_Z_OMEGA") = w[p] * d
  <2> DEFINE f == w[p] * d
  <2>1. f \in Int /\ \A q \in Points : e(q) = IF q = p THEN f ELSE 0
    BY <1>2
  <2> HIDE DEF f, e
  <2>2. QED
    BY <2>1 DEF Points, f
<1> HIDE DEF g, e, h
<1>9. s("L_COM") + s("R_COM") + s("O_COM") + s("H_0") + s("H_1") + s("H_2")
      + s("GRAND_PRODUCT") + s("BATCH_OPENING_AT_Z") + s("OPENING_AT_Z_OMEGA") = PointSum(w, pf) + w[p] * d
  <2>1. /\ g("L_COM") \in Int /\ g("R_COM") \in Int /\ g("O_COM") \in Int /\ g("H_0") \in Int /\ g("H_1") \in Int
        /\ g("H_2") \in Int /\ g("GRAND_PRODUCT") \in Int /\ g("BATCH_OPENING_AT_Z") \in Int
        /\ g("OPENING_AT_Z_OMEGA") \in Int
        /\ e("L_COM") \in Int /\ e("R_COM") \in Int /\ e("O_COM") \in Int /\ e("H_0") \in Int /\ e("H_1") \in Int
        /\ e("H_2") \in Int /\ e("GRAND_PRODUCT") \in Int /\ e("BATCH_OPENING_AT_Z") \in Int
        /\ e("OPENING_AT_Z_OMEGA") \in Int
    BY <1>3 DEF Points
  <2>2. QED
    BY <1>5, <1>8, <2>1
<1>10. QED
  BY <1>7, <1>9 DEF new

\* No weight of a point but the grand product's vanishes.
LEMMA WeightsBind ==
  ASSUME tau \in Field, NEW pf \in Proofs, NEW ch \in Challenges, NEW p \in Points, p # "GRAND_PRODUCT",
         ~InDomain(ch.zeta), 0 \notin {ch.zeta, ch.r, ch.u},
         tau \notin {ch.zeta, (ch.zeta * OMEGA) % PRIME}
  PROVE  ~Cong(Weights(pf, ch, ch.r)[p], 0)
<1> DEFINE zeta == ch.zeta
           r == ch.r
           u == ch.u
           y == expmod(ch.zeta, N + 2)
           v == Zz(ch.zeta)
           om == OMEGA
           t == (ch.zeta * OMEGA) % PRIME
<1>1. zeta \in Field /\ zeta \in Nat /\ zeta \in Int /\ r \in Field /\ u \in Field /\ r \in Int /\ u \in Int /\ r \in Nat
      /\ om \in Int /\ tau \in Int /\ N + 2 \in Nat
  <2>1. zeta \in Field /\ r \in Field /\ u \in Field /\ om \in Field
    BY ChallengeFacts, SizeFacts
  <2>2. Field \subseteq Nat /\ Field \subseteq Int /\ N + 2 \in Nat
    BY FieldIsInt, FieldIsNat, SizeFacts
  <2> HIDE DEF zeta, r, u, om
  <2>3. QED
    BY <2>1, <2>2
<1>2. ~Cong(zeta, 0) /\ ~Cong(r, 0) /\ ~Cong(u, 0)
  BY <1>1, FieldIsInt
<1>3. v \in Int /\ ~Cong(v, 0)
  <2>1. v \in Int /\ Cong(v, Pow(zeta, N) - 1) /\ ~Cong(Pow(zeta, N) - 1, 0)
    BY <1>1, ZzFacts, OutsideFacts
  <2> DEFINE e == Pow(zeta, N)
  <2>2. e \in Int
    BY <1>1, PowSteps, SizeFacts
  <2> HIDE DEF e, v
  <2>3. e - 1 \in Int
    BY <2>2
  <2>4. Cong(v, e - 1) /\ ~Cong(e - 1, 0)
    BY <2>1 DEF e
  <2>5. ASSUME Cong(v, 0) PROVE FALSE
    <3>1. Cong(e - 1, v)
      BY <2>1, <2>3, <2>4, CongSym
    <3>2. 0 \in Int
      OBVIOUS
    <3>3. QED
      BY <2>1, <2>3, <2>4, <2>5, <3>1, <3>2, CongTrans
  <2>6. QED
    BY <2>1, <2>5 DEF v
<1>4. y \in Int /\ ~Cong(y, 0)
  <2>1. y = Pow(zeta, N + 2)
    BY <1>1, expmodIsPow
  <2> DEFINE m == N + 2
  <2>2. m \in Nat
    BY <1>1
  <2> HIDE DEF y, zeta, m
  <2>3. Pow(zeta, m) \in Int /\ ~Cong(Pow(zeta, m), 0)
    BY <1>1, <1>2, <2>2, PowNotZero, PowSteps
  <2>4. QED
    BY <2>1, <2>3 DEF m
<1>5. ~Cong(expmod(r, 2), 0) /\ ~Cong(expmod(r, 3), 0)
  <2>1. 2 \in Nat /\ 3 \in Nat
    OBVIOUS
  <2>2. QED
    BY <1>1, <1>2, <2>1, expmodIsPow, PowNotZero
<1>6. ~Cong(zeta - tau, 0)
  <2>1. ASSUME Cong(zeta - tau, 0) PROVE FALSE
    <3>1. Cong(zeta, tau)
      BY <1>1, <2>1 DEF Cong
    <3>2. QED
      BY <1>1, <3>1, CongIsEqual
  <2>2. QED
    BY <2>1
<1>7. ~Cong(u * (zeta * om) - u * tau, 0)
  <2>1. t \in Field /\ t \in Int /\ Cong(t, zeta * om) /\ zeta * om \in Int
    BY <1>1, FieldOps
  <2> DEFINE f == zeta * om
  <2>2. f \in Int /\ Cong(t, f)
    BY <2>1
  <2> HIDE DEF zeta, om, f, u, t
  <2>3. ASSUME Cong(u * f - u * tau, 0) PROVE FALSE
    <3>1. Cong(u * f, u * tau)
      <4>1. u * f \in Int /\ u * tau \in Int
        BY <1>1, <2>2
      <4>2. QED
        BY <2>3, <4>1 DEF Cong
    <3>2. Cong(f, tau)
      BY <1>1, <1>2, <2>2, <3>1, CongCancel
    <3>3. Cong(t, tau)
      BY <1>1, <2>1, <2>2, <3>2, CongTrans
    <3>4. QED
      BY <2>1, <3>3, CongIsEqual DEF t, zeta, om
  <2>4. QED
    BY <2>3 DEF f
<1>8. ~Cong(0 - v, 0) /\ ~Cong(0 - y * v, 0) /\ ~Cong(0 - y * y * v, 0)
  <2> HIDE DEF v, y
  <2>1. \A a \in Int : ~Cong(a, 0) => ~Cong(0 - a, 0)
    <3>1. TAKE a \in Int
    <3>2. ASSUME Cong(0 - a, 0) PROVE Cong(a, 0)
      <4>1. 0 \in Int /\ 0 - a \in Int
        OBVIOUS
      <4>2. Cong(0 - (0 - a), 0 - 0)
        BY <3>2, <4>1, CongAdd, CongRefl
      <4>3. 0 - (0 - a) = a /\ 0 - 0 = 0
        OBVIOUS
      <4>4. QED
        BY <4>2, <4>3
    <3>3. QED
      BY <3>2
  <2>2. y * v \in Int /\ ~Cong(y * v, 0)
    BY <1>3, <1>4, NoZeroDivisors
  <2>3. y * y \in Int /\ ~Cong(y * y, 0)
    BY <1>4, NoZeroDivisors
  <2>4. (y * y) * v \in Int /\ ~Cong((y * y) * v, 0)
    <3>1. (y * y) * v \in Int
      BY <1>3, <2>3
    <3>2. QED
      BY <1>3, <2>3, <3>1, NoZeroDivisors
  <2>5. QED
    BY <1>3, <2>1, <2>2, <2>4
<1>9. Weights(pf, ch, r)
      = [L_COM |-> r, R_COM |-> expmod(r, 2), O_COM |-> expmod(r, 3),
         H_0 |-> 0 - v, H_1 |-> 0 - y * v, H_2 |-> 0 - y * y * v,
         GRAND_PRODUCT |-> PermutationScalars(pf, ch).s2 + u, BATCH_OPENING_AT_Z |-> zeta - tau,
         OPENING_AT_Z_OMEGA |-> u * (zeta * om) - u * tau]
  BY DEF Weights
<1> HIDE DEF zeta, r, u, y, v, om
<1>10. QED
  BY <1>2, <1>5, <1>6, <1>7, <1>8, <1>9 DEF Points, r

\* A function with one value replaced, as a point or a public input is.
Replaced(f, x, d) == [f EXCEPT ![x] = (@ + d) % PRIME]

\* What a replaced point leaves alone.
LEMMA PointsLeave ==
  ASSUME NEW pf \in Proofs, NEW p \in Points, NEW d \in Int
  PROVE  /\ Replaced(pf, p, d) \in Proofs
         /\ \A ch, r : Weights(Replaced(pf, p, d), ch, r) = Weights(pf, ch, r)
         /\ \A ch, r : Base(Replaced(pf, p, d), ch, r) = Base(pf, ch, r)
         /\ \A pub, ch : Claim(Replaced(pf, p, d), pub, ch) = Claim(pf, pub, ch)
         /\ \A ch : PermutationScalars(Replaced(pf, p, d), ch) = PermutationScalars(pf, ch)
<1> DEFINE new == Replaced(pf, p, d)
<1>0. new = [pf EXCEPT ![p] = (@ + d) % PRIME]
  BY DEF Replaced
<1> HIDE DEF new
<1>1. pf \in [Points \cup Scalars -> Field] /\ DOMAIN pf = Points \cup Scalars
  BY DEF Proofs
<1>2. (pf[p] + d) % PRIME \in Field
  BY <1>1, FieldIsInt, FieldOps
<1>3. new \in Proofs
  BY <1>0, <1>1, <1>2 DEF Proofs
<1>4. \A s \in Scalars : s # p
  BY DEF Scalars, Points
<1>5. \A s \in Scalars : new[s] = pf[s]
  BY <1>0, <1>1, <1>4
<1>6. /\ new["L_AT_Z"] = pf["L_AT_Z"] /\ new["R_AT_Z"] = pf["R_AT_Z"] /\ new["O_AT_Z"] = pf["O_AT_Z"]
      /\ new["S1_AT_Z"] = pf["S1_AT_Z"] /\ new["S2_AT_Z"] = pf["S2_AT_Z"]
      /\ new["GRAND_PRODUCT_AT_Z_OMEGA"] = pf["GRAND_PRODUCT_AT_Z_OMEGA"]
  BY <1>5 DEF Scalars
<1>7. \A ch : PermutationScalars(new, ch) = PermutationScalars(pf, ch)
  BY <1>6 DEF PermutationScalars
<1>8. \A ch, r : Weights(new, ch, r) = Weights(pf, ch, r)
  BY <1>7 DEF Weights
<1>9. \A ch, r : Base(new, ch, r) = Base(pf, ch, r)
  BY <1>6, <1>7 DEF Base
<1>10. \A pub, ch : Claim(new, pub, ch) = Claim(pf, pub, ch)
  BY <1>6 DEF Claim
<1>11. QED
  BY <1>3, <1>5, <1>7, <1>8, <1>9, <1>10 DEF new

LEMMA DeltaIsNotZero == ASSUME NEW d \in 1 .. PRIME - 1 PROVE d \in Int /\ ~Cong(d, 0)
<1>1. d \in Field /\ d # 0
  BY PrimeIsPositive DEF Field
<1>2. QED
  BY <1>1, FieldIsInt

LEMMA ZeroTimes == ASSUME NEW a \in Int, NEW b \in Int, Cong(b, 0) PROVE a * b \in Int /\ Cong(a * b, 0)
<1>0. 0 \in Int /\ Cong(a, a)
  BY CongRefl
<1>1. Cong(a * b, a * 0) /\ a * b \in Int
  <2>1. Cong(a * b, a * 0)
    BY <1>0, CongMul, Zenon
  <2>2. QED
    BY <2>1
<1>2. a * 0 = 0
  OBVIOUS
<1>3. QED
  BY <1>1, <1>2

\* Where one point is replaced and the proof still accepted, the point's weight
\* is 0, and it is the grand product's.
LEMMA PointBinds ==
  ASSUME Typed, Satisfied, Provable, NEW p \in Points, NEW d \in 1 .. PRIME - 1,
         NEW pf, pf = Replaced(Proved, p, d),
         ~InDomain(challenge.zeta), 0 \notin {challenge.zeta, challenge.r, challenge.u},
         tau \notin {challenge.zeta, (challenge.zeta * OMEGA) % PRIME},
         linearized_poly_at_z(pf, inst.public, challenge) # PRIME,
         Accepts(pf, inst.public, challenge)
  PROVE  p = "GRAND_PRODUCT" /\ (PermutationScalars(pf, challenge).s2 + challenge.u) % PRIME = 0
<1> DEFINE ch == challenge
           r == challenge.r
           c == Claim(Proved, inst.public, ch)
           w == Weights(Proved, ch, r)
           base == Base(Proved, ch, r)
           sum == PointSum(w, Proved)
           sum2 == PointSum(w, pf)
<1>1. tau \in Field /\ ch \in Challenges /\ r \in Field /\ ch.zeta \in Field /\ Proved \in Proofs
      /\ inst.public \in PublicInputs
  BY TypedFacts, ZetaFacts, ProvedFacts
<1>2. d \in Int /\ ~Cong(d, 0)
  BY DeltaIsNotZero
<1>3. /\ pf \in Proofs /\ Weights(pf, ch, r) = w /\ Base(pf, ch, r) = base
      /\ Claim(pf, inst.public, ch) = c /\ PermutationScalars(pf, ch) = PermutationScalars(Proved, ch)
  <2>1. pf = Replaced(Proved, p, d)
    OBVIOUS
  <2>2. Proved \in Proofs /\ p \in Points /\ d \in Int
    BY <1>1, <1>2
  <2>3. pf \in Proofs
    BY <2>1, <2>2, PointsLeave
  <2>4. Weights(Replaced(Proved, p, d), ch, r) = Weights(Proved, ch, r)
    BY <2>2, PointsLeave
  <2>5. Base(Replaced(Proved, p, d), ch, r) = Base(Proved, ch, r)
    BY <2>2, PointsLeave
  <2>6. Claim(Replaced(Proved, p, d), inst.public, ch) = Claim(Proved, inst.public, ch)
    BY <2>2, PointsLeave
  <2>7. PermutationScalars(Replaced(Proved, p, d), ch) = PermutationScalars(Proved, ch)
    BY <2>2, PointsLeave
  <2>8. QED
    BY <2>1, <2>3, <2>4, <2>5, <2>6, <2>7
<1>4. c \in Int
  BY ClaimBalances
<1>5. Cong(Residual(pf, ch, r, c), 0)
  BY <1>1, <1>3, AcceptsIs
<1>6. Is(Residual(Proved, ch, r, c), 0)
  BY TrueResidual
<1>7. /\ Residual(pf, ch, r, c) = (base - c) + sum2
      /\ Residual(Proved, ch, r, c) = (base - c) + sum
      /\ sum \in Int /\ sum2 \in Int /\ base \in Int
  BY <1>1, <1>3, <1>4, ResidualIs, ResidualTerms
<1>8. \A q \in Points : w[q] \in Int /\ Proved[q] \in Int
  BY <1>1, ResidualTerms, ProofFacts
<1>9. DOMAIN Proved = Points \cup Scalars
  BY <1>1 DEF Proofs
<1>10. Is(sum2, sum + w[p] * d)
  <2> HIDE DEF w
  <2>1. Is(PointSum(w, [Proved EXCEPT ![p] = (@ + d) % PRIME]), PointSum(w, Proved) + w[p] * d)
    BY <1>2, <1>8, <1>9, PointMatters
  <2>2. QED
    BY <2>1 DEF Replaced
<1>11. w[p] \in Int
  BY <1>8
<1>12. Cong(w[p] * d, 0)
  <2> DEFINE x == w[p] * d
             b == base - c
  <2>1. x \in Int /\ b \in Int
    BY <1>2, <1>4, <1>7, <1>11
  <2>2. Cong(b + sum2, 0) /\ Cong(b + sum, 0) /\ Cong(sum2, sum + x)
    BY <1>5, <1>6, <1>7, <1>10 DEF Is
  <2> HIDE DEF x, b, sum, sum2
  <2>3. sum + x \in Int /\ b + sum2 \in Int /\ b + sum \in Int /\ 0 \in Int
    BY <1>7, <2>1
  <2>4. Cong((b + sum2) - (b + sum), 0 - 0)
    BY <2>2, <2>3, CongAdd
  <2>5. (b + sum2) - (b + sum) = sum2 - sum /\ 0 - 0 = 0
    BY <1>7, <2>1
  <2>6. Cong(sum2 - sum, (sum + x) - sum)
    BY <1>7, <2>2, <2>3, CongAdd, CongRefl
  <2>7. (sum + x) - sum = x /\ sum2 - sum \in Int
    BY <1>7, <2>1
  <2>8. Cong(sum2 - sum, x) /\ Cong(sum2 - sum, 0)
    BY <2>4, <2>5, <2>6, <2>7
  <2>9. Cong(x, sum2 - sum)
    BY <2>1, <2>7, <2>8, CongSym
  <2>10. Cong(x, 0)
    BY <2>1, <2>3, <2>7, <2>8, <2>9, CongTrans
  <2>11. QED
    BY <2>10 DEF x
<1>13. Cong(w[p], 0)
  <2> HIDE DEF w
  <2>1. QED
    BY <1>2, <1>11, <1>12, NoZeroDivisors
<1>14. p = "GRAND_PRODUCT"
  BY <1>1, <1>13, WeightsBind
<1>15. (PermutationScalars(Proved, ch).s2 + ch.u) % PRIME = 0
  <2>1. w["GRAND_PRODUCT"] = PermutationScalars(Proved, ch).s2 + ch.u
    BY DEF Weights
  <2> DEFINE e == PermutationScalars(Proved, ch).s2 + ch.u
  <2>2. e \in Int /\ Cong(e, 0)
    BY <1>11, <1>13, <1>14, <2>1
  <2> HIDE DEF e
  <2>3. e % PRIME = 0
    BY <2>2, CongMod
  <2>4. QED
    BY <2>3 DEF e
<1>16. QED
  BY <1>3, <1>14, <1>15

\* A public input that is replaced changes the claim.
LEMMA PublicBinds ==
  ASSUME Typed, Satisfied, Provable, NEW i \in 1 .. NbPublic, NEW d \in 1 .. PRIME - 1,
         NEW pub, pub = Replaced(inst.public, i, d),
         ~InDomain(challenge.zeta),
         linearized_poly_at_z(Proved, pub, challenge) # PRIME,
         Accepts(Proved, pub, challenge)
  PROVE  FALSE
<1> DEFINE ch == challenge
           r == challenge.r
           zeta == challenge.zeta
           a == Claim(Proved, inst.public, ch)
           b == Claim(Proved, pub, ch)
           D == 1 .. NbPublic
           f == [k \in D |-> Lagrange(zeta)[k] * inst.public[k]]
           g == [k \in D |-> Lagrange(zeta)[k] * pub[k]]
<1>1. tau \in Field /\ ch \in Challenges /\ r \in Field /\ zeta \in Field /\ Proved \in Proofs
      /\ inst.public \in PublicInputs
  BY TypedFacts, ZetaFacts, ProvedFacts
<1>2. d \in Int /\ ~Cong(d, 0)
  BY DeltaIsNotZero
<1>3. inst.public \in [D -> Field] /\ i \in D
  BY <1>1 DEF PublicInputs
<1>4. (inst.public[i] + d) % PRIME \in Field /\ Cong((inst.public[i] + d) % PRIME, inst.public[i] + d)
      /\ inst.public[i] \in Int
  BY <1>2, <1>3, FieldIsInt, FieldOps
<1>5. pub \in PublicInputs
  BY <1>3, <1>4 DEF PublicInputs, Replaced
<1>6. pub[i] = (inst.public[i] + d) % PRIME /\ \A k \in D : k # i => pub[k] = inst.public[k]
  BY <1>3 DEF Replaced
<1>7. Cong(Residual(Proved, ch, r, b), 0) /\ Cong(Residual(Proved, ch, r, a), 0)
  BY <1>1, <1>5, AcceptsIs, TrueResidual DEF Is
<1>8. a \in Int /\ b \in Int
  BY <1>1, <1>5, ClaimFacts
<1>9. Cong(b, a)
  <2> HIDE DEF a, b
  <2>1. QED
    BY <1>1, <1>7, <1>8, ClaimsAgree
<1>10. /\ f \in [D -> Int] /\ g \in [D -> Int] /\ IsFiniteSet(D)
       /\ PI(inst.public, zeta) = Sums(f, D)[D] /\ PI(pub, zeta) = Sums(g, D)[D]
       /\ PI(inst.public, zeta) \in Int /\ PI(pub, zeta) \in Int
  BY <1>1, <1>5, PIFacts
<1>11. Cong(PI(pub, zeta), PI(inst.public, zeta))
  <2> DEFINE x == alpha2Lagrange(ch)
             y == (Proved["S1_AT_Z"] * ch.beta + ch.gamma + Proved["L_AT_Z"])
                  * (Proved["S2_AT_Z"] * ch.beta + ch.gamma + Proved["R_AT_Z"])
                  * (Proved["O_AT_Z"] + ch.gamma) * ch.alpha * Proved["GRAND_PRODUCT_AT_Z_OMEGA"]
             p == PI(inst.public, zeta)
             q == PI(pub, zeta)
  <2>1. a = x - p - y /\ b = x - q - y
    BY DEF Claim
  <2>2. x \in Int /\ p \in Int /\ q \in Int
    BY <1>1, <1>10, Alpha2Facts
  <2>3. y \in Int
    <3> DEFINE y1 == Proved["S1_AT_Z"] * ch.beta
               y2 == Proved["S2_AT_Z"] * ch.beta
               y3 == y1 + ch.gamma + Proved["L_AT_Z"]
               y4 == y2 + ch.gamma + Proved["R_AT_Z"]
               y5 == Proved["O_AT_Z"] + ch.gamma
               y6 == Proved["GRAND_PRODUCT_AT_Z_OMEGA"]
               bb == ch.beta
               aa == ch.alpha
    <3>1. /\ Proved["S1_AT_Z"] \in Int /\ Proved["S2_AT_Z"] \in Int /\ Proved["L_AT_Z"] \in Int
          /\ Proved["R_AT_Z"] \in Int /\ Proved["O_AT_Z"] \in Int /\ y6 \in Int
          /\ bb \in Int /\ ch.gamma \in Int /\ aa \in Int
      BY <1>1, ProofFacts, ChallengeFacts, FieldIsInt
    <3>2. y1 \in Int /\ y2 \in Int
      BY <3>1
    <3>3. y3 \in Int /\ y4 \in Int /\ y5 \in Int
      BY <3>1, <3>2
    <3>4. y = y3 * y4 * y5 * aa * y6
      OBVIOUS
    <3> HIDE DEF y, y3, y4, y5, y6, aa, bb
    <3>5. y3 * y4 \in Int
      BY <3>3
    <3>6. (y3 * y4) * y5 \in Int
      BY <3>3, <3>5
    <3>7. ((y3 * y4) * y5) * aa \in Int
      BY <3>1, <3>6
    <3>8. (((y3 * y4) * y5) * aa) * y6 \in Int
      BY <3>1, <3>7
    <3>9. QED
      BY <3>4, <3>8
  <2> HIDE DEF x, y, p, q, a, b
  <2>4. Cong(a, b)
    BY <1>8, <1>9, CongSym
  <2>5. a - b = q - p
    BY <2>1, <2>2, <2>3
  <2>6. QED
    BY <2>4, <2>5 DEF Cong, p, q
<1> DEFINE T == D \ {i}
           L == Lagrange(zeta)[i]
<1>12. L \in Int /\ ~Cong(L, 0)
  <2> DEFINE k == i - 1
             e == Eval(Basis[k], zeta)
             w == Power(k)
             n == Pow(zeta, N) - 1
  <2>1. k \in 0 .. NbPublic - 1 /\ k \in Rows /\ k + 1 = i /\ k \in 0 .. N + 2
    BY SizeFacts DEF Rows
  <2>2. L = e /\ L \in Int
    <3> HIDE DEF k
    <3>1. Lagrange(zeta)[k + 1] = Eval(Basis[k], zeta) /\ Lagrange(zeta)[k + 1] \in Field
      BY <1>1, <2>1, LagrangeIsBasis
    <3>2. QED
      BY <2>1, <3>1, FieldIsInt
  <2>3. Cong((zeta - w) * e, w * (Inv(N) * n))
    BY <1>1, <2>1, BasisFacts, FieldIsInt
  <2>4. zeta \in Int /\ w \in Int /\ ~Cong(w, 0) /\ ~Cong(n, 0)
    BY <1>1, <2>1, PowerFacts, OutsideFacts, FieldIsInt
  <2>5. n \in Int
    <3> DEFINE m == Pow(zeta, N)
    <3>1. m \in Int
      BY <2>4, SizeFacts, PowSteps
    <3> HIDE DEF m
    <3>2. m - 1 \in Int
      BY <3>1
    <3>3. QED
      BY <3>2 DEF m
  <2>6. Inv(N) \in Int /\ ~Cong(Inv(N), 0)
    <3>1. Inv(N) \in Int /\ Cong(N * Inv(N), 1) /\ N \in Int
      BY SizeFacts, InvFacts
    <3> DEFINE v == Inv(N)
    <3> HIDE DEF v
    <3>2. v \in Int /\ Cong(N * v, 1)
      BY <3>1 DEF v
    <3>3. ASSUME Cong(v, 0) PROVE FALSE
      <4>1. Cong(N * v, 0) /\ N * v \in Int
        BY <3>1, <3>2, <3>3, ZeroTimes, Zenon
      <4>5. 0 \in Int /\ 1 \in Int
        OBVIOUS
      <4>2. Cong(1, N * v)
        BY <3>2, <4>1, <4>5, CongSym
      <4>3. Cong(1, 0)
        BY <4>1, <4>2, <4>5, CongTrans
      <4>4. QED
        BY <4>3, FieldIsInt
    <3>4. QED
      BY <3>2, <3>3 DEF v
  <2> DEFINE v == Inv(N)
  <2>9. v \in Int /\ ~Cong(v, 0) /\ Cong((zeta - w) * e, w * (v * n))
    BY <2>3, <2>6
  <2>7. ASSUME Cong(L, 0) PROVE FALSE
    <3> HIDE DEF v, n, w, e, zeta, k, L
    <3>1. v * n \in Int /\ ~Cong(v * n, 0)
      BY <2>4, <2>5, <2>9, NoZeroDivisors
    <3>2. w * (v * n) \in Int /\ ~Cong(w * (v * n), 0)
      <4> DEFINE x == v * n
      <4>1. x \in Int /\ ~Cong(x, 0)
        BY <3>1
      <4> HIDE DEF x
      <4>2. w * x \in Int /\ ~Cong(w * x, 0)
        BY <2>4, <4>1, NoZeroDivisors
      <4>3. QED
        BY <4>2 DEF x
    <3>3. zeta - w \in Int /\ e \in Int /\ Cong(e, 0)
      BY <2>2, <2>4, <2>7
    <3>4. Cong((zeta - w) * e, 0) /\ (zeta - w) * e \in Int /\ 0 \in Int
      BY <3>3, ZeroTimes
    <3>5. Cong(w * (v * n), (zeta - w) * e)
      BY <2>9, <3>2, <3>4, CongSym
    <3>6. Cong(w * (v * n), 0)
      BY <3>2, <3>4, <3>5, CongTrans
    <3>7. QED
      BY <3>2, <3>6
  <2>8. QED
    BY <2>2, <2>7
<1>13. f[i] = L * inst.public[i] /\ g[i] = L * pub[i] /\ \A k \in T : f[k] = g[k]
  BY <1>3, <1>6
<1>14. Cong(g[i], f[i])
  <2>1. SumLike(f, D, Sums(f, D)) /\ SumLike(g, D, Sums(g, D))
    BY <1>10, SumSteps
  <2> DEFINE sf == Sums(f, D)
             sg == Sums(g, D)
  <2>2. Cong(sg[D], sf[D])
    BY <1>10, <1>11
  <2>3. f[i] \in Int /\ g[i] \in Int
    BY <1>3, <1>10
  <2>4. Cong(sf[T], sg[T])
    <3>1. \A k \in T : Cong(1 * f[k], 1 * g[k] + 0 * g[k])
      <4>1. TAKE k \in T
      <4> DEFINE m == f[k]
      <4>2. m \in Int /\ g[k] = m
        BY <1>10, <1>13
      <4> HIDE DEF m, f, g
      <4>3. 1 * m = m /\ 1 * m + 0 * m = m
        BY <4>2
      <4>4. Cong(m, m)
        BY <4>2, CongRefl
      <4>5. QED
        BY <4>2, <4>3, <4>4 DEF m
    <3>2. T \in SUBSET D /\ 1 \in Int /\ 0 \in Int
      OBVIOUS
    <3> HIDE DEF f, g, T, D
    <3>3. Cong(1 * Sums(f, D)[T], 1 * Sums(g, D)[T] + 0 * Sums(g, D)[T])
      BY <1>10, <3>1, <3>2, SumCombines
    <3>4. Sums(f, D)[T] \in Int /\ Sums(g, D)[T] \in Int
      BY <2>1, <3>2 DEF SumLike
    <3> HIDE DEF sf, sg
    <3>5. Cong(1 * sf[T], 1 * sg[T] + 0 * sg[T]) /\ sf[T] \in Int /\ sg[T] \in Int
      BY <3>3, <3>4 DEF sf, sg
    <3>6. 1 * sf[T] = sf[T] /\ 1 * sg[T] + 0 * sg[T] = sg[T]
      BY <3>5
    <3>7. QED
      BY <3>5, <3>6
  <2>5. /\ Cong(sf[D], f[i] + sf[T]) /\ Cong(sg[D], g[i] + sg[T])
        /\ sf[D] \in Int /\ sg[D] \in Int /\ sf[T] \in Int /\ sg[T] \in Int
    <3>1. D \in SUBSET D /\ T \in SUBSET D /\ T = D \ {i} /\ i \in D
      BY <1>3
    <3> HIDE DEF f, g, T, D
    <3>2. QED
      BY <2>1, <3>1 DEF SumLike
  <2> DEFINE x == f[i]
             y == g[i]
             p == sf[D]
             q == sg[D]
             s == sf[T]
             t == sg[T]
  <2>6. x \in Int /\ y \in Int /\ p \in Int /\ q \in Int /\ s \in Int /\ t \in Int
        /\ Cong(p, x + s) /\ Cong(q, y + t) /\ Cong(q, p) /\ Cong(s, t)
    BY <2>2, <2>3, <2>4, <2>5
  <2> HIDE DEF x, y, p, q, s, t
  <2>7. Cong(y, x)
    <3>1. x + s \in Int /\ y + t \in Int
      BY <2>6
    <3>2. Cong(y + t, q) /\ Cong(q, x + s)
      BY <2>6, <3>1, CongSym, CongTrans
    <3>3. Cong(y + t, x + s)
      BY <2>6, <3>1, <3>2, CongTrans
    <3>4. Cong((y + t) - t, (x + s) - s)
      BY <2>6, <3>1, <3>3, CongAdd, CongSym
    <3>5. (y + t) - t = y /\ (x + s) - s = x
      BY <2>6
    <3>6. QED
      BY <3>4, <3>5
  <2>8. QED
    BY <2>7 DEF x, y
<1>15. Cong(d, 0)
  <2> DEFINE m == inst.public[i]
             n == pub[i]
  <2>1. m \in Int /\ n \in Int /\ Cong(n, m + d) /\ Cong(L * n, L * m)
    BY <1>4, <1>6, <1>13, <1>14, FieldIsInt
  <2> HIDE DEF m, n, L
  <2>2. Cong(n, m)
    BY <1>12, <2>1, CongCancel
  <2>3. m + d \in Int
    BY <1>2, <2>1
  <2>4. Cong(m + d, m)
    BY <2>1, <2>2, <2>3, CongSym, CongTrans
  <2>5. (m + d) - m = d - 0
    BY <1>2, <2>1
  <2>6. QED
    BY <2>4, <2>5 DEF Cong
<1>16. QED
  BY <1>2, <1>15

-----------------------------------------------------------------------------
(* The inductive invariant. *)

\* What is verified, by how it was changed: the prover's proof, one of its
\* points or public inputs replaced, or numbers the contract does not read.
Delivered ==
  \/ changed = Unchanged /\ proof = Proved /\ public_inputs = inst.public
  \/ \E p \in Points, d \in Deltas :
       /\ changed = [Unchanged EXCEPT !.what = "point", !.part = p]
       /\ proof = Replaced(Proved, p, d) /\ public_inputs = inst.public
  \/ \E i \in 1 .. NbPublic, d \in Deltas :
       /\ changed = [Unchanged EXCEPT !.what = "public", !.i = i]
       /\ proof = Proved /\ public_inputs = Replaced(inst.public, i, d)
  \/ changed.what \in {"spelling", "length"} /\ ~WellFormed(proof, public_inputs)

DeliveryInv ==
  /\ Typed
  /\ verdict \in {"none", "proved", "accepted", "refused"}
  /\ verdict = "none" => changed = Unchanged
  /\ verdict # "none" => Provable /\ Delivered
  /\ verdict \in {"accepted", "refused"} => verdict = Verdict(proof, public_inputs, challenge)

\* What the prover makes depends on the instance, the trapdoor and the
\* challenges alone.
LEMMA ProverStays ==
  ASSUME inst' = inst, tau' = tau, challenge' = challenge
  PROVE  Proved' = Proved /\ (Provable' <=> Provable) /\ (Typed' <=> Typed)
<1>1. GrandProduct' = GrandProduct
  BY SMTT(60) DEF GrandProduct, Numerator, Denominator, Shifted
<1>2. Wire(0)' = Wire(0) /\ Wire(1)' = Wire(1) /\ Wire(2)' = Wire(2)
  BY DEF Wire
<1>3. \A l, r, o, z : Identity(l, r, o, z)' = Identity(l, r, o, z)
  BY SMTT(60) DEF Identity, Public, Copied
<1>4. Quotient' = Quotient
  BY <1>1, <1>2, <1>3 DEF Quotient
<1>5. \A pf, z, h : Linearized(pf, z, h)' = Linearized(pf, z, h)
  BY SMTT(60) DEF Linearized
<1>6. \A c, l, r, o, z, h : Batch(c, l, r, o, z, h)' = Batch(c, l, r, o, z, h)
  BY <1>5 DEF Batch
<1>7. \A l, r, o, z, h : Claimed(l, r, o, z, h)' = Claimed(l, r, o, z, h)
  BY DEF Claimed
<1>8. Proved' = Proved
  BY <1>1, <1>2, <1>4, <1>6, <1>7 DEF Proved
<1>9. Provable' <=> Provable
  BY DEF Provable, Denominator, Shifted
<1>10. Typed' <=> Typed
  BY DEF Typed
<1>11. QED
  BY <1>8, <1>9, <1>10

\* So does the contract's verdict on given proofs and inputs.
LEMMA VerdictStays ==
  ASSUME tau' = tau
  PROVE  \A pf, pub, ch : Verdict(pf, pub, ch)' = Verdict(pf, pub, ch)
<1>1. VK' = VK /\ \A w : VK_S(w)' = VK_S(w)
  BY DEF VK, VK_S
<1>2. \A pf, ch, h : LinearCommitment(pf, ch, h)' = LinearCommitment(pf, ch, h)
  BY <1>1 DEF LinearCommitment
<1>3. \A pf, r, linear : FoldedDigest(pf, r, linear)' = FoldedDigest(pf, r, linear)
  BY <1>1 DEF FoldedDigest
<1>4. \A pf, zeta, u, digest, claims : Opens(pf, zeta, u, digest, claims)' <=> Opens(pf, zeta, u, digest, claims)
  BY DEF Opens
<1>5. \A pf, pub, ch : Accepts(pf, pub, ch)' <=> Accepts(pf, pub, ch)
  BY <1>2, <1>3, <1>4 DEF Accepts
<1>6. QED
  BY <1>5 DEF Verdict

LEMMA DeliveryInit == Init => DeliveryInv
<1> SUFFICES ASSUME Init PROVE DeliveryInv
  OBVIOUS
<1>1. inst \in Instances /\ tau \in Field
  BY PlonkAssumption DEF Init
<1>2. challenge \in Challenges
  <2>1. /\ Alphas \subseteq Field /\ Betas \subseteq Field /\ Gammas \subseteq Field /\ Rs \subseteq Field
        /\ Others \subseteq Field /\ Us \subseteq Field
    BY PlonkAssumption
  <2>2. challenge \in [alpha : Alphas, beta : Betas, gamma : Gammas, zeta : Field, r : Rs, other : Others, u : Us]
    BY DEF Init
  <2>3. QED
    BY <2>1, <2>2 DEF Challenges
<1>3. QED
  BY <1>1, <1>2 DEF DeliveryInv, Typed, Init

\* A number with the order added is not read, and neither are too few inputs.
LEMMA NotRead ==
  ASSUME Typed
  PROVE  /\ \A s \in Scalars : ~WellFormed([Proved EXCEPT ![s] = @ + PRIME], inst.public)
         /\ \A i \in DOMAIN inst.public : ~WellFormed(Proved, [inst.public EXCEPT ![i] = @ + PRIME])
         /\ ~WellFormed(Proved, Tail(inst.public))
<1>1. Proved \in [Points \cup Scalars -> Field] /\ inst.public \in [1 .. NbPublic -> Field]
  BY ProvedFacts, TypedFacts DEF Proofs, PublicInputs
<1>2. \A x \in Field : ~InField(x + PRIME)
  BY PrimeIsPositive DEF Field, InField
<1>3. ASSUME NEW s \in Scalars PROVE ~WellFormed([Proved EXCEPT ![s] = @ + PRIME], inst.public)
  <2>1. [Proved EXCEPT ![s] = @ + PRIME][s] = Proved[s] + PRIME /\ Proved[s] \in Field
    BY <1>1
  <2>2. QED
    BY <1>2, <2>1 DEF WellFormed
<1>4. ASSUME NEW i \in DOMAIN inst.public PROVE ~WellFormed(Proved, [inst.public EXCEPT ![i] = @ + PRIME])
  <2>1. /\ [inst.public EXCEPT ![i] = @ + PRIME][i] = inst.public[i] + PRIME /\ inst.public[i] \in Field
        /\ i \in DOMAIN [inst.public EXCEPT ![i] = @ + PRIME]
    BY <1>1
  <2>2. QED
    BY <1>2, <2>1 DEF WellFormed
<1>5. ~WellFormed(Proved, Tail(inst.public))
  <2>1. inst.public \in Seq(Field) /\ Len(inst.public) = NbPublic /\ NbPublic \in Nat /\ NbPublic >= 1
    BY <1>1, SizeFacts, Stored DEF Poly
  <2>2. inst.public # <<>>
    BY <2>1
  <2>3. Len(Tail(inst.public)) = NbPublic - 1
    BY <2>1, <2>2
  <2>4. QED
    BY <2>1, <2>3 DEF WellFormed
<1>6. QED
  BY <1>3, <1>4, <1>5

LEMMA DeliveryStep == DeliveryInv /\ [Next]_vars => DeliveryInv'
<1> SUFFICES ASSUME DeliveryInv, [Next]_vars PROVE DeliveryInv'
  OBVIOUS
<1>1. inst' = inst /\ tau' = tau /\ challenge' = challenge
  BY DEF Next, Prove, Change, verify, vars
<1>2. Proved' = Proved /\ (Provable' <=> Provable) /\ Typed' /\ Typed
  BY <1>1, ProverStays DEF DeliveryInv
<1>3. CASE Prove
  <2>1. changed = Unchanged /\ changed' = changed
    BY <1>3 DEF Prove, DeliveryInv
  <2>2. proof' = Proved' /\ public_inputs' = inst'.public /\ changed' = Unchanged
    BY <1>1, <1>2, <1>3, <2>1 DEF Prove
  <2>3. Delivered' /\ Provable' /\ verdict' = "proved"
    BY <1>2, <1>3, <2>2 DEF Prove, Delivered
  <2>4. QED
    BY <1>2, <2>3 DEF DeliveryInv
<1>4. CASE Change
  <2>1. verdict = "proved" /\ verdict' = "proved" /\ changed = Unchanged /\ Provable /\ Delivered
    BY <1>4 DEF Change, DeliveryInv
  <2>2. Unchanged.what = "nothing"
    BY DEF Unchanged
  <2>3. proof = Proved /\ public_inputs = inst.public
    BY <2>1, <2>2 DEF Delivered, Unchanged
  <2>4. inst.public \in [1 .. NbPublic -> Field] /\ DOMAIN inst.public = 1 .. NbPublic
    BY <1>2, TypedFacts DEF PublicInputs
  <2>5. ASSUME NEW p \in Points, ChangePoint(p) PROVE Delivered'
    <3>1. PICK d \in Deltas : proof' = Replaced(Proved, p, d)
      BY <2>3, <2>5 DEF ChangePoint, Replaced
    <3>2. proof' = Replaced(Proved', p, d) /\ public_inputs' = inst'.public
          /\ changed' = [Unchanged EXCEPT !.what = "point", !.part = p]
      BY <1>1, <1>2, <2>3, <2>5, <3>1 DEF ChangePoint
    <3>3. QED
      BY <3>2 DEF Delivered
  <2>6. ASSUME NEW i \in DOMAIN public_inputs, ChangePublic(i) PROVE Delivered'
    <3>1. PICK d \in Deltas : public_inputs' = Replaced(inst.public, i, d)
      BY <2>3, <2>6 DEF ChangePublic, Replaced
    <3>2. public_inputs' = Replaced(inst'.public, i, d) /\ proof' = Proved' /\ i \in 1 .. NbPublic
          /\ changed' = [Unchanged EXCEPT !.what = "public", !.i = i]
      BY <1>1, <1>2, <2>3, <2>4, <2>6, <3>1 DEF ChangePublic
    <3>3. QED
      BY <3>2 DEF Delivered
  <2>7. ASSUME Respell PROVE Delivered'
    <3>1. changed'.what = "spelling"
      BY <2>7 DEF Respell, Unchanged
    <3>2. \/ \E s \in Scalars : proof' = [Proved EXCEPT ![s] = @ + PRIME] /\ public_inputs' = inst.public
          \/ \E i \in DOMAIN inst.public :
               public_inputs' = [inst.public EXCEPT ![i] = @ + PRIME] /\ proof' = Proved
      BY <2>3, <2>7 DEF Respell
    <3>3. ~WellFormed(proof', public_inputs')
      BY <1>2, <3>2, NotRead
    <3>4. QED
      BY <3>1, <3>3 DEF Delivered
  <2>8. ASSUME Shorten PROVE Delivered'
    <3>1. changed'.what = "length" /\ proof' = Proved /\ public_inputs' = Tail(inst.public)
      BY <2>3, <2>8 DEF Shorten, Unchanged
    <3>2. ~WellFormed(proof', public_inputs')
      BY <1>2, <3>1, NotRead
    <3>3. QED
      BY <3>1, <3>2 DEF Delivered
  <2>9. Delivered'
    BY <1>4, <2>5, <2>6, <2>7, <2>8 DEF Change
  <2>10. QED
    BY <1>2, <2>1, <2>9 DEF DeliveryInv
<1>5. CASE verify
  <2>1. /\ verdict = "proved" /\ verdict' = Verdict(proof, public_inputs, challenge)
        /\ proof' = proof /\ public_inputs' = public_inputs /\ changed' = changed /\ Provable /\ Delivered
    BY <1>5 DEF verify, DeliveryInv
  <2>2. Delivered'
    BY <1>1, <1>2, <2>1 DEF Delivered
  <2>3. verdict' \in {"accepted", "refused"}
    BY <2>1 DEF Verdict
  <2>4. Verdict(proof, public_inputs, challenge)' = Verdict(proof, public_inputs, challenge)
    BY <1>1, <2>1, VerdictStays
  <2>5. verdict' = Verdict(proof, public_inputs, challenge)'
    BY <2>1, <2>4
  <2>6. verdict' \in {"none", "proved", "accepted", "refused"} /\ verdict' # "none" /\ Provable'
    BY <1>2, <2>1, <2>3
  <2>7. QED
    BY <1>2, <2>2, <2>5, <2>6 DEF DeliveryInv
<1>6. CASE UNCHANGED vars
  <2>1. proof' = proof /\ public_inputs' = public_inputs /\ changed' = changed /\ verdict' = verdict
    BY <1>6 DEF vars
  <2>2. Delivered' <=> Delivered
    BY <1>1, <1>2, <2>1 DEF Delivered
  <2>3. Verdict(proof, public_inputs, challenge)' = Verdict(proof, public_inputs, challenge)
    BY <1>1, <2>1, VerdictStays
  <2>4. QED
    BY <1>2, <2>1, <2>2, <2>3 DEF DeliveryInv
<1>7. QED
  BY <1>3, <1>4, <1>5, <1>6 DEF Next

\* The challenges and the instance are of the field, and what is verified is
\* the prover's proof but for the one change that is made to it; the verdict
\* is the contract's on just that.
THEOREM DeliveryInvariant == Spec => []DeliveryInv
<1>1. QED
  BY DeliveryInit, DeliveryStep, PTL DEF Spec

-----------------------------------------------------------------------------
(* The properties. *)

LEMMA Interpolates == DeliveryInv => InterpolationIsLagrange
<1> SUFFICES ASSUME DeliveryInv, ~InDomain(challenge.zeta), NEW k \in 0 .. NbPublic - 1
             PROVE  Lagrange(challenge.zeta)[k + 1] =
                      Product([j \in Rows \ {k} |-> (challenge.zeta - Power(j)) * Inv((Power(k) - Power(j)) % PRIME)])
  BY DEF InterpolationIsLagrange
<1>1. challenge.zeta \in Field /\ challenge.zeta \in Int
  BY ZetaFacts DEF DeliveryInv
<1>2. k \in Rows
  BY SizeFacts DEF Rows
<1>3. QED
  BY <1>1, <1>2, LagrangeIsBasis, BasisIsProduct

\* The contract's batch inversion computes the Lagrange polynomials of the
\* public rows, for every prime, domain and point outside the domain.
THEOREM LagrangeInterpolates == Spec => []InterpolationIsLagrange
<1>1. QED
  BY DeliveryInvariant, Interpolates, PTL

LEMMA FitsIdentity == DeliveryInv => AcceptedFitsIdentity
<1> SUFFICES ASSUME DeliveryInv, verdict = "accepted", changed = Unchanged, ~Linearized_is_q
             PROVE  Eval(Whole, challenge.zeta) = Eval(Quotient, challenge.zeta) ** Zz(challenge.zeta)
  BY DEF AcceptedFitsIdentity, Whole
<1>1. Typed /\ Delivered /\ Accepts(proof, public_inputs, challenge)
  BY DEF DeliveryInv, Verdict
<1>2. proof = Proved /\ public_inputs = inst.public
  BY <1>1 DEF Delivered, Unchanged
<1>3. QED
  BY <1>1, <1>2, AcceptedFits DEF Linearized_is_q

\* Whatever the contract accepts as the prover made it satisfies the identity
\* of gates and copies at zeta, for every circuit, witness and challenge.
THEOREM AcceptanceIsSound == Spec => []AcceptedFitsIdentity
<1>1. QED
  BY DeliveryInvariant, FitsIdentity, PTL

LEMMA TruthPasses == DeliveryInv => TrueIsAccepted
<1> SUFFICES ASSUME DeliveryInv, verdict = "refused", changed = Unchanged, Satisfied, ~Degenerate
             PROVE  FALSE
  BY DEF TrueIsAccepted
<1>1. Typed /\ Provable /\ Delivered /\ ~Accepts(proof, public_inputs, challenge)
  BY DEF DeliveryInv, Verdict
<1>2. proof = Proved /\ public_inputs = inst.public
  BY <1>1 DEF Delivered, Unchanged
<1>3. /\ ~InDomain(challenge.zeta) /\ FoldedH(Proved, challenge.zeta) # PRIME
      /\ linearized_poly_at_z(Proved, inst.public, challenge) # PRIME
      /\ ClaimsPoint(Proved, challenge, challenge.r, linearized_poly_at_z(Proved, inst.public, challenge)) # 0
      /\ QuotientPoint(Proved, challenge) # 0
  BY <1>2 DEF Degenerate, Linearized_is_q, ClaimsPoint, QuotientPoint
<1>4. QED
  BY <1>1, <1>2, <1>3, TrueAccepted

\* The contract refuses no proof of a true statement, whatever the circuit, the
\* witness, the trapdoor and the challenges, except at the named points.
THEOREM TruthIsAccepted == Spec => []TrueIsAccepted
<1>1. QED
  BY DeliveryInvariant, TruthPasses, PTL

LEMMA ChangesFail == DeliveryInv => ChangeIsRefused
<1> SUFFICES ASSUME DeliveryInv, verdict = "accepted" PROVE ChangeIsRefused
  BY DEF ChangeIsRefused
<1>1. Typed /\ Provable /\ Delivered /\ Accepts(proof, public_inputs, challenge)
  BY DEF DeliveryInv, Verdict
<1>2. WellFormed(proof, public_inputs)
  BY <1>1 DEF Accepts
<1>3. changed.what \notin {"spelling", "length"}
  <2>1. Unchanged.what \notin {"spelling", "length"}
    BY DEF Unchanged
  <2>2. \A p : [Unchanged EXCEPT !.what = "point", !.part = p].what \notin {"spelling", "length"}
    BY DEF Unchanged
  <2>3. \A i : [Unchanged EXCEPT !.what = "public", !.i = i].what \notin {"spelling", "length"}
    BY DEF Unchanged
  <2>4. QED
    BY <1>1, <1>2, <2>1, <2>2, <2>3, Zenon DEF Delivered
<1>4. Deltas \subseteq 1 .. PRIME - 1
  BY PlonkAssumption
<1>5. ASSUME Satisfied, ~InDomain(challenge.zeta), 0 \notin {challenge.zeta, challenge.r, challenge.u},
             tau \notin {challenge.zeta, (challenge.zeta * OMEGA) % PRIME}, ~Linearized_is_q
      PROVE  /\ changed.what # "public"
             /\ changed.what = "point" =>
                  /\ changed.part = "GRAND_PRODUCT"
                  /\ (PermutationScalars(proof, challenge).s2 + challenge.u) % PRIME = 0
  <2>1. CASE changed = Unchanged
    BY <2>1 DEF Unchanged
  <2>2. ASSUME NEW p \in Points, NEW d \in Deltas,
               changed = [Unchanged EXCEPT !.what = "point", !.part = p],
               proof = Replaced(Proved, p, d), public_inputs = inst.public
        PROVE  p = "GRAND_PRODUCT" /\ (PermutationScalars(proof, challenge).s2 + challenge.u) % PRIME = 0
               /\ changed.part = p /\ changed.what = "point"
    <3>1. d \in 1 .. PRIME - 1
      BY <1>4
    <3>2. Accepts(proof, inst.public, challenge) /\ linearized_poly_at_z(proof, inst.public, challenge) # PRIME
      BY <1>1, <1>5, <2>2 DEF Linearized_is_q
    <3>3. p = "GRAND_PRODUCT" /\ (PermutationScalars(proof, challenge).s2 + challenge.u) % PRIME = 0
      BY <1>1, <1>5, <2>2, <3>1, <3>2, PointBinds
    <3>4. changed.part = p /\ changed.what = "point"
      BY <2>2 DEF Unchanged
    <3>5. QED
      BY <3>3, <3>4
  <2>3. ASSUME NEW i \in 1 .. NbPublic, NEW d \in Deltas, proof = Proved,
               public_inputs = Replaced(inst.public, i, d)
        PROVE  FALSE
    <3>1. d \in 1 .. PRIME - 1
      BY <1>4
    <3>2. Accepts(Proved, public_inputs, challenge) /\ linearized_poly_at_z(Proved, public_inputs, challenge) # PRIME
      BY <1>1, <1>5, <2>3 DEF Linearized_is_q
    <3>3. QED
      BY <1>1, <1>5, <2>3, <3>1, <3>2, PublicBinds
  <2>4. QED
    BY <1>1, <1>3, <2>1, <2>2, <2>3 DEF Delivered
<1>6. QED
  BY <1>3, <1>5 DEF ChangeIsRefused

\* No respelt opened value or public input and no shortened list of public
\* inputs is accepted; and no proof of a true statement with one commitment or
\* public input replaced, outside the degenerate challenges that
\* ChangeIsRefused names.
THEOREM ChangesAreRefused == Spec => []ChangeIsRefused
<1>1. QED
  BY DeliveryInvariant, ChangesFail, PTL

=============================================================================
