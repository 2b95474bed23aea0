------------------------------ MODULE FieldProofs ------------------------------
(***************************************************************************)
(* TLAPS proofs about the integers modulo a prime and polynomials over     *)
(* them, for every prime: products and sums, Fermat's reciprocal, values   *)
(* of polynomials, and what divides them.                                  *)
(***************************************************************************)
EXTENDS Polynomials, FiniteSetTheorems, FunctionTheorems, SequenceTheorems, WellFoundedInduction, TLAPS

-----------------------------------------------------------------------------
(* Congruence modulo PRIME. *)

Cong(a, b) == \E q \in Int : a - b = PRIME * q

LEMMA PrimeIsPositive == PRIME \in Nat /\ PRIME > 1
BY PrimeAssumption

LEMMA ModIsField == ASSUME NEW a \in Int PROVE a % PRIME \in Field /\ Cong(a % PRIME, a)
<1>1. /\ a % PRIME \in 0 .. PRIME - 1 /\ a \div PRIME \in Int
      /\ a = PRIME * (a \div PRIME) + (a % PRIME)
  BY PrimeIsPositive
<1>2. (a % PRIME) - a = PRIME * (0 - (a \div PRIME)) /\ 0 - (a \div PRIME) \in Int
  BY <1>1, PrimeIsPositive
<1>3. QED
  BY <1>1, <1>2 DEF Cong, Field

LEMMA CongRefl == ASSUME NEW a \in Int PROVE Cong(a, a)
<1>1. a - a = PRIME * 0
  BY PrimeIsPositive
<1>2. QED
  BY <1>1 DEF Cong

LEMMA CongSym == ASSUME NEW a \in Int, NEW b \in Int, Cong(a, b) PROVE Cong(b, a)
<1>1. PICK q \in Int : a - b = PRIME * q
  BY DEF Cong
<1>2. b - a = PRIME * (0 - q) /\ 0 - q \in Int
  BY <1>1, PrimeIsPositive
<1>3. QED
  BY <1>2 DEF Cong

LEMMA CongTrans ==
  ASSUME NEW a \in Int, NEW b \in Int, NEW c \in Int, Cong(a, b), Cong(b, c)
  PROVE  Cong(a, c)
<1>1. PICK q \in Int : a - b = PRIME * q
  BY DEF Cong
<1>2. PICK r \in Int : b - c = PRIME * r
  BY DEF Cong
<1>3. a - c = PRIME * (q + r) /\ q + r \in Int
  BY <1>1, <1>2, PrimeIsPositive
<1>4. QED
  BY <1>3 DEF Cong

LEMMA CongAdd ==
  ASSUME NEW a \in Int, NEW b \in Int, NEW c \in Int, NEW d \in Int, Cong(a, b), Cong(c, d)
  PROVE  Cong(a + c, b + d) /\ Cong(a - c, b - d)
<1>1. PICK q \in Int : a - b = PRIME * q
  BY DEF Cong
<1>2. PICK r \in Int : c - d = PRIME * r
  BY DEF Cong
<1>3. (a + c) - (b + d) = PRIME * (q + r) /\ q + r \in Int
  BY <1>1, <1>2, PrimeIsPositive
<1>4. (a - c) - (b - d) = PRIME * (q - r) /\ q - r \in Int
  BY <1>1, <1>2, PrimeIsPositive
<1>5. QED
  BY <1>3, <1>4 DEF Cong

LEMMA CongMul ==
  ASSUME NEW a \in Int, NEW b \in Int, NEW c \in Int, NEW d \in Int, Cong(a, b), Cong(c, d)
  PROVE  Cong(a * c, b * d)
<1>1. PICK q \in Int : a - b = PRIME * q
  BY DEF Cong
<1>2. PICK r \in Int : c - d = PRIME * r
  BY DEF Cong
<1>3. a * c - b * d = PRIME * (c * q + b * r) /\ c * q + b * r \in Int
  BY <1>1, <1>2, PrimeIsPositive
<1>4. QED
  BY <1>3 DEF Cong

LEMMA CongIsEqual == ASSUME NEW a \in Field, NEW b \in Field, Cong(a, b) PROVE a = b
<1>1. PICK q \in Int : a - b = PRIME * q
  BY DEF Cong
<1>2. a \in 0 .. PRIME - 1 /\ b \in 0 .. PRIME - 1
  BY DEF Field
<1>3. QED
  BY <1>1, <1>2, PrimeIsPositive

\* Numbers that are congruent have the same remainder.
LEMMA CongMod ==
  ASSUME NEW a \in Int, NEW b \in Int
  PROVE  /\ Cong(a, b) <=> a % PRIME = b % PRIME
         /\ Cong(a, 0) <=> a % PRIME = 0
         /\ a \in Field => a % PRIME = a
<1>1. /\ a % PRIME \in Field /\ Cong(a % PRIME, a) /\ b % PRIME \in Field /\ Cong(b % PRIME, b)
      /\ a % PRIME \in Int /\ b % PRIME \in Int
  BY ModIsField DEF Field
<1>2. Cong(a, a % PRIME) /\ Cong(b, b % PRIME)
  BY <1>1, CongSym
<1>3. ASSUME Cong(a, b) PROVE a % PRIME = b % PRIME
  <2>1. Cong(a % PRIME, b)
    BY <1>1, <1>3, CongTrans
  <2>2. Cong(a % PRIME, b % PRIME)
    BY <1>1, <1>2, <2>1, CongTrans
  <2>3. QED
    BY <1>1, <2>2, CongIsEqual
<1>4. ASSUME a % PRIME = b % PRIME PROVE Cong(a, b)
  BY <1>1, <1>2, <1>4, CongTrans
<1>5. 0 \in Field /\ 0 \in Int
  BY PrimeIsPositive DEF Field
<1>6. ASSUME Cong(a, 0) PROVE a % PRIME = 0
  <2>1. Cong(a % PRIME, 0)
    BY <1>1, <1>5, <1>6, CongTrans
  <2>2. QED
    BY <1>1, <1>5, <2>1, CongIsEqual
<1>7. ASSUME a % PRIME = 0 PROVE Cong(a, 0)
  BY <1>2, <1>7
<1>8. a \in Field => a % PRIME = a
  BY <1>1, CongIsEqual
<1>9. QED
  BY <1>3, <1>4, <1>6, <1>7, <1>8

-----------------------------------------------------------------------------
(* Folds over finite sets, whatever order they take the members in. *)

LEMMA NatInductionOnSet ==
  ASSUME NEW S, 0 \in S, \A n \in Nat : n \in S => n + 1 \in S
  PROVE  \A n \in Nat : n \in S
<1> DEFINE Rest == Nat \ S
<1>1. SUFFICES ASSUME Rest # {} PROVE FALSE
  OBVIOUS
<1>2. PICK x \in Rest : \A y \in Rest : ~(<<y, x>> \in OpToRel(<, Nat))
  BY <1>1, NatLessThanWellFounded, WFMin
<1>3. x # 0 /\ x - 1 \in Nat /\ x - 1 < x
  OBVIOUS
<1>4. x - 1 \notin Rest
  BY <1>2, <1>3 DEF OpToRel
<1>5. QED
  BY <1>3, <1>4

Pick(s) == CHOOSE x \in s : TRUE

\* What the operation G makes of the values f has on the subsets of D, when it
\* takes the member p of a set first.
Folds(G, base, f, D, p, g) ==
  \A s \in SUBSET D : g[s] = IF s = {} THEN base ELSE G[<<f[p[s]], g[s \ {p[s]}]>>]

\* The same, where nothing is said of what G is not made for.
FoldsOn(G, base, f, D, g) ==
  \A s \in SUBSET D : /\ s = {} => g[s] = base
                      /\ s # {} /\ g[s \ {Pick(s)}] \in Field =>
                           g[s] = G[<<f[Pick(s)], g[s \ {Pick(s)}]>>]

\* The fold takes whichever member it likes first.
Peels(G, base, f, D, g) ==
  /\ g[{}] = base
  /\ \A s \in SUBSET D : g[s] \in Field /\ \A y \in s : g[s] = G[<<f[y], g[s \ {y}]>>]

Commutes(G) == \A a, b \in Int : \A v \in Field : G[<<a, G[<<b, v>>]>>] = G[<<b, G[<<a, v>>]>>]

LEMMA Subsets ==
  ASSUME NEW D, IsFiniteSet(D)
  PROVE  /\ \A s \in SUBSET D : IsFiniteSet(s) /\ Cardinality(s) \in Nat /\ Cardinality(s) <= Cardinality(D)
         /\ \A s \in SUBSET D : Cardinality(s) = 0 <=> s = {}
         /\ \A s \in SUBSET D : \A y \in s : /\ s \ {y} \in SUBSET D
                                            /\ Cardinality(s \ {y}) = Cardinality(s) - 1
         /\ \A s \in SUBSET D : s # {} => Pick(s) \in s
<1>1. \A s \in SUBSET D : IsFiniteSet(s) /\ Cardinality(s) \in Nat /\ Cardinality(s) <= Cardinality(D)
  BY FS_Subset, FS_CardinalityType
<1>2. \A s \in SUBSET D : Cardinality(s) = 0 <=> s = {}
  BY <1>1, FS_EmptySet
<1>3. \A s \in SUBSET D : \A y \in s : s \ {y} \in SUBSET D /\ Cardinality(s \ {y}) = Cardinality(s) - 1
  BY <1>1, FS_RemoveElement
<1>4. \A s \in SUBSET D : s # {} => Pick(s) \in s
  BY DEF Pick
<1>5. QED
  BY <1>1, <1>2, <1>3, <1>4

LEMMA FoldExists ==
  ASSUME NEW D, IsFiniteSet(D), NEW f \in [D -> Int], NEW base \in Field,
         NEW G \in [Int \X Field -> Field],
         NEW p, \A s \in SUBSET D : s # {} => p[s] \in s
  PROVE  \E g \in [SUBSET D -> Field] : Folds(G, base, f, D, p, g)
<1> DEFINE Upto(g, n) == \A s \in SUBSET D : Cardinality(s) <= n =>
                  g[s] = IF s = {} THEN base ELSE G[<<f[p[s]], g[s \ {p[s]}]>>]
           S == {n \in Nat : \E g \in [SUBSET D -> Field] : Upto(g, n)}
<1>1. \A s \in SUBSET D : /\ Cardinality(s) \in Nat
                          /\ s # {} => /\ p[s] \in D /\ s \ {p[s]} \in SUBSET D
                                       /\ Cardinality(s \ {p[s]}) = Cardinality(s) - 1
  BY Subsets
<1>2. 0 \in S
  <2>1. \A s \in SUBSET D : Cardinality(s) <= 0 => s = {}
    BY Subsets
  <2>2. Upto([s \in SUBSET D |-> base], 0)
    BY <2>1
  <2>3. [s \in SUBSET D |-> base] \in [SUBSET D -> Field]
    OBVIOUS
  <2> HIDE DEF Upto
  <2>4. QED
    BY <2>2, <2>3
<1>3. ASSUME NEW n \in Nat, n \in S PROVE n + 1 \in S
  <2>1. PICK g \in [SUBSET D -> Field] : Upto(g, n)
    BY <1>3
  <2> DEFINE h == [s \in SUBSET D |-> IF s = {} THEN base ELSE G[<<f[p[s]], g[s \ {p[s]}]>>]]
  <2>2. h \in [SUBSET D -> Field]
    <3>1. \A s \in SUBSET D : s # {} => f[p[s]] \in Int /\ g[s \ {p[s]}] \in Field
      BY <1>1
    <3>2. \A s \in SUBSET D : s # {} => G[<<f[p[s]], g[s \ {p[s]}]>>] \in Field
      BY <3>1
    <3>3. QED
      BY <3>2
  <2>3. \A s \in SUBSET D : Cardinality(s) <= n => h[s] = g[s]
    BY <2>1
  <2>4. ASSUME NEW s \in SUBSET D, Cardinality(s) <= n + 1, s # {}
        PROVE  h[s \ {p[s]}] = g[s \ {p[s]}]
    <3>1. s \ {p[s]} \in SUBSET D /\ Cardinality(s \ {p[s]}) <= n
      BY <1>1, <2>4
    <3> HIDE DEF h
    <3>2. QED
      BY <3>1, <2>3
  <2>5. Upto(h, n + 1)
    BY <2>4
  <2> HIDE DEF Upto, h
  <2>6. QED
    BY <2>2, <2>5
<1>4. Cardinality(D) \in S
  <2> HIDE DEF S
  <2>1. QED
    BY <1>1, <1>2, <1>3, NatInductionOnSet
<1>5. PICK g \in [SUBSET D -> Field] : Upto(g, Cardinality(D))
  BY <1>4
<1>6. Folds(G, base, f, D, p, g)
  BY <1>5, Subsets DEF Folds
<1>7. QED
  BY <1>6

\* A fold over a set is that over the rest of it and any one member.
LEMMA FoldTakesAnyMember ==
  ASSUME NEW D, IsFiniteSet(D), NEW f \in [D -> Int], NEW base \in Field,
         NEW G \in [Int \X Field -> Field], Commutes(G), NEW g, FoldsOn(G, base, f, D, g)
  PROVE  Peels(G, base, f, D, g)
<1> DEFINE Fits(s) == g[s] \in Field /\ \A y \in s : g[s] = G[<<f[y], g[s \ {y}]>>]
           S == {n \in Nat : \A s \in SUBSET D : Cardinality(s) <= n => Fits(s)}
<1>1. g[{}] = base
  BY DEF FoldsOn
<1>2. 0 \in S
  <2>1. \A s \in SUBSET D : Cardinality(s) <= 0 => s = {}
    BY Subsets
  <2>2. QED
    BY <1>1, <2>1
<1>3. ASSUME NEW n \in Nat, n \in S PROVE n + 1 \in S
  <2>1. SUFFICES ASSUME NEW s \in SUBSET D, Cardinality(s) <= n + 1 PROVE Fits(s)
    OBVIOUS
  <2>2. \A y \in s : \A r \in SUBSET (s \ {y}) : Fits(r)
    <3>1. TAKE y \in s
    <3>2. TAKE r \in SUBSET (s \ {y})
    <3>3. /\ r \in SUBSET D /\ s \ {y} \in SUBSET D /\ IsFiniteSet(s \ {y})
          /\ Cardinality(s \ {y}) = Cardinality(s) - 1 /\ Cardinality(s) \in Nat
      BY Subsets
    <3>4. Cardinality(r) <= n
      BY <2>1, <3>3, FS_Subset, FS_CardinalityType
    <3> HIDE DEF Fits
    <3>5. QED
      BY <1>3, <3>3, <3>4
  <2>3. CASE s = {}
    BY <1>1, <2>3
  <2>. SUFFICES ASSUME s # {} PROVE Fits(s)
    BY <2>3
  <2>5. PICK x \in s : g[s] = G[<<f[x], g[s \ {x}]>>]
    <3>1. Pick(s) \in s
      BY DEF Pick
    <3>2. g[s \ {Pick(s)}] \in Field
      BY <2>2, <3>1
    <3>3. QED
      BY <3>1, <3>2 DEF FoldsOn
  <2>6. f[x] \in Int /\ g[s \ {x}] \in Field
    BY <2>2
  <2>7. ASSUME NEW y \in s PROVE g[s] = G[<<f[y], g[s \ {y}]>>]
    <3>1. CASE y = x
      BY <2>5, <3>1
    <3>2. CASE y # x
      <4>1. /\ g[s \ {x}] = G[<<f[y], g[(s \ {x}) \ {y}]>>]
            /\ g[s \ {y}] = G[<<f[x], g[(s \ {y}) \ {x}]>>]
        BY <2>2, <3>2
      <4>2. g[(s \ {x}) \ {y}] = g[(s \ {y}) \ {x}]
        <5>1. (s \ {x}) \ {y} = (s \ {y}) \ {x}
          OBVIOUS
        <5>2. QED
          BY <5>1, Zenon
      <4>3. f[y] \in Int /\ g[(s \ {x}) \ {y}] \in Field
        <5>1. y \in s \ {x} /\ (s \ {x}) \ {y} \in SUBSET (s \ {x})
          BY <3>2
        <5>2. f[y] \in Int
          OBVIOUS
        <5>3. QED
          BY <2>2, <5>1, <5>2
      <4>4. QED
        BY <2>5, <2>6, <4>1, <4>2, <4>3 DEF Commutes
    <3>3. QED
      BY <3>1, <3>2
  <2>8. g[s] \in Field
    BY <2>5, <2>6
  <2>9. QED
    BY <2>7, <2>8
<1>4. \A n \in Nat : n \in S
  <2> HIDE DEF S
  <2>1. QED
    BY <1>2, <1>3, NatInductionOnSet
<1>5. \A s \in SUBSET D : Fits(s)
  <2>1. ASSUME NEW s \in SUBSET D PROVE Fits(s)
    <3>1. Cardinality(s) \in S /\ Cardinality(s) <= Cardinality(s)
      <4> HIDE DEF S
      <4>1. QED
        BY <1>4, Subsets
    <3> HIDE DEF Fits
    <3>2. QED
      BY <3>1
  <2>2. QED
    BY <2>1
<1>6. QED
  BY <1>1, <1>5 DEF Peels

-----------------------------------------------------------------------------
(* Products and sums. *)

ProductOver(f, D, g) ==
  g = [s \in SUBSET D |-> IF s = {} THEN 1 ELSE (f[Pick(s)] * g[s \ {Pick(s)}]) % PRIME]
SumOver(f, D, g) ==
  g = [s \in SUBSET D |-> IF s = {} THEN 0 ELSE (f[Pick(s)] + g[s \ {Pick(s)}]) % PRIME]

Products(f, D) == CHOOSE g : ProductOver(f, D, g)
Sums(f, D) == CHOOSE g : SumOver(f, D, g)

Multiply == [x \in Int \X Field |-> (x[1] * x[2]) % PRIME]
Add == [x \in Int \X Field |-> (x[1] + x[2]) % PRIME]

LEMMA MultiplyFacts ==
  /\ Multiply \in [Int \X Field -> Field] /\ Commutes(Multiply) /\ 1 \in Field
  /\ \A a \in Int : \A v \in Field : Multiply[<<a, v>>] = (a * v) % PRIME
<1>0. Field \subseteq Int
  BY PrimeIsPositive DEF Field
<1>1. \A a \in Int : \A v \in Field : Multiply[<<a, v>>] = (a * v) % PRIME
  BY DEF Multiply
<1>2. Multiply \in [Int \X Field -> Field]
  <2>1. ASSUME NEW x \in Int \X Field PROVE (x[1] * x[2]) % PRIME \in Field
    <3> DEFINE y == x[1] * x[2]
    <3>0. x[1] \in Int /\ x[2] \in Int
      BY <1>0
    <3>1. y \in Int
      BY <3>0
    <3> HIDE DEF y
    <3>2. y % PRIME \in Field
      BY <3>1, ModIsField
    <3>3. QED
      BY <3>2 DEF y
  <2>2. QED
    BY <2>1 DEF Multiply
<1>3. Commutes(Multiply)
  <2>1. SUFFICES ASSUME NEW a \in Int, NEW b \in Int, NEW v \in Field
                 PROVE  Multiply[<<a, Multiply[<<b, v>>]>>] = Multiply[<<b, Multiply[<<a, v>>]>>]
    BY DEF Commutes
  <2> DEFINE m == b * v
             n == a * v
  <2>2. v \in Int /\ m \in Int /\ n \in Int /\ a * m = b * n
    BY <1>0
  <2>3. Multiply[<<b, v>>] = m % PRIME /\ Multiply[<<a, v>>] = n % PRIME
    BY <1>1
  <2> HIDE DEF m, n
  <2>4. /\ m % PRIME \in Field /\ n % PRIME \in Field /\ m % PRIME \in Int /\ n % PRIME \in Int
        /\ Cong(m % PRIME, m) /\ Cong(n % PRIME, n)
    BY <1>0, <2>2, ModIsField
  <2>5. Cong(a * (m % PRIME), a * m) /\ Cong(b * (n % PRIME), b * n)
    BY <2>2, <2>4, CongRefl, CongMul
  <2> DEFINE t == a * m
             u == a * (m % PRIME)
             w == b * (n % PRIME)
  <2>6. t \in Int /\ u \in Int /\ w \in Int /\ Cong(u, t) /\ Cong(w, t)
    BY <2>2, <2>4, <2>5
  <2>7. Multiply[<<a, m % PRIME>>] = u % PRIME /\ Multiply[<<b, n % PRIME>>] = w % PRIME
    BY <1>1, <2>4
  <2> HIDE DEF t, u, w
  <2>8. u % PRIME = t % PRIME /\ w % PRIME = t % PRIME
    BY <2>6, CongMod
  <2>9. QED
    BY <2>3, <2>7, <2>8
<1>4. 1 \in Field
  BY PrimeIsPositive DEF Field
<1>5. QED
  BY <1>1, <1>2, <1>3, <1>4

LEMMA AddFacts ==
  /\ Add \in [Int \X Field -> Field] /\ Commutes(Add) /\ 0 \in Field
  /\ \A a \in Int : \A v \in Field : Add[<<a, v>>] = (a + v) % PRIME
<1>0. Field \subseteq Int
  BY PrimeIsPositive DEF Field
<1>1. \A a \in Int : \A v \in Field : Add[<<a, v>>] = (a + v) % PRIME
  BY DEF Add
<1>2. Add \in [Int \X Field -> Field]
  <2>1. ASSUME NEW x \in Int \X Field PROVE (x[1] + x[2]) % PRIME \in Field
    <3> DEFINE y == x[1] + x[2]
    <3>0. x[1] \in Int /\ x[2] \in Int
      BY <1>0
    <3>1. y \in Int
      BY <3>0
    <3> HIDE DEF y
    <3>2. y % PRIME \in Field
      BY <3>1, ModIsField
    <3>3. QED
      BY <3>2 DEF y
  <2>2. QED
    BY <2>1 DEF Add
<1>3. Commutes(Add)
  <2>1. SUFFICES ASSUME NEW a \in Int, NEW b \in Int, NEW v \in Field
                 PROVE  Add[<<a, Add[<<b, v>>]>>] = Add[<<b, Add[<<a, v>>]>>]
    BY DEF Commutes
  <2> DEFINE m == b + v
             n == a + v
  <2>2. v \in Int /\ m \in Int /\ n \in Int /\ a + m = b + n
    BY <1>0
  <2>3. Add[<<b, v>>] = m % PRIME /\ Add[<<a, v>>] = n % PRIME
    BY <1>1
  <2> HIDE DEF m, n
  <2>4. /\ m % PRIME \in Field /\ n % PRIME \in Field /\ m % PRIME \in Int /\ n % PRIME \in Int
        /\ Cong(m % PRIME, m) /\ Cong(n % PRIME, n)
    BY <1>0, <2>2, ModIsField
  <2>5. Cong(a + (m % PRIME), a + m) /\ Cong(b + (n % PRIME), b + n)
    BY <2>2, <2>4, CongRefl, CongAdd
  <2> DEFINE t == a + m
             u == a + (m % PRIME)
             w == b + (n % PRIME)
  <2>6. t \in Int /\ u \in Int /\ w \in Int /\ Cong(u, t) /\ Cong(w, t)
    BY <2>2, <2>4, <2>5
  <2>7. Add[<<a, m % PRIME>>] = u % PRIME /\ Add[<<b, n % PRIME>>] = w % PRIME
    BY <1>1, <2>4
  <2> HIDE DEF t, u, w
  <2>8. u % PRIME = t % PRIME /\ w % PRIME = t % PRIME
    BY <2>6, CongMod
  <2>9. QED
    BY <2>3, <2>7, <2>8
<1>4. 0 \in Field
  BY PrimeIsPositive DEF Field
<1>5. QED
  BY <1>1, <1>2, <1>3, <1>4

LEMMA ProductsExist ==
  ASSUME NEW D, IsFiniteSet(D), NEW f \in [D -> Int]
  PROVE  /\ ProductOver(f, D, Products(f, D))
         /\ Products(f, D)[{}] = 1
         /\ \A s \in SUBSET D :
              /\ Products(f, D)[s] \in Field
              /\ \A y \in s : Products(f, D)[s] = (f[y] * Products(f, D)[s \ {y}]) % PRIME
<1>1. \E g : ProductOver(f, D, g)
  <2> DEFINE p == [s \in SUBSET D |-> Pick(s)]
  <2>0. \A s \in SUBSET D : s # {} => p[s] \in s /\ p[s] = Pick(s)
    BY Subsets
  <2> HIDE DEF p
  <2>1. PICK g \in [SUBSET D -> Field] : Folds(Multiply, 1, f, D, p, g)
    BY <2>0, FoldExists, MultiplyFacts
  <2>2. \A s \in SUBSET D : s # {} => f[Pick(s)] \in Int /\ g[s \ {Pick(s)}] \in Field
    BY Subsets
  <2>3. \A s \in SUBSET D : g[s] = IF s = {} THEN 1 ELSE (f[Pick(s)] * g[s \ {Pick(s)}]) % PRIME
    BY <2>0, <2>1, <2>2, MultiplyFacts DEF Folds
  <2>4. ProductOver(f, D, g)
    BY <2>3 DEF ProductOver
  <2>5. QED
    BY <2>4
<1>2. ProductOver(f, D, Products(f, D))
  BY <1>1 DEF Products
<1> DEFINE g == Products(f, D)
<1> HIDE DEF g
<1>3. ProductOver(f, D, g)
  BY <1>2 DEF g
<1>4. FoldsOn(Multiply, 1, f, D, g)
  <2>1. \A s \in SUBSET D : g[s] = IF s = {} THEN 1 ELSE (f[Pick(s)] * g[s \ {Pick(s)}]) % PRIME
    BY <1>3 DEF ProductOver
  <2>2. \A s \in SUBSET D : s # {} => f[Pick(s)] \in Int
    BY Subsets
  <2>3. QED
    BY <2>1, <2>2, MultiplyFacts DEF FoldsOn
<1>5. /\ g[{}] = 1
      /\ \A s \in SUBSET D : g[s] \in Field /\ \A y \in s : g[s] = Multiply[<<f[y], g[s \ {y}]>>]
  <2>1. Multiply \in [Int \X Field -> Field] /\ Commutes(Multiply) /\ 1 \in Field
    BY MultiplyFacts
  <2>2. IsFiniteSet(D) /\ f \in [D -> Int]
    OBVIOUS
  <2>3. Peels(Multiply, 1, f, D, g)
    BY <1>4, <2>1, <2>2, FoldTakesAnyMember, Zenon
  <2>4. QED
    BY <2>3 DEF Peels
<1>6. \A s \in SUBSET D : \A y \in s : f[y] \in Int /\ g[s \ {y}] \in Field
  BY <1>5
<1>7. \A s \in SUBSET D : g[s] \in Field /\ \A y \in s : g[s] = (f[y] * g[s \ {y}]) % PRIME
  BY <1>5, <1>6, MultiplyFacts
<1>8. QED
  BY <1>3, <1>5, <1>7 DEF g

LEMMA SumsExist ==
  ASSUME NEW D, IsFiniteSet(D), NEW f \in [D -> Int]
  PROVE  /\ SumOver(f, D, Sums(f, D))
         /\ Sums(f, D)[{}] = 0
         /\ \A s \in SUBSET D :
              /\ Sums(f, D)[s] \in Field
              /\ \A y \in s : Sums(f, D)[s] = (f[y] + Sums(f, D)[s \ {y}]) % PRIME
<1>1. \E g : SumOver(f, D, g)
  <2> DEFINE p == [s \in SUBSET D |-> Pick(s)]
  <2>0. \A s \in SUBSET D : s # {} => p[s] \in s /\ p[s] = Pick(s)
    BY Subsets
  <2> HIDE DEF p
  <2>1. PICK g \in [SUBSET D -> Field] : Folds(Add, 0, f, D, p, g)
    BY <2>0, FoldExists, AddFacts
  <2>2. \A s \in SUBSET D : s # {} => f[Pick(s)] \in Int /\ g[s \ {Pick(s)}] \in Field
    BY Subsets
  <2>3. \A s \in SUBSET D : g[s] = IF s = {} THEN 0 ELSE (f[Pick(s)] + g[s \ {Pick(s)}]) % PRIME
    BY <2>0, <2>1, <2>2, AddFacts DEF Folds
  <2>4. SumOver(f, D, g)
    BY <2>3 DEF SumOver
  <2>5. QED
    BY <2>4
<1>2. SumOver(f, D, Sums(f, D))
  BY <1>1 DEF Sums
<1> DEFINE g == Sums(f, D)
<1> HIDE DEF g
<1>3. SumOver(f, D, g)
  BY <1>2 DEF g
<1>4. FoldsOn(Add, 0, f, D, g)
  <2>1. \A s \in SUBSET D : g[s] = IF s = {} THEN 0 ELSE (f[Pick(s)] + g[s \ {Pick(s)}]) % PRIME
    BY <1>3 DEF SumOver
  <2>2. \A s \in SUBSET D : s # {} => f[Pick(s)] \in Int
    BY Subsets
  <2>3. QED
    BY <2>1, <2>2, AddFacts DEF FoldsOn
<1>5. /\ g[{}] = 0
      /\ \A s \in SUBSET D : g[s] \in Field /\ \A y \in s : g[s] = Add[<<f[y], g[s \ {y}]>>]
  <2>1. Add \in [Int \X Field -> Field] /\ Commutes(Add) /\ 0 \in Field
    BY AddFacts
  <2>2. IsFiniteSet(D) /\ f \in [D -> Int]
    OBVIOUS
  <2>3. Peels(Add, 0, f, D, g)
    BY <1>4, <2>1, <2>2, FoldTakesAnyMember, Zenon
  <2>4. QED
    BY <2>3 DEF Peels
<1>6. \A s \in SUBSET D : \A y \in s : f[y] \in Int /\ g[s \ {y}] \in Field
  BY <1>5
<1>7. \A s \in SUBSET D : g[s] \in Field /\ \A y \in s : g[s] = (f[y] + g[s \ {y}]) % PRIME
  BY <1>5, <1>6, AddFacts
<1>8. QED
  BY <1>3, <1>5, <1>7 DEF g

LEMMA ProductIsLast ==
  ASSUME NEW D, IsFiniteSet(D), NEW f \in [D -> Int]
  PROVE  Product(f) = Products(f, D)[D]
BY DEF Product, FoldFunction, FoldFunctionOnSet, MapThenFoldSet, Products, ProductOver, Pick

LEMMA SumIsLast ==
  ASSUME NEW D, IsFiniteSet(D), NEW f \in [D -> Int]
  PROVE  Total(f) = Sums(f, D)[D]
BY DEF Total, FoldFunction, FoldFunctionOnSet, MapThenFoldSet, Sums, SumOver, Pick

\* What holds of the empty set, and of a set when it holds of it without one of
\* its members, holds of every subset of a finite set.
LEMMA SetInduction ==
  ASSUME NEW D, IsFiniteSet(D), NEW T, {} \in T,
         \A s \in SUBSET D : \A y \in s : s \ {y} \in T => s \in T
  PROVE  \A s \in SUBSET D : s \in T
<1> DEFINE S == {n \in Nat : \A s \in SUBSET D : Cardinality(s) = n => s \in T}
<1>1. 0 \in S
  BY Subsets
<1>2. ASSUME NEW n \in Nat, n \in S PROVE n + 1 \in S
  <2>1. SUFFICES ASSUME NEW s \in SUBSET D, Cardinality(s) = n + 1 PROVE s \in T
    OBVIOUS
  <2>2. Pick(s) \in s /\ s \ {Pick(s)} \in SUBSET D /\ Cardinality(s \ {Pick(s)}) = n
    BY <2>1, Subsets
  <2>3. s \ {Pick(s)} \in T
    BY <1>2, <2>2
  <2>4. QED
    BY <2>2, <2>3
<1>3. \A n \in Nat : n \in S
  <2> HIDE DEF S
  <2>1. QED
    BY <1>1, <1>2, NatInductionOnSet
<1>4. QED
  BY <1>3, Subsets

\* A product with a factor 0 is 0.
LEMMA ProductWithZero ==
  ASSUME NEW D, IsFiniteSet(D), NEW f \in [D -> Int], NEW y \in D, f[y] = 0
  PROVE  Product(f) = 0
<1>1. Products(f, D)[D \ {y}] \in Field /\ Products(f, D)[D] = (0 * Products(f, D)[D \ {y}]) % PRIME
  <2>1. \A s \in SUBSET D :
          /\ Products(f, D)[s] \in Field
          /\ \A x \in s : Products(f, D)[s] = (f[x] * Products(f, D)[s \ {x}]) % PRIME
    BY ProductsExist, Zenon
  <2>2. D \in SUBSET D /\ D \ {y} \in SUBSET D
    OBVIOUS
  <2>3. Products(f, D)[D] = (f[y] * Products(f, D)[D \ {y}]) % PRIME
    BY <2>1, <2>2, Zenon
  <2>4. QED
    BY <2>1, <2>2, <2>3
<1>2. 0 % PRIME = 0
  BY PrimeIsPositive, CongMod DEF Field
<1>3. \A v \in Field : 0 * v = 0
  BY PrimeIsPositive DEF Field
<1>4. QED
  BY <1>1, <1>2, <1>3, ProductIsLast

-----------------------------------------------------------------------------
(* The integers modulo PRIME are a field. *)

LEMMA CongScale ==
  ASSUME NEW a \in Int, NEW b \in Int, NEW c \in Int, Cong(a, b)
  PROVE  Cong(c * a, c * b) /\ Cong(a * c, b * c)
BY CongRefl, CongMul

\* PRIME divides no product of two numbers that it does not divide.
LEMMA NoZeroDivisors ==
  ASSUME NEW a \in Int, NEW b \in Int, Cong(a * b, 0)
  PROVE  Cong(a, 0) \/ Cong(b, 0)
<1>1. SUFFICES ASSUME ~Cong(a, 0) PROVE Cong(b, 0)
  OBVIOUS
<1> DEFINE M == {m \in 1 .. PRIME - 1 : Cong(m * b, 0)}
<1>2. a % PRIME \in M
  <2>1. a % PRIME \in Field /\ a % PRIME # 0 /\ Cong(a % PRIME, a)
    BY <1>1, ModIsField, CongMod
  <2>2. a % PRIME \in 1 .. PRIME - 1 /\ a % PRIME \in Int
    BY <2>1, PrimeIsPositive DEF Field
  <2> DEFINE r == a % PRIME
  <2>3. r \in Int /\ Cong(r, a)
    BY <2>1, <2>2
  <2> HIDE DEF r
  <2>4. Cong(r * b, a * b)
    BY <2>3, CongScale
  <2>5. r * b \in Int /\ a * b \in Int
    BY <2>3
  <2>6. Cong(r * b, 0)
    BY <2>4, <2>5, CongTrans
  <2>7. QED
    BY <2>2, <2>6 DEF r
<1>3. PICK m \in M : \A n \in M : ~(<<n, m>> \in OpToRel(<, Nat))
  <2>0. M \subseteq 1 .. PRIME - 1 /\ 1 .. PRIME - 1 \subseteq Nat
    <3>1. M \subseteq 1 .. PRIME - 1
      BY Zenon
    <3>2. 1 .. PRIME - 1 \subseteq Nat
      BY PrimeIsPositive
    <3>3. QED
      BY <3>1, <3>2
  <2>1. M \subseteq Nat /\ M # {}
    <3> HIDE DEF M
    <3>1. QED
      BY <1>2, <2>0
  <2> HIDE DEF M
  <2>2. QED
    BY <2>1, NatLessThanWellFounded, WFMin
<1>4. m \in 1 .. PRIME - 1 /\ m \in Nat /\ m > 0 /\ Cong(m * b, 0)
  <2>1. m \in 1 .. PRIME - 1 /\ Cong(m * b, 0)
    BY <1>3, Zenon
  <2>2. QED
    BY <2>1, PrimeIsPositive
<1>5. \A n \in M : ~(n < m)
  <2>1. SUFFICES ASSUME NEW n \in M, n < m PROVE FALSE
    OBVIOUS
  <2>2. n \in 1 .. PRIME - 1
    BY Zenon
  <2> HIDE DEF M
  <2>3. n \in Nat
    BY <2>2, PrimeIsPositive
  <2>4. QED
    BY <1>3, <1>4, <2>1, <2>3 DEF OpToRel
<1> DEFINE q == PRIME \div m
           r == PRIME % m
<1>6. q \in Int /\ r \in 0 .. m - 1 /\ PRIME = m * q + r
  BY <1>4, PrimeIsPositive
<1> HIDE DEF q, r, M
<1>7. Cong(r * b, 0)
  <2>1. PICK t \in Int : m * b - 0 = PRIME * t
    BY <1>4 DEF Cong
  <2>2. r = PRIME - m * q /\ r \in Int
    BY <1>4, <1>6, PrimeIsPositive
  <2>3. (m * q) * b = q * (m * b)
    BY <1>4, <1>6
  <2>4. r * b = PRIME * b - q * (m * b)
    BY <1>4, <1>6, <2>2, <2>3, PrimeIsPositive
  <2>5. q * (m * b) = PRIME * (q * t)
    <3>1. m * b = PRIME * t
      BY <1>4, <2>1
    <3>2. q * (PRIME * t) = PRIME * (q * t)
      BY <1>6, PrimeIsPositive
    <3>3. QED
      BY <3>1, <3>2
  <2>6. r * b - 0 = PRIME * (b - q * t) /\ b - q * t \in Int
    BY <1>6, <2>2, <2>4, <2>5, PrimeIsPositive
  <2>7. QED
    BY <2>6 DEF Cong
<1>8. r = 0
  <2>1. r \in 1 .. PRIME - 1 => r \in M
    BY <1>7 DEF M
  <2>2. QED
    BY <1>4, <1>5, <1>6, <2>1
<1>9. m = 1
  <2>1. m \in 2 .. PRIME - 1 => PRIME % m # 0
    BY PrimeAssumption
  <2>2. QED
    BY <1>4, <1>8, <2>1, PrimeIsPositive DEF r
<1>10. 1 * b = b
  OBVIOUS
<1>11. QED
  BY <1>4, <1>9, <1>10

\* A factor that PRIME does not divide can be cancelled.
LEMMA CongCancel ==
  ASSUME NEW a \in Int, NEW b \in Int, NEW c \in Int, ~Cong(c, 0), Cong(c * a, c * b)
  PROVE  Cong(a, b)
<1>1. PICK q \in Int : c * a - c * b = PRIME * q
  BY DEF Cong
<1>2. c * (a - b) - 0 = PRIME * q /\ a - b \in Int
  BY <1>1, PrimeIsPositive
<1>3. Cong(c * (a - b), 0)
  BY <1>2 DEF Cong
<1>4. Cong(a - b, 0)
  BY <1>2, <1>3, NoZeroDivisors
<1>5. PICK t \in Int : (a - b) - 0 = PRIME * t
  BY <1>4 DEF Cong
<1>6. a - b = PRIME * t
  BY <1>5
<1>7. QED
  BY <1>6 DEF Cong

-----------------------------------------------------------------------------
(* Products and sums, up to congruence. *)

LEMMA FieldIsInt == /\ Field \subseteq Int /\ 0 \in Field /\ 1 \in Field /\ ~Cong(1, 0)
                    /\ \A v \in Field : Cong(v, 0) => v = 0
<1>1. Field \subseteq Int /\ 0 \in Field /\ 1 \in Field
  BY PrimeIsPositive DEF Field
<1>2. \A v \in Field : Cong(v, 0) => v = 0
  BY <1>1, CongIsEqual
<1>3. QED
  BY <1>1, <1>2

ProductLike(f, D, g) ==
  /\ g[{}] = 1
  /\ \A s \in SUBSET D : g[s] \in Field /\ g[s] \in Int
  /\ \A s \in SUBSET D : \A y \in s : Cong(g[s], f[y] * g[s \ {y}])

LEMMA ProductSteps ==
  ASSUME NEW D, IsFiniteSet(D), NEW f \in [D -> Int]
  PROVE  ProductLike(f, D, Products(f, D))
<1> DEFINE g == Products(f, D)
<1>1. /\ g[{}] = 1
      /\ \A s \in SUBSET D : g[s] \in Field
      /\ \A s \in SUBSET D : \A y \in s : g[s] = (f[y] * g[s \ {y}]) % PRIME
  <2>1. /\ g[{}] = 1
        /\ \A s \in SUBSET D : g[s] \in Field /\ \A y \in s : g[s] = (f[y] * g[s \ {y}]) % PRIME
    BY ProductsExist, Zenon
  <2>2. QED
    BY <2>1, Zenon
<1> HIDE DEF g
<1>2. \A s \in SUBSET D : g[s] \in Int
  BY <1>1, FieldIsInt
<1>3. ASSUME NEW s \in SUBSET D, NEW y \in s PROVE Cong(g[s], f[y] * g[s \ {y}])
  <2> DEFINE t == f[y] * g[s \ {y}]
  <2>1. f[y] \in Int /\ g[s \ {y}] \in Int
    BY <1>2
  <2>2. t \in Int
    BY <2>1
  <2>3. g[s] = t % PRIME
    BY <1>1
  <2> HIDE DEF t
  <2>4. Cong(g[s], t)
    BY <2>2, <2>3, ModIsField
  <2>5. QED
    BY <2>4 DEF t
<1>4. QED
  BY <1>1, <1>2, <1>3 DEF g, ProductLike

Multiplies(f, D, g) == \A s \in SUBSET D : \A y \in s : g[s] = (f[y] * g[s \ {y}]) % PRIME

LEMMA ProductMultiplies ==
  ASSUME NEW D, IsFiniteSet(D), NEW f \in [D -> Int]
  PROVE  Multiplies(f, D, Products(f, D))
<1>1. \A s \in SUBSET D :
        /\ Products(f, D)[s] \in Field
        /\ \A x \in s : Products(f, D)[s] = (f[x] * Products(f, D)[s \ {x}]) % PRIME
  BY ProductsExist, Zenon
<1>2. QED
  BY <1>1, Zenon DEF Multiplies

SumLike(f, D, g) ==
  /\ g[{}] = 0
  /\ \A s \in SUBSET D : g[s] \in Field /\ g[s] \in Int
  /\ \A s \in SUBSET D : \A y \in s : Cong(g[s], f[y] + g[s \ {y}])

LEMMA SumSteps ==
  ASSUME NEW D, IsFiniteSet(D), NEW f \in [D -> Int]
  PROVE  SumLike(f, D, Sums(f, D))
<1> DEFINE g == Sums(f, D)
<1>1. /\ g[{}] = 0
      /\ \A s \in SUBSET D : g[s] \in Field
      /\ \A s \in SUBSET D : \A y \in s : g[s] = (f[y] + g[s \ {y}]) % PRIME
  <2>1. /\ g[{}] = 0
        /\ \A s \in SUBSET D : g[s] \in Field /\ \A y \in s : g[s] = (f[y] + g[s \ {y}]) % PRIME
    BY SumsExist, Zenon
  <2>2. QED
    BY <2>1, Zenon
<1> HIDE DEF g
<1>2. \A s \in SUBSET D : g[s] \in Int
  BY <1>1, FieldIsInt
<1>3. ASSUME NEW s \in SUBSET D, NEW y \in s PROVE Cong(g[s], f[y] + g[s \ {y}])
  <2> DEFINE t == f[y] + g[s \ {y}]
  <2>1. f[y] \in Int /\ g[s \ {y}] \in Int
    BY <1>2
  <2>2. t \in Int
    BY <2>1
  <2>3. g[s] = t % PRIME
    BY <1>1
  <2> HIDE DEF t
  <2>4. Cong(g[s], t)
    BY <2>2, <2>3, ModIsField
  <2>5. QED
    BY <2>4 DEF t
<1>4. QED
  BY <1>1, <1>2, <1>3 DEF g, SumLike

\* A product of factors that PRIME does not divide.
LEMMA ProductNotZero ==
  ASSUME NEW D, IsFiniteSet(D), NEW f \in [D -> Int], NEW s \in SUBSET D,
         \A y \in s : ~Cong(f[y], 0)
  PROVE  ~Cong(Products(f, D)[s], 0)
<1> DEFINE g == Products(f, D)
           T == {r \in SUBSET D : r \subseteq s => ~Cong(g[r], 0)}
<1>0. ProductLike(f, D, g)
  BY ProductSteps
<1> HIDE DEF g
<1>1. g[{}] = 1 /\ \A r \in SUBSET D : g[r] \in Int /\ \A y \in r : Cong(g[r], f[y] * g[r \ {y}])
  BY <1>0, Zenon DEF ProductLike
<1>2. {} \in T
  BY <1>1, FieldIsInt
<1>3. ASSUME NEW r \in SUBSET D, NEW y \in r, r \ {y} \in T PROVE r \in T
  <2>1. SUFFICES ASSUME r \subseteq s, Cong(g[r], 0) PROVE FALSE
    OBVIOUS
  <2> DEFINE a == f[y]
             b == g[r \ {y}]
  <2>2. /\ ~Cong(b, 0) /\ ~Cong(a, 0)
    BY <1>3, <2>1
  <2>3. a \in Int /\ b \in Int /\ g[r] \in Int /\ Cong(g[r], a * b)
    BY <1>1
  <2> HIDE DEF a, b
  <2>4. a * b \in Int /\ Cong(a * b, g[r])
    BY <2>3, CongSym
  <2>5. Cong(a * b, 0)
    BY <2>1, <2>3, <2>4, CongTrans
  <2>6. QED
    BY <2>2, <2>3, <2>5, NoZeroDivisors
<1>4. \A r \in SUBSET D : r \in T
  <2> HIDE DEF T
  <2>1. QED
    BY <1>2, <1>3, SetInduction
<1>5. QED
  BY <1>4 DEF g

\* Over s, g is what k is over the indices that p renames s to.
Renames(D, p, g, k) == \A s \in SUBSET D : g[s] = k[{p[i] : i \in s}]

\* Factors may be named by other indices.
LEMMA ProductReindex ==
  ASSUME NEW D, IsFiniteSet(D), NEW E, IsFiniteSet(E), NEW f \in [E -> Int], NEW h \in [D -> Int],
         NEW p \in [D -> E], \A i, j \in D : p[i] = p[j] => i = j,
         \A i \in D : h[i] = f[p[i]]
  PROVE  Renames(D, p, Products(h, D), Products(f, E))
<1> DEFINE g == Products(h, D)
           k == Products(f, E)
           im(s) == {p[i] : i \in s}
           T == {s \in SUBSET D : g[s] = k[im(s)]}
<1>1. g[{}] = 1 /\ k[{}] = 1
  BY ProductsExist
<1>2. Multiplies(h, D, g) /\ Multiplies(f, E, k)
  BY ProductMultiplies
<1> HIDE DEF g, k
<1>4. {} \in T
  <2>1. im({}) = {}
    OBVIOUS
  <2> HIDE DEF im
  <2>2. QED
    BY <1>1, <2>1
<1>5. ASSUME NEW s \in SUBSET D, NEW y \in s, s \ {y} \in T PROVE s \in T
  <2>1. im(s) \in SUBSET E /\ p[y] \in im(s) /\ im(s \ {y}) = im(s) \ {p[y]}
    OBVIOUS
  <2>2. g[s \ {y}] = k[im(s \ {y})]
    BY <1>5
  <2> HIDE DEF im
  <2>3. k[im(s)] = (f[p[y]] * k[im(s) \ {p[y]}]) % PRIME
    BY <1>2, <2>1, Zenon DEF Multiplies
  <2>4. g[s] = (h[y] * g[s \ {y}]) % PRIME
    BY <1>2, Zenon DEF Multiplies
  <2>5. h[y] = f[p[y]]
    OBVIOUS
  <2>6. g[s] = k[im(s)]
    BY <2>1, <2>2, <2>3, <2>4, <2>5
  <2>7. QED
    BY <2>6
<1>6. \A s \in SUBSET D : s \in T
  <2> HIDE DEF T
  <2>1. QED
    BY <1>4, <1>5, SetInduction
<1>7. \A s \in SUBSET D : g[s] = k[im(s)]
  BY <1>6, Zenon
<1>8. QED
  BY <1>7, Zenon DEF g, k, Renames

\* A product over part of an index set is one over that part.
LEMMA ProductOfPart ==
  ASSUME NEW E, IsFiniteSet(E), NEW f \in [E -> Int], NEW D \in SUBSET E,
         NEW h \in [D -> Int], \A i \in D : h[i] = f[i]
  PROVE  Product(h) = Products(f, E)[D]
<1> DEFINE p == [i \in D |-> i]
<1>1. IsFiniteSet(D)
  BY FS_Subset
<1>2. p \in [D -> E] /\ (\A i, j \in D : p[i] = p[j] => i = j) /\ \A i \in D : h[i] = f[p[i]]
  OBVIOUS
<1>3. {p[i] : i \in D} = D
  OBVIOUS
<1> HIDE DEF p
<1>4. Renames(D, p, Products(h, D), Products(f, E))
  BY <1>1, <1>2, ProductReindex
<1>5. Products(h, D)[D] = Products(f, E)[D]
  BY <1>3, <1>4, Zenon DEF Renames
<1>6. QED
  BY <1>1, <1>5, ProductIsLast

\* The product of products is the product of the factors' products.
LEMMA ProductPointwise ==
  ASSUME NEW D, IsFiniteSet(D), NEW f \in [D -> Int], NEW g \in [D -> Int], NEW h \in [D -> Int],
         \A i \in D : Cong(h[i], f[i] * g[i])
  PROVE  \A s \in SUBSET D : Cong(Products(h, D)[s], Products(f, D)[s] * Products(g, D)[s])
<1> DEFINE F == Products(f, D)
           G == Products(g, D)
           H == Products(h, D)
           T == {s \in SUBSET D : Cong(H[s], F[s] * G[s])}
<1>1. ProductLike(f, D, F) /\ ProductLike(g, D, G) /\ ProductLike(h, D, H)
  BY ProductSteps
<1> HIDE DEF F, G, H
<1>2. {} \in T
  <2>1. H[{}] = 1 /\ F[{}] = 1 /\ G[{}] = 1
    BY <1>1 DEF ProductLike
  <2>2. Cong(1, 1) /\ 1 * 1 = 1
    BY CongRefl
  <2>3. Cong(H[{}], F[{}] * G[{}])
    BY <2>1, <2>2
  <2>4. QED
    BY <2>3
<1>3. ASSUME NEW s \in SUBSET D, NEW y \in s, s \ {y} \in T PROVE s \in T
  <2> DEFINE a == F[s \ {y}]
             b == G[s \ {y}]
             c == H[s \ {y}]
             fy == f[y]
             gy == g[y]
             hy == h[y]
  <2>1. /\ a \in Int /\ b \in Int /\ c \in Int /\ F[s] \in Int /\ G[s] \in Int /\ H[s] \in Int
        /\ Cong(F[s], fy * a) /\ Cong(G[s], gy * b) /\ Cong(H[s], hy * c)
    BY <1>1 DEF ProductLike
  <2>2. fy \in Int /\ gy \in Int /\ hy \in Int /\ Cong(hy, fy * gy) /\ Cong(c, a * b)
    BY <1>3
  <2> HIDE DEF a, b, c, fy, gy, hy, T
  <2>3. /\ fy * a \in Int /\ gy * b \in Int /\ hy * c \in Int /\ fy * gy \in Int /\ a * b \in Int
        /\ F[s] * G[s] \in Int
    BY <2>1, <2>2
  <2>4. (fy * gy) * (a * b) \in Int /\ (fy * a) * (gy * b) = (fy * gy) * (a * b)
    BY <2>1, <2>2
  <2>5. Cong(hy * c, (fy * gy) * (a * b))
    BY <2>1, <2>2, <2>3, CongMul
  <2>6. Cong(H[s], (fy * gy) * (a * b))
    BY <2>1, <2>3, <2>4, <2>5, CongTrans
  <2>7. Cong(F[s] * G[s], (fy * gy) * (a * b))
    BY <2>1, <2>3, <2>4, CongMul
  <2>8. Cong(H[s], F[s] * G[s])
    BY <2>1, <2>3, <2>4, <2>6, <2>7, CongSym, CongTrans
  <2>9. QED
    BY <2>8 DEF T
<1>4. \A s \in SUBSET D : s \in T
  <2> HIDE DEF T
  <2>1. QED
    BY <1>2, <1>3, SetInduction
<1>5. QED
  BY <1>4 DEF F, G, H

\* The power n of b, as a product.
Pow(b, n) == Product([i \in 1 .. n |-> b])

\* d to the power PRIME - 2 is the inverse of d, by Fermat's little theorem.
LEMMA ReciprocalInverts ==
  ASSUME NEW d \in Int, ~Cong(d, 0)
  PROVE  Pow(d, PRIME - 2) \in Int /\ Cong(d * Pow(d, PRIME - 2), 1)
<1> DEFINE E == 1 .. PRIME - 1
           L == 1 .. PRIME - 2
           id == [i \in E |-> i]
           m == [i \in E |-> (d * i) % PRIME]
           c == [i \in E |-> d]
           l == [i \in L |-> d]
<1>1. /\ IsFiniteSet(E) /\ E \subseteq Field /\ E \subseteq Int /\ PRIME - 1 \in E
      /\ L = E \ {PRIME - 1} /\ L \in SUBSET E
      /\ \A v \in Field : v \in E <=> v # 0
  <2>1. IsFiniteSet(E)
    BY PrimeIsPositive, FS_Interval
  <2>2. E \subseteq Field /\ E \subseteq Int /\ PRIME - 1 \in E /\ L = E \ {PRIME - 1}
    BY PrimeIsPositive DEF Field
  <2>3. \A v \in Field : v \in E <=> v # 0
    BY PrimeIsPositive DEF Field
  <2> HIDE DEF E, L
  <2>4. QED
    BY <2>1, <2>2, <2>3
<1>2. \A i \in E : i \in Int /\ i \in Field /\ i # 0 /\ ~Cong(i, 0)
  BY <1>1, FieldIsInt
<1>3. \A i \in E : (d * i) \in Int /\ m[i] \in E /\ Cong(m[i], d * i)
  <2>1. TAKE i \in E
  <2> DEFINE t == d * i
  <2>2. t \in Int
    BY <1>2
  <2>3. ~Cong(t, 0)
    BY <1>2, NoZeroDivisors
  <2>4. m[i] = t % PRIME
    OBVIOUS
  <2> HIDE DEF t, m, E
  <2>5. t % PRIME \in Field /\ Cong(t % PRIME, t) /\ t % PRIME # 0
    BY <2>2, <2>3, ModIsField, CongMod
  <2>6. QED
    BY <1>1, <2>2, <2>4, <2>5 DEF t
<1>4. \A i, j \in E : m[i] = m[j] => i = j
  <2>1. SUFFICES ASSUME NEW i \in E, NEW j \in E, m[i] = m[j] PROVE i = j
    BY Zenon
  <2> HIDE DEF m, E
  <2>2. i \in Int /\ j \in Int /\ d * i \in Int /\ d * j \in Int /\ m[i] \in Int
    BY <1>1, <1>2, <1>3
  <2>3. Cong(d * i, m[i])
    BY <1>3, <2>2, CongSym
  <2>4. Cong(m[i], d * j)
    BY <1>3, <2>1
  <2>5. Cong(d * i, d * j)
    BY <2>2, <2>3, <2>4, CongTrans
  <2>6. Cong(i, j)
    BY <2>2, <2>5, CongCancel
  <2>7. QED
    BY <1>2, <2>6, CongIsEqual
<1>5. /\ m \in [E -> E] /\ m \in [E -> Int] /\ id \in [E -> Int] /\ c \in [E -> Int] /\ l \in [L -> Int]
      /\ \A i \in E : m[i] = id[m[i]]
      /\ \A i \in E : Cong(m[i], c[i] * id[i])
      /\ \A i \in L : l[i] = c[i]
      /\ \A i \in E : c[i] = d /\ ~Cong(id[i], 0)
  <2>1. m \in [E -> E] /\ m \in [E -> Int]
    <3> HIDE DEF E
    <3>1. m \in [E -> E]
      <4>1. \A i \in E : (d * i) % PRIME \in E
        BY <1>3
      <4>2. QED
        BY <4>1
    <3>2. QED
      BY <1>1, <3>1
  <2>2. id \in [E -> Int] /\ c \in [E -> Int] /\ l \in [L -> Int]
    BY <1>1
  <2> HIDE DEF E, L, m
  <2>3. \A i \in E : m[i] = id[m[i]]
    BY <1>3
  <2>4. \A i \in E : Cong(m[i], c[i] * id[i])
    BY <1>3
  <2>5. (\A i \in L : l[i] = c[i]) /\ \A i \in E : c[i] = d /\ ~Cong(id[i], 0)
    BY <1>1, <1>2
  <2>6. QED
    BY <2>1, <2>2, <2>3, <2>4, <2>5
<1>6. {m[i] : i \in E} = E
  <2>1. m \in Injection(E, E)
    <3> HIDE DEF m, E
    <3>1. QED
      BY <1>4, <1>5, Fun_IsInj
  <2>2. m \in Surjection(E, E)
    <3> HIDE DEF m, E
    <3>1. QED
      BY <1>1, <2>1, FS_Injection
  <2> HIDE DEF m, E
  <2>3. \A t \in E : \E i \in E : m[i] = t
    BY <2>2 DEF Surjection
  <2>4. QED
    BY <1>5, <2>3
<1> DEFINE Q == Products(id, E)[E]
           C == Products(c, E)[E]
           R == Products(c, E)[L]
<1> HIDE DEF E, L, id, m, c, l
<1>7. Products(m, E)[E] = Q
  <2>1. Renames(E, m, Products(m, E), Products(id, E))
    <3>1. IsFiniteSet(E) /\ id \in [E -> Int] /\ m \in [E -> Int] /\ m \in [E -> E]
      BY <1>1, <1>5
    <3>2. \A i \in E : m[i] = id[m[i]]
      BY <1>5
    <3>3. QED
      BY <1>4, <3>1, <3>2, ProductReindex, Zenon
  <2>2. Products(m, E)[E] = Products(id, E)[{m[i] : i \in E}]
    BY <2>1, Zenon DEF Renames
  <2>3. QED
    BY <1>6, <2>2
<1>8. Cong(Q, C * Q)
  <2>1. \A s \in SUBSET E : Cong(Products(m, E)[s], Products(c, E)[s] * Products(id, E)[s])
    BY <1>1, <1>5, ProductPointwise
  <2>2. Cong(Products(m, E)[E], C * Q)
    BY <2>1
  <2>3. QED
    BY <1>7, <2>2
<1>9. ProductLike(id, E, Products(id, E)) /\ ProductLike(c, E, Products(c, E))
  BY <1>1, <1>5, ProductSteps
<1>10. Q \in Int /\ C \in Int /\ R \in Int /\ Cong(C, d * R)
  <2>1. E \in SUBSET E /\ PRIME - 1 \in E /\ c[PRIME - 1] = d
    BY <1>1, <1>5
  <2>2. Q \in Int /\ C \in Int /\ R \in Int
    BY <1>1, <1>9, <2>1, Zenon DEF ProductLike
  <2>3. Cong(C, c[PRIME - 1] * Products(c, E)[E \ {PRIME - 1}])
    BY <1>9, <2>1, Zenon DEF ProductLike
  <2>4. QED
    BY <1>1, <2>1, <2>2, <2>3
<1>11. ~Cong(Q, 0)
  BY <1>1, <1>5, ProductNotZero
<1>12. Pow(d, PRIME - 2) = R
  <2>1. Product(l) = R
    <3>1. IsFiniteSet(E) /\ c \in [E -> Int] /\ L \in SUBSET E /\ l \in [L -> Int] /\ \A i \in L : l[i] = c[i]
      BY <1>1, <1>5
    <3>2. QED
      BY <3>1, ProductOfPart, Zenon
  <2>2. QED
    BY <2>1 DEF Pow, l, L
<1> HIDE DEF Q, C, R
<1>13. Cong(C, 1)
  <2>1. Q * 1 = Q /\ Q * C = C * Q /\ C * Q \in Int
    BY <1>10
  <2>2. Cong(Q * C, Q * 1)
    BY <1>8, <1>10, <2>1, CongSym
  <2>3. QED
    BY <1>10, <1>11, <2>2, CongCancel
<1>14. Cong(d * R, 1)
  <2>1. d * R \in Int
    BY <1>10
  <2>2. QED
    BY <1>10, <1>13, <2>1, CongSym, CongTrans
<1>15. QED
  BY <1>10, <1>12, <1>14

-----------------------------------------------------------------------------
(* Sums that are sums of each other's multiples. *)

LEMMA CombineStep ==
  ASSUME NEW e \in Int, NEW a \in Int, NEW b \in Int,
         NEW f \in Int, NEW g \in Int, NEW h \in Int, NEW F \in Int, NEW G \in Int, NEW H \in Int,
         NEW FF \in Int, NEW GG \in Int, NEW HH \in Int,
         Cong(FF, f + F), Cong(GG, g + G), Cong(HH, h + H),
         Cong(e * f, a * g + b * h), Cong(e * F, a * G + b * H)
  PROVE  Cong(e * FF, a * GG + b * HH)
<1>1. /\ f + F \in Int /\ g + G \in Int /\ h + H \in Int
      /\ e * f \in Int /\ e * F \in Int /\ a * g + b * h \in Int /\ a * G + b * H \in Int
      /\ e * FF \in Int /\ a * GG \in Int /\ b * HH \in Int /\ e * (f + F) \in Int
      /\ a * (g + G) \in Int /\ b * (h + H) \in Int
  OBVIOUS
<1>2. Cong(e * FF, e * (f + F)) /\ Cong(a * GG, a * (g + G)) /\ Cong(b * HH, b * (h + H))
  BY <1>1, CongScale
<1>3. Cong(a * GG + b * HH, a * (g + G) + b * (h + H))
  BY <1>1, <1>2, CongAdd
<1>4. Cong(e * f + e * F, (a * g + b * h) + (a * G + b * H))
  BY <1>1, CongAdd
<1>5. e * (f + F) = e * f + e * F /\ a * (g + G) + b * (h + H) = (a * g + b * h) + (a * G + b * H)
  OBVIOUS
<1> DEFINE p == e * FF
           q == a * GG + b * HH
           u == e * (f + F)
           v == a * (g + G) + b * (h + H)
<1>6. p \in Int /\ q \in Int /\ u \in Int /\ v \in Int
  BY <1>1
<1>7. Cong(p, u) /\ Cong(q, v) /\ Cong(u, v)
  BY <1>2, <1>3, <1>4, <1>5
<1> HIDE DEF p, q, u, v
<1>8. Cong(p, q)
  BY <1>6, <1>7, CongSym, CongTrans
<1>9. QED
  BY <1>8 DEF p, q

LEMMA SumCombines ==
  ASSUME NEW D, IsFiniteSet(D), NEW f \in [D -> Int], NEW g \in [D -> Int], NEW h \in [D -> Int],
         NEW e \in Int, NEW a \in Int, NEW b \in Int, NEW s \in SUBSET D,
         \A i \in s : Cong(e * f[i], a * g[i] + b * h[i])
  PROVE  Cong(e * Sums(f, D)[s], a * Sums(g, D)[s] + b * Sums(h, D)[s])
<1> DEFINE F == Sums(f, D)
           G == Sums(g, D)
           H == Sums(h, D)
           T == {r \in SUBSET D : r \subseteq s => Cong(e * F[r], a * G[r] + b * H[r])}
<1>1. SumLike(f, D, F) /\ SumLike(g, D, G) /\ SumLike(h, D, H)
  BY SumSteps
<1> HIDE DEF F, G, H
<1>2. {} \in T
  <2>1. F[{}] = 0 /\ G[{}] = 0 /\ H[{}] = 0
    BY <1>1 DEF SumLike
  <2>2. e * F[{}] = 0 /\ a * G[{}] + b * H[{}] = 0
    BY <2>1
  <2>3. Cong(e * F[{}], a * G[{}] + b * H[{}])
    BY <2>2, CongRefl
  <2>4. QED
    BY <2>3
<1>3. ASSUME NEW r \in SUBSET D, NEW y \in r, r \ {y} \in T PROVE r \in T
  <2>1. SUFFICES ASSUME r \subseteq s PROVE Cong(e * F[r], a * G[r] + b * H[r])
    OBVIOUS
  <2> DEFINE q == r \ {y}
  <2>2. Cong(e * F[q], a * G[q] + b * H[q])
    BY <1>3, <2>1
  <2>3. Cong(e * f[y], a * g[y] + b * h[y])
    BY <2>1
  <2>4. q \in SUBSET D /\ f[y] \in Int /\ g[y] \in Int /\ h[y] \in Int
    OBVIOUS
  <2>5. /\ F[q] \in Int /\ G[q] \in Int /\ H[q] \in Int /\ F[r] \in Int /\ G[r] \in Int /\ H[r] \in Int
        /\ Cong(F[r], f[y] + F[q]) /\ Cong(G[r], g[y] + G[q]) /\ Cong(H[r], h[y] + H[q])
    BY <1>1, <2>4 DEF SumLike
  <2> DEFINE fy == f[y]
             gy == g[y]
             hy == h[y]
             Fq == F[q]
             Gq == G[q]
             Hq == H[q]
             Fr == F[r]
             Gr == G[r]
             Hr == H[r]
  <2>6. /\ fy \in Int /\ gy \in Int /\ hy \in Int /\ Fq \in Int /\ Gq \in Int /\ Hq \in Int
        /\ Fr \in Int /\ Gr \in Int /\ Hr \in Int
        /\ Cong(Fr, fy + Fq) /\ Cong(Gr, gy + Gq) /\ Cong(Hr, hy + Hq)
        /\ Cong(e * fy, a * gy + b * hy) /\ Cong(e * Fq, a * Gq + b * Hq)
    BY <2>2, <2>3, <2>4, <2>5
  <2> HIDE DEF q, T, fy, gy, hy, Fq, Gq, Hq, Fr, Gr, Hr
  <2>7. Cong(e * Fr, a * Gr + b * Hr)
    BY <2>6, CombineStep
  <2>8. QED
    BY <2>7 DEF Fr, Gr, Hr
<1>4. \A r \in SUBSET D : r \in T
  <2> HIDE DEF T
  <2>1. QED
    BY <1>2, <1>3, SetInduction
<1>5. QED
  BY <1>4 DEF F, G, H

\* What does not count may be left out.
LEMMA SumSkips ==
  ASSUME NEW D, IsFiniteSet(D), NEW f \in [D -> Int], NEW g \in [D -> Int],
         NEW s \in SUBSET D, NEW y \in s, f[y] = 0, \A i \in s \ {y} : f[i] = g[i]
  PROVE  Cong(Sums(f, D)[s], Sums(g, D)[s \ {y}])
<1> DEFINE F == Sums(f, D)
           G == Sums(g, D)
           r == s \ {y}
<1>1. SumLike(f, D, F) /\ SumLike(g, D, G)
  BY SumSteps
<1>2. r \in SUBSET D
  OBVIOUS
<1>3. \A i \in r : Cong(1 * f[i], 1 * g[i] + 0 * g[i])
  <2>1. TAKE i \in r
  <2>2. f[i] = g[i] /\ f[i] \in Int
    OBVIOUS
  <2>3. 1 * f[i] = f[i] /\ 1 * g[i] + 0 * g[i] = f[i]
    BY <2>2
  <2>4. QED
    BY <2>2, <2>3, CongRefl
<1>4. Cong(1 * F[r], 1 * G[r] + 0 * G[r])
  <2>1. 0 \in Int /\ 1 \in Int
    OBVIOUS
  <2> HIDE DEF r
  <2>2. QED
    BY <1>2, <1>3, <2>1, SumCombines, Zenon
<1> HIDE DEF F, G
<1>5. /\ F[r] \in Int /\ G[r] \in Int /\ F[s] \in Int /\ Cong(F[s], f[y] + F[r])
  BY <1>1, <1>2 DEF SumLike
<1> HIDE DEF r
<1>6. f[y] + F[r] = F[r] /\ 1 * F[r] = F[r] /\ 1 * G[r] + 0 * G[r] = G[r]
  BY <1>5
<1>7. Cong(F[s], G[r])
  BY <1>4, <1>5, <1>6, CongTrans
<1>8. QED
  BY <1>7 DEF F, G, r

-----------------------------------------------------------------------------
(* Recursive functions on an interval, upwards and downwards. *)

Upwards(n, b, G, f) == f[0] = b /\ \A i \in 1 .. n : f[i] = G[<<i, f[i - 1]>>]
Downwards(n, b, G, f) == f[n] = b /\ \A i \in 0 .. n - 1 : f[i] = G[<<i, f[i + 1]>>]

LEMMA UpwardsExists ==
  ASSUME NEW n \in Nat, NEW V, NEW b \in V, NEW G \in [(1 .. n) \X V -> V]
  PROVE  \E f \in [0 .. n -> V] : Upwards(n, b, G, f)
<1> DEFINE Upto(f, m) == f[0] = b /\ \A i \in 1 .. n : i <= m => f[i] = G[<<i, f[i - 1]>>]
           S == {m \in Nat : \E f \in [0 .. n -> V] : Upto(f, m)}
<1>1. 0 \in S
  <2>1. [i \in 0 .. n |-> b] \in [0 .. n -> V] /\ Upto([i \in 0 .. n |-> b], 0)
    OBVIOUS
  <2> HIDE DEF Upto
  <2>2. QED
    BY <2>1
<1>2. ASSUME NEW m \in Nat, m \in S PROVE m + 1 \in S
  <2>1. PICK f \in [0 .. n -> V] : Upto(f, m)
    BY <1>2
  <2> DEFINE h == [i \in 0 .. n |-> IF i = m + 1 THEN G[<<i, f[i - 1]>>] ELSE f[i]]
  <2>2. h \in [0 .. n -> V]
    <3>1. m + 1 \in 0 .. n => m \in 0 .. n /\ G[<<m + 1, f[m]>>] \in V
      OBVIOUS
    <3>2. QED
      BY <3>1
  <2>3. Upto(h, m + 1)
    <3>0. h[0] = b
      BY <2>1
    <3>1. SUFFICES ASSUME NEW i \in 1 .. n, i <= m + 1 PROVE h[i] = G[<<i, h[i - 1]>>]
      BY <3>0
    <3>2. i \in 0 .. n /\ i - 1 \in 0 .. n /\ i - 1 # m + 1 /\ h[i - 1] = f[i - 1]
      BY <3>1
    <3>3. CASE i = m + 1
      BY <3>2, <3>3
    <3>4. CASE i # m + 1
      <4>1. f[i] = G[<<i, f[i - 1]>>] /\ h[i] = f[i]
        BY <2>1, <3>1, <3>2, <3>4
      <4>2. QED
        BY <3>2, <4>1
    <3>5. QED
      BY <3>3, <3>4
  <2> HIDE DEF Upto, h
  <2>4. QED
    BY <2>2, <2>3
<1>3. n \in S
  <2> HIDE DEF S
  <2>1. QED
    BY <1>1, <1>2, NatInductionOnSet
<1>4. PICK f \in [0 .. n -> V] : Upto(f, n)
  BY <1>3
<1>5. Upwards(n, b, G, f)
  BY <1>4 DEF Upwards
<1>6. QED
  BY <1>5

LEMMA DownwardsExists ==
  ASSUME NEW n \in Nat, NEW V, NEW b \in V, NEW G \in [(0 .. n - 1) \X V -> V]
  PROVE  \E f \in [0 .. n -> V] : Downwards(n, b, G, f)
<1> DEFINE H == [p \in (1 .. n) \X V |-> G[<<n - p[1], p[2]>>]]
<1>1. H \in [(1 .. n) \X V -> V] /\ \A i \in 1 .. n, v \in V : H[<<i, v>>] = G[<<n - i, v>>]
  <2>1. ASSUME NEW p \in (1 .. n) \X V PROVE G[<<n - p[1], p[2]>>] \in V
    <3>1. n - p[1] \in 0 .. n - 1 /\ p[2] \in V
      OBVIOUS
    <3>2. QED
      BY <3>1
  <2>2. QED
    BY <2>1
<1> HIDE DEF H
<1>2. PICK h \in [0 .. n -> V] : Upwards(n, b, H, h)
  BY <1>1, UpwardsExists
<1> DEFINE f == [i \in 0 .. n |-> h[n - i]]
<1>3. f \in [0 .. n -> V]
  OBVIOUS
<1>4. f[n] = b
  BY <1>2 DEF Upwards
<1>5. ASSUME NEW i \in 0 .. n - 1 PROVE f[i] = G[<<i, f[i + 1]>>]
  <2>1. n - i \in 1 .. n /\ f[i] = h[n - i] /\ f[i + 1] = h[(n - i) - 1] /\ h[(n - i) - 1] \in V /\ n - (n - i) = i
    OBVIOUS
  <2>2. h[n - i] = H[<<n - i, h[(n - i) - 1]>>]
    BY <1>2, <2>1 DEF Upwards
  <2>3. QED
    BY <1>1, <2>1, <2>2
<1>6. Downwards(n, b, G, f)
  BY <1>4, <1>5 DEF Downwards
<1>7. QED
  BY <1>3, <1>6

\* What holds of n, and of i when it holds of i + 1, holds from 0 on.
LEMMA DownwardsInduction ==
  ASSUME NEW n \in Nat, NEW S, n \in S, \A i \in 0 .. n - 1 : i + 1 \in S => i \in S
  PROVE  \A i \in 0 .. n : i \in S
<1> DEFINE T == {m \in Nat : m <= n => n - m \in S}
<1>1. 0 \in T
  OBVIOUS
<1>2. ASSUME NEW m \in Nat, m \in T PROVE m + 1 \in T
  <2>1. SUFFICES ASSUME m + 1 <= n PROVE n - (m + 1) \in S
    OBVIOUS
  <2>2. n - (m + 1) \in 0 .. n - 1 /\ (n - (m + 1)) + 1 = n - m /\ n - m \in S
    BY <1>2, <2>1
  <2>3. QED
    BY <2>2
<1>3. \A m \in Nat : m \in T
  <2> HIDE DEF T
  <2>1. QED
    BY <1>1, <1>2, NatInductionOnSet
<1>4. ASSUME NEW i \in 0 .. n PROVE i \in S
  <2>1. n - i \in Nat /\ n - i <= n /\ n - (n - i) = i /\ n - i \in T
    BY <1>3
  <2>2. QED
    BY <2>1
<1>5. QED
  BY <1>4

-----------------------------------------------------------------------------
(* Values of polynomials. *)

Poly == Seq(Field)

LEMMA PolyFacts ==
  ASSUME NEW p \in Poly
  PROVE  /\ Len(p) \in Nat /\ DOMAIN p = 1 .. Len(p)
         /\ \A k \in 1 .. Len(p) : p[k] \in Field /\ p[k] \in Int
         /\ \A k : At(p, k) \in Field /\ At(p, k) \in Int
<1>1. Len(p) \in Nat /\ DOMAIN p = 1 .. Len(p) /\ \A k \in 1 .. Len(p) : p[k] \in Field
  BY DEF Poly
<1>2. \A k : At(p, k) \in Field
  BY <1>1, FieldIsInt DEF At
<1>3. QED
  BY <1>1, <1>2, FieldIsInt

\* What is written "\o <<>>" is what stands before it.
LEMMA Stored ==
  ASSUME NEW n \in Nat, NEW f \in [1 .. n -> Field]
  PROVE  f \o <<>> = f /\ f \in Poly /\ Len(f) = n
<1>1. f \in Seq(Field) /\ Len(f) = n
  OBVIOUS
<1>2. f \o <<>> = f
  BY <1>1
<1>3. QED
  BY <1>1, <1>2 DEF Poly

IsTails(p, x, e) == e = [k \in 1 .. Len(p) + 1 |-> IF k > Len(p) THEN 0 ELSE (p[k] + x * e[k + 1]) % PRIME]

LEMMA FieldOps ==
  ASSUME NEW a \in Int, NEW b \in Int
  PROVE  /\ (a + b) % PRIME \in Field /\ Cong((a + b) % PRIME, a + b)
         /\ (a * b) % PRIME \in Field /\ Cong((a * b) % PRIME, a * b)
         /\ (a + b) \in Int /\ a * b \in Int /\ (a + b) % PRIME \in Int /\ (a * b) % PRIME \in Int
<1> DEFINE s == a + b
           t == a * b
<1>1. s \in Int /\ t \in Int
  OBVIOUS
<1> HIDE DEF s, t
<1>2. s % PRIME \in Field /\ Cong(s % PRIME, s) /\ t % PRIME \in Field /\ Cong(t % PRIME, t)
  BY <1>1, ModIsField
<1>3. s % PRIME \in Int /\ t % PRIME \in Int
  BY <1>2, FieldIsInt
<1>4. QED
  BY <1>1, <1>2, <1>3 DEF s, t

LEMMA TailsExist ==
  ASSUME NEW p \in Poly, NEW x \in Int
  PROVE  IsTails(p, x, Tails(p, x))
<1> DEFINE n == Len(p)
<1>0. n \in Nat /\ \A k \in 1 .. n : p[k] \in Int
  BY PolyFacts
<1> HIDE DEF n
<1> DEFINE G == [q \in (0 .. n - 1) \X Field |-> (p[q[1] + 1] + x * q[2]) % PRIME]
<1>1. /\ G \in [(0 .. n - 1) \X Field -> Field]
      /\ \A i \in 0 .. n - 1, v \in Field : G[<<i, v>>] = (p[i + 1] + x * v) % PRIME
  <2>1. ASSUME NEW i \in 0 .. n - 1, NEW v \in Field PROVE (p[i + 1] + x * v) % PRIME \in Field
    <3>1. p[i + 1] \in Int /\ v \in Int
      BY <1>0, FieldIsInt
    <3>2. x * v \in Int
      BY <3>1
    <3>3. QED
      BY <3>1, <3>2, FieldOps
  <2>2. QED
    BY <2>1
<1> HIDE DEF G
<1>2. PICK h \in [0 .. n -> Field] : Downwards(n, 0, G, h)
  BY <1>0, <1>1, FieldIsInt, DownwardsExists
<1> DEFINE e == [k \in 1 .. n + 1 |-> h[k - 1]]
<1>3. ASSUME NEW k \in 1 .. n + 1 PROVE e[k] = IF k > n THEN 0 ELSE (p[k] + x * e[k + 1]) % PRIME
  <2>1. CASE k = n + 1
    BY <1>0, <1>2, <2>1 DEF Downwards
  <2>2. CASE k # n + 1
    <3>1. k - 1 \in 0 .. n - 1 /\ k \in 0 .. n /\ e[k] = h[k - 1] /\ e[k + 1] = h[k] /\ ~(k > n) /\ (k - 1) + 1 = k
      BY <1>0, <2>2
    <3>2. h[k - 1] = G[<<k - 1, h[k]>>] /\ h[k] \in Field
      BY <1>2, <3>1 DEF Downwards
    <3> HIDE DEF e
    <3>3. h[k - 1] = (p[k] + x * h[k]) % PRIME
      BY <1>1, <3>1, <3>2
    <3>4. QED
      BY <3>1, <3>3
  <2>3. QED
    BY <2>1, <2>2
<1>4. IsTails(p, x, e)
  BY <1>3, Zenon DEF IsTails, n
<1>5. \E f : IsTails(p, x, f)
  BY <1>4, Zenon
<1>6. Tails(p, x) = CHOOSE f : IsTails(p, x, f)
  BY DEF Tails, IsTails
<1>7. QED
  BY <1>5, <1>6

\* The tail from k on, also where there is none.
Suf(p, x, k) == IF k \in 1 .. Len(p) THEN Tails(p, x)[k] ELSE 0

LEMMA SufStep ==
  ASSUME NEW p \in Poly, NEW x \in Int
  PROVE  /\ \A k \in Nat \ {0} : /\ Suf(p, x, k) \in Field /\ Suf(p, x, k) \in Int
                                 /\ Cong(Suf(p, x, k), At(p, k) + x * Suf(p, x, k + 1))
                                 /\ k > Len(p) => Suf(p, x, k) = 0
         /\ Eval(p, x) = Suf(p, x, 1)
<1> DEFINE n == Len(p)
           e == Tails(p, x)
<1>0. n \in Nat /\ (\A k \in 1 .. n : p[k] \in Int) /\ \A k : At(p, k) \in Int
  BY PolyFacts
<1>1. \A k \in 1 .. n + 1 : e[k] = IF k > n THEN 0 ELSE (p[k] + x * e[k + 1]) % PRIME
  BY <1>0, TailsExist DEF IsTails
<1> HIDE DEF n, e
<1> DEFINE S == {i \in 0 .. n : e[i + 1] \in Field /\ e[i + 1] \in Int}
<1>2. n \in S
  BY <1>0, <1>1, FieldIsInt
<1>3. ASSUME NEW i \in 0 .. n - 1, i + 1 \in S PROVE i \in S
  <2>1. e[i + 2] \in Int /\ p[i + 1] \in Int /\ e[i + 1] = (p[i + 1] + x * e[i + 2]) % PRIME
    <3>1. i + 1 \in 1 .. n /\ (i + 1) + 1 = i + 2
      BY <1>0
    <3>2. QED
      BY <1>0, <1>1, <1>3, <3>1
  <2>2. x * e[i + 2] \in Int
    BY <2>1
  <2>3. QED
    BY <2>1, <2>2, FieldOps, <1>0
<1>4. \A i \in 0 .. n : i \in S
  <2> HIDE DEF S
  <2>1. QED
    BY <1>0, <1>2, <1>3, DownwardsInduction
<1>5. \A k \in 1 .. n + 1 : e[k] \in Field /\ e[k] \in Int
  <2>1. TAKE k \in 1 .. n + 1
  <2>2. k - 1 \in 0 .. n /\ (k - 1) + 1 = k
    BY <1>0
  <2>3. k - 1 \in S
    BY <1>4, <2>2
  <2>4. QED
    BY <2>2, <2>3
<1>6. ASSUME NEW k \in Nat \ {0} PROVE Suf(p, x, k) = (IF k \in 1 .. n + 1 THEN e[k] ELSE 0)
  BY <1>0, <1>1 DEF Suf, n, e
<1>7. ASSUME NEW k \in Nat \ {0} PROVE Cong(Suf(p, x, k), At(p, k) + x * Suf(p, x, k + 1))
  <2>1. CASE k \in 1 .. n
    <3>1. Suf(p, x, k) = e[k] /\ Suf(p, x, k + 1) = e[k + 1] /\ At(p, k) = p[k]
      BY <1>0, <1>6, <2>1 DEF At, n
    <3>2. e[k] = (p[k] + x * e[k + 1]) % PRIME /\ p[k] \in Int /\ e[k + 1] \in Int
      BY <1>0, <1>1, <1>5, <2>1
    <3>3. x * e[k + 1] \in Int
      BY <3>2
    <3>4. Cong(e[k], p[k] + x * e[k + 1])
      BY <3>2, <3>3, FieldOps
    <3>5. QED
      BY <3>1, <3>4
  <2>2. CASE k \notin 1 .. n
    <3>1. Suf(p, x, k) = 0 /\ Suf(p, x, k + 1) = 0 /\ At(p, k) = 0
      BY <1>0, <2>2 DEF At, n, Suf
    <3>2. 0 + x * 0 = 0
      OBVIOUS
    <3>3. QED
      BY <3>1, <3>2, CongRefl
  <2>3. QED
    BY <2>1, <2>2
<1>8. \A k \in Nat \ {0} : Suf(p, x, k) \in Field /\ Suf(p, x, k) \in Int /\ (k > Len(p) => Suf(p, x, k) = 0)
  BY <1>0, <1>5, <1>6, FieldIsInt DEF Suf, n
<1>9. Eval(p, x) = Suf(p, x, 1)
  <2>1. Suf(p, x, 1) = e[1]
    BY <1>0, <1>6
  <2>2. QED
    BY <2>1 DEF Eval, e
<1>10. QED
  BY <1>7, <1>8, <1>9

LEMMA HornerUnique ==
  ASSUME NEW a \in Int, NEW x \in Int, NEW u \in Int, NEW uu \in Int, NEW v \in Int, NEW vv \in Int,
         Cong(u, a + x * uu), Cong(v, a + x * vv), Cong(uu, vv)
  PROVE  Cong(u, v)
<1> DEFINE s == a + x * uu
           t == a + x * vv
<1>1. s \in Int /\ t \in Int /\ x * uu \in Int /\ x * vv \in Int
  OBVIOUS
<1>2. Cong(x * uu, x * vv)
  BY CongScale
<1>3. Cong(s, t)
  BY <1>1, <1>2, CongRefl, CongAdd
<1>4. Cong(u, s) /\ Cong(v, t)
  OBVIOUS
<1> HIDE DEF s, t
<1>5. QED
  BY <1>1, <1>3, <1>4, CongSym, CongTrans

\* Horner's rule: anything that steps like the tails is the tails.
Steps(p, x, M, u) == /\ Cong(u[M + 1], 0)
                     /\ \A k \in 1 .. M : Cong(u[k], At(p, k) + x * u[k + 1])

LEMMA EvalIs ==
  ASSUME NEW p \in Poly, NEW x \in Int, NEW M \in Nat, Len(p) <= M, NEW u \in [1 .. M + 1 -> Int],
         Steps(p, x, M, u)
  PROVE  Cong(Eval(p, x), u[1]) /\ \A k \in 1 .. M + 1 : Cong(Suf(p, x, k), u[k])
<1> DEFINE S == {i \in 0 .. M : Cong(Suf(p, x, i + 1), u[i + 1])}
<1>0. /\ \A k \in Nat \ {0} : /\ Suf(p, x, k) \in Int
                              /\ Cong(Suf(p, x, k), At(p, k) + x * Suf(p, x, k + 1))
                              /\ k > Len(p) => Suf(p, x, k) = 0
      /\ Eval(p, x) = Suf(p, x, 1)
      /\ Len(p) \in Nat /\ \A k : At(p, k) \in Int
  BY SufStep, PolyFacts
<1>1. M \in S
  <2>0. M + 1 \in 1 .. M + 1
    OBVIOUS
  <2> DEFINE L == Len(p)
  <2>a. L \in Nat /\ L <= M
    BY <1>0
  <2> HIDE DEF L
  <2>b. M + 1 > L /\ M + 1 \in Nat \ {0}
    BY <2>a
  <2>c. u[M + 1] \in Int
    BY <2>0
  <2>1. M + 1 > Len(p) /\ M + 1 \in Nat \ {0} /\ u[M + 1] \in Int
    BY <2>b, <2>c DEF L
  <2>2. Suf(p, x, M + 1) = 0
    BY <1>0, <2>1
  <2>3. Cong(0, u[M + 1])
    BY <2>1, CongSym DEF Steps
  <2>4. QED
    BY <2>2, <2>3
<1>2. ASSUME NEW i \in 0 .. M - 1, i + 1 \in S PROVE i \in S
  <2> DEFINE k == i + 1
  <2>1. k \in 1 .. M /\ k \in 1 .. M + 1 /\ k + 1 \in 1 .. M + 1 /\ k \in Nat \ {0} /\ k + 1 \in Nat \ {0}
    OBVIOUS
  <2>2. Cong(Suf(p, x, k + 1), u[k + 1])
    BY <1>2
  <2>3. /\ u[k] \in Int /\ u[k + 1] \in Int /\ Suf(p, x, k) \in Int /\ Suf(p, x, k + 1) \in Int
        /\ At(p, k) \in Int
        /\ Cong(Suf(p, x, k), At(p, k) + x * Suf(p, x, k + 1)) /\ Cong(u[k], At(p, k) + x * u[k + 1])
    <3> HIDE DEF k
    <3>1. u[k] \in Int /\ u[k + 1] \in Int
      BY <2>1
    <3>2. Cong(u[k], At(p, k) + x * u[k + 1])
      BY <2>1 DEF Steps
    <3>3. QED
      BY <1>0, <2>1, <3>1, <3>2
  <2> HIDE DEF k
  <2>4. Cong(Suf(p, x, k), u[k])
    BY <2>2, <2>3, HornerUnique
  <2>5. QED
    BY <2>4 DEF k
<1>3. \A i \in 0 .. M : i \in S
  <2> HIDE DEF S
  <2>1. QED
    BY <1>1, <1>2, DownwardsInduction
<1>4. \A k \in 1 .. M + 1 : Cong(Suf(p, x, k), u[k])
  <2>1. TAKE k \in 1 .. M + 1
  <2>2. k - 1 \in 0 .. M /\ (k - 1) + 1 = k
    OBVIOUS
  <2>3. k - 1 \in S
    <3> HIDE DEF S
    <3>1. QED
      BY <1>3, <2>2
  <2>4. QED
    BY <2>2, <2>3
<1>5. QED
  BY <1>0, <1>4

-----------------------------------------------------------------------------
(* Sums, multiples and products of polynomials. *)

LEMMA AddSteps ==
  ASSUME NEW x \in Int, NEW a \in Int, NEW b \in Int, NEW c \in Int,
         NEW u \in Int, NEW uu \in Int, NEW v \in Int, NEW vv \in Int,
         Cong(c, a + b), Cong(u, a + x * uu), Cong(v, b + x * vv)
  PROVE  Cong(u + v, c + x * (uu + vv))
<1>1. PICK q \in Int : c - (a + b) = PRIME * q
  BY DEF Cong
<1>2. PICK r \in Int : u - (a + x * uu) = PRIME * r
  BY DEF Cong
<1>3. PICK s \in Int : v - (b + x * vv) = PRIME * s
  BY DEF Cong
<1>4. (u + v) - (c + x * (uu + vv)) = PRIME * (r + s - q) /\ r + s - q \in Int
  BY <1>1, <1>2, <1>3, PrimeIsPositive
<1>5. QED
  BY <1>4 DEF Cong

LEMMA ScaleSteps ==
  ASSUME NEW x \in Int, NEW a \in Int, NEW b \in Int, NEW c \in Int, NEW u \in Int, NEW uu \in Int,
         Cong(b, c * a), Cong(u, a + x * uu)
  PROVE  Cong(c * u, b + x * (c * uu))
<1>1. PICK q \in Int : b - c * a = PRIME * q
  BY DEF Cong
<1>2. PICK r \in Int : u - (a + x * uu) = PRIME * r
  BY DEF Cong
<1>3. (c * u) - (b + x * (c * uu)) = PRIME * (c * r - q) /\ c * r - q \in Int
  <2>1. u = a + x * uu + PRIME * r /\ b = c * a + PRIME * q
    BY <1>1, <1>2, PrimeIsPositive
  <2>2. c * u = c * a + c * (x * uu) + c * (PRIME * r) /\ c * (x * uu) = x * (c * uu)
        /\ c * (PRIME * r) = PRIME * (c * r)
    BY <2>1, PrimeIsPositive
  <2>3. PRIME * (c * r - q) = PRIME * (c * r) - PRIME * q
    BY PrimeIsPositive
  <2>4. QED
    BY <2>1, <2>2, <2>3, PrimeIsPositive
<1>4. QED
  BY <1>3 DEF Cong

LEMMA PlusFacts ==
  ASSUME NEW p \in Poly, NEW r \in Poly
  PROVE  /\ Plus(p, r) \in Poly /\ Len(Plus(p, r)) = Longer(Len(p), Len(r)) /\ Longer(Len(p), Len(r)) \in Nat
         /\ \A k \in Nat \ {0} : Cong(At(Plus(p, r), k), At(p, k) + At(r, k))
<1> DEFINE n == Longer(Len(p), Len(r))
           f == [k \in 1 .. n |-> (At(p, k) + At(r, k)) % PRIME]
<1>1. n \in Nat /\ Len(p) \in Nat /\ Len(r) \in Nat /\ n >= Len(p) /\ n >= Len(r)
  BY PolyFacts DEF Longer
<1>2. \A k : At(p, k) \in Int /\ At(r, k) \in Int
  BY PolyFacts
<1> HIDE DEF n
<1>3. f \in [1 .. n -> Field]
  BY <1>2, FieldOps
<1> HIDE DEF f
<1>4. Plus(p, r) = f \o <<>>
  BY DEF Plus, f, n
<1>5. Plus(p, r) = f /\ f \in Poly /\ Len(f) = n
  BY <1>1, <1>3, <1>4, Stored
<1>6. ASSUME NEW k \in Nat \ {0} PROVE Cong(At(f, k), At(p, k) + At(r, k))
  <2>1. CASE k \in 1 .. n
    <3>1. At(f, k) = (At(p, k) + At(r, k)) % PRIME
      BY <1>5, <2>1 DEF At, f
    <3>2. QED
      BY <1>2, <3>1, FieldOps
  <2>2. CASE k \notin 1 .. n
    <3>1. At(f, k) = 0 /\ At(p, k) = 0 /\ At(r, k) = 0
      BY <1>1, <1>5, <2>2 DEF At
    <3>2. QED
      BY <3>1, CongRefl
  <2>3. QED
    BY <2>1, <2>2
<1>7. QED
  BY <1>1, <1>5, <1>6 DEF n

LEMMA EvalPlus ==
  ASSUME NEW p \in Poly, NEW r \in Poly, NEW x \in Int
  PROVE  Cong(Eval(Plus(p, r), x), Eval(p, x) + Eval(r, x))
<1> DEFINE M == Longer(Len(p), Len(r))
           u == [k \in 1 .. M + 1 |-> Suf(p, x, k) + Suf(r, x, k)]
           s == Plus(p, r)
<1>1. /\ M \in Nat /\ Len(p) \in Nat /\ Len(r) \in Nat /\ M >= Len(p) /\ M >= Len(r)
  BY PolyFacts DEF Longer
<1>2. /\ s \in Poly /\ Len(s) = M
      /\ \A k \in Nat \ {0} : Cong(At(s, k), At(p, k) + At(r, k))
  BY PlusFacts
<1> HIDE DEF s, M
<1>3. /\ \A k \in Nat \ {0} : Suf(p, x, k) \in Int /\ Suf(r, x, k) \in Int
      /\ \A k \in Nat \ {0} : Cong(Suf(p, x, k), At(p, k) + x * Suf(p, x, k + 1))
      /\ \A k \in Nat \ {0} : Cong(Suf(r, x, k), At(r, k) + x * Suf(r, x, k + 1))
      /\ \A k \in Nat \ {0} : (k > Len(p) => Suf(p, x, k) = 0) /\ (k > Len(r) => Suf(r, x, k) = 0)
      /\ Eval(p, x) = Suf(p, x, 1) /\ Eval(r, x) = Suf(r, x, 1)
      /\ \A k : At(p, k) \in Int /\ At(r, k) \in Int /\ At(s, k) \in Int
  BY SufStep, PolyFacts, <1>2
<1>4. u \in [1 .. M + 1 -> Int]
  <2>1. ASSUME NEW k \in 1 .. M + 1 PROVE Suf(p, x, k) + Suf(r, x, k) \in Int
    <3>1. k \in Nat \ {0}
      BY <1>1
    <3>2. QED
      BY <1>3, <3>1
  <2>2. QED
    BY <2>1
<1>5. Cong(u[M + 1], 0)
  <2>1. u[M + 1] = 0
    <3>1. M + 1 \in Nat \ {0} /\ M + 1 > Len(p) /\ M + 1 > Len(r) /\ M + 1 \in 1 .. M + 1
      BY <1>1
    <3>2. Suf(p, x, M + 1) = 0 /\ Suf(r, x, M + 1) = 0
      BY <1>3, <3>1
    <3>3. QED
      BY <3>1, <3>2
  <2>2. QED
    BY <2>1, CongRefl
<1>6. ASSUME NEW k \in 1 .. M PROVE Cong(u[k], At(s, k) + x * u[k + 1])
  <2>1. k \in Nat \ {0} /\ k + 1 \in Nat \ {0} /\ k \in 1 .. M + 1 /\ k + 1 \in 1 .. M + 1
    BY <1>1
  <2>2. u[k] = Suf(p, x, k) + Suf(r, x, k) /\ u[k + 1] = Suf(p, x, k + 1) + Suf(r, x, k + 1)
    BY <2>1
  <2> HIDE DEF u
  <2>3. Cong(Suf(p, x, k) + Suf(r, x, k), At(s, k) + x * (Suf(p, x, k + 1) + Suf(r, x, k + 1)))
    BY <1>2, <1>3, <2>1, AddSteps
  <2>4. QED
    BY <2>2, <2>3
<1>7. Steps(s, x, M, u)
  BY <1>5, <1>6 DEF Steps
<1>8. u[1] = Eval(p, x) + Eval(r, x)
  BY <1>1, <1>3
<1> HIDE DEF u
<1>9. Cong(Eval(s, x), u[1])
  BY <1>1, <1>2, <1>4, <1>7, EvalIs
<1>10. QED
  BY <1>8, <1>9 DEF s

LEMMA ScaledFacts ==
  ASSUME NEW p \in Poly, NEW c \in Int
  PROVE  /\ Scaled(c, p) \in Poly /\ Len(Scaled(c, p)) = Len(p)
         /\ \A k \in Nat \ {0} : Cong(At(Scaled(c, p), k), c * At(p, k))
<1> DEFINE n == Len(p)
           f == [k \in 1 .. n |-> (c * p[k]) % PRIME]
<1>1. n \in Nat
  BY PolyFacts
<1>2. \A k \in 1 .. n : p[k] \in Int
  BY PolyFacts
<1>3. f \in [1 .. n -> Field]
  <2> HIDE DEF n
  <2>1. QED
    BY <1>2, FieldOps
<1> HIDE DEF f, n
<1>4. Scaled(c, p) = f \o <<>>
  BY DEF Scaled, f, n
<1>5. Scaled(c, p) = f /\ f \in Poly /\ Len(f) = n
  BY <1>1, <1>3, <1>4, Stored
<1>6. ASSUME NEW k \in Nat \ {0} PROVE Cong(At(f, k), c * At(p, k))
  <2>1. CASE k \in 1 .. n
    <3>1. At(f, k) = (c * p[k]) % PRIME /\ At(p, k) = p[k]
      BY <1>5, <2>1 DEF At, f, n
    <3>2. QED
      BY <1>2, <2>1, <3>1, FieldOps
  <2>2. CASE k \notin 1 .. n
    <3>1. At(f, k) = 0 /\ At(p, k) = 0 /\ c * 0 = 0
      BY <1>1, <1>5, <2>2 DEF At, n
    <3>2. QED
      BY <3>1, CongRefl
  <2>3. QED
    BY <2>1, <2>2
<1>7. QED
  BY <1>1, <1>5, <1>6 DEF n

LEMMA EvalScaled ==
  ASSUME NEW p \in Poly, NEW c \in Int, NEW x \in Int
  PROVE  Cong(Eval(Scaled(c, p), x), c * Eval(p, x))
<1> DEFINE M == Len(p)
           u == [k \in 1 .. M + 1 |-> c * Suf(p, x, k)]
           s == Scaled(c, p)
<1>1. M \in Nat
  BY PolyFacts
<1>2. /\ s \in Poly /\ Len(s) = M
      /\ \A k \in Nat \ {0} : Cong(At(s, k), c * At(p, k))
  BY ScaledFacts
<1> HIDE DEF s
<1>3. /\ \A k \in Nat \ {0} : Suf(p, x, k) \in Int
      /\ \A k \in Nat \ {0} : Cong(Suf(p, x, k), At(p, k) + x * Suf(p, x, k + 1))
      /\ \A k \in Nat \ {0} : k > M => Suf(p, x, k) = 0
      /\ Eval(p, x) = Suf(p, x, 1)
      /\ \A k : At(p, k) \in Int /\ At(s, k) \in Int
  BY SufStep, PolyFacts, <1>2
<1> HIDE DEF M
<1>4. u \in [1 .. M + 1 -> Int]
  BY <1>1, <1>3
<1>5. Cong(u[M + 1], 0)
  <2>1. u[M + 1] = c * 0 /\ c * 0 = 0
    BY <1>1, <1>3
  <2>2. QED
    BY <2>1, CongRefl
<1>6. ASSUME NEW k \in 1 .. M PROVE Cong(u[k], At(s, k) + x * u[k + 1])
  <2>1. k \in Nat \ {0} /\ k + 1 \in Nat \ {0} /\ k \in 1 .. M + 1 /\ k + 1 \in 1 .. M + 1
    BY <1>1
  <2>2. u[k] = c * Suf(p, x, k) /\ u[k + 1] = c * Suf(p, x, k + 1)
    BY <2>1
  <2> HIDE DEF u
  <2>3. Cong(c * Suf(p, x, k), At(s, k) + x * (c * Suf(p, x, k + 1)))
    BY <1>2, <1>3, <2>1, ScaleSteps
  <2>4. QED
    BY <2>2, <2>3
<1>7. Steps(s, x, M, u)
  BY <1>5, <1>6 DEF Steps
<1>8. u[1] = c * Eval(p, x)
  BY <1>1, <1>3
<1> HIDE DEF u
<1>9. Cong(Eval(s, x), u[1])
  BY <1>1, <1>2, <1>4, <1>7, EvalIs
<1>10. QED
  BY <1>8, <1>9 DEF s

LEMMA ShiftFacts ==
  ASSUME NEW p \in Poly
  PROVE  /\ <<0>> \o p \in Poly /\ Len(<<0>> \o p) = Len(p) + 1
         /\ \A k \in Nat \ {0} : At(<<0>> \o p, k) = IF k = 1 THEN 0 ELSE At(p, k - 1)
<1>1. p \in Seq(Field) /\ <<0>> \in Seq(Field) /\ Len(<<0>>) = 1 /\ Len(p) \in Nat
  BY FieldIsInt, PolyFacts DEF Poly
<1>2. <<0>> \o p \in Seq(Field) /\ Len(<<0>> \o p) = Len(p) + 1
  BY <1>1
<1>3. ASSUME NEW k \in Nat \ {0} PROVE At(<<0>> \o p, k) = IF k = 1 THEN 0 ELSE At(p, k - 1)
  <2>1. CASE k = 1
    <3>1. (<<0>> \o p)[1] = 0
      BY <1>1
    <3>2. QED
      BY <1>1, <1>2, <2>1, <3>1 DEF At
  <2>2. CASE k \in 2 .. Len(p) + 1
    <3>1. (<<0>> \o p)[k] = p[k - 1]
      BY <1>1, <2>2
    <3>2. QED
      BY <1>1, <1>2, <2>2, <3>1 DEF At
  <2>3. CASE k > Len(p) + 1
    BY <1>1, <1>2, <2>3 DEF At
  <2>4. QED
    BY <1>1, <2>1, <2>2, <2>3
<1>4. QED
  BY <1>2, <1>3 DEF Poly

LEMMA EvalShift ==
  ASSUME NEW p \in Poly, NEW x \in Int
  PROVE  Cong(Eval(<<0>> \o p, x), x * Eval(p, x))
<1> DEFINE n == Len(p)
           M == n + 1
           s == <<0>> \o p
           u == [k \in 1 .. M + 1 |-> IF k = 1 THEN x * Suf(p, x, 1) ELSE Suf(p, x, k - 1)]
<1>1. n \in Nat /\ M \in Nat
  BY PolyFacts
<1>2. /\ s \in Poly /\ Len(s) = M
      /\ \A k \in Nat \ {0} : At(s, k) = IF k = 1 THEN 0 ELSE At(p, k - 1)
  BY ShiftFacts
<1> HIDE DEF s
<1>3. /\ \A k \in Nat \ {0} : Suf(p, x, k) \in Int
      /\ \A k \in Nat \ {0} : Cong(Suf(p, x, k), At(p, k) + x * Suf(p, x, k + 1))
      /\ \A k \in Nat \ {0} : k > n => Suf(p, x, k) = 0
      /\ Eval(p, x) = Suf(p, x, 1)
  BY SufStep
<1> HIDE DEF n
<1>4. u \in [1 .. M + 1 -> Int]
  <2>1. ASSUME NEW k \in 1 .. M + 1 PROVE u[k] \in Int
    <3>1. CASE k = 1
      <4>1. Suf(p, x, 1) \in Int
        BY <1>3
      <4>2. QED
        BY <3>1, <4>1
    <3>2. CASE k # 1
      <4>1. k - 1 \in Nat \ {0}
        BY <1>1, <3>2
      <4>2. QED
        BY <1>3, <3>2, <4>1
    <3>3. QED
      BY <3>1, <3>2
  <2>2. QED
    BY <2>1
<1>5. Cong(u[M + 1], 0)
  <2>1. M + 1 \in 1 .. M + 1 /\ M + 1 # 1 /\ (M + 1) - 1 = n + 1 /\ n + 1 \in Nat \ {0} /\ n + 1 > n
    BY <1>1
  <2>2. u[M + 1] = 0
    BY <1>3, <2>1
  <2>3. QED
    BY <2>2, CongRefl
<1>6. ASSUME NEW k \in 1 .. M PROVE Cong(u[k], At(s, k) + x * u[k + 1])
  <2>1. k \in Nat \ {0} /\ k \in 1 .. M + 1 /\ k + 1 \in 1 .. M + 1 /\ k + 1 # 1 /\ (k + 1) - 1 = k
    BY <1>1
  <2>2. u[k + 1] = Suf(p, x, k)
    BY <2>1
  <2>3. CASE k = 1
    <3>1. u[k] = x * Suf(p, x, 1) /\ At(s, k) = 0 /\ Suf(p, x, 1) \in Int
      BY <1>2, <1>3, <2>1, <2>3
    <3>2. u[k] = At(s, k) + x * u[k + 1] /\ u[k] \in Int
      BY <2>2, <2>3, <3>1
    <3>3. QED
      BY <3>2, CongRefl
  <2>4. CASE k # 1
    <3>1. k - 1 \in Nat \ {0} /\ (k - 1) + 1 = k
      BY <2>1, <2>4
    <3>2. u[k] = Suf(p, x, k - 1) /\ At(s, k) = At(p, k - 1)
      BY <1>2, <2>1, <2>4
    <3>3. Cong(Suf(p, x, k - 1), At(p, k - 1) + x * Suf(p, x, k))
      BY <1>3, <3>1
    <3>4. QED
      BY <2>2, <3>2, <3>3
  <2>5. QED
    BY <2>3, <2>4
<1>7. Steps(s, x, M, u)
  BY <1>5, <1>6 DEF Steps
<1>8. u[1] = x * Eval(p, x)
  BY <1>1, <1>3
<1> HIDE DEF u, M
<1>9. Cong(Eval(s, x), u[1])
  <2>1. Len(s) <= M
    BY <1>1, <1>2
  <2>2. QED
    BY <1>1, <1>2, <1>4, <1>7, <2>1, EvalIs, Zenon
<1>10. QED
  BY <1>8, <1>9 DEF s

IsTimes(p, r, t) ==
  t = [k \in 1 .. Len(p) + 1 |-> IF k > Len(p) THEN <<>> ELSE Plus(Scaled(p[k], r), <<0>> \o t[k + 1])]

LEMMA TimesExist ==
  ASSUME NEW p \in Poly, NEW r \in Poly
  PROVE  \E t : IsTimes(p, r, t) /\ Times(p, r) = t[1]
<1> DEFINE n == Len(p)
<1>0. n \in Nat /\ \A k \in 1 .. n : p[k] \in Int
  BY PolyFacts
<1> HIDE DEF n
<1> DEFINE G == [q \in (0 .. n - 1) \X Poly |-> Plus(Scaled(p[q[1] + 1], r), <<0>> \o q[2])]
<1>1. /\ G \in [(0 .. n - 1) \X Poly -> Poly]
      /\ \A i \in 0 .. n - 1, v \in Poly : G[<<i, v>>] = Plus(Scaled(p[i + 1], r), <<0>> \o v)
  <2>1. ASSUME NEW i \in 0 .. n - 1, NEW v \in Poly PROVE Plus(Scaled(p[i + 1], r), <<0>> \o v) \in Poly
    <3>1. p[i + 1] \in Int
      BY <1>0
    <3>2. Scaled(p[i + 1], r) \in Poly /\ <<0>> \o v \in Poly
      BY <3>1, ScaledFacts, ShiftFacts
    <3>3. QED
      BY <3>2, PlusFacts
  <2>2. QED
    BY <2>1
<1> HIDE DEF G
<1>2. PICK h \in [0 .. n -> Poly] : Downwards(n, <<>>, G, h)
  <2>1. <<>> \in Poly
    BY DEF Poly
  <2>2. QED
    BY <1>0, <1>1, <2>1, DownwardsExists
<1> DEFINE e == [k \in 1 .. n + 1 |-> h[k - 1]]
<1>3. ASSUME NEW k \in 1 .. n + 1
      PROVE  e[k] = IF k > n THEN <<>> ELSE Plus(Scaled(p[k], r), <<0>> \o e[k + 1])
  <2>1. CASE k = n + 1
    BY <1>0, <1>2, <2>1 DEF Downwards
  <2>2. CASE k # n + 1
    <3>1. k - 1 \in 0 .. n - 1 /\ k \in 0 .. n /\ e[k] = h[k - 1] /\ e[k + 1] = h[k] /\ ~(k > n) /\ (k - 1) + 1 = k
      BY <1>0, <2>2
    <3>2. h[k - 1] = G[<<k - 1, h[(k - 1) + 1]>>] /\ h[k] \in Poly
      BY <1>2, <3>1 DEF Downwards
    <3> HIDE DEF e
    <3>3. h[k - 1] = Plus(Scaled(p[k], r), <<0>> \o h[k])
      BY <1>1, <3>1, <3>2
    <3>4. QED
      BY <3>1, <3>3
  <2>3. QED
    BY <2>1, <2>2
<1>4. IsTimes(p, r, e)
  BY <1>3, Zenon DEF IsTimes, n
<1>5. \E f : IsTimes(p, r, f)
  BY <1>4, Zenon
<1>6. Times(p, r) = (CHOOSE f : IsTimes(p, r, f))[1]
  BY DEF Times, IsTimes
<1>7. QED
  BY <1>5, <1>6

TimesSteps(x, c, r, s, ss, a, b, d, e) ==
  /\ x \in Int /\ c \in Int /\ r \in Int /\ s \in Int /\ ss \in Int
  /\ a \in Int /\ b \in Int /\ d \in Int /\ e \in Int
  /\ Cong(a, b + d) /\ Cong(b, c * r) /\ Cong(d, x * e) /\ Cong(e, ss * r) /\ Cong(s, c + x * ss)

LEMMA TimesStep ==
  ASSUME NEW x, NEW c, NEW r, NEW s, NEW ss, NEW a, NEW b, NEW d, NEW e,
         TimesSteps(x, c, r, s, ss, a, b, d, e)
  PROVE  Cong(a, s * r)
<1>0. /\ x \in Int /\ c \in Int /\ r \in Int /\ s \in Int /\ ss \in Int
      /\ a \in Int /\ b \in Int /\ d \in Int /\ e \in Int
      /\ Cong(a, b + d) /\ Cong(b, c * r) /\ Cong(d, x * e) /\ Cong(e, ss * r) /\ Cong(s, c + x * ss)
  BY DEF TimesSteps
<1>1. PICK q1 \in Int : a - (b + d) = PRIME * q1
  BY <1>0 DEF Cong
<1>2. PICK q2 \in Int : b - c * r = PRIME * q2
  BY <1>0 DEF Cong
<1>3. PICK q3 \in Int : d - x * e = PRIME * q3
  BY <1>0 DEF Cong
<1>4. PICK q4 \in Int : e - ss * r = PRIME * q4
  BY <1>0 DEF Cong
<1>5. PICK q5 \in Int : s - (c + x * ss) = PRIME * q5
  BY <1>0 DEF Cong
<1>6. a - s * r = PRIME * (q1 + q2 + q3 + x * q4 - q5 * r)
  <2>1. b = c * r + PRIME * q2 /\ e = ss * r + PRIME * q4 /\ s = c + x * ss + PRIME * q5
    BY <1>2, <1>4, <1>5, <1>0, PrimeIsPositive
  <2>2. d = x * e + PRIME * q3 /\ a = b + d + PRIME * q1
    BY <1>1, <1>3, <1>0, PrimeIsPositive
  <2>3. d = x * (ss * r) + x * (PRIME * q4) + PRIME * q3
    BY <2>1, <2>2, <1>0, PrimeIsPositive
  <2>4. s * r = c * r + (x * ss) * r + (PRIME * q5) * r
    BY <2>1, <1>0, PrimeIsPositive
  <2>5. (x * ss) * r = x * (ss * r) /\ x * (PRIME * q4) = PRIME * (x * q4) /\ (PRIME * q5) * r = PRIME * (q5 * r)
    BY <1>0, PrimeIsPositive
  <2>6. PRIME * (q1 + q2 + q3 + x * q4 - q5 * r)
          = PRIME * q1 + PRIME * q2 + PRIME * q3 + PRIME * (x * q4) - PRIME * (q5 * r)
    BY <1>0, PrimeIsPositive
  <2>7. QED
    BY <2>1, <2>2, <2>3, <2>4, <2>5, <2>6, <1>0, PrimeIsPositive
<1>7. q1 + q2 + q3 + x * q4 - q5 * r \in Int
  BY <1>0
<1>8. QED
  BY <1>6, <1>7 DEF Cong

\* The product has the product's values, and one coefficient less than both together.
LEMMA TimesFacts ==
  ASSUME NEW p \in Poly, NEW r \in Poly
  PROVE  /\ Times(p, r) \in Poly
         /\ Len(p) > 0 /\ Len(r) > 0 => Len(Times(p, r)) = Len(p) + Len(r) - 1
         /\ \A x \in Int : Cong(Eval(Times(p, r), x), Eval(p, x) * Eval(r, x))
<1> DEFINE n == Len(p)
           m == Len(r)
<1>0. n \in Nat /\ m \in Nat /\ (\A k \in 1 .. n : p[k] \in Int) /\ \A k \in 1 .. n : At(p, k) = p[k]
  BY PolyFacts DEF At
<1>1. PICK t : IsTimes(p, r, t) /\ Times(p, r) = t[1]
  BY TimesExist
<1>2. \A k \in 1 .. n + 1 : t[k] = IF k > n THEN <<>> ELSE Plus(Scaled(p[k], r), <<0>> \o t[k + 1])
  BY <1>1 DEF IsTimes
<1> HIDE DEF n, m
<1> DEFINE S == {i \in 0 .. n : /\ t[i + 1] \in Poly
                                /\ m > 0 => Len(t[i + 1]) = IF i = n THEN 0 ELSE m + n - (i + 1)
                                /\ \A x \in Int : Cong(Eval(t[i + 1], x), Suf(p, x, i + 1) * Eval(r, x))}
<1>3. n \in S
  <2>1. t[n + 1] = <<>> /\ <<>> \in Poly /\ Len(<<>>) = 0 /\ n + 1 \in Nat \ {0} /\ n + 1 > n
    BY <1>0, <1>2 DEF Poly
  <2>2. ASSUME NEW x \in Int PROVE Cong(Eval(<<>>, x), Suf(p, x, n + 1) * Eval(r, x))
    <3>1. Suf(p, x, n + 1) = 0
      BY <2>1, SufStep DEF n
    <3>2. Eval(<<>>, x) = 0 /\ Eval(r, x) \in Int
      <4>1. Eval(<<>>, x) = Suf(<<>>, x, 1) /\ Eval(r, x) = Suf(r, x, 1)
        BY <2>1, SufStep
      <4>2. 1 \in Nat \ {0} /\ 1 > Len(<<>>)
        BY <2>1
      <4>3. QED
        BY <2>1, <4>1, <4>2, SufStep
    <3>3. 0 * Eval(r, x) = 0
      BY <3>2
    <3>4. QED
      BY <3>1, <3>2, <3>3, CongRefl
  <2>3. QED
    BY <1>0, <2>1, <2>2
<1>4. ASSUME NEW i \in 0 .. n - 1, i + 1 \in S PROVE i \in S
  <2> DEFINE k == i + 1
             c == p[k]
             v == t[k + 1]
             w == <<0>> \o v
             b == Scaled(c, r)
  <2>1. k \in 1 .. n /\ k \in 1 .. n + 1 /\ k \in Nat \ {0} /\ ~(k > n) /\ k + 1 \in Nat \ {0} /\ i \in 0 .. n /\ i # n
    BY <1>0
  <2>2. t[k] = Plus(b, w)
    BY <1>2, <2>1
  <2>3. /\ v \in Poly /\ \A x \in Int : Cong(Eval(v, x), Suf(p, x, k + 1) * Eval(r, x))
        /\ m > 0 => Len(v) = IF k = n THEN 0 ELSE m + n - (k + 1)
    BY <1>4
  <2>4. c \in Int /\ At(p, k) = c
    <3> HIDE DEF k
    <3>1. QED
      BY <1>0, <2>1
  <2> HIDE DEF k, c, v, S
  <2>5. w \in Poly /\ Len(w) = Len(v) + 1 /\ b \in Poly /\ Len(b) = m
    BY <2>3, <2>4, ShiftFacts, ScaledFacts DEF m
  <2>6. t[k] \in Poly /\ Len(t[k]) = Longer(m, Len(v) + 1)
    BY <2>2, <2>5, PlusFacts
  <2>7. ASSUME m > 0 PROVE Len(t[k]) = m + n - k
    <3>1. Len(v) = IF k = n THEN 0 ELSE m + n - (k + 1)
      BY <2>3, <2>7
    <3>2. k = n \/ k < n
      BY <1>0, <2>1
    <3>3. Longer(m, Len(v) + 1) = m + n - k
      BY <1>0, <2>1, <2>7, <3>1, <3>2 DEF Longer
    <3>4. QED
      BY <2>6, <3>3
  <2>8. ASSUME NEW x \in Int PROVE Cong(Eval(t[k], x), Suf(p, x, k) * Eval(r, x))
    <3>1. Cong(Eval(t[k], x), Eval(b, x) + Eval(w, x))
      BY <2>2, <2>5, EvalPlus
    <3>2. Cong(Eval(b, x), c * Eval(r, x))
      BY <2>4, EvalScaled
    <3>3. Cong(Eval(w, x), x * Eval(v, x))
      BY <2>3, EvalShift
    <3>4. Cong(Eval(v, x), Suf(p, x, k + 1) * Eval(r, x))
      BY <2>3
    <3>5. Cong(Suf(p, x, k), c + x * Suf(p, x, k + 1))
      BY <2>1, <2>4, SufStep
    <3>6. \A q \in Poly : Eval(q, x) \in Int
      BY SufStep
    <3>7. Eval(t[k], x) \in Int /\ Eval(b, x) \in Int /\ Eval(w, x) \in Int /\ Eval(v, x) \in Int /\ Eval(r, x) \in Int
      BY <2>3, <2>5, <2>6, <3>6
    <3>8. Suf(p, x, k) \in Int /\ Suf(p, x, k + 1) \in Int
      BY <2>1, SufStep
    <3> DEFINE aa == Eval(t[k], x)
               bb == Eval(b, x)
               dd == Eval(w, x)
               ee == Eval(v, x)
               rr == Eval(r, x)
               s1 == Suf(p, x, k)
               s2 == Suf(p, x, k + 1)
    <3>9. /\ aa \in Int /\ bb \in Int /\ dd \in Int /\ ee \in Int /\ rr \in Int /\ s1 \in Int /\ s2 \in Int
          /\ Cong(aa, bb + dd) /\ Cong(bb, c * rr) /\ Cong(dd, x * ee) /\ Cong(ee, s2 * rr) /\ Cong(s1, c + x * s2)
      BY <3>1, <3>2, <3>3, <3>4, <3>5, <3>7, <3>8
    <3> HIDE DEF aa, bb, dd, ee, rr, s1, s2
    <3>10. TimesSteps(x, c, rr, s1, s2, aa, bb, dd, ee)
      BY <2>4, <3>9 DEF TimesSteps
    <3>11. Cong(aa, s1 * rr)
      BY <3>10, TimesStep
    <3>12. QED
      BY <3>11 DEF aa, s1, rr
  <2>9. k = i + 1
    BY DEF k
  <2>10. QED
    BY <2>1, <2>6, <2>7, <2>8, <2>9 DEF S
<1>5. \A i \in 0 .. n : i \in S
  <2> HIDE DEF S
  <2>1. QED
    BY <1>0, <1>3, <1>4, DownwardsInduction
<1>6. 0 \in S
  <2> HIDE DEF S
  <2>1. QED
    BY <1>0, <1>5
<1>7. /\ t[1] \in Poly /\ (m > 0 => Len(t[1]) = IF 0 = n THEN 0 ELSE m + n - (0 + 1))
      /\ \A x \in Int : Cong(Eval(t[1], x), Suf(p, x, 1) * Eval(r, x))
  BY <1>6
<1>8. \A x \in Int : Suf(p, x, 1) = Eval(p, x)
  BY SufStep
<1>9. n > 0 /\ m > 0 => Len(t[1]) = n + m - 1
  BY <1>0, <1>7
<1>10. QED
  BY <1>1, <1>7, <1>8, <1>9 DEF n, m

-----------------------------------------------------------------------------
(* Dividing out a root. *)

OpenSteps(x, z, a, o, oo, p, pp, s, ss) ==
  /\ x \in Int /\ z \in Int /\ a \in Int
  /\ o \in Int /\ oo \in Int /\ p \in Int /\ pp \in Int /\ s \in Int /\ ss \in Int
  /\ Cong(o, ss + x * oo) /\ Cong(p, a + x * pp) /\ Cong(s, a + z * ss)
  /\ Cong((x - z) * oo, pp - ss)

LEMMA OpenStep ==
  ASSUME NEW x, NEW z, NEW a, NEW o, NEW oo, NEW p, NEW pp, NEW s, NEW ss,
         OpenSteps(x, z, a, o, oo, p, pp, s, ss)
  PROVE  Cong((x - z) * o, p - s)
<1>0. /\ x \in Int /\ z \in Int /\ a \in Int
      /\ o \in Int /\ oo \in Int /\ p \in Int /\ pp \in Int /\ s \in Int /\ ss \in Int
      /\ Cong(o, ss + x * oo) /\ Cong(p, a + x * pp) /\ Cong(s, a + z * ss)
      /\ Cong((x - z) * oo, pp - ss)
  BY DEF OpenSteps
<1>1. PICK q1 \in Int : o - (ss + x * oo) = PRIME * q1
  BY <1>0 DEF Cong
<1>2. PICK q2 \in Int : p - (a + x * pp) = PRIME * q2
  BY <1>0 DEF Cong
<1>3. PICK q3 \in Int : s - (a + z * ss) = PRIME * q3
  BY <1>0 DEF Cong
<1>4. PICK q4 \in Int : (x - z) * oo - (pp - ss) = PRIME * q4
  BY <1>0 DEF Cong
<1>5. (x - z) * o - (p - s) = PRIME * ((x - z) * q1 + x * q4 - q2 + q3)
  <2> DEFINE d == x - z
  <2>0. d \in Int /\ d * ss = x * ss - z * ss
    BY <1>0
  <2>1. o = ss + x * oo + PRIME * q1 /\ d * oo = pp - ss + PRIME * q4
    BY <1>0, <1>1, <1>4, PrimeIsPositive
  <2> HIDE DEF d
  <2>2. d * o = d * ss + d * (x * oo) + d * (PRIME * q1)
    BY <1>0, <2>0, <2>1, PrimeIsPositive
  <2>3. d * (x * oo) = x * (d * oo) /\ d * (PRIME * q1) = PRIME * (d * q1)
    BY <1>0, <2>0, PrimeIsPositive
  <2>4. x * (d * oo) = x * pp - x * ss + x * (PRIME * q4) /\ x * (PRIME * q4) = PRIME * (x * q4)
    BY <1>0, <2>0, <2>1, PrimeIsPositive
  <2>5. p - s = x * pp - z * ss + PRIME * q2 - PRIME * q3
    BY <1>0, <1>2, <1>3, PrimeIsPositive
  <2>6. PRIME * (d * q1 + x * q4 - q2 + q3) = PRIME * (d * q1) + PRIME * (x * q4) - PRIME * q2 + PRIME * q3
    BY <1>0, <2>0, PrimeIsPositive
  <2>7. d * o - (p - s) = PRIME * (d * q1 + x * q4 - q2 + q3)
    <3> DEFINE A == x * pp
               B == x * ss
               C == z * ss
               D == PRIME * (d * q1)
               E == PRIME * (x * q4)
               F == PRIME * q2
               G == PRIME * q3
    <3>1. A \in Int /\ B \in Int /\ C \in Int /\ D \in Int /\ E \in Int /\ F \in Int /\ G \in Int
      BY <1>0, <2>0, PrimeIsPositive
    <3>2. d * o = (B - C) + (A - B + E) + D /\ p - s = A - C + F - G
      BY <2>0, <2>2, <2>3, <2>4, <2>5
    <3>3. PRIME * (d * q1 + x * q4 - q2 + q3) = D + E - F + G
      BY <2>6
    <3> HIDE DEF A, B, C, D, E, F, G
    <3>4. QED
      BY <3>1, <3>2, <3>3
  <2>8. QED
    BY <2>7 DEF d
<1>6. (x - z) * q1 + x * q4 - q2 + q3 \in Int
  BY <1>0
<1>7. QED
  BY <1>5, <1>6 DEF Cong

LEMMA OpenedFacts ==
  ASSUME NEW p \in Poly, Len(p) > 0, NEW z \in Int
  PROVE  /\ Opened(p, z) \in Poly /\ Len(Opened(p, z)) = Len(p) - 1
         /\ \A k \in Nat \ {0} : At(Opened(p, z), k) = Suf(p, z, k + 1)
         /\ \A x \in Int : Cong((x - z) * Eval(Opened(p, z), x), Eval(p, x) - Eval(p, z))
<1> DEFINE n == Len(p)
           f == [k \in 1 .. n - 1 |-> Tails(p, z)[k + 1]]
           o == Opened(p, z)
<1>1. n \in Nat /\ n - 1 \in Nat /\ n > 0
  BY PolyFacts
<1>2. \A k \in Nat \ {0} : /\ Suf(p, z, k) \in Field /\ Suf(p, z, k) \in Int
                           /\ Cong(Suf(p, z, k), At(p, k) + z * Suf(p, z, k + 1))
                           /\ k > n => Suf(p, z, k) = 0
  BY SufStep
<1>3. \A k \in 1 .. n : Suf(p, z, k) = Tails(p, z)[k]
  BY DEF Suf
<1>4. \A k : At(p, k) \in Int
  BY PolyFacts
<1>5. o = f \o <<>>
  BY DEF Opened
<1> HIDE DEF n, o
<1>6. f \in [1 .. n - 1 -> Field] /\ \A k \in 1 .. n - 1 : f[k] = Suf(p, z, k + 1)
  <2>1. ASSUME NEW k \in 1 .. n - 1 PROVE Tails(p, z)[k + 1] = Suf(p, z, k + 1) /\ Suf(p, z, k + 1) \in Field
    <3>1. k + 1 \in 1 .. n /\ k + 1 \in Nat \ {0}
      BY <1>1
    <3>2. QED
      BY <1>2, <1>3, <3>1
  <2>2. QED
    BY <2>1
<1> HIDE DEF f
<1>7. o = f /\ o \in Poly /\ Len(o) = n - 1
  BY <1>1, <1>5, <1>6, Stored
<1>8. ASSUME NEW k \in Nat \ {0} PROVE At(o, k) = Suf(p, z, k + 1)
  <2>1. CASE k \in 1 .. n - 1
    BY <1>6, <1>7, <2>1 DEF At
  <2>2. CASE k \notin 1 .. n - 1
    <3>1. At(o, k) = 0
      BY <1>7, <2>2 DEF At
    <3>2. k + 1 \in Nat \ {0} /\ k + 1 > n
      BY <1>1, <2>2
    <3>3. QED
      BY <1>2, <3>1, <3>2
  <2>3. QED
    BY <2>1, <2>2
<1>9. ASSUME NEW x \in Int PROVE Cong((x - z) * Eval(o, x), Eval(p, x) - Eval(p, z))
  <2> DEFINE S == {i \in 0 .. n : Cong((x - z) * Suf(o, x, i + 1), Suf(p, x, i + 1) - Suf(p, z, i + 1))}
  <2>1. \A k \in Nat \ {0} : /\ Suf(o, x, k) \in Int
                             /\ Cong(Suf(o, x, k), At(o, k) + x * Suf(o, x, k + 1))
                             /\ k > n - 1 => Suf(o, x, k) = 0
    BY <1>7, SufStep
  <2>2. \A k \in Nat \ {0} : /\ Suf(p, x, k) \in Int
                             /\ Cong(Suf(p, x, k), At(p, k) + x * Suf(p, x, k + 1))
                             /\ k > n => Suf(p, x, k) = 0
    BY SufStep DEF n
  <2>3. n \in S
    <3>1. n + 1 \in Nat \ {0} /\ n + 1 > n /\ n + 1 > n - 1
      BY <1>1
    <3>2. Suf(o, x, n + 1) = 0 /\ Suf(p, x, n + 1) = 0 /\ Suf(p, z, n + 1) = 0
      BY <1>2, <2>1, <2>2, <3>1
    <3>3. (x - z) * 0 = 0 /\ 0 - 0 = 0
      OBVIOUS
    <3>4. Cong((x - z) * Suf(o, x, n + 1), Suf(p, x, n + 1) - Suf(p, z, n + 1))
      BY <3>2, <3>3, CongRefl
    <3>5. QED
      BY <1>1, <3>4
  <2>4. ASSUME NEW i \in 0 .. n - 1, i + 1 \in S PROVE i \in S
    <3> DEFINE k == i + 1
               a == At(p, k)
               o1 == Suf(o, x, k)
               o2 == Suf(o, x, k + 1)
               p1 == Suf(p, x, k)
               p2 == Suf(p, x, k + 1)
               z1 == Suf(p, z, k)
               z2 == Suf(p, z, k + 1)
    <3>1. k \in Nat \ {0} /\ k + 1 \in Nat \ {0} /\ i \in 0 .. n
      BY <1>1
    <3>2. Cong((x - z) * o2, p2 - z2)
      BY <2>4
    <3> HIDE DEF k, S
    <3>3. /\ o1 \in Int /\ o2 \in Int /\ p1 \in Int /\ p2 \in Int /\ z1 \in Int /\ z2 \in Int /\ a \in Int
          /\ Cong(o1, z2 + x * o2) /\ Cong(p1, a + x * p2) /\ Cong(z1, a + z * z2)
      BY <1>2, <1>4, <1>8, <2>1, <2>2, <3>1
    <3> HIDE DEF a, o1, o2, p1, p2, z1, z2
    <3>4. OpenSteps(x, z, a, o1, o2, p1, p2, z1, z2)
      BY <3>2, <3>3 DEF OpenSteps
    <3>5. Cong((x - z) * o1, p1 - z1)
      BY <3>4, OpenStep
    <3>6. QED
      BY <3>1, <3>5 DEF S, k, o1, p1, z1
  <2>5. \A i \in 0 .. n : i \in S
    <3> HIDE DEF S
    <3>1. QED
      BY <1>1, <2>3, <2>4, DownwardsInduction
  <2>6. 0 \in S
    <3> HIDE DEF S
    <3>1. QED
      BY <1>1, <2>5
  <2>7. Cong((x - z) * Suf(o, x, 1), Suf(p, x, 1) - Suf(p, z, 1))
    BY <2>6
  <2>8. Eval(o, x) = Suf(o, x, 1) /\ Eval(p, x) = Suf(p, x, 1) /\ Eval(p, z) = Suf(p, z, 1)
    BY <1>7, SufStep
  <2>9. QED
    BY <2>7, <2>8
<1>10. QED
  BY <1>7, <1>8, <1>9 DEF n, o

\* The leading coefficient stays.
LEMMA OpenedLeads ==
  ASSUME NEW p \in Poly, Len(p) > 1, NEW z \in Int
  PROVE  Opened(p, z)[Len(p) - 1] = p[Len(p)]
<1> DEFINE n == Len(p)
           o == Opened(p, z)
<1>1. n \in Nat /\ n > 1 /\ n - 1 \in Nat \ {0} /\ (n - 1) + 1 = n /\ n \in 1 .. n /\ n - 1 \in 1 .. n - 1
      /\ n \in Nat \ {0} /\ n + 1 \in Nat \ {0} /\ n + 1 > n
  BY PolyFacts
<1>2. o \in Poly /\ Len(o) = n - 1 /\ \A k \in Nat \ {0} : At(o, k) = Suf(p, z, k + 1)
  <2>1. Len(p) > 0
    BY <1>1
  <2>2. /\ Opened(p, z) \in Poly /\ Len(Opened(p, z)) = Len(p) - 1
        /\ \A k \in Nat \ {0} : At(Opened(p, z), k) = Suf(p, z, k + 1)
    BY <2>1, OpenedFacts
  <2>3. QED
    BY <2>2
<1>3. \A k \in Nat \ {0} : /\ Suf(p, z, k) \in Field /\ Suf(p, z, k) \in Int
                           /\ Cong(Suf(p, z, k), At(p, k) + z * Suf(p, z, k + 1))
                           /\ k > n => Suf(p, z, k) = 0
  BY SufStep
<1>4. p[n] \in Field /\ At(p, n) = p[n]
  BY <1>1, PolyFacts DEF At
<1> HIDE DEF n, o
<1>5. o[n - 1] = Suf(p, z, n)
  <2>1. At(o, n - 1) = Suf(p, z, n)
    BY <1>1, <1>2
  <2>2. At(o, n - 1) = o[n - 1]
    BY <1>1, <1>2 DEF At
  <2>3. QED
    BY <2>1, <2>2
<1>6. Cong(Suf(p, z, n), p[n] + z * 0) /\ Suf(p, z, n) \in Field
  BY <1>1, <1>3, <1>4
<1>7. p[n] + z * 0 = p[n]
  <2> DEFINE c == p[n]
  <2>1. c \in Int
    BY <1>4, FieldIsInt
  <2> HIDE DEF c
  <2>2. c + z * 0 = c
    BY <2>1
  <2>3. QED
    BY <2>2 DEF c
<1>8. QED
  BY <1>4, <1>5, <1>6, <1>7, CongIsEqual DEF n, o

-----------------------------------------------------------------------------
(* Powers. *)

LEMMA PowSteps ==
  ASSUME NEW b \in Int, NEW n \in Nat
  PROVE  /\ Pow(b, 0) = 1
         /\ Pow(b, n) \in Field /\ Pow(b, n) \in Int
         /\ Cong(Pow(b, n + 1), b * Pow(b, n))
<1> DEFINE E == 1 .. n + 1
           L == 1 .. n
           c == [i \in E |-> b]
           l == [i \in L |-> b]
           z == [i \in 1 .. 0 |-> b]
           g == Products(c, E)
<1>1. IsFiniteSet(E) /\ IsFiniteSet(L) /\ L \in SUBSET E /\ n + 1 \in E /\ E \ {n + 1} = L /\ E \in SUBSET E
  BY FS_Interval
<1>2. c \in [E -> Int] /\ l \in [L -> Int] /\ (\A i \in L : l[i] = c[i]) /\ c[n + 1] = b
  BY <1>1
<1>3. Pow(b, n + 1) = Product(c) /\ Pow(b, n) = Product(l) /\ Pow(b, 0) = Product(z)
  BY DEF Pow
<1>z. Product(z) = 1
  <2>1. IsFiniteSet(1 .. 0) /\ z \in [1 .. 0 -> Int] /\ 1 .. 0 = {}
    BY FS_Interval
  <2> HIDE DEF z
  <2>2. Product(z) = Products(z, 1 .. 0)[1 .. 0]
    BY <2>1, ProductIsLast
  <2>3. ProductLike(z, 1 .. 0, Products(z, 1 .. 0))
    BY <2>1, ProductSteps
  <2>4. Products(z, 1 .. 0)[{}] = 1
    BY <2>3 DEF ProductLike
  <2>5. QED
    BY <2>1, <2>2, <2>4, Zenon
<1> HIDE DEF E, L, c, l, z
<1>4. Product(c) = g[E] /\ Product(l) = g[L]
  BY <1>1, <1>2, ProductIsLast, ProductOfPart
<1>5. ProductLike(c, E, g)
  BY <1>1, <1>2, ProductSteps
<1> HIDE DEF g
<1>6. g[L] \in Field /\ g[L] \in Int
  BY <1>1, <1>5 DEF ProductLike
<1>7. Cong(g[E], c[n + 1] * g[E \ {n + 1}])
  BY <1>1, <1>5, Zenon DEF ProductLike
<1>8. Cong(g[E], b * g[L])
  BY <1>1, <1>2, <1>7, Zenon
<1>9. QED
  BY <1>3, <1>z, <1>4, <1>6, <1>8

LEMMA PowOne == ASSUME NEW b \in Int PROVE Cong(Pow(b, 1), b) /\ Cong(Pow(b, 2), b * b)
<1>1. Pow(b, 0) = 1 /\ Cong(Pow(b, 0 + 1), b * Pow(b, 0)) /\ Cong(Pow(b, 1 + 1), b * Pow(b, 1)) /\ Pow(b, 1) \in Int
      /\ Pow(b, 2) \in Int
  BY PowSteps
<1>2. 0 + 1 = 1 /\ 1 + 1 = 2 /\ b * 1 = b
  OBVIOUS
<1>3. Cong(Pow(b, 1), b)
  BY <1>1, <1>2
<1>4. Cong(b * Pow(b, 1), b * b) /\ b * Pow(b, 1) \in Int /\ b * b \in Int
  BY <1>1, <1>3, CongScale
<1>5. Cong(Pow(b, 2), b * b)
  BY <1>1, <1>2, <1>4, CongTrans
<1>6. QED
  BY <1>3, <1>5

\* Three numbers that are congruent in turn; what is equal is congruent.
LEMMA CongChain ==
  ASSUME NEW a \in Int, NEW b \in Int, NEW c \in Int, NEW d \in Int, Cong(a, b), Cong(b, c), Cong(c, d)
  PROVE  Cong(a, d)
BY CongTrans

LEMMA PowOfCong ==
  ASSUME NEW a \in Int, NEW b \in Int, Cong(a, b), NEW n \in Nat
  PROVE  Pow(a, n) = Pow(b, n)
<1> DEFINE S == {m \in Nat : Pow(a, m) = Pow(b, m)}
<1>1. 0 \in S
  BY PowSteps
<1>2. ASSUME NEW m \in Nat, m \in S PROVE m + 1 \in S
  <2> DEFINE v == Pow(a, m)
  <2>1. /\ v \in Int /\ Cong(Pow(a, m + 1), a * v) /\ Cong(Pow(b, m + 1), b * v)
    BY <1>2, PowSteps
  <2>2. m + 1 \in Nat
    OBVIOUS
  <2>3. Pow(a, m + 1) \in Field /\ Pow(b, m + 1) \in Field /\ Pow(a, m + 1) \in Int /\ Pow(b, m + 1) \in Int
    BY <2>2, PowSteps
  <2> HIDE DEF v
  <2>4. Cong(a * v, b * v) /\ a * v \in Int /\ b * v \in Int
    <3>1. Cong(a * v, b * v)
      BY <2>1, CongScale, Zenon
    <3>2. QED
      BY <2>1, <3>1
  <2>5. Cong(Pow(a, m + 1), Pow(b, m + 1))
    BY <2>1, <2>3, <2>4, CongSym, CongChain
  <2>6. QED
    BY <2>3, <2>5, CongIsEqual
<1>3. \A m \in Nat : m \in S
  <2> HIDE DEF S
  <2>1. QED
    BY <1>1, <1>2, NatInductionOnSet
<1>4. QED
  BY <1>3

LEMMA PowAdd ==
  ASSUME NEW b \in Int, NEW m \in Nat, NEW n \in Nat
  PROVE  Cong(Pow(b, m + n), Pow(b, m) * Pow(b, n))
<1> DEFINE S == {k \in Nat : Cong(Pow(b, k + n), Pow(b, k) * Pow(b, n))}
           v == Pow(b, n)
<1>0. v \in Int /\ \A k \in Nat : Pow(b, k) \in Int
  BY PowSteps
<1>1. 0 \in S
  <2>1. Pow(b, 0) = 1 /\ 0 + n = n /\ 1 * v = v
    BY <1>0, PowSteps
  <2>2. Cong(v, v)
    BY <1>0, CongRefl
  <2>3. Cong(Pow(b, 0 + n), Pow(b, 0) * Pow(b, n))
    BY <2>1, <2>2
  <2>4. QED
    BY <2>3
<1>2. ASSUME NEW k \in Nat, k \in S PROVE k + 1 \in S
  <2>1. Cong(Pow(b, k + n), Pow(b, k) * v)
    BY <1>2
  <2> HIDE DEF v
  <2> DEFINE s == Pow(b, k + n)
             t == Pow(b, k)
             ss == Pow(b, (k + n) + 1)
             tt == Pow(b, k + 1)
  <2>2. k + n \in Nat /\ (k + 1) + n = (k + n) + 1 /\ k + 1 \in Nat /\ (k + n) + 1 \in Nat
    OBVIOUS
  <2>3. Cong(ss, b * s) /\ Cong(tt, b * t) /\ s \in Int /\ t \in Int /\ ss \in Int /\ tt \in Int
    BY <2>2, PowSteps
  <2>4. Cong(s, t * v)
    BY <2>1
  <2> HIDE DEF s, t, ss, tt
  <2>5. Cong(b * s, b * (t * v)) /\ b * (t * v) = (b * t) * v /\ t * v \in Int /\ b * s \in Int /\ b * t \in Int
        /\ (b * t) * v \in Int /\ tt * v \in Int
    <3>1. t * v \in Int /\ b * s \in Int /\ b * t \in Int
      BY <1>0, <2>3
    <3>2. b * (t * v) = (b * t) * v /\ (b * t) * v \in Int /\ tt * v \in Int
      BY <1>0, <2>3
    <3>3. Cong(b * s, b * (t * v))
      BY <2>3, <2>4, <3>1, CongScale, Zenon
    <3>4. QED
      BY <3>1, <3>2, <3>3
  <2>6. Cong(tt * v, (b * t) * v)
    BY <1>0, <2>3, <2>5, CongScale
  <2>7. Cong(b * s, (b * t) * v)
    BY <2>5
  <2>8. Cong(ss, tt * v)
    BY <2>3, <2>5, <2>6, <2>7, CongSym, CongChain
  <2>9. QED
    BY <2>2, <2>8 DEF ss, tt, v
<1>3. \A k \in Nat : k \in S
  <2> HIDE DEF S
  <2>1. QED
    BY <1>1, <1>2, NatInductionOnSet
<1>4. QED
  BY <1>3

LEMMA PowTimes ==
  ASSUME NEW a \in Int, NEW b \in Int, NEW n \in Nat
  PROVE  Cong(Pow(a * b, n), Pow(a, n) * Pow(b, n))
<1> DEFINE c == a * b
           S == {k \in Nat : Cong(Pow(c, k), Pow(a, k) * Pow(b, k))}
<1>0. c \in Int
  OBVIOUS
<1>1. 0 \in S
  <2>1. Pow(a, 0) = 1 /\ Pow(b, 0) = 1 /\ Pow(c, 0) = 1 /\ 1 * 1 = 1
    BY <1>0, PowSteps
  <2>2. Cong(Pow(c, 0), Pow(a, 0) * Pow(b, 0))
    BY <2>1, CongRefl
  <2>3. QED
    BY <2>2
<1>2. ASSUME NEW k \in Nat, k \in S PROVE k + 1 \in S
  <2> DEFINE u == Pow(a, k)
             v == Pow(b, k)
             w == Pow(c, k)
             uu == Pow(a, k + 1)
             vv == Pow(b, k + 1)
             ww == Pow(c, k + 1)
  <2>1. Cong(w, u * v)
    BY <1>2
  <2>2. /\ u \in Int /\ v \in Int /\ w \in Int /\ uu \in Int /\ vv \in Int /\ ww \in Int
        /\ Cong(uu, a * u) /\ Cong(vv, b * v) /\ Cong(ww, c * w)
    <3>1. k + 1 \in Nat
      OBVIOUS
    <3> HIDE DEF c
    <3>2. QED
      BY <1>0, <3>1, PowSteps
  <2> HIDE DEF u, v, w, uu, vv, ww
  <2>3. /\ Cong(c * w, c * (u * v)) /\ Cong(uu * vv, (a * u) * (b * v))
        /\ c * (u * v) = (a * u) * (b * v)
        /\ c * w \in Int /\ uu * vv \in Int /\ (a * u) * (b * v) \in Int /\ a * u \in Int /\ b * v \in Int
        /\ u * v \in Int
    <3>1. u * v \in Int /\ a * u \in Int /\ b * v \in Int /\ c * (u * v) = (a * u) * (b * v)
      BY <2>2
    <3>2. Cong(c * w, c * (u * v))
      <4> HIDE DEF c
      <4>1. QED
        BY <1>0, <2>1, <2>2, <3>1, CongScale
    <3>3. Cong(uu * vv, (a * u) * (b * v))
      BY <2>2, <3>1, CongMul
    <3>4. c * w \in Int /\ uu * vv \in Int /\ (a * u) * (b * v) \in Int
      BY <1>0, <2>2, <3>1
    <3>5. QED
      BY <3>1, <3>2, <3>3, <3>4
  <2> HIDE DEF c
  <2>4. Cong(c * w, (a * u) * (b * v))
    BY <2>3
  <2>5. Cong(ww, uu * vv)
    BY <2>2, <2>3, <2>4, CongSym, CongChain
  <2>6. QED
    BY <2>5 DEF uu, vv, ww
<1>3. \A k \in Nat : k \in S
  <2> HIDE DEF S
  <2>1. QED
    BY <1>1, <1>2, NatInductionOnSet
<1>4. QED
  BY <1>3

LEMMA PowNotZero ==
  ASSUME NEW b \in Int, ~Cong(b, 0), NEW n \in Nat
  PROVE  ~Cong(Pow(b, n), 0) /\ Pow(b, n) # 0
<1> DEFINE S == {k \in Nat : ~Cong(Pow(b, k), 0)}
<1>1. 0 \in S
  BY PowSteps, FieldIsInt
<1>2. ASSUME NEW k \in Nat, k \in S PROVE k + 1 \in S
  <2> DEFINE u == Pow(b, k)
             uu == Pow(b, k + 1)
  <2>0. k + 1 \in Nat
    OBVIOUS
  <2>1. ~Cong(u, 0) /\ u \in Int /\ uu \in Int /\ Cong(uu, b * u)
    BY <1>2, <2>0, PowSteps
  <2> HIDE DEF u, uu
  <2>2. b * u \in Int
    BY <2>1
  <2>3. ~Cong(b * u, 0)
    BY <2>1, NoZeroDivisors
  <2>4. ~Cong(uu, 0)
    BY <2>1, <2>2, <2>3, CongSym, CongTrans
  <2>5. QED
    BY <2>0, <2>4 DEF uu
<1>3. \A k \in Nat : k \in S
  <2> HIDE DEF S
  <2>1. QED
    BY <1>1, <1>2, NatInductionOnSet
<1>4. ~Cong(Pow(b, n), 0)
  BY <1>3
<1>5. QED
  BY <1>4, CongRefl, PowSteps

-----------------------------------------------------------------------------
(* Dividing out many roots. *)

Nodes(a, D, s, x) == Products([j \in D |-> x - a[j]], D)[s]
FactorsInto(a, D, s, p, q) == \A x \in Int : Cong(Eval(p, x), Nodes(a, D, s, x) * Eval(q, x))
Distant(a, D) == \A i, j \in D : i # j => ~Cong(a[i] - a[j], 0)

LEMMA NodesSteps ==
  ASSUME NEW D, IsFiniteSet(D), NEW a \in [D -> Int], NEW x \in Int
  PROVE  /\ Nodes(a, D, {}, x) = 1
         /\ \A s \in SUBSET D : Nodes(a, D, s, x) \in Field /\ Nodes(a, D, s, x) \in Int
         /\ \A s \in SUBSET D : \A y \in s : Cong(Nodes(a, D, s, x), (x - a[y]) * Nodes(a, D, s \ {y}, x))
         /\ \A s \in SUBSET D : (\A y \in s : ~Cong(x - a[y], 0)) => ~Cong(Nodes(a, D, s, x), 0)
<1> DEFINE f == [j \in D |-> x - a[j]]
<1>1. f \in [D -> Int] /\ \A y \in D : f[y] = x - a[y]
  OBVIOUS
<1>2. \A s : Nodes(a, D, s, x) = Products(f, D)[s]
  BY DEF Nodes
<1> HIDE DEF f
<1>3. ProductLike(f, D, Products(f, D))
  BY <1>1, ProductSteps
<1>4. /\ Products(f, D)[{}] = 1
      /\ \A s \in SUBSET D : Products(f, D)[s] \in Field /\ Products(f, D)[s] \in Int
      /\ \A s \in SUBSET D : \A y \in s : Cong(Products(f, D)[s], f[y] * Products(f, D)[s \ {y}])
  BY <1>3, Zenon DEF ProductLike
<1>5. ASSUME NEW s \in SUBSET D, \A y \in s : ~Cong(x - a[y], 0) PROVE ~Cong(Products(f, D)[s], 0)
  <2>1. \A y \in s : ~Cong(f[y], 0)
    BY <1>1, <1>5
  <2>2. QED
    BY <1>1, <2>1, ProductNotZero
<1>6. \A s \in SUBSET D : \A y \in s : Cong(Nodes(a, D, s, x), (x - a[y]) * Nodes(a, D, s \ {y}, x))
  <2>1. \A s \in SUBSET D : \A y \in s : f[y] = x - a[y]
    BY <1>1
  <2>2. QED
    BY <1>2, <1>4, <2>1, Zenon
<1>7. QED
  BY <1>2, <1>4, <1>5, <1>6, Zenon

LEMMA FactorStep ==
  ASSUME NEW D, IsFiniteSet(D), NEW a \in [D -> Int], Distant(a, D),
         NEW s \in SUBSET D, NEW y \in s, NEW p \in Poly, NEW q \in Poly, Len(q) > 0,
         Cong(Eval(p, a[y]), 0), FactorsInto(a, D, s \ {y}, p, q)
  PROVE  FactorsInto(a, D, s, p, Opened(q, a[y]))
<1> DEFINE r == s \ {y}
           b == a[y]
           o == Opened(q, b)
<1>1. b \in Int /\ r \in SUBSET D
  OBVIOUS
<1>2. \A z \in Poly, x \in Int : Eval(z, x) \in Int
  BY SufStep
<1>3. Cong(Eval(q, b), 0)
  <2> DEFINE m == Nodes(a, D, r, b)
             e == Eval(q, b)
             pe == Eval(p, b)
  <2>1. \A j \in r : ~Cong(b - a[j], 0)
    BY DEF Distant
  <2> HIDE DEF b, r
  <2>2. ~Cong(m, 0) /\ m \in Int
    BY <1>1, <2>1, NodesSteps
  <2>3. Cong(pe, m * e) /\ Cong(pe, 0) /\ pe \in Int /\ e \in Int
    BY <1>1, <1>2 DEF FactorsInto, b, r
  <2> HIDE DEF m, e, pe
  <2>4. m * e \in Int
    BY <2>2, <2>3
  <2>5. Cong(m * e, 0)
    BY <2>3, <2>4, CongSym, CongTrans
  <2>6. Cong(e, 0)
    BY <2>2, <2>3, <2>5, NoZeroDivisors
  <2>7. QED
    BY <2>6 DEF e
<1>4. o \in Poly /\ \A x \in Int : Cong((x - b) * Eval(o, x), Eval(q, x) - Eval(q, b))
  <2> HIDE DEF b
  <2>1. QED
    BY <1>1, OpenedFacts
<1>5. ASSUME NEW x \in Int PROVE Cong(Eval(p, x), Nodes(a, D, s, x) * Eval(o, x))
  <2> DEFINE m == Nodes(a, D, r, x)
             mm == Nodes(a, D, s, x)
             pe == Eval(p, x)
             qe == Eval(q, x)
             q0 == Eval(q, b)
             oe == Eval(o, x)
             d == x - b
  <2>1. m \in Int /\ mm \in Int /\ Cong(mm, d * m)
    BY <1>1, NodesSteps
  <2>2. pe \in Int /\ qe \in Int /\ oe \in Int /\ q0 \in Int /\ d \in Int
    <3>1. d \in Int
      BY <1>1
    <3>2. Eval(p, x) \in Int /\ Eval(q, x) \in Int /\ Eval(q, b) \in Int /\ Eval(o, x) \in Int
      <4> HIDE DEF b, o
      <4>1. QED
        BY <1>1, <1>2, <1>4
    <3>3. QED
      BY <3>1, <3>2
  <2>3. Cong(pe, m * qe)
    BY DEF FactorsInto
  <2>4. Cong(d * oe, qe - q0) /\ Cong(q0, 0)
    BY <1>3, <1>4
  <2> HIDE DEF m, mm, pe, qe, q0, oe, d
  <2>5. Cong(d * oe, qe)
    <3>1. Cong(qe, qe)
      BY <2>2, CongRefl
    <3>2. Cong(qe - q0, qe - 0) /\ qe - 0 = qe /\ qe - q0 \in Int /\ d * oe \in Int
      BY <2>2, <2>4, <3>1, CongAdd
    <3>3. QED
      BY <2>2, <2>4, <3>2, CongTrans
  <2>6. d * oe \in Int /\ m * (d * oe) \in Int /\ m * qe \in Int /\ mm * oe \in Int /\ (d * m) * oe \in Int /\ d * m \in Int
        /\ (d * m) * oe = m * (d * oe)
    BY <2>1, <2>2
  <2>7. Cong(m * (d * oe), m * qe)
    BY <2>1, <2>2, <2>5, <2>6, CongScale, Zenon
  <2>8. Cong(mm * oe, (d * m) * oe)
    BY <2>1, <2>2, <2>6, CongScale, Zenon
  <2>9. Cong(mm * oe, m * (d * oe))
    BY <2>6, <2>8
  <2>10. Cong(mm * oe, m * qe)
    BY <2>6, <2>7, <2>9, CongTrans
  <2>11. Cong(pe, mm * oe)
    BY <2>2, <2>3, <2>6, <2>10, CongSym, CongTrans
  <2>12. QED
    BY <2>11 DEF pe, mm, oe
<1>6. QED
  BY <1>5 DEF FactorsInto

\* A polynomial with roots is their product times another with its leading coefficient.
LEMMA Factors ==
  ASSUME NEW D, IsFiniteSet(D), NEW a \in [D -> Int], Distant(a, D), NEW p \in Poly,
         \A y \in D : Cong(Eval(p, a[y]), 0), Cardinality(D) < Len(p)
  PROVE  \E q \in Poly : /\ Len(q) = Len(p) - Cardinality(D) /\ q[Len(q)] = p[Len(p)]
                         /\ FactorsInto(a, D, D, p, q)
<1> DEFINE n == Len(p)
           Divides(s, q) == /\ q \in Poly /\ Len(q) = n - Cardinality(s) /\ q[Len(q)] = p[n]
                            /\ FactorsInto(a, D, s, p, q)
           T == {s \in SUBSET D : \E q : Divides(s, q)}
<1>0. n \in Nat /\ \A s \in SUBSET D : Cardinality(s) \in Nat /\ Cardinality(s) <= Cardinality(D)
  BY PolyFacts, Subsets
<1>1. {} \in T
  <2>1. Cardinality({}) = 0
    BY FS_EmptySet
  <2>2. FactorsInto(a, D, {}, p, p)
    <3>1. SUFFICES ASSUME NEW x \in Int PROVE Cong(Eval(p, x), Nodes(a, D, {}, x) * Eval(p, x))
      BY DEF FactorsInto
    <3>2. Nodes(a, D, {}, x) = 1 /\ Eval(p, x) \in Int
      <4>1. Nodes(a, D, {}, x) = 1
        BY NodesSteps
      <4>2. QED
        BY <4>1, SufStep
    <3>3. 1 * Eval(p, x) = Eval(p, x)
      BY <3>2
    <3>4. QED
      BY <3>2, <3>3, CongRefl
  <2>3. Divides({}, p)
    BY <1>0, <2>1, <2>2
  <2> HIDE DEF Divides
  <2>4. QED
    BY <2>3
<1>2. ASSUME NEW s \in SUBSET D, NEW y \in s, s \ {y} \in T PROVE s \in T
  <2>1. PICK q : Divides(s \ {y}, q)
    BY <1>2
  <2> DEFINE c == Cardinality(s)
             m == Len(q)
             o == Opened(q, a[y])
  <2>2. c \in Nat /\ Cardinality(s \ {y}) = c - 1 /\ c <= Cardinality(D) /\ Cardinality(D) \in Nat
    BY <1>0, Subsets
  <2>3. c < n
    BY <1>0, <2>2
  <2> HIDE DEF c
  <2>4. q \in Poly /\ Len(q) = n - (c - 1) /\ q[Len(q)] = p[n] /\ FactorsInto(a, D, s \ {y}, p, q)
    BY <2>1, <2>2
  <2> HIDE DEF n
  <2>5. m = n - (c - 1) /\ m > 1 /\ m - 1 = n - c
    BY <1>0, <2>2, <2>3, <2>4
  <2>6. a[y] \in Int /\ y \in D
    OBVIOUS
  <2>7. Len(q) > 0 /\ Len(q) > 1
    BY <2>5
  <2>8. o \in Poly /\ Len(o) = m - 1 /\ o[m - 1] = q[m]
    BY <2>4, <2>6, <2>7, OpenedFacts, OpenedLeads
  <2>9. FactorsInto(a, D, s, p, o)
    BY <2>4, <2>6, <2>7, FactorStep
  <2>10. Divides(s, o)
    <3>1. Len(o) = n - Cardinality(s) /\ o[Len(o)] = p[n]
      BY <2>4, <2>5, <2>8 DEF c
    <3>2. QED
      BY <2>8, <2>9, <3>1
  <2> HIDE DEF Divides
  <2>11. QED
    BY <2>10
<1>3. \A s \in SUBSET D : s \in T
  <2> HIDE DEF T
  <2>1. QED
    BY <1>1, <1>2, SetInduction
<1>4. PICK q : Divides(D, q)
  BY <1>3
<1>5. QED
  BY <1>4

-----------------------------------------------------------------------------
(* Parts of polynomials. *)

SliceSteps(x, a, s, ss, v, w, ww) ==
  /\ x \in Int /\ a \in Int /\ s \in Int /\ ss \in Int /\ v \in Int /\ w \in Int /\ ww \in Int
  /\ Cong(s, a + x * ss) /\ Cong(w, x * ww)

LEMMA SliceStep ==
  ASSUME NEW x, NEW a, NEW s, NEW ss, NEW v, NEW w, NEW ww, SliceSteps(x, a, s, ss, v, w, ww)
  PROVE  Cong(s - w * v, a + x * (ss - ww * v))
<1>0. /\ x \in Int /\ a \in Int /\ s \in Int /\ ss \in Int /\ v \in Int /\ w \in Int /\ ww \in Int
      /\ Cong(s, a + x * ss) /\ Cong(w, x * ww)
  BY DEF SliceSteps
<1>1. w * v \in Int /\ (x * ww) * v \in Int /\ x * ss \in Int /\ a + x * ss \in Int /\ x * ww \in Int
  BY <1>0
<1>2. Cong(w * v, (x * ww) * v)
  BY <1>0, <1>1, CongScale, Zenon
<1>3. Cong(s - w * v, (a + x * ss) - (x * ww) * v)
  BY <1>0, <1>1, <1>2, CongAdd
<1>4. (a + x * ss) - (x * ww) * v = a + x * (ss - ww * v)
  BY <1>0
<1>5. QED
  BY <1>3, <1>4

\* What is left of a polynomial is a slice of it and what is left after that.
LEMMA SliceFacts ==
  ASSUME NEW p \in Poly, NEW i \in Nat, NEW m \in Nat, NEW x \in Int
  PROVE  /\ Slice(p, i, i + m) \in Poly /\ Len(Slice(p, i, i + m)) = m
         /\ Cong(Suf(p, x, i + 1), Eval(Slice(p, i, i + m), x) + Pow(x, m) * Suf(p, x, i + m + 1))
<1> DEFINE f == [k \in 1 .. (i + m) - i |-> At(p, i + k)]
           s == Slice(p, i, i + m)
           v == Suf(p, x, i + m + 1)
           u == [k \in 1 .. m + 1 |-> Suf(p, x, i + k) - Pow(x, m - k + 1) * v]
<1>1. /\ \A k : At(p, k) \in Field /\ At(p, k) \in Int
      /\ \A k \in Nat \ {0} : /\ Suf(p, x, k) \in Int
                              /\ Cong(Suf(p, x, k), At(p, k) + x * Suf(p, x, k + 1))
  BY PolyFacts, SufStep
<1>2. f \in [1 .. m -> Field] /\ (i + m) - i = m /\ \A k \in 1 .. m : f[k] = At(p, i + k)
  BY <1>1
<1>3. s = f \o <<>>
  BY DEF Slice
<1> HIDE DEF f, s
<1>4. s = f /\ s \in Poly /\ Len(s) = m
  BY <1>2, <1>3, Stored
<1>5. \A k \in 1 .. m : At(s, k) = At(p, i + k)
  BY <1>2, <1>4 DEF At
<1>6. v \in Int
  <2>1. i + m + 1 \in Nat \ {0}
    OBVIOUS
  <2>2. QED
    BY <1>1, <2>1
<1> HIDE DEF v
<1>7. u \in [1 .. m + 1 -> Int]
  <2>1. ASSUME NEW k \in 1 .. m + 1 PROVE Suf(p, x, i + k) - Pow(x, m - k + 1) * v \in Int
    <3>1. i + k \in Nat \ {0} /\ m - k + 1 \in Nat
      OBVIOUS
    <3>2. Suf(p, x, i + k) \in Int /\ Pow(x, m - k + 1) \in Int
      BY <1>1, <3>1, PowSteps
    <3>3. QED
      BY <1>6, <3>2
  <2>2. QED
    BY <2>1
<1>8. Cong(u[m + 1], 0)
  <2>1. m + 1 \in 1 .. m + 1 /\ m - (m + 1) + 1 = 0 /\ i + (m + 1) = i + m + 1
    OBVIOUS
  <2>2. u[m + 1] = v - 1 * v
    BY <2>1, PowSteps DEF v
  <2>3. v - 1 * v = 0
    BY <1>6
  <2>4. QED
    BY <2>2, <2>3, CongRefl
<1>9. ASSUME NEW k \in 1 .. m PROVE Cong(u[k], At(s, k) + x * u[k + 1])
  <2> DEFINE j == i + k
             e == m - (k + 1) + 1
  <2>1. /\ k \in 1 .. m + 1 /\ k + 1 \in 1 .. m + 1 /\ j \in Nat \ {0} /\ j + 1 \in Nat \ {0}
        /\ i + (k + 1) = j + 1 /\ e \in Nat /\ m - k + 1 = e + 1
    OBVIOUS
  <2>2. u[k] = Suf(p, x, j) - Pow(x, e + 1) * v /\ u[k + 1] = Suf(p, x, j + 1) - Pow(x, e) * v
    BY <2>1
  <2>3. Cong(Pow(x, e + 1), x * Pow(x, e)) /\ Pow(x, e) \in Int /\ Pow(x, e + 1) \in Int
    <3>1. e \in Nat /\ e + 1 \in Nat
      BY <2>1
    <3> HIDE DEF e
    <3>2. QED
      BY <3>1, PowSteps
  <2>4. At(s, k) = At(p, j)
    BY <1>5
  <2> HIDE DEF j, e, u
  <2>5. SliceSteps(x, At(p, j), Suf(p, x, j), Suf(p, x, j + 1), v, Pow(x, e + 1), Pow(x, e))
    BY <1>1, <1>6, <2>1, <2>3 DEF SliceSteps
  <2>6. Cong(Suf(p, x, j) - Pow(x, e + 1) * v, At(p, j) + x * (Suf(p, x, j + 1) - Pow(x, e) * v))
    BY <2>5, SliceStep
  <2>7. QED
    BY <2>2, <2>4, <2>6
<1>10. Steps(s, x, m, u)
  BY <1>8, <1>9 DEF Steps
<1>11. u[1] = Suf(p, x, i + 1) - Pow(x, m) * v
  BY m - 1 + 1 = m
<1> HIDE DEF u
<1>12. Cong(Eval(s, x), u[1]) /\ Eval(s, x) \in Int
  <2>1. Len(s) <= m
    BY <1>4
  <2>2. Cong(Eval(s, x), u[1])
    BY <1>4, <1>7, <1>10, <2>1, EvalIs, Zenon
  <2>3. QED
    BY <1>4, <2>2, SufStep
<1>13. Cong(Suf(p, x, i + 1), Eval(s, x) + Pow(x, m) * v)
  <2> DEFINE a == Suf(p, x, i + 1)
             b == Pow(x, m) * v
             c == Eval(s, x)
  <2>1. a \in Int /\ b \in Int /\ c \in Int
    <3>1. i + 1 \in Nat \ {0} /\ Pow(x, m) \in Int
      BY PowSteps
    <3>2. QED
      BY <1>1, <1>6, <1>12, <3>1
  <2>2. Cong(c, a - b)
    BY <1>11, <1>12
  <2> HIDE DEF a, b, c
  <2>3. Cong(c + b, (a - b) + b) /\ (a - b) + b = a /\ a - b \in Int /\ c + b \in Int
    BY <2>1, <2>2, CongRefl, CongAdd
  <2>4. Cong(a, c + b)
    BY <2>1, <2>3, CongSym
  <2>5. QED
    BY <2>4 DEF a, b, c
<1>14. QED
  BY <1>4, <1>13 DEF s, v

=============================================================================
