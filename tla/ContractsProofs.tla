---------------------------- MODULE ContractsProofs ----------------------------
(***************************************************************************)
(* TLAPS proofs about three of the four smart contracts, for every set of  *)
(* nullifiers, wallets, blobs, roots and accounts, every supply and every  *)
(* bound.  Each is proved about on its own, with the inductive invariant   *)
(* it needs; the last part shows that a behaviour of MCContracts is one of *)
(* CredentialManager and of NullifierRegistry where KYCBoxStorage keeps    *)
(* its invariant too.                                                      *)
(***************************************************************************)
EXTENDS MCContracts, FiniteSetTheorems, WellFoundedInduction, TLAPS

\* MCContracts and its instances each have their own copy of Cardinality.
LEMMA SameCount ==
  \A S : NR!Cardinality(S) = Cardinality(S) /\ BS!Cardinality(S) = Cardinality(S)
BY DEF Cardinality, NR!Cardinality, BS!Cardinality

-----------------------------------------------------------------------------
(* NullifierRegistry. *)

\* The inductive invariant: the counter is a function of the boxes.
RegistryInv == NR!TypeOK /\ NR!TotalMatchesBoxes

\* The registered nullifiers are finitely many, so they can be counted.
LEMMA RegisteredFinite ==
  /\ IsFiniteSet(NR!Registered)
  /\ Cardinality(NR!Registered) \in Nat
<1>1. NR!Registered \subseteq Nullifiers
  BY DEF NR!Registered
<1>2. IsFiniteSet(NR!Registered)
  BY <1>1, NullifiersFinite, FS_Subset
<1>3. QED
  BY <1>2, FS_CardinalityType

\* A successful register() adds exactly one box and counts it.
LEMMA RegisterKeepsCount ==
  ASSUME RegistryInv, NEW sender \in Accounts, NEW n \in Nullifiers,
         NEW w \in Wallets, NR!register(sender, n, w)
  PROVE  RegistryInv'
<1>1. NR!TypeOK'
  BY DEF RegistryInv, NR!TypeOK, NR!register
<1>2. /\ n \notin NR!Registered
      /\ NR!Registered' = NR!Registered \cup {n}
  BY AbsentIsNoWallet DEF RegistryInv, NR!TypeOK, NR!register, NR!Registered, NR!is_registered
<1>3. Cardinality(NR!Registered') = Cardinality(NR!Registered) + 1
  BY <1>2, RegisteredFinite, FS_AddElement
<1>4. NR!TotalMatchesBoxes'
  BY <1>3, SameCount DEF RegistryInv, NR!TotalMatchesBoxes, NR!register
<1>5. QED
  BY <1>1, <1>4 DEF RegistryInv

\* A successful invalidate() removes exactly one box; the counter was
\* positive, so the guard around its decrement is never taken.
LEMMA InvalidateKeepsCount ==
  ASSUME RegistryInv, NEW sender \in Accounts, NEW n \in Nullifiers,
         NR!invalidate(sender, n)
  PROVE  RegistryInv'
<1>1. /\ n \in NR!Registered
      /\ NR!Registered' = NR!Registered \ {n}
  BY DEF RegistryInv, NR!TypeOK, NR!invalidate, NR!Registered, NR!is_registered
<1>2. /\ Cardinality(NR!Registered') = Cardinality(NR!Registered) - 1
      /\ Cardinality(NR!Registered') \in Nat
  <2>1. IsFiniteSet(NR!Registered')
    BY <1>1, RegisteredFinite, FS_RemoveElement
  <2>2. QED
    BY <1>1, <2>1, RegisteredFinite, FS_RemoveElement, FS_CardinalityType
<1>3. total_registered > 0
  BY <1>2, RegisteredFinite, SameCount DEF RegistryInv, NR!TotalMatchesBoxes
<1>4. total_registered' = total_registered - 1
  BY <1>3 DEF NR!invalidate, NR!Decremented
<1>5. NR!TotalMatchesBoxes'
  BY <1>2, <1>4, SameCount DEF RegistryInv, NR!TotalMatchesBoxes
<1>6. NR!TypeOK'
  BY <1>3, <1>4 DEF RegistryInv, NR!TypeOK, NR!invalidate
<1>7. QED
  BY <1>5, <1>6 DEF RegistryInv

\* A transfer of the issuer role touches neither boxes nor counter.
LEMMA UpdateIssuerKeepsCount ==
  ASSUME RegistryInv, NEW sender \in Accounts, NEW new \in Accounts,
         NR!update_issuer(sender, new)
  PROVE  RegistryInv'
BY SameCount DEF RegistryInv, NR!TypeOK, NR!TotalMatchesBoxes, NR!update_issuer, NR!Registered,
       NR!is_registered

LEMMA InitIsCounted == NR!Init => RegistryInv
<1>1. SUFFICES ASSUME NR!Init PROVE RegistryInv
  OBVIOUS
<1>2. NR!TypeOK
  BY <1>1 DEF NR!Init, NR!TypeOK
<1>3. NR!Registered = {}
  BY <1>1 DEF NR!Init, NR!Registered, NR!is_registered
<1>4. NR!TotalMatchesBoxes
  BY <1>1, <1>3, FS_EmptySet, SameCount DEF NR!Init, NR!TotalMatchesBoxes
<1>5. QED
  BY <1>2, <1>4 DEF RegistryInv

LEMMA NextKeepsCounted == RegistryInv /\ [NR!Next]_(NR!vars) => RegistryInv'
<1>1. SUFFICES ASSUME RegistryInv, [NR!Next]_(NR!vars) PROVE RegistryInv'
  OBVIOUS
<1>2. CASE UNCHANGED NR!vars
  BY <1>1, <1>2, SameCount DEF NR!vars, RegistryInv, NR!TypeOK, NR!TotalMatchesBoxes, NR!Registered,
                    NR!is_registered
<1>3. CASE NR!Next
  <2>1. PICK sender \in Accounts :
          \/ \E n \in Nullifiers, w \in Wallets : NR!register(sender, n, w)
          \/ \E n \in Nullifiers : NR!invalidate(sender, n)
          \/ \E new \in Accounts : NR!update_issuer(sender, new)
    BY <1>3 DEF NR!Next
  <2>2. QED
    BY <1>1, <2>1, RegisterKeepsCount, InvalidateKeepsCount,
       UpdateIssuerKeepsCount
<1>4. QED
  BY <1>1, <1>2, <1>3

LEMMA CountedAlways == NR!Spec => []RegistryInv
BY InitIsCounted, NextKeepsCounted, PTL DEF NR!Spec

\* Type correctness of the contract's state.
THEOREM RegistryTypes == NR!Spec => []NR!TypeOK
<1>1. RegistryInv => NR!TypeOK
  BY DEF RegistryInv
<1>2. QED
  BY <1>1, CountedAlways, PTL

\* total_registered counts the boxes, whatever the interleaving of register()
\* and invalidate() calls and of transfers of the issuer role.
THEOREM CounterCorrect == NR!Spec => []NR!TotalMatchesBoxes
<1>1. RegistryInv => NR!TotalMatchesBoxes
  BY DEF RegistryInv
<1>2. QED
  BY <1>1, CountedAlways, PTL

\* No step hands a bound nullifier to another wallet: register() refuses a
\* nullifier that has a box and invalidate() only deletes boxes.
THEOREM BindingNeverMovesAlways == NR!Spec => NR!BindingNeverMoves
<1> DEFINE Kept == \A n \in NR!Registered : nullifiers'[n] \in {nullifiers[n], Absent}
<1>1. NR!TypeOK /\ [NR!Next]_(NR!vars) => [Kept]_(NR!vars)
  <2>1. SUFFICES ASSUME NR!TypeOK, NR!Next, NEW k \in NR!Registered
                 PROVE  nullifiers'[k] \in {nullifiers[k], Absent}
    OBVIOUS
  <2>2. k \in Nullifiers /\ NR!is_registered(k)
    BY <2>1 DEF NR!Registered, NR!is_registered
  <2>3. PICK sender \in Accounts :
          \/ \E n \in Nullifiers, w \in Wallets : NR!register(sender, n, w)
          \/ \E n \in Nullifiers : NR!invalidate(sender, n)
          \/ \E new \in Accounts : NR!update_issuer(sender, new)
    BY <2>1 DEF NR!Next
  <2>4. CASE \E n \in Nullifiers, w \in Wallets : NR!register(sender, n, w)
    BY <2>1, <2>2, <2>4 DEF NR!TypeOK, NR!register, NR!is_registered
  <2>5. CASE \E n \in Nullifiers : NR!invalidate(sender, n)
    BY <2>1, <2>2, <2>5 DEF NR!TypeOK, NR!invalidate
  <2>6. CASE \E new \in Accounts : NR!update_issuer(sender, new)
    BY <2>6 DEF NR!update_issuer
  <2>7. QED
    BY <2>3, <2>4, <2>5, <2>6
<1>2. QED
  BY <1>1, RegistryTypes, PTL DEF NR!Spec, NR!BindingNeverMoves

-----------------------------------------------------------------------------
(* KYCBoxStorage. *)

\* The counter can only be related to the boxes together with their typing.
BlobInv == BS!TypeOK /\ BS!TotalMatchesBlobs

LEMMA StoredFinite == IsFiniteSet(BS!Stored) /\ Cardinality(BS!Stored) \in Nat
<1>1. BS!Stored \subseteq Nullifiers
  BY DEF BS!Stored
<1>2. QED
  BY <1>1, NullifiersFinite, FS_Subset, FS_CardinalityType

\* Writing over a blob keeps the set of boxes, a first write adds one.
LEMMA StoreKeepsCount ==
  ASSUME BlobInv, NEW sender \in Accounts, NEW n \in Nullifiers, NEW b \in Blobs,
         BS!store_blob(sender, n, b)
  PROVE  BlobInv'
<1>1. BS!TypeOK'
  BY DEF BlobInv, BS!TypeOK, BS!store_blob, BS!CountedIn
<1>2. BS!Stored' = BS!Stored \cup {n}
  BY AbsentIsNoBlob DEF BlobInv, BS!TypeOK, BS!store_blob, BS!Stored, BS!has_blob
<1>3. CASE BS!has_blob(n)
  <2>1. BS!Stored' = BS!Stored
    BY <1>2, <1>3 DEF BS!Stored
  <2>2. QED
    BY <1>1, <1>3, <2>1, SameCount DEF BlobInv, BS!TotalMatchesBlobs, BS!store_blob, BS!CountedIn
<1>4. CASE ~BS!has_blob(n)
  <2>1. n \notin BS!Stored
    BY <1>4 DEF BS!Stored
  <2>2. Cardinality(BS!Stored') = Cardinality(BS!Stored) + 1
    BY <1>2, <2>1, StoredFinite, FS_AddElement
  <2>3. QED
    BY <1>1, <1>4, <2>2, SameCount DEF BlobInv, BS!TotalMatchesBlobs, BS!store_blob, BS!CountedIn
<1>5. QED
  BY <1>3, <1>4

\* Deleting removes one box; there was one, so the counter was positive.
LEMMA DeleteKeepsCount ==
  ASSUME BlobInv, NEW sender \in Accounts, NEW n \in Nullifiers, BS!delete_blob(sender, n)
  PROVE  BlobInv'
<1>1. n \in BS!Stored /\ BS!Stored' = BS!Stored \ {n}
  BY DEF BlobInv, BS!TypeOK, BS!delete_blob, BS!Stored, BS!has_blob
<1>2. IsFiniteSet(BS!Stored') /\ Cardinality(BS!Stored') = Cardinality(BS!Stored) - 1
  BY <1>1, StoredFinite, FS_RemoveElement
<1>3. Cardinality(BS!Stored') \in Nat
  BY <1>2, FS_CardinalityType
<1>4. total_blobs > 0
  BY <1>2, <1>3, StoredFinite, SameCount DEF BlobInv, BS!TotalMatchesBlobs
<1>5. total_blobs' = total_blobs - 1
  BY <1>4 DEF BS!delete_blob, BS!CountedOut
<1>6. BS!TotalMatchesBlobs'
  BY <1>2, <1>5, SameCount DEF BlobInv, BS!TotalMatchesBlobs
<1>7. BS!TypeOK'
  BY <1>4, <1>5 DEF BlobInv, BS!TypeOK, BS!delete_blob
<1>8. QED
  BY <1>6, <1>7 DEF BlobInv

LEMMA InitBlobsCounted == BS!Init => BlobInv
<1>1. SUFFICES ASSUME BS!Init PROVE BlobInv
  OBVIOUS
<1>2. BS!Stored = {}
  BY <1>1 DEF BS!Init, BS!Stored, BS!has_blob
<1>3. BS!TotalMatchesBlobs
  BY <1>1, <1>2, FS_EmptySet, SameCount DEF BS!Init, BS!TotalMatchesBlobs
<1>4. BS!TypeOK
  BY <1>1 DEF BS!Init, BS!TypeOK
<1>5. QED
  BY <1>3, <1>4 DEF BlobInv

LEMMA NextKeepsBlobs == BlobInv /\ [BS!Next]_(BS!vars) => BlobInv'
<1>1. SUFFICES ASSUME BlobInv, [BS!Next]_(BS!vars) PROVE BlobInv'
  OBVIOUS
<1>2. CASE UNCHANGED BS!vars
  BY <1>1, <1>2, SameCount DEF BS!vars, BlobInv, BS!TypeOK, BS!TotalMatchesBlobs, BS!Stored, BS!has_blob
<1>3. CASE BS!Next
  BY <1>1, <1>3, StoreKeepsCount, DeleteKeepsCount DEF BS!Next
<1>4. QED
  BY <1>1, <1>2, <1>3

\* Type correctness of the blob store, and the truth of its counter: the test
\* of is_new before the write makes store_blob() safe to repeat.
THEOREM BlobCounterCorrect == BS!Spec => [](BS!TypeOK /\ BS!TotalMatchesBlobs)
<1>1. BS!Spec => []BlobInv
  BY InitBlobsCounted, NextKeepsBlobs, PTL DEF BS!Spec
<1>2. QED
  BY <1>1, PTL DEF BlobInv

-----------------------------------------------------------------------------
(* Sums over finite sets, as the module Folds defines them. *)

LEMMA NatInductionOnSet ==
  ASSUME NEW S, 0 \in S, \A n \in Nat : n \in S => n + 1 \in S
  PROVE  \A n \in Nat : n \in S
<1> DEFINE Rest == Nat \ S
<1>1. SUFFICES ASSUME Rest # {} PROVE FALSE
  OBVIOUS
<1>2. PICK x \in Rest : \A y \in Rest : ~(<<y, x>> \in OpToRel(<, Nat))
  BY <1>1, NatLessThanWellFounded, WFMin
<1>3. x # 0 /\ x - 1 \in Nat /\ x - 1 < x
  OBVIOUS
<1>4. x - 1 \notin Rest
  BY <1>2, <1>3 DEF OpToRel
<1>5. QED
  BY <1>3, <1>4

Pick(s) == CHOOSE x \in s : TRUE

\* The sums of f over the subsets of its domain, as Folds defines them.
SumOver(f, D, g) ==
  g = [s \in SUBSET D |-> IF s = {} THEN 0 ELSE f[Pick(s)] + g[s \ {Pick(s)}]]

\* Every finite set's function into the integers has its sums.
LEMMA SumsExist ==
  ASSUME NEW D, IsFiniteSet(D), NEW f \in [D -> Int]
  PROVE  \E g \in [SUBSET D -> Int] : SumOver(f, D, g)
<1> DEFINE Upto(g, n) == \A s \in SUBSET D : Cardinality(s) <= n =>
                  g[s] = IF s = {} THEN 0 ELSE f[Pick(s)] + g[s \ {Pick(s)}]
           S == {n \in Nat : \E g \in [SUBSET D -> Int] : Upto(g, n)}
<1>0. \A s \in SUBSET D : IsFiniteSet(s) /\ Cardinality(s) \in Nat
  BY FS_Subset, FS_CardinalityType
<1>1. \A s \in SUBSET D :
        s # {} => /\ Pick(s) \in s /\ s \ {Pick(s)} \in SUBSET D
                  /\ Cardinality(s \ {Pick(s)}) = Cardinality(s) - 1
  <2>1. \A s \in SUBSET D : s # {} => Pick(s) \in s
    BY DEF Pick
  <2>2. QED
    BY <1>0, <2>1, FS_RemoveElement
<1>2. 0 \in S
  <2>1. \A s \in SUBSET D : Cardinality(s) <= 0 => s = {}
    BY <1>0, FS_EmptySet
  <2>2. Upto([s \in SUBSET D |-> 0], 0)
    BY <2>1
  <2>3. [s \in SUBSET D |-> 0] \in [SUBSET D -> Int]
    OBVIOUS
  <2> HIDE DEF Upto
  <2>4. QED
    BY <2>2, <2>3
<1>3. ASSUME NEW n \in Nat, n \in S PROVE n + 1 \in S
  <2>1. PICK g \in [SUBSET D -> Int] : Upto(g, n)
    BY <1>3
  <2> DEFINE h == [s \in SUBSET D |-> IF s = {} THEN 0 ELSE f[Pick(s)] + g[s \ {Pick(s)}]]
  <2>2. h \in [SUBSET D -> Int]
    <3>1. \A s \in SUBSET D : s # {} => f[Pick(s)] \in Int /\ g[s \ {Pick(s)}] \in Int
      BY <1>1
    <3>2. QED
      BY <3>1
  <2>3. \A s \in SUBSET D : Cardinality(s) <= n => h[s] = g[s]
    BY <2>1
  <2>4. ASSUME NEW s \in SUBSET D, Cardinality(s) <= n + 1, s # {}
        PROVE  h[s \ {Pick(s)}] = g[s \ {Pick(s)}]
    <3>1. s \ {Pick(s)} \in SUBSET D /\ Cardinality(s \ {Pick(s)}) <= n
      BY <1>0, <1>1, <2>4
    <3> HIDE DEF h
    <3>2. QED
      BY <3>1, <2>3
  <2>5. Upto(h, n + 1)
    BY <2>4
  <2> HIDE DEF Upto, h
  <2>6. QED
    BY <2>2, <2>5
<1>4. Cardinality(D) \in S
  <2> HIDE DEF S
  <2>1. QED
    BY <1>0, <1>2, <1>3, NatInductionOnSet
<1>5. PICK g \in [SUBSET D -> Int] : Upto(g, Cardinality(D))
  BY <1>4
<1>6. \A s \in SUBSET D : Cardinality(s) <= Cardinality(D)
  BY FS_Subset
<1>7. SumOver(f, D, g)
  BY <1>5, <1>6 DEF SumOver
<1>8. QED
  BY <1>7

Sums(f, D) == CHOOSE g : SumOver(f, D, g)

SumOf(f) == FoldFunction(+, 0, f)

LEMMA SumsAreSums ==
  ASSUME NEW D, IsFiniteSet(D), NEW f \in [D -> Int]
  PROVE  /\ SumOver(f, D, Sums(f, D))
         /\ SumOf(f) = Sums(f, D)[D]
<1>1. SumOver(f, D, Sums(f, D))
  BY SumsExist DEF Sums
<1>2. SumOf(f) = Sums(f, D)[D]
  BY DEF SumOf, FoldFunction, FoldFunctionOnSet, MapThenFoldSet, Sums, SumOver, Pick
<1>3. QED
  BY <1>1, <1>2

\* A sum over a set is that over the rest of it and any one member.
LEMMA SumTakesAnyMember ==
  ASSUME NEW D, IsFiniteSet(D), NEW f \in [D -> Int], NEW g, SumOver(f, D, g)
  PROVE  /\ g[{}] = 0
         /\ \A s \in SUBSET D : /\ g[s] \in Int
                                 /\ \A y \in s : g[s] = f[y] + g[s \ {y}]
<1> DEFINE Fits(s) == g[s] \in Int /\ \A y \in s : g[s] = f[y] + g[s \ {y}]
           S == {n \in Nat : \A s \in SUBSET D : Cardinality(s) <= n => Fits(s)}
<1>1. \A s \in SUBSET D : g[s] = IF s = {} THEN 0 ELSE f[Pick(s)] + g[s \ {Pick(s)}]
  BY DEF SumOver
<1>2. \A s \in SUBSET D : IsFiniteSet(s) /\ Cardinality(s) \in Nat
  BY FS_Subset, FS_CardinalityType
<1>3. \A s \in SUBSET D : \A y \in s : /\ s \ {y} \in SUBSET D
                                      /\ Cardinality(s \ {y}) = Cardinality(s) - 1
  BY <1>2, FS_RemoveElement
<1>4. g[{}] = 0
  BY <1>1
<1>5. 0 \in S
  <2>1. \A s \in SUBSET D : Cardinality(s) <= 0 => s = {}
    BY <1>2, FS_EmptySet
  <2>2. QED
    BY <1>4, <2>1
<1>6. ASSUME NEW n \in Nat, n \in S PROVE n + 1 \in S
  <2>1. SUFFICES ASSUME NEW s \in SUBSET D, Cardinality(s) <= n + 1 PROVE Fits(s)
    OBVIOUS
  <2>2. \A y \in s : \A r \in SUBSET (s \ {y}) : Fits(r)
    <3>1. TAKE y \in s
    <3>2. TAKE r \in SUBSET (s \ {y})
    <3>3. r \in SUBSET D /\ IsFiniteSet(s \ {y}) /\ Cardinality(s \ {y}) <= n
      BY <1>2, <1>3, <2>1
    <3>4. Cardinality(r) <= n
      BY <1>2, <1>3, <3>3, FS_Subset
    <3> HIDE DEF Fits
    <3>5. QED
      BY <1>6, <3>3, <3>4
  <2>3. CASE s = {}
    BY <1>4, <2>3
  <2>. SUFFICES ASSUME s # {} PROVE Fits(s)
    BY <2>3
  <2>5. PICK x \in s : g[s] = f[x] + g[s \ {x}]
    BY <1>1 DEF Pick
  <2>6. f[x] \in Int /\ g[s \ {x}] \in Int
    BY <2>2
  <2>7. ASSUME NEW y \in s PROVE g[s] = f[y] + g[s \ {y}]
    <3>1. CASE y = x
      BY <2>5, <3>1
    <3>2. CASE y # x
      <4>1. /\ g[s \ {x}] = f[y] + g[(s \ {x}) \ {y}]
            /\ g[s \ {y}] = f[x] + g[(s \ {y}) \ {x}]
        BY <2>2, <3>2
      <4>2. g[(s \ {x}) \ {y}] = g[(s \ {y}) \ {x}]
        <5>1. (s \ {x}) \ {y} = (s \ {y}) \ {x}
          OBVIOUS
        <5>2. QED
          BY <5>1, Zenon
      <4>3. /\ f[y] \in Int
            /\ g[(s \ {x}) \ {y}] \in Int
        <5>1. y \in s \ {x} /\ (s \ {x}) \ {y} \in SUBSET (s \ {x})
          BY <3>2
        <5>2. f[y] \in Int
          OBVIOUS
        <5>3. QED
          BY <2>2, <5>1, <5>2
      <4>4. QED
        BY <2>5, <2>6, <4>1, <4>2, <4>3
    <3>3. QED
      BY <3>1, <3>2
  <2>8. QED
    BY <2>5, <2>6, <2>7
<1>7. \A n \in Nat : n \in S
  <2> HIDE DEF S
  <2>1. QED
    BY <1>5, <1>6, NatInductionOnSet
<1>8. QED
  BY <1>2, <1>4, <1>7

\* Where two functions agree, so do their sums.
LEMMA SumOfOthersStays ==
  ASSUME NEW D, IsFiniteSet(D), NEW f \in [D -> Int], NEW h \in [D -> Int], NEW w \in D,
         \A x \in D \ {w} : h[x] = f[x],
         NEW g, SumOver(f, D, g), NEW k, SumOver(h, D, k)
  PROVE  g[D \ {w}] = k[D \ {w}]
<1> DEFINE S == {n \in Nat : \A s \in SUBSET (D \ {w}) : Cardinality(s) = n => g[s] = k[s]}
<1>1. \A s \in SUBSET D : IsFiniteSet(s) /\ Cardinality(s) \in Nat
  BY FS_Subset, FS_CardinalityType
<1>2. /\ g[{}] = 0 /\ \A s \in SUBSET D : \A y \in s : g[s] = f[y] + g[s \ {y}]
      /\ k[{}] = 0 /\ \A s \in SUBSET D : \A y \in s : k[s] = h[y] + k[s \ {y}]
  BY SumTakesAnyMember
<1>3. 0 \in S
  <2>1. \A s \in SUBSET D : Cardinality(s) = 0 => s = {}
    BY <1>1, FS_EmptySet
  <2>2. QED
    BY <1>2, <2>1
<1>4. ASSUME NEW n \in Nat, n \in S PROVE n + 1 \in S
  <2>1. SUFFICES ASSUME NEW s \in SUBSET (D \ {w}), Cardinality(s) = n + 1 PROVE g[s] = k[s]
    OBVIOUS
  <2>2. PICK y \in s : TRUE
    <3>1. IsFiniteSet(s) /\ Cardinality(s) # 0
      BY <1>1, <2>1
    <3>2. QED
      BY <3>1, FS_EmptySet
  <2>3. g[s \ {y}] = k[s \ {y}]
    <3>1. s \ {y} \in SUBSET (D \ {w}) /\ Cardinality(s \ {y}) = n
      BY <1>1, <2>1, <2>2, FS_RemoveElement
    <3>2. QED
      BY <1>4, <3>1
  <2>4. s \in SUBSET D /\ f[y] = h[y]
    BY <2>2
  <2>5. g[s] = f[y] + g[s \ {y}] /\ k[s] = h[y] + k[s \ {y}]
    BY <1>2, <2>2, <2>4
  <2>6. QED
    BY <2>3, <2>4, <2>5
<1>5. \A n \in Nat : n \in S
  <2> HIDE DEF S
  <2>1. QED
    BY <1>3, <1>4, NatInductionOnSet
<1>6. QED
  BY <1>1, <1>5

LEMMA SumApart ==
  ASSUME NEW D, IsFiniteSet(D), NEW f \in [D -> Int], NEW w \in D
  PROVE  /\ SumOf(f) \in Int /\ Sums(f, D)[D \ {w}] \in Int
         /\ SumOf(f) = f[w] + Sums(f, D)[D \ {w}]
<1>1. D \in SUBSET D /\ D \ {w} \in SUBSET D
  OBVIOUS
<1>2. \A s \in SUBSET D : /\ Sums(f, D)[s] \in Int
                         /\ \A y \in s : Sums(f, D)[s] = f[y] + Sums(f, D)[s \ {y}]
  BY SumsAreSums, SumTakesAnyMember
<1>3. QED
  BY <1>1, <1>2, SumsAreSums

\* A change of one member changes the sum by just as much.
LEMMA SumOfOneChange ==
  ASSUME NEW D, IsFiniteSet(D), NEW f \in [D -> Int], NEW h \in [D -> Int], NEW w \in D,
         \A x \in D \ {w} : h[x] = f[x]
  PROVE  SumOf(f) \in Int /\ SumOf(h) = SumOf(f) - f[w] + h[w]
<1>1. Sums(f, D)[D \ {w}] = Sums(h, D)[D \ {w}]
  BY SumsAreSums, SumOfOthersStays
<1>2. /\ SumOf(f) \in Int /\ Sums(f, D)[D \ {w}] \in Int
      /\ SumOf(f) = f[w] + Sums(f, D)[D \ {w}]
  BY SumApart
<1>3. SumOf(h) = h[w] + Sums(h, D)[D \ {w}]
  BY SumApart
<1>4. f[w] \in Int /\ h[w] \in Int
  OBVIOUS
<1>5. QED
  BY <1>1, <1>2, <1>3, <1>4

LEMMA SumOfNothings ==
  ASSUME NEW D, IsFiniteSet(D), NEW f \in [D -> Int], \A x \in D : f[x] = 0
  PROVE  SumOf(f) = 0
<1> DEFINE g == Sums(f, D)
           S == {n \in Nat : \A s \in SUBSET D : Cardinality(s) = n => g[s] = 0}
<1>1. SumOver(f, D, g) /\ SumOf(f) = g[D]
  BY SumsAreSums
<1> HIDE DEF g
<1>2. \A s \in SUBSET D : IsFiniteSet(s) /\ Cardinality(s) \in Nat
  BY FS_Subset, FS_CardinalityType
<1>3. 0 \in S
  <2>1. \A s \in SUBSET D : Cardinality(s) = 0 => s = {}
    BY <1>2, FS_EmptySet
  <2>2. g[{}] = 0
    BY <1>1, SumTakesAnyMember
  <2>3. QED
    BY <2>1, <2>2
<1>4. ASSUME NEW n \in Nat, n \in S PROVE n + 1 \in S
  <2>1. SUFFICES ASSUME NEW s \in SUBSET D, Cardinality(s) = n + 1 PROVE g[s] = 0
    OBVIOUS
  <2>2. PICK y \in s : TRUE
    <3>1. IsFiniteSet(s) /\ Cardinality(s) # 0
      BY <1>2, <2>1
    <3>2. QED
      BY <3>1, FS_EmptySet
  <2>3. g[s \ {y}] = 0
    <3>1. s \ {y} \in SUBSET D /\ Cardinality(s \ {y}) = n
      BY <1>2, <2>1, <2>2, FS_RemoveElement
    <3>2. QED
      BY <1>4, <3>1
  <2>4. g[s] = f[y] + g[s \ {y}]
    BY <1>1, <2>2, SumTakesAnyMember
  <2>5. f[y] = 0
    BY <2>2
  <2>6. QED
    BY <2>3, <2>4, <2>5
<1>5. \A n \in Nat : n \in S
  <2> HIDE DEF S
  <2>1. QED
    BY <1>3, <1>4, NatInductionOnSet
<1>6. QED
  BY <1>1, <1>2, <1>5

-----------------------------------------------------------------------------
(* CredentialManager. *)

\* Every holding is frozen, credential or not: from the opt-in, because the
\* asset is frozen by default, and after every issue.
HoldingsFrozen == \A w \in Wallets : holding[w] # NotIn => frozen[w]

\* The units of every wallet, of which Outstanding is the sum.
Held(units) == [w \in Wallets |-> IF units[w] = NotIn THEN 0 ELSE units[w]]

\* CountersExplainCredentials, with the sum as a function of the holdings.
CountersHold == total_issued - total_revoked = SumOf(Held(holding)) + closed_out

\* What the invariant adds to the types: the counters can only be related to
\* the holdings, and a holding can only be thawed, call by call.
IInv == TypeOK /\ HoldingsFrozen /\ CountersHold

LEMMA OutstandingIsSum == Outstanding = SumOf(Held(holding))
BY DEF Outstanding, SumOf, Held, Units

LEMMA HeldIsTyped ==
  ASSUME NEW units \in [Wallets -> Nat \cup {NotIn}]
  PROVE  Held(units) \in [Wallets -> Int]
BY DEF Held

\* Changing one wallet's holding changes what is out by just as much.
LEMMA OneHoldingChanges ==
  ASSUME NEW units \in [Wallets -> Nat \cup {NotIn}], NEW w \in Wallets,
         NEW v \in Nat \cup {NotIn}
  PROVE  /\ SumOf(Held(units)) \in Int
         /\ SumOf(Held([units EXCEPT ![w] = v])) =
              SumOf(Held(units)) - Held(units)[w] + (IF v = NotIn THEN 0 ELSE v)
<1> DEFINE after == [units EXCEPT ![w] = v]
<1>1. after \in [Wallets -> Nat \cup {NotIn}]
  OBVIOUS
<1>2. /\ Held(after)[w] = IF v = NotIn THEN 0 ELSE v
      /\ \A x \in Wallets \ {w} : Held(after)[x] = Held(units)[x]
  BY DEF Held
<1> HIDE DEF after
<1>3. Held(units) \in [Wallets -> Int] /\ Held(after) \in [Wallets -> Int]
  BY <1>1, HeldIsTyped
<1>4. SumOf(Held(units)) \in Int /\ SumOf(Held(after)) = SumOf(Held(units)) - Held(units)[w] + Held(after)[w]
  BY <1>2, <1>3, WalletsFinite, SumOfOneChange
<1>5. QED
  BY <1>2, <1>4 DEF after

LEMMA IssueKeepsIInv ==
  ASSUME IInv, NEW sender \in Accounts, NEW w \in Wallets, issue_credential(sender, w)
  PROVE  IInv'
<1>1. holding[w] \in Nat /\ holding[w] # NotIn /\ holding[w] + 1 # NotIn
  BY NotInIsNoAmount DEF IInv, TypeOK, issue_credential, OptedIn
<1>2. TypeOK'
  BY <1>1 DEF IInv, TypeOK, issue_credential, FrozenAfterIssue
<1>3. HoldingsFrozen'
  BY DEF IInv, TypeOK, HoldingsFrozen, issue_credential, FrozenAfterIssue
<1>4. SumOf(Held(holding')) = SumOf(Held(holding)) + 1 /\ SumOf(Held(holding)) \in Int
  <2>1. holding \in [Wallets -> Nat \cup {NotIn}] /\ holding' = [holding EXCEPT ![w] = holding[w] + 1]
    BY DEF IInv, TypeOK, issue_credential
  <2>2. Held(holding)[w] = holding[w] /\ holding[w] + 1 \in Nat \cup {NotIn}
    BY <1>1 DEF Held
  <2>3. /\ SumOf(Held(holding)) \in Int
        /\ SumOf(Held(holding')) = SumOf(Held(holding)) - Held(holding)[w] + (holding[w] + 1)
    BY <1>1, <2>1, <2>2, OneHoldingChanges
  <2>4. QED
    BY <1>1, <2>2, <2>3
<1>5. CountersHold'
  <2>1. /\ total_issued' = total_issued + 1 /\ total_revoked' = total_revoked /\ closed_out' = closed_out
        /\ total_issued - total_revoked = SumOf(Held(holding)) + closed_out
        /\ total_issued \in Int /\ total_revoked \in Int /\ closed_out \in Int
    BY DEF IInv, TypeOK, CountersHold, issue_credential
  <2>2. total_issued' - total_revoked' = SumOf(Held(holding')) + closed_out'
    BY <1>4, <2>1
  <2>3. QED
    BY <2>2 DEF CountersHold
<1>6. QED
  BY <1>2, <1>3, <1>5 DEF IInv

LEMMA RevokeKeepsIInv ==
  ASSUME IInv, NEW sender \in Accounts, NEW w \in Wallets, revoke_credential(sender, w)
  PROVE  IInv'
<1>1. holding[w] \in Nat /\ holding[w] # NotIn /\ holding[w] - 1 \in Nat /\ holding[w] - 1 # NotIn
  BY NotInIsNoAmount DEF IInv, TypeOK, revoke_credential, OptedIn
<1>2. TypeOK'
  BY <1>1 DEF IInv, TypeOK, revoke_credential, ClawedBack, Revoked
<1>3. HoldingsFrozen'
  BY DEF IInv, TypeOK, HoldingsFrozen, revoke_credential, OptedIn
<1>4. SumOf(Held(holding')) = SumOf(Held(holding)) - 1 /\ SumOf(Held(holding)) \in Int
  <2>1. holding \in [Wallets -> Nat \cup {NotIn}] /\ holding' = [holding EXCEPT ![w] = holding[w] - 1]
    BY DEF IInv, TypeOK, revoke_credential
  <2>2. Held(holding)[w] = holding[w] /\ holding[w] - 1 \in Nat \cup {NotIn}
    BY <1>1 DEF Held
  <2>3. /\ SumOf(Held(holding)) \in Int
        /\ SumOf(Held(holding')) = SumOf(Held(holding)) - Held(holding)[w] + (holding[w] - 1)
    BY <1>1, <2>1, <2>2, OneHoldingChanges
  <2>4. QED
    BY <1>1, <2>2, <2>3
<1>5. CountersHold'
  <2>1. /\ total_issued' = total_issued /\ total_revoked' = total_revoked + 1 /\ closed_out' = closed_out
        /\ total_issued - total_revoked = SumOf(Held(holding)) + closed_out
        /\ total_issued \in Int /\ total_revoked \in Int /\ closed_out \in Int
    BY DEF IInv, TypeOK, CountersHold, revoke_credential, Revoked
  <2>2. total_issued' - total_revoked' = SumOf(Held(holding')) + closed_out'
    BY <1>4, <2>1
  <2>3. QED
    BY <2>2 DEF CountersHold
<1>6. QED
  BY <1>2, <1>3, <1>5 DEF IInv

\* The ledger's own steps: an opt-in adds an empty holding, and closing one
\* out moves its units from the sum to closed_out.
LEMMA LedgerKeepsIInv ==
  ASSUME IInv, NEW w \in Wallets, opt_in(w) \/ close_out(w)
  PROVE  IInv'
<1>1. CASE opt_in(w)
  <2>1. TypeOK' /\ HoldingsFrozen'
    BY <1>1 DEF IInv, TypeOK, HoldingsFrozen, opt_in
  <2>2. /\ holding \in [Wallets -> Nat \cup {NotIn}] /\ holding' = [holding EXCEPT ![w] = 0]
        /\ Held(holding)[w] = 0 /\ 0 \in Nat \cup {NotIn} /\ 0 # NotIn
    BY <1>1, NotInIsNoAmount DEF IInv, TypeOK, opt_in, Held
  <2>3. SumOf(Held(holding)) \in Int /\ SumOf(Held(holding')) = SumOf(Held(holding)) - 0 + 0
    BY <2>2, OneHoldingChanges
  <2>4. CountersHold'
    <3>1. /\ total_issued' = total_issued /\ total_revoked' = total_revoked /\ closed_out' = closed_out
          /\ total_issued - total_revoked = SumOf(Held(holding)) + closed_out
      BY <1>1 DEF IInv, CountersHold, opt_in
    <3>2. total_issued' - total_revoked' = SumOf(Held(holding')) + closed_out'
      BY <2>3, <3>1
    <3>3. QED
      BY <3>2 DEF CountersHold
  <2>5. QED
    BY <2>1, <2>4 DEF IInv
<1>2. CASE close_out(w)
  <2>1. holding[w] \in Nat /\ holding[w] # NotIn
    BY <1>2 DEF IInv, TypeOK, close_out, OptedIn
  <2>2. TypeOK'
    BY <1>2, <2>1 DEF IInv, TypeOK, close_out
  <2>3. HoldingsFrozen'
    BY <1>2 DEF IInv, TypeOK, HoldingsFrozen, close_out
  <2>4. /\ holding \in [Wallets -> Nat \cup {NotIn}] /\ holding' = [holding EXCEPT ![w] = NotIn]
        /\ Held(holding)[w] = holding[w]
    BY <1>2, <2>1 DEF IInv, TypeOK, close_out, Held
  <2>5. SumOf(Held(holding)) \in Int /\ SumOf(Held(holding')) = SumOf(Held(holding)) - holding[w] + 0
    BY <2>4, OneHoldingChanges
  <2>6. CountersHold'
    <3>1. /\ total_issued' = total_issued /\ total_revoked' = total_revoked
          /\ closed_out' = closed_out + holding[w] /\ closed_out \in Int
          /\ total_issued - total_revoked = SumOf(Held(holding)) + closed_out
      BY <1>2 DEF IInv, TypeOK, CountersHold, close_out
    <3>2. total_issued' - total_revoked' = SumOf(Held(holding')) + closed_out'
      BY <2>1, <2>5, <3>1
    <3>3. QED
      BY <3>2 DEF CountersHold
  <2>7. QED
    BY <2>2, <2>3, <2>6 DEF IInv
<1>3. QED
  BY <1>1, <1>2

LEMMA NextKeepsIInv == IInv /\ [Next]_vars => IInv'
<1>1. SUFFICES ASSUME IInv, [Next]_vars PROVE IInv'
  OBVIOUS
<1>2. CASE UNCHANGED vars
  BY <1>1, <1>2 DEF vars, IInv, TypeOK, HoldingsFrozen, CountersHold
<1>3. ASSUME NEW sender \in Accounts, initialize_asa(sender)
      PROVE  IInv'
  BY <1>1, <1>3, TotalAssumption DEF IInv, TypeOK, HoldingsFrozen, CountersHold, initialize_asa
<1>4. ASSUME NEW sender \in Accounts, NEW new \in Accounts, update_issuer(sender, new)
      PROVE  IInv'
  BY <1>1, <1>4 DEF IInv, TypeOK, HoldingsFrozen, CountersHold,
     update_issuer
<1>5. ASSUME NEW sender \in Accounts, NEW w \in Wallets,
             issue_credential(sender, w) \/ revoke_credential(sender, w)
      PROVE  IInv'
  BY <1>1, <1>5, IssueKeepsIInv, RevokeKeepsIInv
<1>6. ASSUME NEW w \in Wallets, opt_in(w) \/ close_out(w)
      PROVE  IInv'
  BY <1>1, <1>6, LedgerKeepsIInv
<1>7. QED
  BY <1>1, <1>2, <1>3, <1>4, <1>5, <1>6 DEF Next

LEMMA IInvAlways == Spec => []IInv
<1>1. ASSUME Init PROVE IInv
  <2>1. TypeOK
    BY <1>1 DEF Init, TypeOK
  <2>2. \A w \in Wallets : holding[w] = NotIn
    BY <1>1 DEF Init
  <2>3. Held(holding) \in [Wallets -> Int] /\ \A w \in Wallets : Held(holding)[w] = 0
    BY <2>2 DEF Held
  <2>4. SumOf(Held(holding)) = 0
    BY <2>3, WalletsFinite, SumOfNothings
  <2>5. CountersHold
    BY <1>1, <2>4 DEF Init, CountersHold
  <2>6. QED
    BY <2>1, <2>2, <2>5 DEF IInv, HoldingsFrozen
<1>2. QED
  BY <1>1, NextKeepsIInv, PTL DEF Spec

\* Type correctness of the contract, its asset and the wallets' holdings.
THEOREM CredentialTypes == Spec => []TypeOK
<1>1. IInv => TypeOK
  BY DEF IInv
<1>2. QED
  BY <1>1, IInvAlways, PTL

\* A credential cannot be passed on between wallets: the three inner
\* transactions of issue_credential() leave the holding as frozen as before.
THEOREM CredentialsStayPut == Spec => []NonTransferable
<1>1. IInv => NonTransferable
  BY DEF IInv, HoldingsFrozen, NonTransferable, Payable, OptedIn
<1>2. QED
  BY <1>1, IInvAlways, PTL

\* What issue_credential() and revoke_credential() count is what the wallets
\* hold together, but for what they gave back by closing their holdings.
THEOREM CountersExplain == Spec => []CountersExplainCredentials
<1>1. IInv => CountersExplainCredentials
  BY OutstandingIsSum DEF IInv, CountersHold, CountersExplainCredentials
<1>2. QED
  BY <1>1, IInvAlways, PTL

-----------------------------------------------------------------------------
(* The four contracts side by side. *)

\* KYCBoxStorage cannot transfer its role, so unlike the others it sees a
\* change of the issuer it has no step for.
AllVars == <<vars, called, registryVars, blobVars, rootVars>>

\* Every step of the joint model is a step or a stutter of CredentialManager
\* and of NullifierRegistry: what they share is only the issuer, and whichever
\* contract transfers it, each takes that for a transfer of its own.
LEMMA StepsOfEach ==
  [MCNext]_AllVars => [Next]_vars /\ [NR!Next]_(NR!vars)
<1>1. SUFFICES ASSUME [MCNext]_AllVars
               PROVE  [Next]_vars /\ [NR!Next]_(NR!vars)
  OBVIOUS
<1>2. CASE UNCHANGED AllVars
  BY <1>2 DEF AllVars, vars, registryVars, blobVars, rootVars, NR!vars
<1> DEFINE Transfer == \E sender \in Accounts : sender = issuer /\ issuer' \in Accounts
<1>3. CASE CallCredentialManager
  <2>1. UNCHANGED issuer \/ Transfer
    BY <1>3 DEF CallCredentialManager, Next, initialize_asa, issue_credential, revoke_credential,
       update_issuer, opt_in, close_out
  <2>2. UNCHANGED registryVars /\ Next
    BY <1>3 DEF CallCredentialManager
  <2>3. QED
    BY <2>1, <2>2 DEF registryVars, NR!Next, NR!vars, NR!update_issuer
<1>4. CASE CallNullifierRegistry
  <2>1. UNCHANGED issuer \/ Transfer
    BY <1>4 DEF CallNullifierRegistry, NR!Next, NR!register, NR!invalidate, NR!update_issuer
  <2>2. UNCHANGED asaVars /\ NR!Next
    BY <1>4 DEF CallNullifierRegistry
  <2>3. QED
    BY <2>1, <2>2 DEF asaVars, Next, vars, update_issuer
<1>5. CASE CallKYCBoxStorage
  <2>1. UNCHANGED issuer
    BY <1>5 DEF CallKYCBoxStorage, BS!Next, BS!store_blob, BS!delete_blob
  <2>2. QED
    BY <1>5, <2>1 DEF CallKYCBoxStorage, asaVars, registryVars, vars, NR!vars
<1>6. CASE CallSMTRegistry
  <2>1. UNCHANGED issuer \/ Transfer
    BY <1>6 DEF CallSMTRegistry, SR!Next, SR!update_root, SR!update_issuer, SR!NextRound
  <2>2. UNCHANGED <<asaVars, registryVars>>
    BY <1>6 DEF CallSMTRegistry
  <2>3. QED
    BY <2>1, <2>2 DEF asaVars, registryVars, Next, vars, update_issuer, NR!Next, NR!vars, NR!update_issuer
<1>7. QED
  BY <1>1, <1>2, <1>3, <1>4, <1>5, <1>6 DEF MCNext

\* So a joint behaviour is a behaviour of both.
LEMMA BehavesAsEach == MCSpec => Spec /\ NR!Spec
<1>1. MCInit => Init /\ NR!Init
  BY DEF MCInit
<1>2. QED
  BY <1>1, StepsOfEach, PTL DEF MCSpec, Spec, NR!Spec, AllVars

\* KYCBoxStorage's invariant holds in the joint model too: another contract's
\* transfer of the shared issuer leaves its boxes and its counter alone.
LEMMA BlobsInJointModel == MCSpec => []BlobInv
<1>1. MCInit => BlobInv
  BY InitBlobsCounted DEF MCInit
<1>2. MCSpec => [](issuer \in Accounts)
  BY BehavesAsEach, CredentialTypes, PTL DEF TypeOK
<1>3. BlobInv /\ (issuer \in Accounts)' /\ [MCNext]_AllVars => BlobInv'
  <2>1. SUFFICES ASSUME BlobInv, (issuer \in Accounts)', [MCNext]_AllVars PROVE BlobInv'
    OBVIOUS
  <2>2. CASE CallKYCBoxStorage
    BY <2>1, <2>2, NextKeepsBlobs DEF CallKYCBoxStorage
  <2>3. CASE UNCHANGED blobVars
    BY <2>1, <2>3 DEF blobVars, BlobInv, BS!TypeOK, BS!TotalMatchesBlobs, BS!Stored, BS!has_blob
  <2>4. QED
    BY <2>1, <2>2, <2>3 DEF MCNext, AllVars, CallCredentialManager, CallNullifierRegistry, CallSMTRegistry
<1>4. QED
  BY <1>1, <1>2, <1>3, PTL DEF MCSpec, AllVars

\* Both counters of the joint model are the numbers of their boxes.
THEOREM CountersMatchBoxes == MCSpec => []TotalMatchesBoxes
<1>1. BlobInv => BS!TotalMatchesBlobs
  BY DEF BlobInv
<1>2. QED
  BY <1>1, BehavesAsEach, CounterCorrect, BlobsInJointModel, PTL DEF TotalMatchesBoxes

\* What CredentialManager promises alone it promises beside the others.
THEOREM JointCredentials == MCSpec => [](CountersExplainCredentials /\ NonTransferable)
BY BehavesAsEach, CountersExplain, CredentialsStayPut, PTL

=============================================================================
