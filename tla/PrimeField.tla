------------------------------ MODULE PrimeField ------------------------------
(***************************************************************************)
(* The integers modulo a prime, as the sharing of the issuer key (257) and *)
(* the verifier contract (R_MOD) calculate with them.                      *)
(***************************************************************************)
EXTENDS Integers, Functions

CONSTANT PRIME

ASSUME PrimeAssumption ==
  PRIME \in Nat /\ PRIME > 1 /\ \A d \in 2 .. PRIME - 1 : PRIME % d # 0

Field == 0 .. PRIME - 1

a ** b == (a * b) % PRIME

\* Over all values of a function on a finite set.
Product(f) == FoldFunction(LAMBDA a, b : a * b % PRIME, 1, f)
Total(f) == FoldFunction(LAMBDA a, b : (a + b) % PRIME, 0, f)

=============================================================================
