------------------------------ MODULE Polynomials ------------------------------
(***************************************************************************)
(* Polynomials over a prime field: sequences of coefficients, lowest       *)
(* first.  "\o <<>>" changes nothing; it makes TLC store a value.          *)
(***************************************************************************)
EXTENDS PrimeField, Sequences

At(p, k) == IF k \in 1 .. Len(p) THEN p[k] ELSE 0
Longer(m, n) == IF m < n THEN n ELSE m

\* Horner's rule: what it has come to when it is done with coefficient k.
Tails(p, x) ==
  LET e[k \in 1 .. Len(p) + 1] == IF k > Len(p) THEN 0 ELSE (p[k] + x * e[k + 1]) % PRIME
  IN e

Eval(p, x) == Tails(p, x)[1]

Plus(p, r) == [k \in 1 .. Longer(Len(p), Len(r)) |-> (At(p, k) + At(r, k)) % PRIME] \o <<>>
Scaled(c, p) == [k \in 1 .. Len(p) |-> (c * p[k]) % PRIME] \o <<>>
Times(p, r) ==
  LET t[k \in 1 .. Len(p) + 1] ==
        IF k > Len(p) THEN <<>> ELSE Plus(Scaled(p[k], r), <<0>> \o t[k + 1])
  IN t[1]

Slice(p, from, to) == [k \in 1 .. to - from |-> At(p, from + k)] \o <<>>

\* (p(x) - p(z)) over x - z
Opened(p, z) == [k \in 1 .. Len(p) - 1 |-> Tails(p, z)[k + 1]] \o <<>>

=============================================================================
