--------------------------- MODULE MCPlonkVerifier ---------------------------
(* PlonkVerifier over the field of 13 elements.  The circuit: of public a     *)
(* and b, some w is known with b = a w + a.  Rows 0 and 1 read a and b, row 2 *)
(* multiplies, row 3 adds.                                                    *)
EXTENDS PlonkVerifier, TLC

Gate(l, r, o, m) == [ql |-> l, qr |-> r, qo |-> o, qm |-> m, qk |-> 0]
MCGates == 0 :> Gate(12, 0, 0, 0) @@ 1 :> Gate(12, 0, 0, 0)
           @@ 2 :> Gate(0, 0, 12, 1) @@ 3 :> Gate(1, 1, 12, 0)

\* a is also row 2's left and row 3's right wire, the product row 3's left,
\* the sum is b.
Next_equal == <<0, 0>> :> <<0, 2>> @@ <<0, 2>> :> <<1, 3>> @@ <<1, 3>> :> <<0, 0>>
              @@ <<2, 2>> :> <<0, 3>> @@ <<0, 3>> :> <<2, 2>>
              @@ <<2, 3>> :> <<0, 1>> @@ <<0, 1>> :> <<2, 3>>
MCSigma == [p \in (0 .. 2) \X (0 .. 3) |-> IF p \in DOMAIN Next_equal THEN Next_equal[p] ELSE p]

MCBlinding == 0 :> <<1, 2>> @@ 1 :> <<2, 2>> @@ 2 :> <<3, 2>> @@ 3 :> <<3, 1, 4>>

Instance(a, b, l, r, o) ==
  [public |-> <<a, b>>,
   wires |-> [p \in (0 .. 2) \X (0 .. 3) |->
                (CASE p[1] = 0 -> l [] p[1] = 1 -> r [] OTHER -> o)[p[2] + 1]]]
MCInstances ==
  {Instance(3, 9, <<3, 9, 3, 6>>, <<0, 0, 2, 3>>, <<0, 0, 6, 9>>),
   Instance(1, 0, <<1, 0, 1, 12>>, <<0, 0, 12, 1>>, <<0, 0, 12, 0>>),
   \* the sum is wrong; the product is not what is added; b is not the sum
   Instance(3, 8, <<3, 8, 3, 6>>, <<0, 0, 2, 3>>, <<0, 0, 6, 8>>),
   Instance(3, 8, <<3, 8, 3, 5>>, <<0, 0, 2, 3>>, <<0, 0, 6, 8>>),
   Instance(3, 8, <<3, 9, 3, 6>>, <<0, 0, 2, 3>>, <<0, 0, 6, 9>>)}
=============================================================================
