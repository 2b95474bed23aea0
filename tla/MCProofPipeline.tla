--------------------------- MODULE MCProofPipeline ---------------------------
(* Instances of the proof pipeline for TLC. *)
EXTENDS ProofPipeline

\* A small field with 3 rounds; 5 does not divide P - 1, so fifth powers permute it.
MCConstants == <<17, 401, 902>>

\* Birth years around every boundary of the two circuits' age comparisons.
MCYears == {1725, 1752, 1753, 1754, 1800, 1825, 1826, 1827, 1900, 2000, 2007, 2008, 2009, 2026, 2030}

=============================================================================
