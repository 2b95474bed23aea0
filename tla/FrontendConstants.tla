--------------------------- MODULE FrontendConstants ---------------------------
(***************************************************************************)
(* What the models of the JavaScript code share.                           *)
(***************************************************************************)
CONSTANT None  \* JavaScript's null

=============================================================================
