----------------------------- MODULE MCFraming -----------------------------
(***************************************************************************)
(* Framing on a small instance: digits to base 2, so that four of them     *)
(* reach 15, and a buffer of 9 bytes.                                      *)
(***************************************************************************)
EXTENDS Framing

\* Empty packets, both sides of every change in the number of digits, the largest
\* packet that fits into the buffer, and larger ones.
EdgeSizes == {0, 1, 2, 3, 5, 6, 8}
=============================================================================
