----------------------------- MODULE MCSigStore -----------------------------
(* Small instances of SigStore for TLC. *)
EXTENDS SigStore

CONSTANTS b1, b2, b3, e1, e2

(* What is authored on b1 leads to the head of b2 too; b3 is on its own. *)
TwoLineages == {<<b1, b1>>, <<b1, b2>>, <<b2, b2>>, <<b3, b3>>}
OnTheirOwn == {<<b1, b1>>, <<b3, b3>>}

=============================================================================
