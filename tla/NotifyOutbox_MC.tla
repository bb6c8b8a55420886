--------------------------- MODULE NotifyOutbox_MC ---------------------------
(* Instances of NotifyOutbox for TLC. *)
EXTENDS NotifyOutbox

CONSTANTS c1, c2, m1, n1

\* Two rules of one channel overlap; the other channel has none.
BothOnFirst == [r \in Rules |-> c1]
=============================================================================
