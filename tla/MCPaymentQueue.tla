--------------------------- MODULE MCPaymentQueue ---------------------------
(***************************************************************************)
(* Instance of PaymentQueue for TLC: two tabs.                             *)
(***************************************************************************)
EXTENDS PaymentQueue, TLC

CONSTANTS tab1, tab2

MCTabs == {tab1, tab2}

\* Interchangeable tabs; used by the safety run only.
Symmetry == Permutations(MCTabs)
=============================================================================
