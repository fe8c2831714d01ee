--------------------------- MODULE MCRecoveryHost ---------------------------
(***************************************************************************)
(* Instances of RecoveryHost for TLC: a quorum of two, of two honest       *)
(* trustees and a rogue one or of one of each; the default team and one    *)
(* more.                                                                   *)
(***************************************************************************)
EXTENDS RecoveryHost, TLC

CONSTANTS honest1, honest2, rogue, home, other

MCTrustees == {honest1, honest2, rogue}
MCPair == {honest1, rogue}
MCRogue == {rogue}
MCTeams == {home, other}
=============================================================================
