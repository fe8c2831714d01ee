-------------------------- MODULE MCPairingTokens ---------------------------
(***************************************************************************)
(* Instance of PairingTokens for TLC: two tenants, two devices, one token  *)
(* and three calls, the least with which two overlap and a third is late.  *)
(***************************************************************************)
EXTENDS PairingTokens, TLC

CONSTANTS acme, globex, phone, tablet, token, c1, c2, c3

MCTenants == {acme, globex}
MCDevices == {phone, tablet}
MCTokens == {token}
MCCalls == {c1, c2, c3}

Symmetry ==
    Permutations(MCTenants) \cup Permutations(MCDevices) \cup Permutations(MCCalls)
=============================================================================
