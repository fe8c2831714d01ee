---------------------------- MODULE MCBridgeAuth ----------------------------
(* Two tokens the Bridge accepts and one it does not, and two submissions at once. *)
EXTENDS BridgeAuth

MCTokens == {"t1", "t2", "bad"}
MCAccepted == {"t1", "t2"}
MCEnvTokens == {"bad"}
MCSubmits == {"c1", "c2"}
=============================================================================
