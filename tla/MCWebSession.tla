---------------------------- MODULE MCWebSession ----------------------------
(* Two accounts, the first of which has companies. *)
EXTENDS WebSession

MCUsers == {"u1", "u2"}
MCBound == {"u1"}
=============================================================================
