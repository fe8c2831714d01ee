----------------------------- MODULE MCHubComms -----------------------------
(* Two threads and two messages. *)
EXTENDS HubComms

MCThreads == {"general", "maintenance"}
MCTexts == {"m1", "m2"}
=============================================================================
