---------------------------- MODULE MCOnboarding ----------------------------
(* Two e-mails and two names, of which one is reserved. *)
EXTENDS Onboarding

MCEmails == {"ann", "bob"}
MCSlugs == {"acme", "admin"}
MCReserved == {"admin"}
=============================================================================
