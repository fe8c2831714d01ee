----------------------------- MODULE MCProjects -----------------------------
(***************************************************************************)
(* Instance of Projects for TLC: the user works on the project, or approves; *)
(* one time entry, two statuses.                                           *)
(***************************************************************************)
EXTENDS Projects

CONSTANT entry1

MCEntries == {entry1}
MCRoles == {"worker", "approver"}
MCStatuses == <<"Draft", "Planned">>
=============================================================================
