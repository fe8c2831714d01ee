---------------------------- MODULE RunOnDemand ----------------------------
(***************************************************************************)
(* What a report page promises its user, whatever it is built from         *)
(* ("pattern-016", run on demand): it answers the last question it was     *)
(* asked, with the answer to that very question, or it answers none.       *)
(***************************************************************************)
CONSTANTS
    Questions, \* the parameters a report can be run with
    Nothing    \* no question, which is none of them

VARIABLES
    phase, \* "idle", "loading", "shown" or "failed"
    asked  \* the question being asked, answered, or not answered; or Nothing

Init == phase = "idle" /\ asked = Nothing

Ask ==
    /\ phase # "loading"
    /\ phase' = "loading"
    /\ asked' \in Questions

Answer ==
    /\ phase = "loading"
    /\ phase' \in {"shown", "failed"}
    /\ UNCHANGED asked

\* The page drops question and answer: a filter has changed, or the user has left.
Forget ==
    /\ phase # "idle"
    /\ phase' = "idle" /\ asked' = Nothing

Next == Ask \/ Answer \/ Forget

Spec == Init /\ [][Next]_<<phase, asked>> /\ WF_<<phase, asked>>(Answer)
=============================================================================
