------------------------------- MODULE Outbox -------------------------------
(***************************************************************************)
(* What the write queue promises whoever queues a write, whatever becomes  *)
(* of the process meanwhile: the write is tried, and tried again only if   *)
(* it was forgotten how a try went; once it is settled it is left alone,   *)
(* and what is called synced has been applied.                             *)
(***************************************************************************)
EXTENDS Naturals

CONSTANTS Items

VARIABLES
    state,    \* state[i]: "absent", "pending", "tried", "synced" or "failed"
    applied,  \* applied[i]: how often a try of i has been applied
    forgotten \* forgotten[i]: how often it was forgotten how a try of i went

Init ==
    /\ state = [i \in Items |-> "absent"]
    /\ applied = [i \in Items |-> 0] /\ forgotten = [i \in Items |-> 0]

Accept(i) ==
    /\ state[i] = "absent"
    /\ state' = [state EXCEPT ![i] = "pending"]
    /\ UNCHANGED <<applied, forgotten>>

Try(i) ==
    /\ state[i] = "pending"
    /\ state' = [state EXCEPT ![i] = "tried"]
    /\ applied' \in {applied, [applied EXCEPT ![i] = @ + 1]}
    /\ UNCHANGED forgotten

Settle(i) ==
    /\ state[i] = "tried"
    /\ \/ applied[i] > 0 /\ state' = [state EXCEPT ![i] = "synced"]
       \/ state' = [state EXCEPT ![i] = "failed"]
    /\ UNCHANGED <<applied, forgotten>>

Forget(i) ==
    /\ state[i] = "tried"
    /\ state' = [state EXCEPT ![i] = "pending"]
    /\ forgotten' = [forgotten EXCEPT ![i] = @ + 1]
    /\ UNCHANGED applied

Next == \E i \in Items : Accept(i) \/ Try(i) \/ Settle(i) \/ Forget(i)

Spec == Init /\ [][Next]_<<state, applied, forgotten>>
=============================================================================
