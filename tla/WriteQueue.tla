----------------------------- MODULE WriteQueue -----------------------------
(***************************************************************************)
(* The desktop shell's offline write queue: rows inserted by the           *)
(* enqueue_write command (commands/write_queue.rs), drained once per start *)
(* of the process by drain_write_queue (sync/push.rs), which lib.rs spawns *)
(* while the web view is still loading the Bridge token and handing it to  *)
(* set_bridge_token.                                                       *)
(*                                                                         *)
(* The rows survive the process; the Bridge (external) applies every write *)
(* it accepts, again if it is sent again.  created_at has a resolution of  *)
(* one second, so several rows can have the same.                          *)
(***************************************************************************)
EXTENDS Naturals, Sequences

CONSTANTS
    Notes,        \* the writes that get queued
    Good,         \* those the Bridge accepts: known doctype and op_type, a valid
                  \* doc_name, a payload that parses
    BootTokens,   \* what BRIDGE_TOKEN may be at start: "none" or "valid"
    BootNetworks, \* the state of the network at first: "offline" or "online"
    MaxSecond,    \* bound on the clock
    MaxFaults,    \* bound on lost responses, failed statements, disconnections
    MaxCrashes    \* bound on the times the process ends

ASSUME NotesAssumption == Good \subseteq Notes
ASSUME BootAssumption ==
    BootTokens \subseteq {"none", "valid"} /\ BootNetworks \subseteq {"offline", "online"}
ASSUME BoundsAssumption == MaxSecond \in Nat /\ MaxFaults \in Nat /\ MaxCrashes \in Nat

Idle == "idle"

ASSUME IdleAssumption == Idle \notin Notes

VARIABLES
    \* the database
    row,      \* row[e]: "absent", "pending", "synced" (synced_at) or "failed" (error)
    created,  \* created[e]: created_at
    \* the process
    drain,    \* "off", "spawned", "next", "send", "mark", "ended", or "unread":
              \* ended because the rows could not be fetched
    batch,    \* the rows fetched and not yet taken
    current,  \* the row being sent, or Idle
    verdict,  \* how sending it went: "ok" or "error"
    token,    \* the shared token: "none" or "valid"
    \* the world
    network,  \* "online" or "offline"
    second,
    applied,  \* applied[e]: how often the Bridge has applied it
    order,    \* the rows in the order of their first application
    \* bounds and history
    faults, crashes,
    cut       \* cut[e]: how often a drain stopped between applying and marking e

database == <<row, created>>
process == <<drain, batch, current, verdict>>
bridge == <<applied, order>>
ghost == <<faults, crashes, cut>>
vars == <<database, process, token, network, second, bridge, ghost>>

TypeOK ==
    /\ row \in [Notes -> {"absent", "pending", "synced", "failed"}]
    /\ created \in [Notes -> 0 .. MaxSecond]
    /\ drain \in {"off", "spawned", "next", "send", "mark", "ended", "unread"}
    /\ batch \subseteq Notes
    /\ \A e \in batch : row[e] = "pending"
    /\ current \in Notes \cup {Idle}
    /\ drain \in {"send", "mark"} => current \in Notes /\ row[current] = "pending"
    /\ current \notin batch
    /\ verdict \in {"ok", "error"}
    /\ token \in {"none", "valid"}
    /\ network \in {"online", "offline"}
    /\ second \in 0 .. MaxSecond
    /\ applied \in [Notes -> 0 .. MaxCrashes + MaxFaults + 1]
    /\ order \in Seq(Good)
    /\ faults \in 0 .. MaxFaults /\ crashes \in 0 .. MaxCrashes
    /\ cut \in [Notes -> 0 .. MaxCrashes + MaxFaults]

Init ==
    /\ row = [e \in Notes |-> "absent"]
    /\ created = [e \in Notes |-> 0]
    /\ drain = "off" /\ batch = {} /\ current = Idle /\ verdict = "ok"
    /\ token = "none"
    /\ network \in BootNetworks
    /\ second = 0
    /\ applied = [e \in Notes |-> 0] /\ order = <<>>
    /\ faults = 0 /\ crashes = 0 /\ cut = [e \in Notes |-> 0]

Fault == faults < MaxFaults /\ faults' = faults + 1

-----------------------------------------------------------------------------
\* The clock, the network, and the token as the web view sets and clears it.
Tick ==
    /\ second < MaxSecond
    /\ second' = second + 1
    /\ UNCHANGED <<database, process, token, network, bridge, ghost>>

GoOnline ==
    /\ network = "offline"
    /\ network' = "online"
    /\ UNCHANGED <<database, process, token, second, bridge, ghost>>

GoOffline ==
    /\ network = "online" /\ Fault
    /\ network' = "offline"
    /\ UNCHANGED <<database, process, token, second, bridge, crashes, cut>>

SetToken ==
    /\ drain # "off" /\ token = "none"
    /\ token' = "valid"
    /\ UNCHANGED <<database, process, network, second, bridge, ghost>>

ClearToken ==
    /\ drain # "off" /\ token = "valid" /\ Fault
    /\ token' = "none"
    /\ UNCHANGED <<database, process, network, second, bridge, crashes, cut>>

(***************************************************************************)
(* enqueue_write.  The shell queues while its sync state says "offline",   *)
(* which outlives the outage that caused it; so at any time.               *)
(***************************************************************************)
Enqueue(e) ==
    /\ drain # "off" /\ row[e] = "absent"
    /\ row' = [row EXCEPT ![e] = "pending"]
    /\ created' = [created EXCEPT ![e] = second]
    /\ UNCHANGED <<process, token, network, second, bridge, ghost>>

-----------------------------------------------------------------------------
\* A process starts, reads BRIDGE_TOKEN and spawns the drain.
Start ==
    /\ drain = "off"
    /\ drain' = "spawned"
    /\ token' \in BootTokens
    /\ UNCHANGED <<database, batch, current, verdict, network, second, bridge, ghost>>

\* A wrong query that also fetches the rows with an error.
FetchFailedToo ==
    /\ drain = "spawned"
    /\ batch' = {e \in Notes : row[e] \in {"pending", "failed"}}
    /\ drain' = "next"
    /\ UNCHANGED <<database, current, verdict, token, network, second, bridge, ghost>>

(***************************************************************************)
(* The rows that are neither synced nor in error, oldest first.  If the    *)
(* query fails that is the end of the drain: lib.rs prints the error and   *)
(* nothing drains again before the next start.                             *)
(***************************************************************************)
Fetch ==
    /\ drain = "spawned"
    /\ \/ /\ batch' = {e \in Notes : row[e] = "pending"}
          /\ drain' = "next"
          /\ UNCHANGED ghost
       \/ /\ Fault
          /\ drain' = "unread"
          /\ UNCHANGED <<batch, crashes, cut>>
    /\ UNCHANGED <<database, current, verdict, token, network, second, bridge>>

\* A wrong query without ORDER BY.
TakeAny(e) ==
    /\ drain = "next" /\ e \in batch
    /\ batch' = batch \ {e} /\ current' = e
    /\ drain' = "send"
    /\ UNCHANGED <<database, verdict, token, network, second, bridge, ghost>>

Take(e) ==
    /\ drain = "next" /\ e \in batch /\ \A f \in batch : created[e] <= created[f]
    /\ batch' = batch \ {e} /\ current' = e
    /\ drain' = "send"
    /\ UNCHANGED <<database, verdict, token, network, second, bridge, ghost>>

(***************************************************************************)
(* sync_one_entry: the token is read now.  The row cannot be turned into a *)
(* request, or the Bridge is not reached or refuses the token: an error.   *)
(* Otherwise the Bridge applies it, and its answer may still be lost.      *)
(***************************************************************************)
Send ==
    /\ drain = "send"
    /\ drain' = "mark"
    /\ IF current \in Good /\ network = "online" /\ token = "valid"
       THEN /\ applied' = [applied EXCEPT ![current] = @ + 1]
            /\ order' = IF applied[current] = 0 THEN Append(order, current) ELSE order
            /\ \/ verdict' = "ok" /\ UNCHANGED ghost
               \/ verdict' = "error" /\ Fault /\ UNCHANGED <<crashes, cut>>
       ELSE verdict' = "error" /\ UNCHANGED <<bridge, ghost>>
    /\ UNCHANGED <<database, batch, current, token, network, second>>

CutCount == IF drain = "mark" THEN [cut EXCEPT ![current] = @ + 1] ELSE cut

\* A wrong drain that gives up at the first row it cannot send.
MarkAndStop ==
    /\ drain = "mark"
    /\ row' = [row EXCEPT ![current] = IF verdict = "ok" THEN "synced" ELSE "failed"]
    /\ current' = Idle
    /\ IF verdict = "ok" THEN drain' = "next" /\ UNCHANGED batch
                         ELSE drain' = "ended" /\ batch' = {}
    /\ UNCHANGED <<created, verdict, token, network, second, bridge, ghost>>

\* A wrong drain that takes every request that was sent for a success.
MarkSynced ==
    /\ drain = "mark"
    /\ row' = [row EXCEPT ![current] = "synced"]
    /\ current' = Idle /\ drain' = "next"
    /\ UNCHANGED <<created, batch, verdict, token, network, second, bridge, ghost>>

(***************************************************************************)
(* The outcome is written to the row and the drain goes on with the next;  *)
(* if that update fails the drain ends and the row stays as it was.        *)
(***************************************************************************)
Mark ==
    /\ drain = "mark"
    /\ current' = Idle
    /\ \/ /\ row' = [row EXCEPT ![current] = IF verdict = "ok" THEN "synced" ELSE "failed"]
          /\ drain' = "next"
          /\ UNCHANGED <<batch, ghost>>
       \/ /\ Fault
          /\ cut' = CutCount
          /\ drain' = "ended" /\ batch' = {}
          /\ UNCHANGED <<row, crashes>>
    /\ UNCHANGED <<created, verdict, token, network, second, bridge>>

DrainEnds ==
    /\ drain = "next" /\ batch = {}
    /\ drain' = "ended"
    /\ UNCHANGED <<database, batch, current, verdict, token, network, second, bridge, ghost>>

\* The process ends, wherever the drain is.
Crash ==
    /\ drain # "off" /\ crashes < MaxCrashes
    /\ crashes' = crashes + 1
    /\ cut' = CutCount
    /\ drain' = "off" /\ batch' = {} /\ current' = Idle /\ token' = "none"
    /\ UNCHANGED <<database, verdict, network, second, bridge, faults>>

Drain == Fetch \/ (\E e \in Notes : Take(e)) \/ Send \/ Mark \/ DrainEnds

Next ==
    \/ Tick \/ GoOnline \/ GoOffline \/ SetToken \/ ClearToken
    \/ \E e \in Notes : Enqueue(e)
    \/ Start \/ Drain \/ Crash

Spec == Init /\ [][Next]_vars

(***************************************************************************)
(* The spawned task runs, the web view hands over the token, the network   *)
(* comes back and the application is started again.                        *)
(***************************************************************************)
FairSpec ==
    Spec /\ WF_vars(Drain) /\ WF_vars(SetToken) /\ WF_vars(GoOnline) /\ WF_vars(Start)

-----------------------------------------------------------------------------
\* A row is marked synced only if the Bridge has applied its write.
SyncedWasApplied == \A e \in Notes : row[e] = "synced" => applied[e] >= 1

(***************************************************************************)
(* The Bridge applies a write twice only if a drain was cut short between  *)
(* the request and the update of the row: never because a response was     *)
(* lost, since a row in error is not sent again, and never because the     *)
(* process was restarted at any other point.                               *)
(***************************************************************************)
DuplicateNeedsCut == \A e \in Notes : applied[e] <= 1 + cut[e]

(***************************************************************************)
(* Writes reach the Bridge in the order of their seconds, across drains    *)
(* that are cut short and rows queued while a drain is running.            *)
(***************************************************************************)
AppliedInOrder ==
    \A i, j \in 1 .. Len(order) : i < j => created[order[i]] <= created[order[j]]

(***************************************************************************)
(* A row that was pending when the drain started is settled, one way or    *)
(* the other, unless the process ends, the rows could not be fetched, or a *)
(* row could not be marked: one that cannot be sent does not hold up those *)
(* behind it.                                                              *)
(***************************************************************************)
PendingIsSettled ==
    \A e \in Notes :
        drain = "spawned" /\ row[e] = "pending" ~>
            row[e] # "pending" \/ drain \in {"off", "unread"} \/ (\E f \in Notes : cut[f] > 0)

(***************************************************************************)
(* "Drain any pending write-queue entries from previous offline sessions": *)
(* a write left by a previous session is synced after the next start.      *)
(***************************************************************************)
SyncsAfterRestart ==
    \A e \in Good : row[e] = "pending" /\ drain = "off" ~> row[e] = "synced"

(***************************************************************************)
(* Each row by itself is an outbox, whatever order the drain takes them in *)
(* and wherever it is cut short (Outbox): a row is sent again only if the  *)
(* drain has died before it could mark it.                                 *)
(***************************************************************************)
State == [e \in Notes |-> IF drain = "mark" /\ current = e THEN "tried" ELSE row[e]]
Box == INSTANCE Outbox WITH Items <- Notes, state <- State, forgotten <- cut
IsOutbox == Box!Spec
=============================================================================
