---------------------------- MODULE V1Migration ----------------------------
(***************************************************************************)
(* The one-shot v1 -> v2 migration of an Anchor data directory             *)
(* (AnchorV1MigrationService) together with the two start-up steps that    *)
(* surround it: the hosted-service pump that runs it before the bootstrap  *)
(* service and stops at the first failure (MauiHostedServiceLifetime,      *)
(* App.OnWindowCreated), and AnchorBootstrapHostedService, which           *)
(* materializes the default team.                                          *)
(*                                                                         *)
(* The data directory survives a crash; everything else is the program     *)
(* counter of the one thread that runs StartAsync.  A copy of a file or a  *)
(* directory is not atomic: it passes through a state in which the         *)
(* destination exists but is incomplete.                                   *)
(***************************************************************************)
EXTENDS Naturals, FiniteSets

CONSTANTS
    Parts,       \* number of top-level v1 items; item 1 is sunfish.db, the
                 \* others are the events/ and buckets/ directories
    MaxFaults    \* bound on the number of crashes and I/O errors

Item == 1 .. Parts
Database == 1
Phase == {"detect", "backup", "team", "marker", "delete", "bootstrap"}
Content == {"none", "partial", "whole"}

ASSUME PartsAssumption == Parts \in Nat \ {0}
ASSUME FaultsAssumption == MaxFaults \in Nat

VARIABLES
    \* the data directory (persistent)
    orig,      \* orig[i]: the top-level v1 item i
    backup,    \* backup[i]: its copy under legacy-backup/
    team,      \* team[i]: its copy under teams/<legacy team id>/
    teamRoots, \* the directories that exist under teams/
    marker,    \* the .migration-v2 file
    \* the process
    pc,        \* the phase, or "down", "started" (all services), "failed"
    at,        \* the item the phase is working on; Parts + 1 when it is done
    stage,     \* the item's copy, write or delete has begun and not ended
    faults,    \* crashes and I/O errors so far
    legacy     \* history: the items the v1 install left

disk == <<orig, backup, team, teamRoots, marker>>
migrationVars == <<disk, pc, at, stage, faults, legacy>>

MigrationTypeOK ==
    /\ orig \in [Item -> Content]
    /\ backup \in [Item -> Content]
    /\ team \in [Item -> Content]
    /\ teamRoots \subseteq {"legacy", "default"}
    /\ marker \in {"none", "torn", "whole"}
    /\ pc \in Phase \cup {"down", "started", "failed"}
    /\ at \in 1 .. Parts + 1
    /\ stage \in {"idle", "midway"}
    /\ faults \in 0 .. MaxFaults
    /\ legacy \subseteq Item

(***************************************************************************)
(* A v1 install has at least sunfish.db; a fresh install has nothing.      *)
(***************************************************************************)
MigrationInit ==
    /\ legacy \in {S \in SUBSET Item : S = {} \/ Database \in S}
    /\ orig = [i \in Item |-> IF i \in legacy THEN "whole" ELSE "none"]
    /\ backup = [i \in Item |-> "none"]
    /\ team = [i \in Item |-> "none"]
    /\ teamRoots = {}
    /\ marker = "none"
    /\ pc = "down"
    /\ at = 1
    /\ stage = "idle"
    /\ faults = 0

-----------------------------------------------------------------------------
Goto(phase) == pc' = phase /\ at' = 1 /\ stage' = "idle"

NextItem == at' = at + 1 /\ stage' = "idle" /\ pc' = pc

\* A wrong detection that does not look for the marker or for teams/.
LayoutDetectedByDatabase == orig[Database] # "none"

(***************************************************************************)
(* Detection: the marker, then the presence of teams/, then the absence    *)
(* of sunfish.db each end the migration without doing anything.            *)
(***************************************************************************)
LayoutDetected == marker = "none" /\ teamRoots = {} /\ orig[Database] # "none"

\* A wrong detection that creates the team root before the safety copy.
DetectAndCreateTeamRoot ==
    /\ pc = "detect"
    /\ Goto(IF LayoutDetected THEN "backup" ELSE "bootstrap")
    /\ teamRoots' = IF LayoutDetected THEN {"legacy"} ELSE teamRoots
    /\ UNCHANGED <<orig, backup, team, marker, faults, legacy>>

Detect ==
    /\ pc = "detect"
    /\ Goto(IF LayoutDetected THEN "backup" ELSE "bootstrap")
    /\ UNCHANGED <<disk, faults, legacy>>

(***************************************************************************)
(* CopyFileIfPresent and CopyDirectoryIfPresent: nothing when the source   *)
(* is absent; otherwise the destination is overwritten, in two steps.      *)
(***************************************************************************)
CopyItem(dest) ==
    /\ at \in Item
    /\ \/ /\ orig[at] = "none"
          /\ NextItem
          /\ UNCHANGED dest
       \/ /\ orig[at] # "none" /\ stage = "idle"
          /\ dest' = [dest EXCEPT ![at] = "partial"]
          /\ stage' = "midway"
          /\ UNCHANGED <<pc, at>>
       \/ /\ orig[at] # "none" /\ stage = "midway"
          /\ dest' = [dest EXCEPT ![at] = orig[at]]
          /\ NextItem

\* A wrong step 1 that moves the items instead of copying them.
MoveToBackup ==
    /\ pc = "backup"
    /\ CopyItem(backup)
    /\ orig' = [orig EXCEPT ![at] = "none"]
    /\ UNCHANGED <<team, teamRoots, marker, faults, legacy>>

\* Step 1: the safety copy.
CopyToBackup ==
    /\ pc = "backup"
    /\ CopyItem(backup)
    /\ UNCHANGED <<orig, team, teamRoots, marker, faults, legacy>>

\* Step 2 begins by creating teams/<legacy team id>/.
CreateTeamRoot ==
    /\ pc = "backup" /\ at = Parts + 1
    /\ teamRoots' = teamRoots \cup {"legacy"}
    /\ Goto("team")
    /\ UNCHANGED <<orig, backup, team, marker, faults, legacy>>

CopyToTeam ==
    /\ pc = "team"
    /\ CopyItem(team)
    /\ UNCHANGED <<orig, backup, teamRoots, marker, faults, legacy>>

\* Step 3: File.WriteAllText creates the marker, then fills it.
WriteMarker ==
    \/ /\ pc = "team" /\ at = Parts + 1
       /\ marker' = "torn"
       /\ Goto("marker")
       /\ UNCHANGED <<orig, backup, team, teamRoots, faults, legacy>>
    \/ /\ pc = "marker"
       /\ marker' = "whole"
       /\ Goto("delete")
       /\ UNCHANGED <<orig, backup, team, teamRoots, faults, legacy>>

(***************************************************************************)
(* Step 4: delete the originals.  File.Delete removes sunfish.db at once;  *)
(* a recursive Directory.Delete passes through a half-deleted directory.   *)
(***************************************************************************)
DeleteOriginal ==
    /\ pc = "delete"
    /\ at \in Item
    /\ \/ /\ orig[at] = "none" \/ at = Database \/ stage = "midway"
          /\ orig' = [orig EXCEPT ![at] = "none"]
          /\ NextItem
       \/ /\ orig[at] # "none" /\ at # Database /\ stage = "idle"
          /\ orig' = [orig EXCEPT ![at] = "partial"]
          /\ stage' = "midway"
          /\ UNCHANGED <<pc, at>>
    /\ UNCHANGED <<backup, team, teamRoots, marker, faults, legacy>>

FinishMigration ==
    /\ pc = "delete" /\ at = Parts + 1
    /\ Goto("bootstrap")
    /\ UNCHANGED <<disk, faults, legacy>>

(***************************************************************************)
(* AnchorBootstrapHostedService.StartAsync: a team id of its own is read   *)
(* from, or added to, the preferences, and the team factory (external)     *)
(* creates teams/<default team id>/.  The remaining services follow.       *)
(***************************************************************************)
Bootstrap ==
    /\ pc = "bootstrap"
    /\ teamRoots' = teamRoots \cup {"default"}
    /\ Goto("started")
    /\ UNCHANGED <<orig, backup, team, marker, faults, legacy>>

-----------------------------------------------------------------------------
Fault ==
    /\ pc \in Phase
    /\ faults < MaxFaults
    /\ faults' = faults + 1

\* The process dies; what it wrote stays.
Crash ==
    /\ Fault
    /\ Goto("down")
    /\ UNCHANGED <<disk, legacy>>

\* A wrong pump that goes on to the next service after a failure.
StartFailsGoesOn ==
    /\ Fault
    /\ Goto("bootstrap")
    /\ UNCHANGED <<disk, legacy>>

(***************************************************************************)
(* A step throws (disk full, file locked, access denied).  StartAllAsync   *)
(* rethrows, so no later service starts; OnWindowCreated swallows it and   *)
(* the application runs on.                                                *)
(***************************************************************************)
StartFails ==
    /\ Fault
    /\ Goto("failed")
    /\ teamRoots' \in {teamRoots} \cup
         (IF pc = "bootstrap" THEN {teamRoots \cup {"default"}} ELSE {})
    /\ UNCHANGED <<orig, backup, team, marker, legacy>>

Quit == pc \in {"started", "failed"} /\ Goto("down") /\ UNCHANGED <<disk, faults, legacy>>

\* A process starts, or a destroyed window is created again: StartAllAsync.
Launch ==
    /\ pc \in {"down", "started", "failed"}
    /\ Goto("detect")
    /\ UNCHANGED <<disk, faults, legacy>>

Step ==
    \/ Detect \/ CopyToBackup \/ CreateTeamRoot \/ CopyToTeam \/ WriteMarker
    \/ DeleteOriginal \/ FinishMigration \/ Bootstrap

MigrationNext == Step \/ Crash \/ StartFails \/ Quit \/ Launch

MigrationSpec == MigrationInit /\ [][MigrationNext]_migrationVars

(***************************************************************************)
(* A running StartAsync goes on, and a user whose application died starts  *)
(* it again.  Nobody has to quit.                                          *)
(***************************************************************************)
MigrationFairSpec == MigrationSpec /\ WF_migrationVars(Step) /\ WF_migrationVars(Launch)

-----------------------------------------------------------------------------
Whole(place) == \A i \in legacy : place[i] = "whole"

(***************************************************************************)
(* An original is touched only when two complete copies of it exist, and   *)
(* they stay complete: whatever the interruptions, every v1 item is whole  *)
(* at its original place, or whole in the backup and in the team root.     *)
(***************************************************************************)
TwoCopiesBeforeDelete ==
    \A i \in legacy : orig[i] = "whole" \/ (backup[i] = "whole" /\ team[i] = "whole")

(***************************************************************************)
(* The marker, even one torn by a crash, is on disk only when the backup   *)
(* and the v2 layout are complete: a launch that skips the migration       *)
(* because of the marker skips nothing.                                    *)
(***************************************************************************)
MarkerMeansMigrated == marker # "none" => Whole(backup) /\ Whole(team)

(***************************************************************************)
(* The bootstrap service, which creates teams/ on its own account, never   *)
(* does so while a migration that has not begun its second step is still   *)
(* owed: otherwise the next launch would take teams/ for a v2 install and  *)
(* the migration would never run.  This rests on the registration order    *)
(* and on StartAllAsync stopping at the first failure.                     *)
(***************************************************************************)
BootstrapNeverPreempts ==
    "default" \in teamRoots /\ marker = "none" => legacy = {} \/ "legacy" \in teamRoots

(***************************************************************************)
(* "If the teams/ subdirectory exists already, we're either fully migrated *)
(* (marker was manually deleted) or this is a fresh v2 install that never  *)
(* had v1 data" -- the comment of the second short-circuit.                *)
(***************************************************************************)
TeamsDirMeansMigratedOrFresh ==
    pc = "detect" /\ marker = "none" /\ teamRoots # {} => legacy = {} \/ Whole(team)

(***************************************************************************)
(* An install with v1 data is eventually migrated for good, however often  *)
(* the process is interrupted, unless one interruption comes after the     *)
(* safety copy is complete and the legacy team root is there and before    *)
(* the marker is whole.                                                    *)
(***************************************************************************)
InterruptedInStep2 ==
    /\ pc \in {"down", "failed"}
    /\ Whole(backup) /\ "legacy" \in teamRoots /\ marker # "whole"

EventuallyMigrated ==
    legacy # {} => <>[](marker = "whole" /\ Whole(team)) \/ <>InterruptedInStep2

=============================================================================
