---------------------------- MODULE AnchorProofs ----------------------------
(***************************************************************************)
(* Proofs about the three components of Anchor that are modelled: the      *)
(* migration of a v1 install, the pairing tokens and the recovery host.    *)
(* They share no state, and each has its own specification.                *)
(***************************************************************************)
EXTENDS V1Migration, PairingTokens, RecoveryHost, FiniteSetTheorems, FunctionTheorems, TLAPS

(***************************************************************************)
(* Proofs about V1Migration, for every number of items, every set of       *)
(* phases a fault may strike in and every number of faults.                *)
(***************************************************************************)

(***************************************************************************)
(* The originals are untouched until the marker is written, and the copies *)
(* are complete from then on; before, the program counter says how far     *)
(* each of the two copies has come.                                        *)
(***************************************************************************)
CopiedBefore(place, n) == \A i \in legacy : i < n => place[i] = "whole"

OnlyLegacyItems == \A i \in Item \ legacy : orig[i] = "none"
OriginalsUntilMarker == marker = "none" => Whole(orig)
BackupProgress == pc = "backup" => marker = "none" /\ teamRoots = {} /\ CopiedBefore(backup, at)
TeamProgress ==
    pc = "team" => /\ marker = "none" /\ "legacy" \in teamRoots
                   /\ Whole(backup) /\ CopiedBefore(team, at)
MarkerPhase == pc \in {"marker", "delete"} => marker # "none"
BootstrapPhase ==
    pc = "bootstrap" /\ marker = "none" => teamRoots # {} \/ orig[Database] = "none"
DatabaseInLegacy == legacy # {} => Database \in legacy

MigrationIInv ==
    /\ MigrationTypeOK
    /\ OnlyLegacyItems
    /\ OriginalsUntilMarker
    /\ MarkerMeansMigrated
    /\ BackupProgress
    /\ TeamProgress
    /\ MarkerPhase
    /\ BootstrapPhase
    /\ DatabaseInLegacy
    /\ BootstrapNeverPreempts

-----------------------------------------------------------------------------
LEMMA InitMigrationIInv == MigrationInit => MigrationIInv
<1> SUFFICES ASSUME MigrationInit PROVE MigrationIInv
  OBVIOUS
<1> USE PartsAssumption, FaultsAssumption
<1> USE DEF MigrationInit, Item, Content, Database, Phase
<1>1. legacy \subseteq Item /\ (legacy = {} \/ Database \in legacy)
  OBVIOUS
<1>2. MigrationTypeOK
  BY <1>1 DEF MigrationTypeOK
<1>3. OnlyLegacyItems /\ Whole(orig)
  BY <1>1 DEF OnlyLegacyItems, Whole
<1>4. QED
  BY <1>1, <1>2, <1>3
  DEF MigrationIInv, OriginalsUntilMarker, MarkerMeansMigrated, BackupProgress, TeamProgress,
      MarkerPhase, BootstrapPhase, DatabaseInLegacy, BootstrapNeverPreempts

(***************************************************************************)
(* One item of the safety copy.                                            *)
(***************************************************************************)
LEMMA CopyToBackupIInv == MigrationIInv /\ CopyToBackup => MigrationIInv'
<1> SUFFICES ASSUME MigrationIInv, CopyToBackup PROVE MigrationIInv'
  OBVIOUS
<1> USE DEF MigrationIInv, MigrationTypeOK, CopyToBackup, Content, Item
<1>1. pc = "backup" /\ marker = "none" /\ teamRoots = {} /\ Whole(orig)
  BY DEF BackupProgress, OriginalsUntilMarker
<1>2. /\ backup' \in [Item -> Content] /\ at' \in 1 .. Parts + 1
      /\ stage' \in {"idle", "midway"} /\ pc' = pc
  BY PartsAssumption DEF CopyItem, NextItem
<1>3. CopiedBefore(backup, at)'
  <2>1. CASE orig[at] = "none"
    BY <2>1, <1>1, PartsAssumption
    DEF CopyItem, NextItem, Whole, CopiedBefore, BackupProgress
  <2>2. CASE orig[at] # "none" /\ stage = "idle"
    BY <2>2, <1>1, PartsAssumption
    DEF CopyItem, NextItem, Whole, CopiedBefore, BackupProgress
  <2>3. CASE orig[at] # "none" /\ stage = "midway"
    BY <2>3, <1>1, PartsAssumption
    DEF CopyItem, NextItem, Whole, CopiedBefore, BackupProgress
  <2>4. QED
    BY <2>1, <2>2, <2>3
<1>4. QED
  BY <1>1, <1>2, <1>3
  DEF OnlyLegacyItems, OriginalsUntilMarker, MarkerMeansMigrated, BackupProgress,
      TeamProgress, MarkerPhase, BootstrapPhase, DatabaseInLegacy,
      BootstrapNeverPreempts, Whole

(***************************************************************************)
(* One item of the copy into the team root.                                *)
(***************************************************************************)
LEMMA CopyToTeamIInv == MigrationIInv /\ CopyToTeam => MigrationIInv'
<1> SUFFICES ASSUME MigrationIInv, CopyToTeam PROVE MigrationIInv'
  OBVIOUS
<1> USE DEF MigrationIInv, MigrationTypeOK, CopyToTeam, Content, Item
<1>1. /\ pc = "team" /\ marker = "none" /\ "legacy" \in teamRoots
      /\ Whole(orig) /\ Whole(backup)
  BY DEF TeamProgress, OriginalsUntilMarker
<1>2. /\ team' \in [Item -> Content] /\ at' \in 1 .. Parts + 1
      /\ stage' \in {"idle", "midway"} /\ pc' = pc
  BY PartsAssumption DEF CopyItem, NextItem
<1>3. CopiedBefore(team, at)'
  <2>1. CASE orig[at] = "none"
    BY <2>1, <1>1, PartsAssumption
    DEF CopyItem, NextItem, Whole, CopiedBefore, TeamProgress
  <2>2. CASE orig[at] # "none" /\ stage = "idle"
    BY <2>2, <1>1, PartsAssumption
    DEF CopyItem, NextItem, Whole, CopiedBefore, TeamProgress
  <2>3. CASE orig[at] # "none" /\ stage = "midway"
    BY <2>3, <1>1, PartsAssumption
    DEF CopyItem, NextItem, Whole, CopiedBefore, TeamProgress
  <2>4. QED
    BY <2>1, <2>2, <2>3
<1>4. QED
  BY <1>1, <1>2, <1>3
  DEF OnlyLegacyItems, OriginalsUntilMarker, MarkerMeansMigrated, BackupProgress,
      TeamProgress, MarkerPhase, BootstrapPhase, DatabaseInLegacy,
      BootstrapNeverPreempts, Whole

(***************************************************************************)
(* One item of the deletion: the marker is there, so nothing claims the    *)
(* originals any more.                                                     *)
(***************************************************************************)
LEMMA DeleteOriginalIInv == MigrationIInv /\ DeleteOriginal => MigrationIInv'
<1> SUFFICES ASSUME MigrationIInv, DeleteOriginal PROVE MigrationIInv'
  OBVIOUS
<1> USE DEF MigrationIInv, MigrationTypeOK, DeleteOriginal, Content, Item
<1>1. marker # "none" /\ pc = "delete" /\ pc' = "delete"
  BY DEF MarkerPhase, NextItem
<1>2. /\ orig' \in [Item -> Content] /\ at' \in 1 .. Parts + 1
      /\ stage' \in {"idle", "midway"}
  BY PartsAssumption DEF NextItem
<1>3. OnlyLegacyItems'
  BY <1>2 DEF OnlyLegacyItems
<1>4. QED
  BY <1>1, <1>2, <1>3
  DEF OriginalsUntilMarker, MarkerMeansMigrated, BackupProgress,
      TeamProgress, MarkerPhase, BootstrapPhase, DatabaseInLegacy,
      BootstrapNeverPreempts, Whole

LEMMA NextMigrationIInv == MigrationIInv /\ [MigrationNext]_migrationVars => MigrationIInv'
<1> SUFFICES ASSUME MigrationIInv, [MigrationNext]_migrationVars PROVE MigrationIInv'
  OBVIOUS
<1> USE PartsAssumption, FaultsAssumption
<1> USE DEF MigrationIInv, MigrationTypeOK, Goto, disk, Phase
<1>1. CASE Detect
  <2>1. MigrationTypeOK'
    BY <1>1 DEF Detect
  <2>2. QED
    BY <1>1, <2>1
    DEF Detect, LayoutDetected, OnlyLegacyItems, OriginalsUntilMarker, MarkerMeansMigrated,
        BackupProgress, TeamProgress, MarkerPhase, BootstrapPhase, DatabaseInLegacy,
        BootstrapNeverPreempts, Whole, CopiedBefore, Item
<1>2. CASE CopyToBackup
  BY <1>2, CopyToBackupIInv
<1>3. CASE CreateTeamRoot
  BY <1>3
  DEF CreateTeamRoot, OnlyLegacyItems, OriginalsUntilMarker, MarkerMeansMigrated,
      BackupProgress, TeamProgress, MarkerPhase, BootstrapPhase, DatabaseInLegacy,
      BootstrapNeverPreempts, Whole, CopiedBefore, Item
<1>4. CASE CopyToTeam
  BY <1>4, CopyToTeamIInv
<1>5. CASE WriteMarker
  <2> USE DEF OnlyLegacyItems, OriginalsUntilMarker, MarkerMeansMigrated, BackupProgress,
        TeamProgress, MarkerPhase, BootstrapPhase, DatabaseInLegacy,
        BootstrapNeverPreempts, Whole, CopiedBefore, Item
  <2>1. CASE pc = "team"
    <3>1. at = Parts + 1 /\ marker' = "torn" /\ pc' = "marker"
      BY <1>5, <2>1 DEF WriteMarker
    <3>2. UNCHANGED <<orig, backup, team, teamRoots, faults, legacy>> /\ at' = 1 /\ stage' = "idle"
      BY <1>5, <2>1 DEF WriteMarker
    <3>3. QED
      BY <2>1, <3>1, <3>2
  <2>2. CASE pc = "marker"
    <3>1. marker' = "whole" /\ pc' = "delete"
      BY <1>5, <2>2 DEF WriteMarker
    <3>2. UNCHANGED <<orig, backup, team, teamRoots, faults, legacy>> /\ at' = 1 /\ stage' = "idle"
      BY <1>5, <2>2 DEF WriteMarker
    <3>3. QED
      BY <2>2, <3>1, <3>2
  <2>3. QED
    BY <1>5, <2>1, <2>2 DEF WriteMarker
<1>6. CASE DeleteOriginal
  BY <1>6, DeleteOriginalIInv
<1>7. CASE FinishMigration
  BY <1>7
  DEF FinishMigration, OnlyLegacyItems, OriginalsUntilMarker, MarkerMeansMigrated,
      BackupProgress, TeamProgress, MarkerPhase, BootstrapPhase, DatabaseInLegacy,
      BootstrapNeverPreempts, Whole, CopiedBefore
<1>8. CASE Bootstrap
  <2>1. MigrationTypeOK'
    BY <1>8 DEF Bootstrap
  <2>2. BootstrapNeverPreempts' /\ BootstrapPhase'
    BY <1>8 DEF Bootstrap, BootstrapNeverPreempts, BootstrapPhase, DatabaseInLegacy,
       OnlyLegacyItems, OriginalsUntilMarker, MarkerPhase, TeamProgress, Whole, Item, Database
  <2>3. QED
    BY <1>8, <2>1, <2>2
    DEF Bootstrap, OnlyLegacyItems, OriginalsUntilMarker, MarkerMeansMigrated, BackupProgress,
        TeamProgress, MarkerPhase, DatabaseInLegacy, Whole, CopiedBefore
<1>9. CASE Crash
  BY <1>9
  DEF Crash, Fault, OnlyLegacyItems, OriginalsUntilMarker, MarkerMeansMigrated,
      BackupProgress, TeamProgress, MarkerPhase, BootstrapPhase, DatabaseInLegacy,
      BootstrapNeverPreempts, Whole, CopiedBefore
<1>10. CASE StartFails
  <2>1. MigrationTypeOK'
    BY <1>10 DEF StartFails, Fault
  <2>2. BootstrapNeverPreempts' /\ BootstrapPhase'
    BY <1>10 DEF StartFails, Fault, BootstrapNeverPreempts, BootstrapPhase, DatabaseInLegacy,
       OnlyLegacyItems, OriginalsUntilMarker, MarkerPhase, TeamProgress, Whole, Item, Database
  <2>3. QED
    BY <1>10, <2>1, <2>2
    DEF StartFails, Fault, OnlyLegacyItems, OriginalsUntilMarker, MarkerMeansMigrated, BackupProgress,
        TeamProgress, MarkerPhase, DatabaseInLegacy, Whole, CopiedBefore
<1>11. CASE Quit
  BY <1>11
  DEF Quit, OnlyLegacyItems, OriginalsUntilMarker, MarkerMeansMigrated,
      BackupProgress, TeamProgress, MarkerPhase, BootstrapPhase, DatabaseInLegacy,
      BootstrapNeverPreempts, Whole, CopiedBefore
<1>12. CASE Launch
  BY <1>12
  DEF Launch, OnlyLegacyItems, OriginalsUntilMarker, MarkerMeansMigrated,
      BackupProgress, TeamProgress, MarkerPhase, BootstrapPhase, DatabaseInLegacy,
      BootstrapNeverPreempts, Whole, CopiedBefore
<1>13. CASE UNCHANGED migrationVars
  BY <1>13
  DEF migrationVars, OnlyLegacyItems, OriginalsUntilMarker, MarkerMeansMigrated,
      BackupProgress, TeamProgress, MarkerPhase, BootstrapPhase, DatabaseInLegacy,
      BootstrapNeverPreempts, Whole, CopiedBefore
<1>14. QED
  BY <1>1, <1>2, <1>3, <1>4, <1>5, <1>6, <1>7, <1>8, <1>9, <1>10, <1>11, <1>12, <1>13
  DEF MigrationNext, Step

LEMMA SpecMigrationIInv == MigrationSpec => []MigrationIInv
BY InitMigrationIInv, NextMigrationIInv, PTL DEF MigrationSpec

-----------------------------------------------------------------------------
(***************************************************************************)
(* The data directory and the program counter keep their types.            *)
(***************************************************************************)
THEOREM MigrationTypeCorrect == MigrationSpec => []MigrationTypeOK
<1>1. MigrationIInv => MigrationTypeOK
  BY DEF MigrationIInv
<1>2. QED
  BY <1>1, SpecMigrationIInv, PTL

(***************************************************************************)
(* No v1 item is ever lost: its original is whole, or two complete copies  *)
(* of it exist, at every point of every sequence of interrupted launches.  *)
(***************************************************************************)
THEOREM NoItemLost == MigrationSpec => []TwoCopiesBeforeDelete
<1>1. MigrationIInv => TwoCopiesBeforeDelete
  BY DEF MigrationIInv, OriginalsUntilMarker, MarkerMeansMigrated, Whole, TwoCopiesBeforeDelete
<1>2. QED
  BY <1>1, SpecMigrationIInv, PTL

(***************************************************************************)
(* A migration marker on disk, torn or not, stands for complete copies.    *)
(***************************************************************************)
THEOREM MarkerSound == MigrationSpec => []MarkerMeansMigrated
<1>1. MigrationIInv => MarkerMeansMigrated
  BY DEF MigrationIInv
<1>2. QED
  BY <1>1, SpecMigrationIInv, PTL

(***************************************************************************)
(* The bootstrap service creates teams/ only when no migration is owed     *)
(* that has not reached its second step.                                   *)
(***************************************************************************)
THEOREM BootstrapOrder == MigrationSpec => []BootstrapNeverPreempts
<1>1. MigrationIInv => BootstrapNeverPreempts
  BY DEF MigrationIInv
<1>2. QED
  BY <1>1, SpecMigrationIInv, PTL

-----------------------------------------------------------------------------
(***************************************************************************)
(* Proofs about PairingTokens, for every set of tenants, devices, tokens   *)
(* and concurrent calls.                                                   *)
(***************************************************************************)

(***************************************************************************)
(* The store: a key holds nothing or the token of one device, and a token  *)
(* id is issued under one tenant.                                          *)
(***************************************************************************)
Issued(k) == store[k].device \in Devices

IssuedOrAbsent == \A k \in Key : store[k] = Absent \/ Issued(k)
OneTenant == \A j, k \in Key : Issued(j) /\ Issued(k) /\ j[2] = k[2] => j = k

(***************************************************************************)
(* The calls: what a call holds across its await is the record of its key  *)
(* but for the consumption another call may have stamped on it meanwhile;  *)
(* a call that was accepted has left its stamp, and nothing removes it.    *)
(***************************************************************************)
HeldIsCurrent ==
    \A c \in Calls :
        call[c].pc = "deriving" =>
            LET k == KeyOf(call[c].presented)
            IN  Issued(k) /\ call[c].stored.device = store[k].device

AcceptedIsStamped ==
    \A c \in Calls :
        Accepted(c) =>
            LET k == KeyOf(call[c].presented)
            IN  /\ call[c].pc = "returned"
                /\ store[k].consumed # Never
                /\ store[k].device = call[c].presented.device

SpentReturnedNull == \A c \in spent : call[c].pc = "returned" /\ result[c] = "null"

PairingIInv ==
    /\ PairingTypeOK
    /\ IssuedOrAbsent
    /\ OneTenant
    /\ HeldIsCurrent
    /\ AcceptedIsStamped
    /\ SpentReturnedNull

-----------------------------------------------------------------------------
LEMMA InitPairingIInv == PairingInit => PairingIInv
<1> SUFFICES ASSUME PairingInit PROVE PairingIInv
  OBVIOUS
<1> USE TimeAssumption, DevicesAssumption DEF PairingInit
<1>1. Absent \in Record
  BY DEF Absent, Record, Never
<1>2. PairingTypeOK
  BY <1>1 DEF PairingTypeOK, Unused
<1>3. IssuedOrAbsent /\ OneTenant
  BY DEF IssuedOrAbsent, OneTenant, Issued, Absent
<1>4. HeldIsCurrent /\ AcceptedIsStamped /\ SpentReturnedNull
  BY DEF HeldIsCurrent, AcceptedIsStamped, SpentReturnedNull, Accepted, Unused
<1>5. QED
  BY <1>2, <1>3, <1>4 DEF PairingIInv

LEMMA KeyType ==
  ASSUME PairingTypeOK, NEW c \in Calls, call[c].pc # "idle"
  PROVE  /\ call[c] \in Progress
         /\ KeyOf(call[c].presented) \in Key
  BY DEF PairingTypeOK, Unused, Progress, Presentation, KeyOf, Key

-----------------------------------------------------------------------------
LEMMA TickIInv == PairingIInv /\ Tick => PairingIInv'
  BY TimeAssumption
  DEF PairingIInv, Tick, PairingTypeOK, IssuedOrAbsent, Issued, OneTenant, HeldIsCurrent,
      AcceptedIsStamped, Accepted, SpentReturnedNull

LEMMA RevokeIInv ==
  ASSUME PairingIInv, NEW k \in Key, Revoke(k)
  PROVE  PairingIInv'
  BY DEF PairingIInv, Revoke, PairingTypeOK, IssuedOrAbsent, Issued, OneTenant, HeldIsCurrent,
         AcceptedIsStamped, Accepted, SpentReturnedNull

(***************************************************************************)
(* A token is issued under a key that holds nothing, so no call holds its  *)
(* record and none was accepted for it.                                    *)
(***************************************************************************)
LEMMA IssueIInv ==
  ASSUME PairingIInv, NEW k \in Key, NEW d \in Devices, Issue(k, d)
  PROVE  PairingIInv'
<1> USE TimeAssumption, DevicesAssumption DEF PairingIInv, Issue
<1>1. /\ store[k] = Absent
      /\ \A j \in Key : j[2] = k[2] => store[j] = Absent
  BY DEF Key
<1>2. ~ Issued(k) /\ store[k].consumed = Never
  BY <1>1 DEF Issued, Absent
<1>3. PairingTypeOK'
  BY DEF PairingTypeOK, Record, Never
<1>4. /\ store'[k].device = d
      /\ \A j \in Key : j # k => store'[j] = store[j]
  BY DEF PairingTypeOK
<1>5. IssuedOrAbsent' /\ OneTenant'
  BY <1>1, <1>4 DEF IssuedOrAbsent, OneTenant, Issued, Absent
<1>6. HeldIsCurrent'
  BY <1>2, <1>4, KeyType DEF HeldIsCurrent, Issued
<1>7. AcceptedIsStamped'
  BY <1>2, <1>4, KeyType DEF AcceptedIsStamped, Accepted
<1>8. SpentReturnedNull'
  BY DEF SpentReturnedNull
<1>9. QED
  BY <1>3, <1>5, <1>6, <1>7, <1>8

(***************************************************************************)
(* A call that begins on a spent key finds it revoked or stamped.          *)
(***************************************************************************)
LEMMA SpentIsUnusable ==
  ASSUME PairingIInv, NEW k \in Key, Spent(k)
  PROVE  ~ Usable(k)
  BY DEF PairingIInv, Spent, Usable, AcceptedIsStamped, Accepted

LEMMA LookIInv ==
  ASSUME PairingIInv, NEW c \in Calls, NEW p \in Presentation, Look(c, p)
  PROVE  PairingIInv'
<1> DEFINE k == KeyOf(p)
           progress(next) == [pc |-> next, presented |-> p, stored |-> store[k], at |-> now]
<1> USE DEF PairingIInv
<1>1. k \in Key
  BY DEF Presentation, KeyOf, Key
<1>2. /\ call[c] = Unused
      /\ \/ Usable(k) /\ call' = [call EXCEPT ![c] = progress("deriving")] /\ result' = result
         \/ /\ ~ Usable(k)
            /\ call' = [call EXCEPT ![c] = progress("returned")]
            /\ result' = [result EXCEPT ![c] = "null"]
      /\ spent' = IF Spent(k) THEN spent \cup {c} ELSE spent
      /\ UNCHANGED <<now, store, revoked>>
  BY DEF Look
<1>3. progress("deriving") \in Progress /\ progress("returned") \in Progress
  BY <1>1 DEF Progress, PairingTypeOK
<1>4. PairingTypeOK'
  BY <1>2, <1>3 DEF PairingTypeOK, Usable
<1>5. IssuedOrAbsent' /\ OneTenant'
  BY <1>2 DEF IssuedOrAbsent, OneTenant, Issued
<1>6. Usable(k) => Issued(k)
  BY <1>1 DEF Usable, IssuedOrAbsent
<1>7. ~ Accepted(c) /\ c \notin spent
  BY <1>2 DEF AcceptedIsStamped, SpentReturnedNull, Unused
<1>8. \A e \in Calls : e # c => call'[e] = call[e] /\ result'[e] = result[e]
  BY <1>2 DEF PairingTypeOK
<1>9. HeldIsCurrent'
  BY <1>2, <1>6, <1>8 DEF PairingTypeOK, HeldIsCurrent, Issued
<1>10. AcceptedIsStamped'
  <2>1. ~ Accepted(c)'
    BY <1>2, <1>7 DEF PairingTypeOK, Accepted
  <2>2. QED
    BY <1>2, <1>8, <2>1 DEF AcceptedIsStamped, Accepted
<1>11. SpentReturnedNull'
  <2>1. c \in spent' => call'[c].pc = "returned" /\ result'[c] = "null"
    BY <1>1, <1>2, <1>7, SpentIsUnusable DEF PairingTypeOK
  <2>2. QED
    BY <1>2, <1>8, <2>1 DEF PairingTypeOK, SpentReturnedNull
<1>12. QED
  BY <1>4, <1>5, <1>9, <1>10, <1>11

(***************************************************************************)
(* The second half of a call; only an accepted one writes, and it writes   *)
(* back the device it found, with a stamp.                                 *)
(***************************************************************************)
LEMMA ReturnIInv ==
  ASSUME PairingIInv, NEW c \in Calls, Consume(c) \/ DeriveFails(c)
  PROVE  PairingIInv'
<1> DEFINE k == KeyOf(call[c].presented)
<1> USE DEF PairingIInv
<1>1. /\ call[c].pc = "deriving" /\ call[c] \in Progress /\ k \in Key
      /\ UNCHANGED <<now, revoked, spent>>
      /\ call' = [call EXCEPT ![c].pc = "returned"]
  BY KeyType DEF Consume, DeriveFails, Return
<1>2. /\ call'[c].pc = "returned" /\ call'[c].presented = call[c].presented
      /\ call'[c] \in Progress
      /\ \A e \in Calls : e # c => call'[e] = call[e]
  BY <1>1 DEF PairingTypeOK, Progress
<1>3. \/ /\ Matches(c)
         /\ store' = [store EXCEPT ![k] = [call[c].stored EXCEPT !.consumed = call[c].at]]
         /\ result' = [result EXCEPT ![c] = "accepted"]
      \/ store' = store /\ \E how \in {"null", "threw"} : result' = [result EXCEPT ![c] = how]
  BY DEF Consume, DeriveFails, Return
<1>4. /\ c \notin spent /\ Issued(k) /\ call[c].stored.device = store[k].device
      /\ \A e \in Calls : e # c => result'[e] = result[e]
  BY <1>1, <1>3 DEF PairingTypeOK, SpentReturnedNull, HeldIsCurrent
<1>5. store' \in [Key -> Record]
  BY <1>1, <1>3, TimeAssumption DEF PairingTypeOK, Progress, Record, Never
<1>6. PairingTypeOK'
  BY <1>1, <1>2, <1>3, <1>5 DEF PairingTypeOK
<1>7. /\ \A j \in Key : store'[j].device = store[j].device
      /\ \A j \in Key : store[j].consumed # Never => store'[j].consumed # Never
      /\ \A j \in Key : j # k => store'[j] = store[j]
  BY <1>1, <1>3, <1>4, TimeAssumption DEF PairingTypeOK, Progress, Record, Never
<1>8. IssuedOrAbsent' /\ OneTenant'
  BY <1>4, <1>7 DEF IssuedOrAbsent, OneTenant, Issued
<1>9. HeldIsCurrent'
  BY <1>2, <1>7, KeyType DEF HeldIsCurrent, Issued
<1>10. AcceptedIsStamped'
  <2>1. ASSUME NEW e \in Calls, e # c, Accepted(e)'
        PROVE  /\ call'[e].pc = "returned"
               /\ store'[KeyOf(call'[e].presented)].consumed # Never
               /\ store'[KeyOf(call'[e].presented)].device = call'[e].presented.device
    <3>1. Accepted(e) /\ call[e].pc = "returned" /\ call'[e] = call[e]
      BY <1>2, <1>4, <2>1 DEF Accepted, AcceptedIsStamped
    <3>2. KeyOf(call[e].presented) \in Key
      BY <3>1, KeyType
    <3>3. QED
      BY <1>7, <3>1, <3>2 DEF AcceptedIsStamped
  <2>2. ASSUME Accepted(c)'
        PROVE  /\ store'[k].consumed # Never
               /\ store'[k].device = call[c].presented.device
    <3>1. /\ Matches(c)
          /\ store' = [store EXCEPT ![k] = [call[c].stored EXCEPT !.consumed = call[c].at]]
      BY <1>3, <2>2 DEF Accepted, PairingTypeOK
    <3>2. QED
      BY <1>1, <3>1, TimeAssumption DEF PairingTypeOK, Progress, Record, Never, Matches
  <2>3. QED
    BY <1>2, <2>1, <2>2 DEF AcceptedIsStamped
<1>11. SpentReturnedNull'
  BY <1>1, <1>2, <1>4 DEF SpentReturnedNull, PairingTypeOK
<1>12. QED
  BY <1>6, <1>8, <1>9, <1>10, <1>11

LEMMA NextPairingIInv == PairingIInv /\ [PairingNext]_pairingVars => PairingIInv'
<1> SUFFICES ASSUME PairingIInv, [PairingNext]_pairingVars PROVE PairingIInv'
  OBVIOUS
<1>1. CASE Tick
  BY <1>1, TickIInv
<1>2. CASE \E k \in Key : Revoke(k) \/ \E d \in Devices : Issue(k, d)
  BY <1>2, RevokeIInv, IssueIInv
<1>3. CASE \E c \in Calls :
             Consume(c) \/ DeriveFails(c) \/ \E p \in Presentation : Look(c, p)
  BY <1>3, ReturnIInv, LookIInv
<1>4. CASE UNCHANGED pairingVars
  BY <1>4 DEF pairingVars, PairingIInv, PairingTypeOK, IssuedOrAbsent, Issued, OneTenant, HeldIsCurrent,
              AcceptedIsStamped, Accepted, SpentReturnedNull
<1>5. QED
  BY <1>1, <1>2, <1>3, <1>4 DEF PairingNext

LEMMA SpecPairingIInv == PairingSpec => []PairingIInv
  BY InitPairingIInv, NextPairingIInv, PTL DEF PairingSpec

-----------------------------------------------------------------------------
\* The store and what a call holds across its await keep their types.
THEOREM PairingTypeCorrect == PairingSpec => []PairingTypeOK
<1>1. PairingIInv => PairingTypeOK
  BY DEF PairingIInv
<1>2. QED
  BY SpecPairingIInv, <1>1, PTL

(***************************************************************************)
(* A call that begins after its token was revoked, or after another call   *)
(* was given it, is not given it.                                          *)
(***************************************************************************)
THEOREM SpentTokensRefused == PairingSpec => []SpentIsRefused
<1>1. PairingIInv => SpentIsRefused
  BY DEF PairingIInv, SpentReturnedNull, SpentIsRefused, Accepted
<1>2. QED
  BY SpecPairingIInv, <1>1, PTL

(***************************************************************************)
(* All the calls that are given a token, overlapping or not, are of the    *)
(* tenant and the device it was issued for.                                *)
(***************************************************************************)
THEOREM BoundToTenantAndDevice == PairingSpec => []OneTenantOneDevice
<1>1. PairingIInv => OneTenantOneDevice
  <2> SUFFICES ASSUME PairingIInv, NEW c \in Calls, NEW d \in Calls, Accepted(c), Accepted(d),
                      call[c].presented.id = call[d].presented.id
               PROVE  /\ SameToken(c, d)
                      /\ call[c].presented.device = call[d].presented.device
                      /\ store[KeyOf(call[c].presented)].device = call[c].presented.device
    BY DEF OneTenantOneDevice
  <2>1. ASSUME NEW e \in {c, d}
        PROVE  /\ KeyOf(call[e].presented) \in Key /\ Issued(KeyOf(call[e].presented))
               /\ store[KeyOf(call[e].presented)].device = call[e].presented.device
    <3>1. call[e].pc = "returned"
      BY DEF PairingIInv, AcceptedIsStamped
    <3>2. call[e] \in Progress /\ KeyOf(call[e].presented) \in Key
      BY <3>1, KeyType DEF PairingIInv
    <3>3. store[KeyOf(call[e].presented)].device = call[e].presented.device
      BY DEF PairingIInv, AcceptedIsStamped
    <3>4. QED
      BY <3>2, <3>3 DEF Issued, Progress, Presentation
  <2>2. SameToken(c, d)
    BY <2>1 DEF PairingIInv, OneTenant, SameToken, KeyOf
  <2>3. QED
    BY <2>1, <2>2 DEF SameToken
<1>2. QED
  BY SpecPairingIInv, <1>1, PTL

-----------------------------------------------------------------------------
(***************************************************************************)
(* Proofs about RecoveryHost, for every set of trustees of which fewer     *)
(* than the quorum are rogue, every number of teams, clicks, failing calls *)
(* and restarts.                                                           *)
(***************************************************************************)

(***************************************************************************)
(* What the coordinator lets into a set of attestations: one per trustee,  *)
(* the true seed from everyone who is not rogue, and from nobody the seed  *)
(* the device was born with.                                               *)
(***************************************************************************)
Sound(S) ==
    /\ \A a \in S : a.trustee \notin Rogue => a.seed = "true"
    /\ \A a \in S : a.seed # "own"
    /\ \A a, b \in S : a.trustee = b.trustee => a = b

SeedsNotRogue ==
    /\ NoRogueSeed
    /\ bootSeed # "rogue"
    /\ got \in {"none", "true"}

\* The store follows the keystore; between the two steps got is in the keystore.
StoreFollowsSeed ==
    /\ StoreNeverAheadOfSeed
    /\ teamKey[Home] # "none"
    /\ pollPc = "rotate" => seed = got

RecoveryIInv ==
    /\ RecoveryTypeOK
    /\ Sound(atts)
    /\ Sound(handed)
    /\ SeedsNotRogue
    /\ StoreFollowsSeed

-----------------------------------------------------------------------------
(***************************************************************************)
(* The arithmetic of the quorum: if the envelopes that open agree and are  *)
(* at least the quorum, they cannot all come from rogue trustees.          *)
(***************************************************************************)
LEMMA QuorumBeatsRogues ==
  ASSUME RecoveryTypeOK, Sound(handed), NEW s \in SeedOffers
  PROVE  s = "true"
<1>1. s \in Seeds /\ s # "own"
  BY DEF SeedOffers, Decrypted, Sound
<1>2. SUFFICES ASSUME s = "rogue" PROVE FALSE
  BY <1>1 DEF Seeds
<1>3. /\ Cardinality(Decrypted) >= Quorum
      /\ \A a \in Decrypted : a.seed = "rogue"
  BY <1>2 DEF SeedOffers
<1>4. \A a \in Decrypted : a.trustee \in Rogue
  BY <1>3 DEF Sound, Decrypted
<1> DEFINE f == [a \in Decrypted |-> a.trustee]
<1>5. f \in Injection(Decrypted, Rogue)
  <2>1. f \in [Decrypted -> Rogue]
    BY <1>4
  <2>2. \A a, b \in Decrypted : f[a] = f[b] => a = b
    BY DEF Sound, Decrypted
  <2>3. QED
    BY <2>1, <2>2, Fun_IsInj
<1>6. IsFiniteSet(Rogue)
  BY TrusteesAssumption, FS_Subset
<1>7. IsFiniteSet(Decrypted) /\ Cardinality(Decrypted) <= Cardinality(Rogue)
  BY <1>5, <1>6, FS_Injection
<1>8. Cardinality(Decrypted) \in Nat /\ Cardinality(Rogue) \in Nat
  BY <1>6, <1>7, FS_CardinalityType
<1>9. QED
  BY <1>3, <1>7, <1>8, QuorumAssumption

-----------------------------------------------------------------------------
LEMMA InitRecoveryIInv == RecoveryInit => RecoveryIInv
<1> SUFFICES ASSUME RecoveryInit PROVE RecoveryIInv
  OBVIOUS
<1> USE HomeAssumption, BoundsAssumption DEF RecoveryInit, Seeds, NoKey
<1>1. RecoveryTypeOK
  BY DEF RecoveryTypeOK
<1>2. Sound(atts) /\ Sound(handed)
  BY DEF Sound
<1>3. SeedsNotRogue /\ StoreFollowsSeed
  BY DEF SeedsNotRogue, NoRogueSeed, StoreFollowsSeed, StoreNeverAheadOfSeed
<1>4. QED
  BY <1>1, <1>2, <1>3 DEF RecoveryIInv

(***************************************************************************)
(* The page of the recovering user and the set-up of trustees touch no     *)
(* seed; of the attestations they can only empty the set.                  *)
(***************************************************************************)
LEMMA PageIInv ==
  ASSUME RecoveryIInv, NEW c \in Click, StoreKey(c) \/ Submit(c) \/ DiscardKey(c)
  PROVE  RecoveryIInv'
<1> USE BoundsAssumption
    DEF RecoveryIInv, NoRogueSeed, StoreNeverAheadOfSeed, Click, NoKey,
        device, coordinator, shell, handler, service, ghost
<1>1. CASE StoreKey(c)
  BY <1>1 DEF StoreKey, RecoveryTypeOK, Sound, SeedsNotRogue, StoreFollowsSeed
<1>2. CASE Submit(c)
  <2>1. RecoveryTypeOK'
    BY <1>2 DEF Submit, Throw, RecoveryTypeOK
  <2>2. Sound(atts)' /\ Sound(handed)' /\ SeedsNotRogue' /\ StoreFollowsSeed'
    BY <1>2 DEF Submit, Sound, SeedsNotRogue, StoreFollowsSeed
  <2>3. QED
    BY <2>1, <2>2
<1>3. CASE DiscardKey(c)
  BY <1>3 DEF DiscardKey, Throw, RecoveryTypeOK, Sound, SeedsNotRogue, StoreFollowsSeed
<1>4. QED
  BY <1>1, <1>2, <1>3

LEMMA SetupIInv ==
  ASSUME RecoveryIInv, NEW t \in Trustees, Designate(t) \/ Distribute(t)
  PROVE  RecoveryIInv'
<1> USE DEF RecoveryIInv, NoRogueSeed, StoreNeverAheadOfSeed,
            device, coordinator, shell, handler, service, ghost
<1>1. CASE Designate(t)
  BY <1>1 DEF Designate, RecoveryTypeOK, Sound, SeedsNotRogue, StoreFollowsSeed
<1>2. CASE Distribute(t)
  BY <1>2 DEF Distribute, RecoveryTypeOK, Sound, SeedsNotRogue, StoreFollowsSeed
<1>3. QED
  BY <1>1, <1>2

(***************************************************************************)
(* The set the coordinator keeps stays sound: a trustee not yet in it adds *)
(* one attestation, which is the true seed unless the trustee is rogue.    *)
(***************************************************************************)
LEMMA ApproveIInv ==
  ASSUME RecoveryIInv, NEW t \in Trustees, Approve(t)
  PROVE  RecoveryIInv'
<1> USE DEF RecoveryIInv, NoRogueSeed, StoreNeverAheadOfSeed,
            device, coordinator, shell, handler, service, ghost
<1>1. PICK s \in CanAttest(t) :
          atts' = atts \cup {[trustee |-> t, key |-> req, seed |-> s]}
  BY DEF Approve
<1> DEFINE new == [trustee |-> t, key |-> req, seed |-> s]
<1>2. s \in Envelope /\ s # "own" /\ (t \notin Rogue => s = "true")
  BY DEF CanAttest, Envelope, Seeds
<1>3. new \in Attestation
  BY <1>2 DEF Approve, RecoveryTypeOK, Attestation
<1>4. RecoveryTypeOK'
  BY <1>1, <1>3 DEF Approve, RecoveryTypeOK
<1>5. Sound(atts)'
  <2>1. \A a \in atts : a.trustee # new.trustee
    BY DEF Approve
  <2>2. new.seed # "own" /\ (new.trustee \notin Rogue => new.seed = "true")
    BY <1>2
  <2>3. atts' = atts \cup {new}
    BY <1>1
  <2>4. QED
    BY <2>1, <2>2, <2>3 DEF Sound
<1>6. Sound(handed)' /\ SeedsNotRogue' /\ StoreFollowsSeed'
  BY DEF Approve, Sound, SeedsNotRogue, StoreFollowsSeed
<1>7. QED
  BY <1>4, <1>5, <1>6

LEMMA TeamsIInv ==
  ASSUME RecoveryIInv, NEW t \in Teams, Materialize(t) \/ Activate(t)
  PROVE  RecoveryIInv'
<1> USE DEF RecoveryIInv, NoRogueSeed, StoreNeverAheadOfSeed,
            device, coordinator, shell, handler, service, ghost
<1>1. CASE Materialize(t)
  BY <1>1 DEF Materialize, RecoveryTypeOK, Sound, SeedsNotRogue, StoreFollowsSeed
<1>2. CASE Activate(t)
  BY <1>2 DEF Activate, RecoveryTypeOK, Sound, SeedsNotRogue, StoreFollowsSeed
<1>3. QED
  BY <1>1, <1>2

(***************************************************************************)
(* Start, stop and end of the process.                                     *)
(***************************************************************************)
LEMMA LifetimeIInv ==
  ASSUME RecoveryIInv, GraceElapses \/ LaunchAgain \/ StopAsync \/ ProcessEnds
  PROVE  RecoveryIInv'
<1> USE HomeAssumption, BoundsAssumption
    DEF RecoveryIInv, NoRogueSeed, StoreNeverAheadOfSeed,
        device, coordinator, shell, handler, service, ghost
<1>1. CASE GraceElapses
  BY <1>1 DEF GraceElapses, RecoveryTypeOK, Sound, SeedsNotRogue, StoreFollowsSeed
<1>2. CASE LaunchAgain
  BY <1>2 DEF LaunchAgain, RecoveryTypeOK, Sound, SeedsNotRogue, StoreFollowsSeed
<1>3. CASE StopAsync
  BY <1>3 DEF StopAsync, RecoveryTypeOK, Sound, SeedsNotRogue, StoreFollowsSeed
<1>4. CASE ProcessEnds
  <2>1. RecoveryTypeOK'
    BY <1>4 DEF ProcessEnds, RecoveryTypeOK
  <2>2. Sound(atts)' /\ Sound(handed)' /\ SeedsNotRogue' /\ StoreFollowsSeed'
    BY <1>4 DEF ProcessEnds, RecoveryTypeOK, Sound, SeedsNotRogue, StoreFollowsSeed
  <2>3. QED
    BY <2>1, <2>2
<1>5. QED
  BY <1>1, <1>2, <1>3, <1>4

-----------------------------------------------------------------------------
(***************************************************************************)
(* The polling loop and the handler.  The only step at which a rogue seed  *)
(* could enter is Decide, where QuorumBeatsRogues keeps it out.            *)
(***************************************************************************)
LEMMA PollIInv ==
  ASSUME RecoveryIInv, Poll
  PROVE  RecoveryIInv'
<1> USE HomeAssumption, BoundsAssumption
    DEF RecoveryIInv, NoRogueSeed, StoreNeverAheadOfSeed,
        device, coordinator, shell, handler, service, ghost, Exception
<1>1. CASE NextTick
  BY <1>1 DEF NextTick, RecoveryTypeOK, Sound, SeedsNotRogue, StoreFollowsSeed
<1>2. CASE LoopExits
  BY <1>2 DEF LoopExits, RecoveryTypeOK, Sound, SeedsNotRogue, StoreFollowsSeed
<1>3. CASE Evaluate
  <2>1. RecoveryTypeOK'
    BY <1>3 DEF Evaluate, EndPoll, CallThrows, Throw, RecoveryTypeOK
  <2>2. Sound(atts)' /\ Sound(handed)' /\ SeedsNotRogue' /\ StoreFollowsSeed'
    BY <1>3 DEF Evaluate, EndPoll, Sound, SeedsNotRogue, StoreFollowsSeed
  <2>3. QED
    BY <2>1, <2>2
<1>4. CASE GetKey
  <2>1. RecoveryTypeOK'
    BY <1>4 DEF GetKey, Leave, CallThrows, Throw, RecoveryTypeOK
  <2>2. Sound(atts)' /\ Sound(handed)' /\ SeedsNotRogue' /\ StoreFollowsSeed'
    BY <1>4 DEF GetKey, Leave, Sound, SeedsNotRogue, StoreFollowsSeed
  <2>3. QED
    BY <2>1, <2>2
<1>5. CASE Decide
  <2>1. /\ got' \in {"none", "true"}
        /\ \/ got' = got /\ pollPc' = "remove"
           \/ got' = "true" /\ pollPc' = "restore"
    BY <1>5, QuorumBeatsRogues DEF Decide, Leave, SeedsNotRogue
  <2>2. RecoveryTypeOK'
    BY <1>5, <2>1 DEF Decide, Leave, RecoveryTypeOK, Seeds
  <2>3. Sound(atts)' /\ Sound(handed)' /\ SeedsNotRogue' /\ StoreFollowsSeed'
    BY <1>5, <2>1 DEF Decide, Sound, SeedsNotRogue, StoreFollowsSeed
  <2>4. QED
    BY <2>2, <2>3
<1>6. CASE Restore
  <2>1. RecoveryTypeOK'
    BY <1>6 DEF Restore, Leave, CallThrows, Throw, RecoveryTypeOK
  <2>2. Sound(atts)' /\ Sound(handed)' /\ SeedsNotRogue' /\ StoreFollowsSeed'
    BY <1>6 DEF Restore, Leave, RecoveryTypeOK, Seeds, Sound, SeedsNotRogue, StoreFollowsSeed
  <2>3. QED
    BY <2>1, <2>2
<1>7. CASE Rotate
  <2>1. RecoveryTypeOK'
    BY <1>7 DEF Rotate, Leave, CallThrows, Throw, RecoveryTypeOK
  <2>2. Sound(atts)' /\ Sound(handed)' /\ SeedsNotRogue' /\ StoreFollowsSeed'
    BY <1>7 DEF Rotate, Leave, RecoveryTypeOK, Sound, SeedsNotRogue, StoreFollowsSeed
  <2>3. QED
    BY <2>1, <2>2
<1>8. CASE RemoveKey
  <2>1. RecoveryTypeOK'
    BY <1>8 DEF RemoveKey, EndPoll, RecoveryTypeOK
  <2>2. Sound(atts)' /\ Sound(handed)' /\ SeedsNotRogue' /\ StoreFollowsSeed'
    BY <1>8 DEF RemoveKey, EndPoll, Sound, SeedsNotRogue, StoreFollowsSeed
  <2>3. QED
    BY <2>1, <2>2
<1>9. QED
  BY <1>1, <1>2, <1>3, <1>4, <1>5, <1>6, <1>7, <1>8 DEF Poll

LEMMA NextRecoveryIInv == RecoveryIInv /\ [RecoveryNext]_recoveryVars => RecoveryIInv'
<1> SUFFICES ASSUME RecoveryIInv, [RecoveryNext]_recoveryVars PROVE RecoveryIInv'
  OBVIOUS
<1>1. CASE Poll
  BY <1>1, PollIInv
<1>2. CASE User
  <2>1. CASE \E c \in Click : StoreKey(c) \/ Submit(c) \/ DiscardKey(c)
    BY <2>1, PageIInv
  <2>2. CASE \E t \in Trustees : Designate(t) \/ Distribute(t) \/ Approve(t)
    BY <2>2, SetupIInv, ApproveIInv
  <2>3. CASE \E t \in Teams : Materialize(t) \/ Activate(t)
    BY <2>3, TeamsIInv
  <2>4. QED
    BY <1>2, <2>1, <2>2, <2>3 DEF User
<1>3. CASE GraceElapses \/ LaunchAgain \/ StopAsync \/ ProcessEnds
  BY <1>3, LifetimeIInv
<1>4. CASE UNCHANGED recoveryVars
  BY <1>4 DEF recoveryVars, device, coordinator, shell, handler, service, ghost,
              RecoveryIInv, RecoveryTypeOK, Sound, SeedsNotRogue, NoRogueSeed,
              StoreFollowsSeed, StoreNeverAheadOfSeed
<1>5. QED
  BY <1>1, <1>2, <1>3, <1>4 DEF RecoveryNext

(***************************************************************************)
(* Key slot, keystore, stores, coordinator state and the handler's locals  *)
(* keep their types.                                                       *)
(***************************************************************************)
THEOREM RecoveryTypeCorrect == RecoverySpec => []RecoveryTypeOK
<1>1. RecoveryIInv => RecoveryTypeOK
  BY DEF RecoveryIInv
<1>2. QED
  BY InitRecoveryIInv, NextRecoveryIInv, <1>1, PTL DEF RecoverySpec

(***************************************************************************)
(* Neither the keystore nor any store ever gets a seed of the rogue        *)
(* trustees, as long as they are fewer than the quorum.                    *)
(***************************************************************************)
THEOREM RogueSeedNeverRestored == RecoverySpec => []NoRogueSeed
<1>1. RecoveryIInv => NoRogueSeed
  BY DEF RecoveryIInv, SeedsNotRogue
<1>2. QED
  BY InitRecoveryIInv, NextRecoveryIInv, <1>1, PTL DEF RecoverySpec

(***************************************************************************)
(* The default team's store is never keyed with a seed that is not yet in  *)
(* the keystore, whatever throws and whenever the process ends.            *)
(***************************************************************************)
THEOREM RotationAfterRestore == RecoverySpec => []StoreNeverAheadOfSeed
<1>1. RecoveryIInv => StoreNeverAheadOfSeed
  BY DEF RecoveryIInv, StoreFollowsSeed
<1>2. QED
  BY InitRecoveryIInv, NextRecoveryIInv, <1>1, PTL DEF RecoverySpec

-----------------------------------------------------------------------------
(***************************************************************************)
(* That a handled key stays gone: only the click that made it puts it in   *)
(* the slot, and that click is past by the time there is a request for it; *)
(* and no poll runs on from one process into the next.                     *)
(***************************************************************************)
KeyInv ==
    /\ HandledKeyGone
    /\ status # "none" => flow[req] # "idle"
    /\ up = "down" => pollPc = "wait" /\ mode = "off"

LEMMA InitKeyInv == RecoveryInit => KeyInv
BY DEF RecoveryInit, KeyInv, HandledKeyGone

LEMMA NextKeyInv == RecoveryTypeOK /\ KeyInv /\ [RecoveryNext]_recoveryVars => KeyInv'
<1> SUFFICES ASSUME RecoveryTypeOK, KeyInv, [RecoveryNext]_recoveryVars PROVE KeyInv'
  OBVIOUS
<1> USE DEF KeyInv, HandledKeyGone, device, coordinator, shell, handler, service, ghost
<1>1. req \in Click \cup {NoKey} /\ flow \in [Click -> {"idle", "stored", "rejected", "done"}]
      /\ (status # "none" => req \in Click) /\ NoKey \notin Click
  BY BoundsAssumption DEF RecoveryTypeOK, Click, NoKey
<1>2. ASSUME NEW c \in Click, StoreKey(c) PROVE KeyInv'
  BY <1>1, <1>2 DEF StoreKey
<1>3. ASSUME NEW c \in Click, Submit(c) PROVE KeyInv'
  <2>1. CASE flow' = [flow EXCEPT ![c] = "done"] /\ status' = "pending" /\ req' = c
    BY <1>1, <1>3, <2>1 DEF Submit
  <2>2. CASE flow' = [flow EXCEPT ![c] = "rejected"] /\ UNCHANGED <<status, req>>
    <3>1. keyLeft' = keyLeft
      BY <1>3 DEF Submit, Throw
    <3>2. QED
      BY <1>1, <1>3, <2>2, <3>1 DEF Submit
  <2>3. QED
    BY <1>3, <2>1, <2>2 DEF Submit
<1>4. ASSUME NEW c \in Click, DiscardKey(c) PROVE KeyInv'
  <2>1. keyLeft' = keyLeft /\ (slot' = NoKey \/ slot' = slot)
    BY <1>4 DEF DiscardKey, Throw
  <2>2. QED
    BY <1>1, <1>4, <2>1 DEF DiscardKey
<1>5. ASSUME NEW t \in Trustees, Designate(t) \/ Distribute(t) \/ Approve(t) PROVE KeyInv'
  BY <1>1, <1>5 DEF Designate, Distribute, Approve
<1>6. ASSUME NEW t \in Teams, Materialize(t) \/ Activate(t) PROVE KeyInv'
  BY <1>1, <1>6 DEF Materialize, Activate
<1>7. CASE GraceElapses \/ StopAsync
  BY <1>1, <1>7 DEF GraceElapses, StopAsync
<1>8. CASE LaunchAgain
  BY <1>1, <1>8 DEF LaunchAgain
<1>9. CASE ProcessEnds
  BY <1>1, <1>9 DEF ProcessEnds
<1>10. CASE NextTick \/ LoopExits
  BY <1>1, <1>10 DEF NextTick, LoopExits
<1>11. CASE Evaluate
  <2>1. keyLeft' = keyLeft /\ UNCHANGED <<slot, req, up, flow>> /\ pollPc = "evaluate"
    BY <1>11 DEF Evaluate, CallThrows, Throw
  <2>2. \/ status' = "completed" /\ pollPc' = "get" /\ status # "none"
        \/ status' = status
    BY <1>11 DEF Evaluate
  <2>3. QED
    BY <1>1, <2>1, <2>2
<1>12. CASE GetKey \/ Decide \/ Restore \/ Rotate
  <2>1. UNCHANGED <<slot, coordinator, up, flow, mode>> /\ pollPc # "wait"
        /\ pollPc' \notin {"wait", "evaluate"}
    BY <1>12 DEF GetKey, Decide, Restore, Rotate, Leave
  <2>2. QED
    BY <1>1, <2>1
<1>13. CASE RemoveKey
  <2>1. slot' = NoKey \/ keyLeft' = "yes"
    BY <1>13 DEF RemoveKey
  <2>2. UNCHANGED <<coordinator, up, flow>> /\ pollPc = "remove"
    BY <1>13 DEF RemoveKey
  <2>3. QED
    BY <1>1, <2>1, <2>2
<1>14. CASE UNCHANGED recoveryVars
  BY <1>14 DEF recoveryVars
<1>15. QED
  BY <1>2, <1>3, <1>4, <1>5, <1>6, <1>7, <1>8, <1>9, <1>10, <1>11, <1>12, <1>13, <1>14
     DEF RecoveryNext, Poll, User

(***************************************************************************)
(* However many requests, failures and restarts there are, the private key *)
(* of a request whose completion was handled is not in the slot, unless    *)
(* removing a key is what failed (AnchorRecoveryCompletionHandler.cs:282). *)
(***************************************************************************)
THEOREM HandledKeysGone == RecoverySpec => []HandledKeyGone
<1>1. KeyInv => HandledKeyGone
  BY DEF KeyInv
<1>2. QED
  BY <1>1, RecoveryTypeCorrect, InitKeyInv, NextKeyInv, PTL DEF RecoverySpec
=============================================================================
