---------------------------- MODULE RecoveryHost ----------------------------
(***************************************************************************)
(* Social recovery as the Anchor shell hosts it.  The recovering user      *)
(* clicks "initiate" (InitiateRecoveryPage): an ephemeral key is put in a  *)
(* one-slot store and a request naming it goes to the coordinator.  The    *)
(* owner designates trustees and hands each its envelope                   *)
(* (TrusteeSetupService); trustees attest (RecoveryAttestationSubmitter);  *)
(* a quorum starts a grace window; a polling loop                          *)
(* (RecoveryGracePollingService) asks the coordinator whether it elapsed   *)
(* and runs the completion handler (AnchorRecoveryCompletionHandler),      *)
(* which restores the root seed and rotates the key of the team's store.   *)
(*                                                                         *)
(* The coordinator is external and, as MauiProgram binds it, keeps its     *)
(* state in memory: a restart forgets it.  The key slot, the root seed and *)
(* the stores survive.  A key is named by the click that made it; a store  *)
(* key is named by the root seed it is derived from.  "own" is the seed    *)
(* this install was born with, "true" the one the owner's trustees keep.   *)
(***************************************************************************)
EXTENDS Naturals, FiniteSets

CONSTANTS
    Trustees,   \* the nodes the owner may designate
    Rogue,      \* those that attest to whatever they like
    Quorum,     \* RecoveryCoordinatorOptions.QuorumThreshold
    Teams,      \* the teams of the install
    Home,       \* the default team, the one the bootstrap materializes
    MaxClicks,  \* bound on the recovery attempts of the user
    MaxThrown,  \* bound on the calls that throw
    MaxRestarts \* bound on the times the process ends

ASSUME TrusteesAssumption == IsFiniteSet(Trustees) /\ Rogue \subseteq Trustees
ASSUME QuorumAssumption == Quorum \in Nat /\ Cardinality(Rogue) < Quorum
ASSUME HomeAssumption == Home \in Teams
ASSUME BoundsAssumption == MaxClicks \in Nat /\ MaxThrown \in Nat /\ MaxRestarts \in Nat

Click == 1 .. MaxClicks
NoKey == 0
Seeds == {"own", "true", "rogue"}
Envelope == Seeds \cup {"garbled", "malformed"}
Attestation == [trustee : Trustees, key : Click, seed : Envelope]

VARIABLES
    \* the device, across restarts
    slot,         \* the click whose private key is in the key store, or NoKey
    seed,         \* the install's root seed
    teamKey,      \* teamKey[t]: the seed the store of t is keyed with, or "none"
    \* the coordinator, in memory
    status,       \* "none", "pending", "grace", "elapsed", "completed"
    req,          \* the click of the request it holds
    atts,         \* the attestations it has accepted for req
    designated,   \* the trustees it knows
    held,         \* those whose seed envelope it holds
    \* the process
    up,           \* "up" or "down"
    bootSeed,     \* the root seed read when the process was composed
    materialized, \* ITeamContextFactory.Active
    flow,         \* flow[c]: how far the page has come with click c
    \* the polling service and the handler it calls
    mode,         \* "off", "starting" (the poll of StartAsync), "looping", or
                  \* "canceled": ended by an OperationCanceledException
    stopping,     \* "yes" once StopAsync has cancelled the loop's token
    pollPc,       \* "wait", or the next step of the poll
    handed,       \* the attestations handed to the handler
    eph,          \* the private key it has read, or NoKey
    got,          \* the seed it has decided to restore, or "none"
    outcome,      \* "ok", or the exception on its way out: "canceled" for an
                  \* OperationCanceledException, "failed" for any other
    \* bounds and history
    thrown, restarts,
    keyLeft       \* "yes" once the handler has failed to remove a key

device == <<slot, seed, teamKey>>
coordinator == <<status, req, atts, designated, held>>
shell == <<up, bootSeed, materialized, flow>>
handler == <<handed, eph, got, outcome>>
service == <<mode, stopping, pollPc>>
ghost == <<thrown, restarts, keyLeft>>
recoveryVars == <<device, coordinator, shell, handler, service, ghost>>

RecoveryTypeOK ==
    /\ slot \in Click \cup {NoKey}
    /\ seed \in Seeds
    /\ teamKey \in [Teams -> Seeds \cup {"none"}]
    /\ status \in {"none", "pending", "grace", "elapsed", "completed"}
    /\ req \in Click \cup {NoKey}
    /\ status # "none" => req \in Click
    /\ atts \subseteq Attestation
    /\ designated \subseteq Trustees /\ held \subseteq designated
    /\ up \in {"up", "down"}
    /\ bootSeed \in Seeds
    /\ materialized \subseteq Teams
    /\ flow \in [Click -> {"idle", "stored", "rejected", "done"}]
    /\ mode \in {"off", "starting", "looping", "canceled"}
    /\ stopping \in {"yes", "no"}
    /\ pollPc \in {"wait", "evaluate", "get", "decide", "restore", "rotate", "remove"}
    /\ handed \subseteq Attestation
    /\ eph \in Click \cup {NoKey}
    /\ got \in Seeds \cup {"none"}
    /\ pollPc = "decide" => eph # NoKey
    /\ pollPc \in {"restore", "rotate"} => got # "none"
    /\ outcome \in {"ok", "failed", "canceled"}
    /\ thrown \in 0 .. MaxThrown
    /\ restarts \in 0 .. MaxRestarts
    /\ keyLeft \in {"yes", "no"}

RecoveryInit ==
    /\ slot = NoKey
    /\ seed = "own"
    /\ teamKey = [t \in Teams |-> IF t = Home THEN "own" ELSE "none"]
    /\ status = "none" /\ req = NoKey /\ atts = {}
    /\ designated = {} /\ held = {}
    /\ up = "down" /\ bootSeed = "own" /\ materialized = {}
    /\ flow = [c \in Click |-> "idle"]
    /\ mode = "off" /\ stopping = "no" /\ pollPc = "wait"
    /\ handed = {} /\ eph = NoKey /\ got = "none" /\ outcome = "ok"
    /\ thrown = 0 /\ restarts = 0 /\ keyLeft = "no"

Throw == thrown < MaxThrown /\ thrown' = thrown + 1 /\ UNCHANGED <<restarts, keyLeft>>

-----------------------------------------------------------------------------
(***************************************************************************)
(* The page of the recovering user.  The private key is stored before the  *)
(* request is submitted, overwriting whatever the slot holds, and removed  *)
(* if the submission throws.  Leaving the page and coming back makes a     *)
(* second click possible while the first is under way.                     *)
(***************************************************************************)
StoreKey(c) ==
    /\ up = "up" /\ flow[c] = "idle" /\ \A d \in Click : d < c => flow[d] # "idle"
    /\ slot' = c
    /\ flow' = [flow EXCEPT ![c] = "stored"]
    /\ UNCHANGED <<seed, teamKey, coordinator, up, bootSeed, materialized, handler, service, ghost>>

Submit(c) ==
    /\ flow[c] = "stored"
    /\ \/ /\ status \in {"none", "completed"}
          /\ status' = "pending" /\ req' = c /\ atts' = {}
          /\ flow' = [flow EXCEPT ![c] = "done"]
          /\ UNCHANGED ghost
       \/ /\ flow' = [flow EXCEPT ![c] = "rejected"]
          /\ \/ status \notin {"none", "completed"} /\ UNCHANGED ghost
             \/ Throw
          /\ UNCHANGED <<status, req, atts>>
    /\ UNCHANGED <<device, designated, held, up, bootSeed, materialized, handler, service>>

DiscardKey(c) ==
    /\ flow[c] = "rejected"
    /\ flow' = [flow EXCEPT ![c] = "done"]
    /\ \/ slot' = NoKey /\ UNCHANGED ghost
       \/ UNCHANGED slot /\ Throw
    /\ UNCHANGED <<seed, teamKey, coordinator, up, bootSeed, materialized, handler, service>>

-----------------------------------------------------------------------------
(***************************************************************************)
(* The owner designates a trustee, then stores its envelope: two calls,    *)
(* with the second one lost when the first is all that succeeds.           *)
(***************************************************************************)
Designate(t) ==
    /\ up = "up" /\ t \notin designated
    /\ designated' = designated \cup {t}
    /\ UNCHANGED <<device, status, req, atts, held, shell, handler, service, ghost>>

Distribute(t) ==
    /\ t \in designated \ held
    /\ held' = held \cup {t}
    /\ UNCHANGED <<device, status, req, atts, designated, shell, handler, service, ghost>>

(***************************************************************************)
(* What a trustee's attestation carries to the recovering device.  The     *)
(* shell's submitter gives up without an envelope and otherwise re-boxes   *)
(* the owner's seed; a rogue trustee sends anything it can sign.           *)
(***************************************************************************)
CanAttest(t) == IF t \in Rogue THEN Envelope \ {"own"}
                ELSE IF t \in held THEN {"true"} ELSE {}

(***************************************************************************)
(* The coordinator takes one attestation of each designated trustee for    *)
(* the request it holds, and starts the grace window at the quorum.  One   *)
(* signed for another request (a page left open) is dropped.               *)
(***************************************************************************)
Approve(t) ==
    /\ status \in {"pending", "grace"}
    /\ t \in designated /\ \A a \in atts : a.trustee # t
    /\ \E s \in CanAttest(t) : atts' = atts \cup {[trustee |-> t, key |-> req, seed |-> s]}
    /\ status' = IF Cardinality(atts') >= Quorum THEN "grace" ELSE status
    /\ UNCHANGED <<device, req, designated, held, shell, handler, service, ghost>>

GraceElapses ==
    /\ status = "grace"
    /\ status' = "elapsed"
    /\ UNCHANGED <<device, req, atts, designated, held, shell, handler, service, ghost>>

-----------------------------------------------------------------------------
(***************************************************************************)
(* A process starts: the root seed is read once, the bootstrap opens the   *)
(* default team's store with the key derived from it and fails if it is    *)
(* not the store's key, and only then does the polling service start.      *)
(***************************************************************************)
LaunchAgain ==
    /\ up = "down"
    /\ up' = "up" /\ bootSeed' = seed /\ materialized' = {Home}
    /\ \/ teamKey[Home] = seed /\ mode' = "starting" /\ pollPc' = "evaluate"
       \/ teamKey[Home] # seed /\ UNCHANGED <<mode, pollPc>>
    /\ UNCHANGED <<device, coordinator, flow, handler, stopping, ghost>>

(***************************************************************************)
(* Joining another team materializes it, then creates its store with the   *)
(* seed the process was composed with.                                     *)
(***************************************************************************)
Materialize(t) ==
    /\ up = "up" /\ t \notin materialized /\ teamKey[t] = "none"
    /\ materialized' = materialized \cup {t}
    /\ UNCHANGED <<device, coordinator, up, bootSeed, flow, handler, service, ghost>>

Activate(t) ==
    /\ t \in materialized /\ teamKey[t] = "none"
    /\ teamKey' = [teamKey EXCEPT ![t] = bootSeed]
    /\ UNCHANGED <<slot, seed, coordinator, shell, handler, service, ghost>>

NextTick ==
    /\ mode = "looping" /\ stopping = "no" /\ pollPc = "wait"
    /\ pollPc' = "evaluate"
    /\ UNCHANGED <<device, coordinator, shell, handler, mode, stopping, ghost>>

StopAsync ==
    /\ mode = "looping" /\ stopping = "no" /\ restarts < MaxRestarts
    /\ stopping' = "yes" /\ restarts' = restarts + 1
    /\ UNCHANGED <<device, coordinator, shell, handler, mode, pollPc, thrown, keyLeft>>

LoopExits ==
    /\ mode = "looping" /\ stopping = "yes" /\ pollPc = "wait"
    /\ mode' = "off"
    /\ UNCHANGED <<device, coordinator, shell, handler, stopping, pollPc, ghost>>

\* The process ends, after StopAsync or without it; memory is lost.
ProcessEnds ==
    /\ up = "up"
    /\ \/ stopping = "yes" /\ UNCHANGED restarts
       \/ stopping = "no" /\ restarts < MaxRestarts /\ restarts' = restarts + 1
    /\ status' = "none" /\ req' = NoKey /\ atts' = {} /\ designated' = {} /\ held' = {}
    /\ up' = "down" /\ materialized' = {}
    /\ flow' = [c \in Click |-> IF flow[c] = "idle" THEN "idle" ELSE "done"]
    /\ mode' = "off" /\ stopping' = "no" /\ pollPc' = "wait"
    /\ handed' = {} /\ eph' = NoKey /\ got' = "none" /\ outcome' = "ok"
    /\ UNCHANGED <<device, bootSeed, thrown, keyLeft>>

\* A call given the loop's token may throw once the token is cancelled, and at
\* any time for reasons of its own, a timeout's cancellation among them.
Exception == {"failed", "canceled"}
CallThrows == Throw \/ (stopping = "yes" /\ UNCHANGED ghost)

-----------------------------------------------------------------------------
\* A wrong loop that any exception ends.
EndPollForGood(how) ==
    /\ pollPc' = "wait"
    /\ mode' = IF how = "ok" THEN "looping" ELSE IF how = "canceled" THEN "canceled" ELSE "off"
    /\ handed' = {} /\ eph' = NoKey /\ got' = "none" /\ outcome' = "ok"

(***************************************************************************)
(* The poll is over.  StartAsync goes on to the loop, or throws and there  *)
(* is none.  The loop survives an exception, unless it is an               *)
(* OperationCanceledException: it takes that for the stopping token's,     *)
(* whoever threw it, and returns.                                          *)
(***************************************************************************)
EndPoll(how) ==
    /\ pollPc' = "wait"
    /\ mode' = IF mode = "starting" THEN IF how = "ok" THEN "looping" ELSE "off"
               ELSE IF how = "canceled" THEN "canceled" ELSE mode
    /\ handed' = {} /\ eph' = NoKey /\ got' = "none" /\ outcome' = "ok"

(***************************************************************************)
(* PollOnceAsync: the coordinator hands out the completion of a request    *)
(* once its window has elapsed, and may hand out the same one again.       *)
(***************************************************************************)
Evaluate ==
    /\ pollPc = "evaluate"
    /\ \/ /\ status \in {"elapsed", "completed"}
          /\ status' = "completed" /\ handed' = atts /\ pollPc' = "get"
          /\ UNCHANGED <<mode, eph, got, outcome, ghost>>
       \/ status # "elapsed" /\ EndPoll("ok") /\ UNCHANGED <<status, ghost>>
       \/ CallThrows /\ (\E e \in Exception : EndPoll(e)) /\ UNCHANGED status
    /\ UNCHANGED <<device, req, atts, designated, held, shell, stopping>>

\* HandleAsync leaves its try block; the finally block comes next.
Leave(how) == pollPc' = "remove" /\ outcome' = how

GetKey ==
    /\ pollPc = "get"
    /\ \/ /\ stopping = "no" /\ slot # NoKey
          /\ eph' = slot /\ pollPc' = "decide"
          /\ UNCHANGED <<outcome, ghost>>
       \/ stopping = "no" /\ slot = NoKey /\ Leave("ok") /\ UNCHANGED <<eph, ghost>>
       \/ CallThrows /\ (\E e \in Exception : Leave(e)) /\ UNCHANGED eph
    /\ UNCHANGED <<device, coordinator, shell, mode, stopping, handed, got>>

\* The attestations whose envelope opens with the ephemeral private key.
Decrypted == {a \in handed : a.key = eph /\ a.seed \in Seeds}

\* A wrong handler that counts attestations and compares nothing.
SeedOffersUnchecked == IF Cardinality(handed) >= Quorum THEN {a.seed : a \in Decrypted} ELSE {}

(***************************************************************************)
(* The seeds the handler may restore: none if an envelope is malformed, if *)
(* fewer than the quorum open, or if those that open disagree.             *)
(***************************************************************************)
SeedOffers ==
    IF /\ \A a \in handed : a.seed # "malformed"
       /\ Cardinality(Decrypted) >= Quorum
       /\ \A a, b \in Decrypted : a.seed = b.seed
    THEN {a.seed : a \in Decrypted} ELSE {}

Decide ==
    /\ pollPc = "decide"
    /\ \/ /\ Cardinality(materialized) <= 1
          /\ got' \in SeedOffers
          /\ pollPc' = "restore"
          /\ UNCHANGED outcome
       \/ /\ SeedOffers = {} \/ Cardinality(materialized) > 1
          /\ Leave("ok")
          /\ UNCHANGED got
    /\ UNCHANGED <<device, coordinator, shell, mode, stopping, handed, eph, ghost>>

\* A wrong handler that rotates the store before it restores the seed.
RestoreAfterRotate ==
    /\ pollPc = "restore"
    /\ \/ /\ pollPc' = "rotate"
          /\ teamKey' = [teamKey EXCEPT ![Home] = got]
          /\ UNCHANGED <<outcome, ghost>>
       \/ CallThrows /\ (\E e \in Exception : Leave(e)) /\ UNCHANGED teamKey
    /\ UNCHANGED <<slot, seed, coordinator, shell, mode, stopping, handed, eph, got>>

Restore ==
    /\ pollPc = "restore"
    /\ \/ /\ seed' = got
          /\ pollPc' = "rotate"
          /\ UNCHANGED <<outcome, ghost>>
       \/ CallThrows /\ (\E e \in Exception : Leave(e)) /\ UNCHANGED seed
    /\ UNCHANGED <<slot, teamKey, coordinator, shell, mode, stopping, handed, eph, got>>

Rotate ==
    /\ pollPc = "rotate"
    /\ \/ /\ teamKey' = [teamKey EXCEPT ![Home] = got]
          /\ Leave("ok")
          /\ UNCHANGED ghost
       \/ CallThrows /\ (\E e \in Exception : Leave(e)) /\ UNCHANGED teamKey
    /\ UNCHANGED <<slot, seed, coordinator, shell, mode, stopping, handed, eph, got>>

\* A wrong finally block that removes the key only after a success.
RemoveKeyOnSuccess ==
    /\ pollPc = "remove"
    /\ slot' = IF outcome = "ok" THEN NoKey ELSE slot
    /\ EndPoll(outcome)
    /\ UNCHANGED <<seed, teamKey, coordinator, shell, stopping, ghost>>

(***************************************************************************)
(* The finally block: the key is removed on every path out of the handler, *)
(* unless the removal throws, which it does under a cancelled token; that  *)
(* is swallowed, while the exception in flight, if any, goes on.           *)
(***************************************************************************)
RemoveKey ==
    /\ pollPc = "remove"
    /\ \/ stopping = "no" /\ slot' = NoKey /\ UNCHANGED ghost
       \/ /\ UNCHANGED <<slot, restarts>>
          /\ keyLeft' = "yes"
          /\ \/ stopping = "yes" /\ UNCHANGED thrown
             \/ thrown < MaxThrown /\ thrown' = thrown + 1
    /\ EndPoll(outcome)
    /\ UNCHANGED <<seed, teamKey, coordinator, shell, stopping>>

-----------------------------------------------------------------------------
Poll ==
    \/ NextTick \/ LoopExits \/ Evaluate \/ GetKey \/ Decide \/ Restore \/ Rotate
    \/ RemoveKey

User ==
    \/ \E c \in Click : StoreKey(c) \/ Submit(c) \/ DiscardKey(c)
    \/ \E t \in Trustees : Designate(t) \/ Distribute(t) \/ Approve(t)
    \/ \E t \in Teams : Materialize(t) \/ Activate(t)

RecoveryNext == Poll \/ User \/ GraceElapses \/ LaunchAgain \/ StopAsync \/ ProcessEnds

RecoverySpec == RecoveryInit /\ [][RecoveryNext]_recoveryVars

(***************************************************************************)
(* The polling loop runs as long as the process does, a process that was   *)
(* told to stop ends, and the user starts the application again.  Nobody   *)
(* has to click or attest, and time may stand still.                       *)
(***************************************************************************)
RecoveryFairSpec ==
    RecoverySpec /\ WF_recoveryVars(Poll) /\ WF_recoveryVars(LaunchAgain) /\ WF_recoveryVars(stopping = "yes" /\ ProcessEnds)

-----------------------------------------------------------------------------
(***************************************************************************)
(* Fewer rogue trustees than the quorum never get a seed of theirs         *)
(* restored, nor a store keyed with one, whatever they sign and however    *)
(* the attestations of several requests are mixed.                         *)
(***************************************************************************)
NoRogueSeed == seed # "rogue" /\ \A t \in Teams : teamKey[t] # "rogue"

(***************************************************************************)
(* The default team's store is never keyed ahead of the root seed: were    *)
(* the process to die at any point, the seed on the device or, before the  *)
(* rotation, the one it replaced still derives the store's key.            *)
(***************************************************************************)
StoreNeverAheadOfSeed == teamKey[Home] # "own" => seed = teamKey[Home]

(***************************************************************************)
(* "The recovery flow is single-use; the ephemeral key must not survive    *)
(* past this handler call": once the completion of a request has been      *)
(* handled, its private key is gone, also when the handler aborted or      *)
(* threw, unless removing it is what failed.                               *)
(***************************************************************************)
HandledKeyGone ==
    status = "completed" /\ pollPc \in {"wait", "evaluate"} /\ keyLeft = "no" => slot # req

(***************************************************************************)
(* "Recovery grace poll failed; will retry on the next tick": a grace      *)
(* window that has elapsed is picked up, through whatever the coordinator  *)
(* or the handler throws, unless the process goes first (the coordinator   *)
(* then forgets it), is told to stop, or one of the two has thrown an      *)
(* OperationCanceledException, which ends the loop with nobody stopping.   *)
(***************************************************************************)
ElapsedIsHandled ==
    status = "elapsed" /\ mode = "looping"
        ~> status # "elapsed" \/ stopping = "yes" \/ mode = "canceled"

(***************************************************************************)
(* "Multiple concurrent recoveries are not supported -- the coordinator    *)
(* rejects a second InitiateRecoveryAsync while one is in flight", and the *)
(* page stores the key first "so the completion handler can read it back": *)
(* whenever no click is being processed, the key of the request in flight  *)
(* is in the slot.                                                         *)
(***************************************************************************)
PendingRequestKeepsKey ==
    /\ status \in {"pending", "grace", "elapsed"}
    /\ \A c \in Click : flow[c] \in {"idle", "done"}
    => slot = req

(***************************************************************************)
(* "Rotation failure leaves a recoverable state -- the next launch can     *)
(* rederive the same key from the restored seed and retry rotation": an    *)
(* install that is down with the store not yet keyed with the restored     *)
(* seed is launched again and ends up with the two in agreement.           *)
(***************************************************************************)
RotationRetried == up = "down" /\ teamKey[Home] # seed ~> teamKey[Home] = seed

(***************************************************************************)
(* "Detects multi-team installs and refuses to rekey": the handler does    *)
(* not decide to restore a seed while another team of the install has a    *)
(* store, which the restored seed could not open.                          *)
(***************************************************************************)
MultiTeamRekeyRefused ==
    [][pollPc = "decide" /\ pollPc' = "restore" => \A t \in Teams \ {Home} : teamKey[t] = "none"]_recoveryVars

=============================================================================
