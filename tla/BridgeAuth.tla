----------------------------- MODULE BridgeAuth -----------------------------
(***************************************************************************)
(* How the desktop shell keeps the token it talks to the Bridge with: the  *)
(* key of the vault, derived from the operating system's keychain when the *)
(* process starts (lib.rs); the vault, a Stronghold snapshot, opened once  *)
(* per web view (services/credentialStore.ts); the token the process uses  *)
(* (commands/auth.rs) and the one the web view shows (stores/authStore);   *)
(* and the three flows that write them: restoring the stored token when    *)
(* the application starts, connecting (pages/ConnectBridgePage.tsx) and    *)
(* disconnecting (app.tsx), each a chain of asynchronous calls that        *)
(* nothing keeps from running over another.                                *)
(***************************************************************************)
EXTENDS Naturals, FiniteSets

CONSTANTS
    Tokens,
    Accepted,    \* those the Bridge accepts
    EnvTokens,   \* what BRIDGE_TOKEN may hold
    Submits,     \* the submissions of the connect page that may be under way at once
    MaxSubmits,  \* bound on the submissions
    MaxKeys,     \* bound on the keys generated
    MaxFaults,   \* bound on failures of the keychain, the vault and the process
    MaxStarts    \* bound on the starts of the process

NoToken == "no token"
Sentinel == 0    \* the vault's key when none was derived

ASSUME TokensAssumption == Accepted \subseteq Tokens /\ EnvTokens \subseteq Tokens /\ NoToken \notin Tokens
ASSUME SubmitsAssumption == {"restore", "disconnect"} \cap Submits = {}
ASSUME BoundsAssumption == {MaxSubmits, MaxKeys, MaxFaults, MaxStarts} \subseteq Nat

VARIABLES
    \* what outlives the process
    keychain,    \* the key it holds, 0 for none
    snapshot,    \* the file of the vault: no file, or the key it is encrypted with and its token
    \* the process
    running,     \* "yes" or "no"
    held,        \* the key derived, or Sentinel: keychain_status reports an error
    opened,      \* "yes" or "no": the vault is open
    store,       \* the token in the vault in memory
    rust,        \* the token of commands/auth.rs
    auth,        \* the token of the web view
    flow,        \* how far each flow is, and its token
    \* history and bounds
    slips,       \* what happened in this process: flows overlapped ("overlap"), the vault
                 \* failed ("vault"), a token was not taken over ("set") or came with the
                 \* environment ("env")
    rekeyed,     \* "yes": the keychain could not be read and its key was replaced
    wish,        \* the token the user last connected with, NoToken after disconnecting
    sure,        \* "no": whether that was stored is uncertain
    submits,
    faults,
    starts

Flows == {"restore", "disconnect"} \cup Submits
NoFile == [key |-> Sentinel, token |-> NoToken, file |-> "absent"]
Idle == [at |-> "idle", token |-> NoToken]

disk == <<keychain, snapshot>>
tokens == <<store, rust, auth>>
history == <<slips, rekeyed, wish, sure>>
bounds == <<submits, faults, starts>>
vars == <<disk, running, held, opened, tokens, flow, history, bounds>>

AnyToken == Tokens \cup {NoToken}

TypeOK ==
    /\ keychain \in 0 .. MaxKeys /\ held \in 0 .. MaxKeys
    /\ snapshot \in [key : 0 .. MaxKeys, token : AnyToken, file : {"absent", "present"}]
    /\ running \in {"yes", "no"} /\ opened \in {"yes", "no"}
    /\ {store, rust, auth, wish} \subseteq AnyToken
    /\ flow \in [Flows -> [at : {"idle", "probe", "loading", "read", "write", "save", "set", "show"},
                           token : AnyToken]]
    /\ running = "no" => \A f \in Flows : flow[f] = Idle
    /\ \A f \in Flows : flow[f].at \in {"write", "save"} => opened = "yes" /\ f # "restore"
    /\ slips \subseteq {"overlap", "vault", "set", "env"}
    /\ rekeyed \in {"yes", "no"} /\ sure \in {"yes", "no"}
    /\ submits \in 0 .. MaxSubmits /\ faults \in 0 .. MaxFaults /\ starts \in 0 .. MaxStarts

Fault == faults < MaxFaults /\ faults' = faults + 1
Busy(f) == flow[f].at # "idle"
Quiet == running = "yes" /\ \A f \in Flows : ~Busy(f)
Goto(f, step) == flow' = [flow EXCEPT ![f] = [at |-> step, token |-> flow[f].token]]
End(f) == flow' = [flow EXCEPT ![f] = Idle]
NoSlip == UNCHANGED history
Note(s) == slips' = slips \cup {s} /\ UNCHANGED <<rekeyed, wish, sure>>
Slip(s) == slips' = slips \cup {s} /\ sure' = "no" /\ UNCHANGED <<rekeyed, wish>>

-----------------------------------------------------------------------------
(***************************************************************************)
(* The process.                                                            *)
(***************************************************************************)
\* A wrong derivation: a key the keychain did not take is used.
DeriveAnyway ==
    \/ /\ keychain # 0
       /\ held' = keychain /\ UNCHANGED <<keychain, rekeyed, faults>>
    \/ \E key \in 1 .. MaxKeys :
         /\ key > keychain /\ (keychain # 0 => Fault)
         /\ held' = key
         /\ \/ keychain' = key /\ rekeyed' = (IF keychain # 0 THEN "yes" ELSE rekeyed)
            \/ UNCHANGED <<keychain, rekeyed>>
         /\ keychain = 0 => UNCHANGED faults

(***************************************************************************)
(* derive_stronghold_master_key.  Whatever keeps the key from being read   *)
(* is taken for a first launch: a new key takes its place, if the keychain *)
(* takes it.                                                               *)
(***************************************************************************)
Derive ==
    \/ /\ keychain # 0
       /\ held' = keychain /\ UNCHANGED <<keychain, rekeyed, faults>>
    \/ \E key \in 1 .. MaxKeys :
         /\ key = keychain + 1 /\ (keychain # 0 => Fault)
         /\ keychain' = key /\ held' = key
         /\ rekeyed' = IF keychain # 0 THEN "yes" ELSE rekeyed
         /\ keychain = 0 => UNCHANGED faults
    \/ Fault /\ held' = Sentinel /\ UNCHANGED <<keychain, rekeyed>>

\* The stored token starts being restored.
Start ==
    /\ running = "no" /\ starts < MaxStarts /\ starts' = starts + 1
    /\ running' = "yes" /\ Derive
    /\ opened' = "no" /\ store' = NoToken /\ auth' = NoToken
    /\ rust' \in EnvTokens \cup {NoToken}
    /\ slips' = IF rust' # NoToken THEN {"env"} ELSE {}
    /\ Goto("restore", "loading")
    /\ UNCHANGED <<snapshot, wish, sure, submits>>

\* It ends, wherever the flows are.
Stop ==
    /\ running = "yes" /\ running' = "no"
    /\ flow' = [f \in Flows |-> Idle]
    /\ sure' = IF \E f \in Flows \ {"restore"} : Busy(f) THEN "no" ELSE sure
    /\ UNCHANGED <<disk, held, opened, tokens, slips, rekeyed, wish, bounds>>

-----------------------------------------------------------------------------
(***************************************************************************)
(* How the flows begin.                                                    *)
(***************************************************************************)
Overlaps == IF \E f \in Flows : Busy(f) THEN Slip("overlap") ELSE NoSlip

OpenThen(step) == IF opened = "yes" THEN step ELSE "loading"

\* A wrong page: it does not ask for the state of the keychain.
SubmitUnchecked(f, t) ==
    /\ running = "yes" /\ ~Busy(f) /\ submits < MaxSubmits /\ submits' = submits + 1
    /\ flow' = [flow EXCEPT ![f] = [at |-> "probe", token |-> t]]
    /\ Overlaps
    /\ UNCHANGED <<disk, running, held, opened, tokens, faults, starts>>

\* A page left while its submission is under way does not stop it, and may be opened again.
Submit(f, t) ==
    /\ running = "yes" /\ ~Busy(f) /\ submits < MaxSubmits /\ submits' = submits + 1
    /\ held # Sentinel
    /\ flow' = [flow EXCEPT ![f] = [at |-> "probe", token |-> t]]
    /\ Overlaps
    /\ UNCHANGED <<disk, running, held, opened, tokens, faults, starts>>

\* The Bridge is asked about the token before it is stored.
Probe(f) ==
    /\ flow[f].at = "probe"
    /\ \/ flow[f].token \in Accepted /\ Goto(f, OpenThen("write"))
       \/ End(f)                                   \* refused, or not reached
    /\ NoSlip /\ UNCHANGED <<disk, running, held, opened, tokens, bounds>>

\* The button is there while a token is shown.
Disconnect ==
    /\ running = "yes" /\ auth # NoToken /\ ~Busy("disconnect")
    /\ flow' = [flow EXCEPT !["disconnect"] = [at |-> OpenThen("write"), token |-> NoToken]]
    /\ Overlaps
    /\ UNCHANGED <<disk, running, held, opened, tokens, bounds>>

-----------------------------------------------------------------------------
(***************************************************************************)
(* The vault.                                                              *)
(***************************************************************************)
Readable == snapshot.file = "absent" \/ snapshot.key = held
Stored == IF snapshot.file = "present" THEN snapshot.token ELSE NoToken

\* Every call that does not find the vault open opens it, and it has what the file has.
Load(f) ==
    /\ flow[f].at = "loading"
    /\ \/ /\ Readable
          /\ opened' = "yes" /\ store' = Stored
          /\ Goto(f, IF f = "restore" THEN "read" ELSE "write")
          /\ NoSlip /\ UNCHANGED faults
       \/ /\ \/ ~Readable /\ NoSlip /\ UNCHANGED faults
             \/ Fault /\ IF f = "disconnect" THEN Slip("vault") ELSE Note("vault")
          /\ UNCHANGED <<opened, store>>
          /\ IF f = "disconnect" THEN Goto(f, "show") ELSE End(f)
    /\ UNCHANGED <<disk, running, held, rust, auth, submits, starts>>

\* A wrong start: what was read is dropped.
ReadDropped ==
    /\ flow["restore"].at = "read"
    /\ End("restore")
    /\ NoSlip /\ UNCHANGED <<disk, running, held, opened, tokens, bounds>>

\* A token that cannot be read is taken for none.
Read ==
    /\ flow["restore"].at = "read"
    /\ \/ store = NoToken /\ End("restore") /\ NoSlip /\ UNCHANGED faults
       \/ /\ store # NoToken
          /\ flow' = [flow EXCEPT !["restore"] = [at |-> "set", token |-> store]]
          /\ NoSlip /\ UNCHANGED faults
       \/ Fault /\ Note("vault") /\ End("restore")
    /\ UNCHANGED <<disk, running, held, opened, tokens, submits, starts>>

\* A wrong store: it puts the token in the vault in memory alone.
WriteUnsaved(f) ==
    /\ flow[f].at = "write"
    /\ store' = flow[f].token /\ Goto(f, "set")
    /\ NoSlip /\ UNCHANGED <<disk, running, held, opened, rust, auth, bounds>>

(***************************************************************************)
(* The token is put in the vault, or that fails and so does connecting.    *)
(* clearToken takes it out, and whatever goes wrong with that is taken for *)
(* the token having been absent: nothing is saved and disconnecting goes   *)
(* on as if it had been.                                                   *)
(***************************************************************************)
Write(f) ==
    /\ flow[f].at = "write"
    /\ \/ store' = flow[f].token /\ Goto(f, "save") /\ NoSlip /\ UNCHANGED faults
       \/ f # "disconnect" /\ Fault /\ NoSlip /\ End(f) /\ UNCHANGED store
       \/ /\ f = "disconnect" /\ Goto(f, "set") /\ UNCHANGED store
          /\ \/ store = NoToken /\ NoSlip /\ UNCHANGED faults
             \/ Fault /\ Slip("vault")
    /\ UNCHANGED <<disk, running, held, opened, rust, auth, submits, starts>>

\* What the vault has by now is saved, or that fails: connecting ends there, disconnecting goes
\* on to show itself disconnected.
Save(f) ==
    /\ flow[f].at = "save"
    /\ \/ /\ snapshot' = [key |-> held, token |-> store, file |-> "present"]
          /\ Goto(f, "set") /\ NoSlip /\ UNCHANGED faults
       \/ /\ Fault /\ Slip("vault") /\ UNCHANGED snapshot
          /\ IF f = "disconnect" THEN Goto(f, "show") ELSE End(f)
    /\ UNCHANGED <<keychain, running, held, opened, tokens, submits, starts>>

-----------------------------------------------------------------------------
\* A wrong flow: the process keeps the token it has.
SetNothing(f) ==
    /\ flow[f].at = "set"
    /\ Goto(f, "show")
    /\ NoSlip /\ UNCHANGED <<disk, running, held, opened, tokens, bounds>>

\* set_bridge_token.  Its failure ends connecting, with the token stored, and is swallowed by the
\* other two.
Set(f) ==
    /\ flow[f].at = "set"
    /\ \/ rust' = flow[f].token /\ Goto(f, "show") /\ NoSlip /\ UNCHANGED faults
       \/ /\ Fault /\ UNCHANGED rust
          /\ \/ f \in Submits /\ Slip("set") /\ End(f)
             \/ f \notin Submits /\ Note("set") /\ Goto(f, "show")
    /\ UNCHANGED <<disk, running, held, opened, store, auth, submits, starts>>

\* setToken of the web view: the flow has ended.
Show(f) ==
    /\ flow[f].at = "show"
    /\ auth' = flow[f].token /\ End(f)
    /\ IF f = "restore" THEN NoSlip
       ELSE /\ wish' = flow[f].token
            /\ sure' = (IF slips \cap {"overlap", "vault"} = {} THEN "yes" ELSE sure)
            /\ UNCHANGED <<slips, rekeyed>>
    /\ UNCHANGED <<disk, running, held, opened, store, rust, bounds>>

-----------------------------------------------------------------------------
Init ==
    /\ keychain = 0 /\ snapshot = NoFile
    /\ running = "no" /\ held = Sentinel /\ opened = "no"
    /\ store = NoToken /\ rust = NoToken /\ auth = NoToken
    /\ flow = [f \in Flows |-> Idle]
    /\ slips = {} /\ rekeyed = "no" /\ wish = NoToken /\ sure = "yes"
    /\ submits = 0 /\ faults = 0 /\ starts = 0

Step(f) == Load(f) \/ Write(f) \/ Save(f) \/ Set(f) \/ Show(f) \/ (f = "restore" /\ Read)

Next ==
    \/ Start \/ Stop \/ Disconnect
    \/ \E f \in Submits, t \in Tokens : Submit(f, t)
    \/ \E f \in Submits : Probe(f)
    \/ \E f \in Flows : Step(f)

\* Every call is answered, in the web view and in the process.
Spec == Init /\ [][Next]_vars /\ \A f \in Flows : WF_vars(Step(f))

-----------------------------------------------------------------------------
\* The vault is never encrypted with the sentinel: nothing is stored while the keychain is not
\* to be had (ConnectBridgePage.tsx:37).
NeverSentinel == snapshot.file = "present" => snapshot.key # Sentinel

(***************************************************************************)
(* The vault can be opened by every process that has a key, unless the     *)
(* keychain once failed to give its key and was given another (lib.rs:59): *)
(* a key the keychain did not keep has encrypted nothing.                  *)
(***************************************************************************)
VaultOpens == snapshot.file = "present" /\ held # Sentinel /\ rekeyed = "no" => snapshot.key = held

\* The vault is encrypted with a key that a later process will have.
VaultSound == NeverSentinel /\ VaultOpens

\* A token the Bridge did not accept is not stored, used or shown, but for that of BRIDGE_TOKEN
\* (ConnectBridgePage.tsx:65).
OnlyAccepted ==
    /\ {Stored, store, auth} \subseteq Accepted \cup {NoToken}
    /\ "env" \notin slips => rust \in Accepted \cup {NoToken}

(***************************************************************************)
(* Once no flow is under way, the token that is stored, the one the        *)
(* process uses and the one the web view shows are the same, unless in     *)
(* this process two flows overlapped, a call of the vault failed (that to  *)
(* remove a token says so to nobody, credentialStore.ts:83), the process   *)
(* did not take the token over (app.tsx:107, :248), or the token came from *)
(* BRIDGE_TOKEN.  A restart makes them agree again.                        *)
(***************************************************************************)
Agreed == Quiet /\ slips = {} /\ Readable => Stored = rust /\ rust = auth

\* What the user did last stands across restarts: a token disconnected from does not come back
\* and one connected with does, as far as the vault can be read, unless flows overlapped, the
\* vault failed or the process ended while it was done, or connecting failed after the token had
\* been stored; and unless the vault failed in this process.
WishKept == Quiet /\ sure = "yes" /\ slips \subseteq {"env", "set"} /\ Readable => auth = wish

\* A token that is stored and can be read is shown in the end (app.tsx:246), unless the process
\* ends, the vault fails, or the user connects or disconnects meanwhile.
Restored ==
    \A t \in Tokens :
        flow["restore"].at = "loading" /\ Readable /\ Stored = t
            ~> auth = t \/ running = "no" \/ slips \cap {"overlap", "vault"} # {}
=============================================================================
