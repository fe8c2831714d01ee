-------------------------- MODULE BridgeAuthProofs --------------------------
(***************************************************************************)
(* Proofs about BridgeAuth, for all tokens, any number of submissions at   *)
(* once, and every number of faults, keys and starts.                      *)
(***************************************************************************)
EXTENDS BridgeAuth, TLAPS

(***************************************************************************)
(* Without a key nothing but the restoring of an absent token is under     *)
(* way; and while the keychain has kept its key, the vault and the process *)
(* have that one.                                                          *)
(***************************************************************************)
KeyKept ==
    rekeyed = "no" => /\ snapshot.file = "present" => snapshot.key = keychain
                      /\ held # Sentinel => held = keychain

NoKeyNoToken ==
    held = Sentinel =>
        /\ store = NoToken /\ auth = NoToken
        /\ \A f \in Flows : f # "restore" => flow[f].at = "idle"
        /\ flow["restore"].at \in {"idle", "loading", "read"}

\* What a flow carries once the Bridge has been asked.
FlowTokens ==
    \A f \in Flows :
        /\ (f \in Submits /\ flow[f].at = "probe") \/ flow[f].token \in Accepted \cup {NoToken}
        /\ f = "disconnect" => flow[f].token = NoToken

(***************************************************************************)
(* One flow at a time, as long as none has overlapped, and how far it has  *)
(* come.  That the vault and its file have the same token is known even    *)
(* after a call of the vault failed, as long as what the user did is sure; *)
(* what the process and the web view have is known of fewer runs.          *)
(***************************************************************************)
OneFlow ==
    "overlap" \notin slips =>
        \A f, g \in Flows : flow[f].at # "idle" /\ flow[g].at # "idle" => f = g

OpenIsReadable ==
    /\ running = "yes" /\ opened = "yes" => Readable
    /\ auth # NoToken => opened = "yes"
    /\ flow["disconnect"].at # "loading"
    /\ \A f \in Flows : flow[f].at \in {"read", "write", "save", "set", "show"} => opened = "yes"

Same(t) ==
    /\ slips = {} => rust = t
    /\ slips = {} \/ (sure = "yes" /\ "vault" \notin slips) => auth = t
InStep == Same(Stored) /\ (opened = "yes" => store = Stored)

Progress(f) ==
    /\ flow[f].at = "loading" => opened = "no"
    /\ f = "restore" /\ flow[f].at = "loading" => Same(NoToken)
    /\ flow[f].at = "read" => store = Stored /\ Same(NoToken)
    /\ f # "restore" /\ flow[f].at \in {"probe", "loading", "write"} => InStep
    /\ flow[f].at = "save" => store = flow[f].token /\ Same(Stored)
    /\ flow[f].at = "set" => store = flow[f].token /\ Stored = flow[f].token
    /\ flow[f].at = "show" =>
         /\ store = flow[f].token /\ Stored = flow[f].token
         /\ slips = {} => rust = flow[f].token

Ideal == running = "yes" /\ "overlap" \notin slips /\ (sure = "yes" \/ "vault" \notin slips) /\ Readable
Progressing ==
    Ideal => /\ \A f \in Flows : flow[f].at # "idle" => Progress(f)
             /\ Quiet => InStep

\* What the user did last is in the file, or on its way there.
Wished ==
    sure = "yes" =>
        /\ "overlap" \notin slips \/ running = "no"
        /\ \A f \in Flows : f # "restore" /\ flow[f].at \in {"set", "show"} => Stored = flow[f].token
        /\ (\A f \in Flows : f # "restore" => flow[f].at \notin {"set", "show"}) => Stored = wish

Kept == OneFlow /\ OpenIsReadable /\ Progressing /\ Wished

IInv == TypeOK /\ KeyKept /\ NoKeyNoToken /\ NeverSentinel /\ FlowTokens /\ OnlyAccepted /\ Kept

-----------------------------------------------------------------------------
Steps == {"idle", "probe", "loading", "read", "write", "save", "set", "show"}
FlowType == [Flows -> [at : Steps, token : AnyToken]]

LEMMA IdleType == Idle \in [at : Steps, token : AnyToken] /\ Idle.at = "idle" /\ Idle.token = NoToken
  BY DEF Idle, Steps, AnyToken

\* A flow that goes on keeps its token, and the others stay where they are.
LEMMA GotoFlow ==
  ASSUME NEW f \in Flows, NEW step \in Steps, flow \in FlowType, Goto(f, step)
  PROVE  /\ flow' \in FlowType
         /\ \A g \in Flows : flow'[g].token = flow[g].token
         /\ \A g \in Flows : g # f => flow'[g] = flow[g]
         /\ flow'[f].at = step
  BY DEF Goto, FlowType

\* A flow that ends is idle, and the others stay where they are.
LEMMA EndFlow ==
  ASSUME NEW f \in Flows, flow \in FlowType, End(f)
  PROVE  /\ flow' \in FlowType
         /\ \A g \in Flows : g # f => flow'[g] = flow[g]
         /\ flow'[f] = Idle
  BY IdleType DEF End, FlowType

LEMMA InitIInv == Init => IInv
<1> SUFFICES ASSUME Init PROVE IInv
  OBVIOUS
<1> USE TokensAssumption, SubmitsAssumption, BoundsAssumption, IdleType DEF Init, AnyToken, Steps
<1>1. flow = [f \in Flows |-> Idle] /\ \A f \in Flows : flow[f] = Idle
  OBVIOUS
<1>2. TypeOK
  <2>1. flow \in FlowType
    BY <1>1 DEF FlowType
  <2>2. QED
    BY <1>1, <2>1 DEF TypeOK, FlowType, NoFile, Sentinel
<1>3. KeyKept /\ NeverSentinel /\ OnlyAccepted
  BY DEF KeyKept, NeverSentinel, OnlyAccepted, Stored, NoFile, Sentinel
<1>4. NoKeyNoToken /\ FlowTokens
  BY <1>1 DEF NoKeyNoToken, FlowTokens, Flows
<1>5. Kept
  BY <1>1 DEF Kept, OneFlow, OpenIsReadable, Progressing, Ideal, Wished, Flows, Stored, NoFile
<1>6. QED
  BY <1>2, <1>3, <1>4, <1>5 DEF IInv

\* The types of what an action does not change.
LEMMA Typed ==
  ASSUME TypeOK
  PROVE  /\ flow \in FlowType /\ keychain \in 0 .. MaxKeys /\ held \in 0 .. MaxKeys
         /\ "restore" \in Flows /\ "disconnect" \in Flows /\ "restore" \notin Submits
         /\ "disconnect" \notin Submits /\ MaxKeys \in Nat
         /\ \A f \in Flows : flow[f].at \in Steps /\ flow[f].token \in AnyToken
BY SubmitsAssumption, BoundsAssumption DEF TypeOK, FlowType, Steps, Flows

-----------------------------------------------------------------------------
LEMMA StopIInv == IInv /\ Stop => IInv'
<1> SUFFICES ASSUME IInv, Stop PROVE IInv'
  OBVIOUS
<1> USE Typed, IdleType DEF IInv, Stop, disk, tokens, bounds
<1>1. /\ \A f \in Flows : flow'[f] = Idle
      /\ flow' \in FlowType
  BY DEF FlowType
<1>2. TypeOK'
  BY <1>1 DEF TypeOK, FlowType, Steps
<1>3. (KeyKept /\ NoKeyNoToken /\ NeverSentinel /\ FlowTokens /\ OnlyAccepted)'
  BY <1>1 DEF KeyKept, NoKeyNoToken, NeverSentinel, FlowTokens, OnlyAccepted, Stored
<1>4. (OneFlow /\ OpenIsReadable /\ Progressing)'
  BY <1>1 DEF Kept, OneFlow, OpenIsReadable, Progressing, Ideal, Quiet
<1>5. Wished'
  BY <1>1 DEF Kept, Wished, Busy, Stored
<1>6. QED
  BY <1>2, <1>3, <1>4, <1>5 DEF Kept

LEMMA StartIInv == IInv /\ Start => IInv'
<1> SUFFICES ASSUME IInv, Start PROVE IInv'
  OBVIOUS
<1> USE Typed, IdleType DEF IInv, Start, Fault
<1>1. /\ \A f \in Flows : flow[f] = Idle
      /\ \A f \in Flows : f # "restore" => flow'[f] = Idle
      /\ flow' \in FlowType
      /\ flow'["restore"].at = "loading" /\ flow'["restore"].token = NoToken
  <2>1. \A f \in Flows : flow[f] = Idle
    BY DEF TypeOK
  <2>2. "loading" \in Steps
    BY DEF Steps
  <2>3. QED
    BY <2>1, <2>2, GotoFlow
<1>2. keychain' \in 0 .. MaxKeys /\ held' \in 0 .. MaxKeys /\ faults' \in 0 .. MaxFaults
      /\ rekeyed' \in {"yes", "no"}
  BY BoundsAssumption DEF Derive, TypeOK, Sentinel
<1>3. TypeOK'
  BY <1>1, <1>2, TokensAssumption, BoundsAssumption DEF TypeOK, FlowType, Steps, AnyToken
<1>4. KeyKept'
  BY <1>2 DEF KeyKept, NeverSentinel, Derive, Sentinel, TypeOK
<1>5. (NoKeyNoToken /\ NeverSentinel /\ FlowTokens /\ OnlyAccepted)'
  BY <1>1 DEF NoKeyNoToken, NeverSentinel, FlowTokens, OnlyAccepted, Stored
<1>6. (OneFlow /\ OpenIsReadable)'
  BY <1>1 DEF OneFlow, OpenIsReadable
<1>7. Progressing'
  BY <1>1 DEF Progressing, Progress, Quiet, Busy, Same
<1>8. Wished'
  BY <1>1 DEF Kept, Wished, Stored
<1>9. QED
  BY <1>3, <1>4, <1>5, <1>6, <1>7, <1>8 DEF Kept

LEMMA SubmitIInv ==
  ASSUME NEW f \in Submits, NEW t \in Tokens, IInv, Submit(f, t)
  PROVE  IInv'
<1> USE Typed, IdleType DEF IInv
<1>1. /\ flow' \in FlowType
      /\ \A g \in Flows : g # f => flow'[g] = flow[g]
      /\ flow'[f].at = "probe" /\ flow'[f].token = t
      /\ f \in Flows /\ f # "restore" /\ f # "disconnect" /\ flow[f].at = "idle"
      /\ running = "yes" /\ held # Sentinel
      /\ UNCHANGED <<keychain, snapshot, running, held, opened, store, rust, auth, rekeyed, wish>>
      /\ submits' \in 0 .. MaxSubmits /\ UNCHANGED <<faults, starts>>
  BY BoundsAssumption DEF Submit, FlowType, Steps, AnyToken, Flows, Busy, disk, tokens, Overlaps,
         Slip, NoSlip, history, TypeOK
<1>2. \/ slips' = slips \cup {"overlap"} /\ sure' = "no"
      \/ slips' = slips /\ sure' = sure /\ \A g \in Flows : flow[g].at = "idle"
  BY DEF Submit, Overlaps, Slip, NoSlip, history, Busy
<1>3. TypeOK'
  <2>1. slips' \subseteq {"overlap", "vault", "set", "env"} /\ sure' \in {"yes", "no"}
    BY <1>2 DEF TypeOK
  <2>2. QED
    BY <1>1, <2>1 DEF TypeOK, FlowType, Steps
<1>4. (KeyKept /\ NeverSentinel)'
  BY <1>1 DEF KeyKept, NeverSentinel
<1>5. NoKeyNoToken'
  BY <1>1 DEF NoKeyNoToken
<1>6. (FlowTokens /\ OnlyAccepted)'
  BY <1>1, <1>2 DEF FlowTokens, OnlyAccepted, Stored
<1>7. OneFlow'
  BY <1>1, <1>2 DEF Kept, OneFlow
<1>8. OpenIsReadable'
  BY <1>1 DEF Kept, OpenIsReadable, Readable
<1>9. Progressing'
  <2>1. CASE slips' = slips \cup {"overlap"}
    BY <2>1 DEF Progressing, Ideal
  <2>2. CASE slips' = slips /\ sure' = sure /\ \A g \in Flows : flow[g].at = "idle"
    <3>1. Ideal => InStep
      BY <1>1, <2>2 DEF Kept, Progressing, Ideal, Quiet, Busy
    <3>2. Ideal' => InStep'
      BY <3>1, <1>1, <2>2 DEF InStep, Same, Stored, Ideal, Readable
    <3>3. \A g \in Flows : flow'[g].at # "idle" => g = f
      BY <1>1, <2>2
    <3>4. InStep' => Progress(f)'
      BY <1>1 DEF Progress
    <3>5. ~Quiet'
      BY <1>1 DEF Quiet, Busy
    <3>6. QED
      BY <3>2, <3>3, <3>4, <3>5 DEF Progressing
  <2>3. QED
    BY <1>2, <2>1, <2>2
<1>10. Wished'
  BY <1>1, <1>2 DEF Kept, Wished, Stored
<1>11. QED
  BY <1>3, <1>4, <1>5, <1>6, <1>7, <1>8, <1>9, <1>10 DEF Kept

LEMMA ProbeIInv ==
  ASSUME NEW f \in Submits, IInv, Probe(f)
  PROVE  IInv'
<1> USE Typed, IdleType DEF IInv
<1>1. /\ flow' \in FlowType
      /\ \A g \in Flows : g # f => flow'[g] = flow[g]
      /\ f \in Flows /\ f # "restore" /\ f # "disconnect" /\ flow[f].at = "probe"
      /\ \/ /\ flow'[f].at = OpenThen("write") /\ flow'[f].token = flow[f].token
            /\ flow[f].token \in Accepted
         \/ flow'[f] = Idle
  <2>1. f \in Flows /\ OpenThen("write") \in Steps
    BY DEF OpenThen, Flows, Steps
  <2>2. QED
    BY <2>1, GotoFlow, EndFlow DEF Flows, Probe
<1>2. /\ UNCHANGED <<keychain, snapshot, running, held, opened, store, rust, auth>>
      /\ UNCHANGED <<slips, rekeyed, wish, sure, submits, faults, starts>>
  BY DEF Probe, disk, tokens, bounds, NoSlip, history
<1>3. \/ flow'[f].at = "write" /\ opened = "yes"
      \/ flow'[f].at = "loading" /\ opened = "no"
      \/ flow'[f] = Idle
  BY <1>1 DEF OpenThen, TypeOK
<1>4. TypeOK'
  BY <1>1, <1>2, <1>3 DEF TypeOK, FlowType, Steps
<1>5. (KeyKept /\ NeverSentinel)'
  BY <1>2 DEF KeyKept, NeverSentinel
<1>6. NoKeyNoToken'
  BY <1>1, <1>2 DEF NoKeyNoToken
<1>7. (FlowTokens /\ OnlyAccepted)'
  BY <1>1, <1>2 DEF FlowTokens, OnlyAccepted, Stored
<1>8. (OneFlow /\ OpenIsReadable)'
  BY <1>1, <1>2, <1>3 DEF Kept, OneFlow, OpenIsReadable, Readable
<1>9. Progressing'
  <2>1. SUFFICES ASSUME Ideal PROVE InStep /\ \A g \in Flows : g # f => flow[g].at = "idle"
    <3>1. (Ideal' <=> Ideal) /\ (InStep => InStep')
      BY <1>2 DEF Ideal, Readable, InStep, Same, Stored
    <3>2. InStep' => (flow'[f].at # "idle" => Progress(f)')
      BY <1>1, <1>2, <1>3 DEF Progress
    <3>3. QED
      BY <1>1, <1>2, <2>1, <3>1, <3>2 DEF Progressing
  <2>2. QED
    BY <1>1, <2>1 DEF Kept, Progressing, Progress, OneFlow, Ideal
<1>10. Wished'
  BY <1>1, <1>2, <1>3 DEF Kept, Wished, Stored
<1>11. QED
  BY <1>4, <1>5, <1>6, <1>7, <1>8, <1>9, <1>10 DEF Kept

LEMMA DisconnectIInv == IInv /\ Disconnect => IInv'
<1> SUFFICES ASSUME IInv, Disconnect PROVE IInv'
  OBVIOUS
<1> USE Typed, IdleType DEF IInv
<1>1. /\ flow' \in FlowType
      /\ \A g \in Flows : g # "disconnect" => flow'[g] = flow[g]
      /\ flow'["disconnect"].at = "write" /\ flow'["disconnect"].token = NoToken
      /\ flow["disconnect"].at = "idle" /\ auth # NoToken /\ opened = "yes" /\ running = "yes"
      /\ UNCHANGED <<keychain, snapshot, running, held, opened, store, rust, auth, rekeyed, wish>>
      /\ UNCHANGED <<submits, faults, starts>>
  BY DEF Disconnect, FlowType, Steps, AnyToken, Busy, OpenThen, Kept, OpenIsReadable, disk, tokens,
         bounds, Overlaps, Slip, NoSlip, history
<1>2. \/ slips' = slips \cup {"overlap"} /\ sure' = "no"
      \/ slips' = slips /\ sure' = sure /\ \A g \in Flows : flow[g].at = "idle"
  BY DEF Disconnect, Overlaps, Slip, NoSlip, history, Busy
<1>3. TypeOK'
  <2>1. slips' \subseteq {"overlap", "vault", "set", "env"} /\ sure' \in {"yes", "no"}
    BY <1>2 DEF TypeOK
  <2>2. QED
    BY <1>1, <2>1 DEF TypeOK, FlowType, Steps
<1>4. (KeyKept /\ NeverSentinel)'
  BY <1>1 DEF KeyKept, NeverSentinel
<1>5. NoKeyNoToken'
  BY <1>1 DEF NoKeyNoToken
<1>6. (FlowTokens /\ OnlyAccepted)'
  BY <1>1, <1>2 DEF FlowTokens, OnlyAccepted, Stored
<1>7. OneFlow'
  BY <1>1, <1>2 DEF Kept, OneFlow
<1>8. OpenIsReadable'
  BY <1>1 DEF Kept, OpenIsReadable, Readable
<1>9. Progressing'
  <2>1. CASE slips' = slips \cup {"overlap"}
    BY <2>1 DEF Progressing, Ideal
  <2>2. CASE slips' = slips /\ sure' = sure /\ \A g \in Flows : flow[g].at = "idle"
    <3>1. Ideal => InStep
      BY <1>1, <2>2 DEF Kept, Progressing, Ideal, Quiet, Busy
    <3>2. Ideal' => InStep'
      BY <3>1, <1>1, <2>2 DEF InStep, Same, Stored, Ideal, Readable
    <3>3. \A f \in Flows : flow'[f].at # "idle" => f = "disconnect"
      BY <1>1, <2>2
    <3>4. InStep' => Progress("disconnect")'
      BY <1>1 DEF Progress
    <3>5. ~Quiet'
      BY <1>1 DEF Quiet, Busy
    <3>6. QED
      BY <3>2, <3>3, <3>4, <3>5 DEF Progressing
  <2>3. QED
    BY <1>2, <2>1, <2>2
<1>10. Wished'
  BY <1>1, <1>2 DEF Kept, Wished, Stored
<1>11. QED
  BY <1>3, <1>4, <1>5, <1>6, <1>7, <1>8, <1>9, <1>10 DEF Kept

-----------------------------------------------------------------------------
\* While no flow has overlapped another, the one that takes a step is the only one.
LEMMA Alone ==
  ASSUME IInv, NEW f \in Flows, flow[f].at # "idle"
  PROVE  /\ running = "yes"
         /\ Ideal => Progress(f) /\ \A g \in Flows : g # f => flow[g].at = "idle"
<1>1. running = "yes"
  BY IdleType DEF IInv, TypeOK
<1>2. QED
  BY <1>1 DEF IInv, Kept, Progressing, Ideal, OneFlow

LEMMA LoadIInv ==
  ASSUME NEW f \in Flows, IInv, Load(f)
  PROVE  IInv'
<1> USE Typed, IdleType DEF IInv
<1>1. /\ flow[f].at = "loading" /\ f # "disconnect"
      /\ UNCHANGED <<keychain, snapshot, running, held, rust, auth>>
      /\ UNCHANGED <<rekeyed, wish, sure, submits, starts>>
      /\ slips' \in {slips, slips \cup {"vault"}} /\ faults' \in 0 .. MaxFaults
  BY BoundsAssumption DEF Load, disk, NoSlip, Note, history, Fault, TypeOK, Kept, OpenIsReadable
<1>2. CASE /\ Readable
           /\ opened' = "yes" /\ store' = Stored
           /\ Goto(f, IF f = "restore" THEN "read" ELSE "write")
           /\ NoSlip /\ UNCHANGED faults
  <2>1. /\ Readable /\ opened' = "yes" /\ store' = Stored /\ slips' = slips
        /\ Goto(f, IF f = "restore" THEN "read" ELSE "write")
    BY <1>2 DEF NoSlip, history
  <2>2. /\ flow' \in FlowType
        /\ \A g \in Flows : g # f => flow'[g] = flow[g]
        /\ flow'[f].at = (IF f = "restore" THEN "read" ELSE "write")
        /\ flow'[f].token = flow[f].token
    BY <2>1, GotoFlow DEF Steps
  <2>3. TypeOK'
    <3>1. Stored \in AnyToken
      BY DEF Stored, TypeOK, AnyToken
    <3>2. running = "yes"
      BY <1>1 DEF TypeOK
    <3>3. QED
      BY <1>1, <2>1, <2>2, <3>1, <3>2 DEF TypeOK, FlowType, Steps
  <2>4. (KeyKept /\ NeverSentinel)'
    BY <1>1 DEF KeyKept, NeverSentinel
  <2>5. NoKeyNoToken'
    BY <1>1, <1>2, <2>1, <2>2 DEF NoKeyNoToken, NeverSentinel, Readable, Stored, TypeOK
  <2>6. (FlowTokens /\ OnlyAccepted)'
    BY <1>1, <2>1, <2>2 DEF FlowTokens, OnlyAccepted, Stored
  <2>7. (OneFlow /\ OpenIsReadable)'
    BY <1>1, <1>2, <2>1, <2>2 DEF Kept, OneFlow, OpenIsReadable, Readable
  <2>8. Progressing'
    <3>1. SUFFICES ASSUME Ideal PROVE Progressing'
      BY <1>1, <2>1 DEF Progressing, Ideal, Readable
    <3>2. Progress(f) /\ \A g \in Flows : g # f => flow[g].at = "idle"
      BY <1>1, <3>1, Alone
    <3>3. Stored' = Stored /\ store' = Stored' /\ slips' = slips
      BY <1>1, <2>1 DEF Stored
    <3>4. f = "restore" => Progress(f)'
      BY <1>1, <2>2, <3>2, <3>3 DEF Progress, Same
    <3>5. f # "restore" => Progress(f)'
      BY <1>1, <2>2, <3>2, <3>3 DEF Progress, InStep, Same
    <3>6. ~Quiet'
      BY <2>2 DEF Quiet, Busy
    <3>7. QED
      BY <2>2, <3>2, <3>4, <3>5, <3>6 DEF Progressing
  <2>9. Wished'
    BY <1>1, <2>1, <2>2 DEF Kept, Wished, Stored
  <2>10. QED
    BY <2>3, <2>4, <2>5, <2>6, <2>7, <2>8, <2>9 DEF Kept
<1>3. CASE /\ \/ ~Readable /\ NoSlip /\ UNCHANGED faults
              \/ Fault /\ IF f = "disconnect" THEN Slip("vault") ELSE Note("vault")
           /\ UNCHANGED <<opened, store>>
           /\ IF f = "disconnect" THEN Goto(f, "show") ELSE End(f)
  <2>1. /\ UNCHANGED <<opened, store>> /\ End(f)
        /\ ~Readable \/ slips' = slips \cup {"vault"}
    BY <1>1, <1>3 DEF Note
  <2>2. /\ flow' \in FlowType
        /\ \A g \in Flows : g # f => flow'[g] = flow[g]
        /\ flow'[f] = Idle
    BY <2>1, EndFlow
  <2>3. TypeOK'
    BY <1>1, <2>1, <2>2 DEF TypeOK, FlowType, Steps
  <2>4. (KeyKept /\ NeverSentinel)'
    BY <1>1 DEF KeyKept, NeverSentinel
  <2>5. NoKeyNoToken'
    BY <1>1, <2>1, <2>2 DEF NoKeyNoToken
  <2>6. (FlowTokens /\ OnlyAccepted)'
    BY <1>1, <2>1, <2>2 DEF FlowTokens, OnlyAccepted, Stored
  <2>7. (OneFlow /\ OpenIsReadable)'
    BY <1>1, <2>1, <2>2 DEF Kept, OneFlow, OpenIsReadable, Readable
  <2>8. Progressing'
    <3>1. SUFFICES ASSUME Ideal, slips' = slips \cup {"vault"} PROVE Progressing'
      BY <1>1, <2>1 DEF Progressing, Ideal, Readable
    <3>2. Progress(f) /\ \A g \in Flows : g # f => flow[g].at = "idle"
      BY <1>1, <3>1, Alone
    <3>3. opened = "no"
      BY <1>1, <3>2 DEF Progress
    <3>4. InStep'
      BY <2>1, <3>1, <3>3 DEF InStep, Same
    <3>5. QED
      BY <2>2, <3>2, <3>4 DEF Progressing
  <2>9. Wished'
    BY <1>1, <2>2 DEF Kept, Wished, Stored
  <2>10. QED
    BY <2>3, <2>4, <2>5, <2>6, <2>7, <2>8, <2>9 DEF Kept
<1>4. QED
  BY <1>2, <1>3 DEF Load

LEMMA ReadIInv == IInv /\ Read => IInv'
<1> SUFFICES ASSUME IInv, Read PROVE IInv'
  OBVIOUS
<1> USE Typed, IdleType DEF IInv
<1>1. /\ flow["restore"].at = "read"
      /\ UNCHANGED <<keychain, snapshot, running, held, opened, store, rust, auth>>
      /\ UNCHANGED <<rekeyed, wish, sure, submits, starts>>
      /\ slips' \in {slips, slips \cup {"vault"}} /\ faults' \in 0 .. MaxFaults
  BY BoundsAssumption DEF Read, disk, tokens, NoSlip, Note, history, Fault, TypeOK
<1>2. /\ flow' \in FlowType
      /\ \A g \in Flows : g # "restore" => flow'[g] = flow[g]
      /\ \/ store = NoToken /\ flow'["restore"] = Idle
         \/ slips' = slips \cup {"vault"} /\ flow'["restore"] = Idle
         \/ store # NoToken /\ flow'["restore"].at = "set" /\ flow'["restore"].token = store
  <2>1. store \in AnyToken
    BY DEF TypeOK
  <2>2. QED
    BY <2>1, EndFlow DEF Read, FlowType, Steps, Note
<1>3. TypeOK'
  BY <1>1, <1>2 DEF TypeOK, FlowType, Steps
<1>4. (KeyKept /\ NeverSentinel)'
  BY <1>1 DEF KeyKept, NeverSentinel
<1>5. NoKeyNoToken'
  BY <1>1, <1>2 DEF NoKeyNoToken
<1>6. (FlowTokens /\ OnlyAccepted)'
  BY <1>1, <1>2 DEF FlowTokens, OnlyAccepted, Stored
<1>7. (OneFlow /\ OpenIsReadable)'
  BY <1>1, <1>2 DEF Kept, OneFlow, OpenIsReadable, Readable
<1>8. Progressing'
  <2>1. SUFFICES ASSUME Ideal PROVE Progressing'
    BY <1>1 DEF Progressing, Ideal, Readable
  <2>2. Progress("restore") /\ \A g \in Flows : g # "restore" => flow[g].at = "idle"
    BY <1>1, <2>1, Alone
  <2>3. store = Stored /\ Same(NoToken) /\ Stored' = Stored
    BY <1>1, <2>2 DEF Progress, Stored
  <2>4. flow'["restore"].at # "idle" => Progress("restore")' /\ ~Quiet'
    BY <1>1, <1>2, <2>3 DEF Progress, Quiet, Busy
  <2>5. flow'["restore"].at = "idle" => InStep'
    BY <1>1, <1>2, <2>3 DEF InStep, Same
  <2>6. QED
    BY <1>2, <2>2, <2>4, <2>5 DEF Progressing, Quiet, Busy
<1>9. Wished'
  BY <1>1, <1>2 DEF Kept, Wished, Stored
<1>10. QED
  BY <1>3, <1>4, <1>5, <1>6, <1>7, <1>8, <1>9 DEF Kept

LEMMA WriteIInv ==
  ASSUME NEW f \in Flows, IInv, Write(f)
  PROVE  IInv'
<1> USE Typed, IdleType DEF IInv
<1>1. /\ flow[f].at = "write" /\ opened = "yes" /\ f # "restore"
      /\ UNCHANGED <<keychain, snapshot, running, held, opened, rust, auth>>
      /\ UNCHANGED <<rekeyed, wish, submits, starts>>
      /\ faults' \in 0 .. MaxFaults
  BY BoundsAssumption DEF Write, TypeOK, disk, NoSlip, Slip, history, Fault
<1>2. /\ flow' \in FlowType
      /\ \A g \in Flows : g # f => flow'[g] = flow[g]
      /\ \/ /\ flow'[f].at = "save" /\ store' = flow[f].token
            /\ flow'[f].token = flow[f].token /\ UNCHANGED <<slips, sure>>
         \/ flow'[f] = Idle /\ UNCHANGED <<store, slips, sure>>
         \/ /\ f = "disconnect" /\ flow'[f].at = "set" /\ store' = store
            /\ flow'[f].token = flow[f].token
            /\ \/ store = NoToken /\ UNCHANGED <<slips, sure>>
               \/ slips' = slips \cup {"vault"} /\ sure' = "no"
  <2>1. {"save", "set"} \subseteq Steps
    BY DEF Steps
  <2>2. QED
    BY <2>1, GotoFlow, EndFlow DEF Write, NoSlip, Slip, history
<1>3. TypeOK'
  <2>1. slips' \subseteq {"overlap", "vault", "set", "env"} /\ sure' \in {"yes", "no"} /\ store' \in AnyToken
    BY <1>2 DEF TypeOK
  <2>2. running = "yes"
    BY <1>1 DEF TypeOK
  <2>3. \A g \in Flows : flow'[g].at \in {"write", "save"} => opened' = "yes" /\ g # "restore"
    BY <1>1, <1>2 DEF TypeOK
  <2>4. QED
    BY <1>1, <1>2, <2>1, <2>2, <2>3 DEF TypeOK, FlowType, Steps
<1>4. (KeyKept /\ NeverSentinel)'
  BY <1>1 DEF KeyKept, NeverSentinel
<1>5. NoKeyNoToken'
  BY <1>1, <1>2 DEF NoKeyNoToken
<1>6. (FlowTokens /\ OnlyAccepted)'
  BY <1>1, <1>2 DEF FlowTokens, OnlyAccepted, Stored
<1>7. (OneFlow /\ OpenIsReadable)'
  BY <1>1, <1>2 DEF Kept, OneFlow, OpenIsReadable, Readable
<1>8. Progressing'
  <2>1. SUFFICES ASSUME Ideal, UNCHANGED <<slips, sure>> PROVE Progressing'
    BY <1>1, <1>2 DEF Progressing, Ideal, Readable
  <2>2. InStep /\ \A g \in Flows : g # f => flow[g].at = "idle"
    BY <1>1, <2>1, Alone DEF Progress
  <2>3. CASE flow'[f] = Idle /\ UNCHANGED store
    <3>1. InStep'
      BY <1>1, <2>1, <2>2, <2>3 DEF InStep, Same, Stored
    <3>2. QED
      BY <1>2, <2>2, <2>3, <3>1 DEF Progressing
  <2>4. CASE flow'[f].at = "save" /\ store' = flow[f].token /\ flow'[f].token = flow[f].token
    <3>1. Progress(f)'
      BY <1>1, <2>1, <2>2, <2>4 DEF Progress, InStep, Same, Stored
    <3>2. QED
      BY <1>2, <2>2, <2>4, <3>1 DEF Progressing, Quiet, Busy
  <2>5. CASE /\ f = "disconnect" /\ flow'[f].at = "set" /\ store' = store /\ store = NoToken
             /\ flow'[f].token = flow[f].token
    <3>1. Progress(f)'
      BY <1>1, <2>1, <2>2, <2>5 DEF Progress, InStep, Same, Stored, FlowTokens
    <3>2. QED
      BY <1>2, <2>2, <2>5, <3>1 DEF Progressing, Quiet, Busy
  <2>6. slips' = slips \cup {"vault"} /\ sure' = "no" => ~Ideal'
    BY DEF Ideal
  <2>7. QED
    BY <1>2, <2>3, <2>4, <2>5, <2>6 DEF Progressing
<1>9. Wished'
  <2>1. SUFFICES ASSUME sure' = "yes" PROVE Wished'
    BY DEF Wished
  <2>2. sure = "yes" /\ slips' = slips /\ Ideal
    BY <1>1, <1>2, <2>1, Alone DEF Kept, Wished, Ideal, OpenIsReadable
  <2>3. InStep /\ \A g \in Flows : g # f => flow[g].at = "idle"
    BY <1>1, <2>2, Alone DEF Progress
  <2>4. flow'[f].at = "set" => Stored = flow'[f].token
    BY <1>1, <1>2, <2>2, <2>1, <2>3 DEF InStep, FlowTokens
  <2>5. Stored = wish /\ Stored' = Stored
    BY <1>1, <2>2, <2>3 DEF Kept, Wished, Stored
  <2>6. QED
    BY <1>1, <1>2, <2>2, <2>3, <2>4, <2>5 DEF Wished, Kept
<1>10. QED
  BY <1>3, <1>4, <1>5, <1>6, <1>7, <1>8, <1>9 DEF Kept

LEMMA SetIInv ==
  ASSUME NEW f \in Flows, IInv, Set(f)
  PROVE  IInv'
<1> USE Typed, IdleType DEF IInv
<1>1. /\ flow[f].at = "set" /\ opened = "yes" /\ rust' \in {rust, flow[f].token}
      /\ UNCHANGED <<keychain, snapshot, running, held, opened, store, auth>>
      /\ UNCHANGED <<rekeyed, wish, submits, starts>>
      /\ faults' \in 0 .. MaxFaults
  BY BoundsAssumption DEF Set, TypeOK, disk, NoSlip, Slip, Note, history, Fault, Kept, OpenIsReadable
<1>2. /\ flow' \in FlowType
      /\ \A g \in Flows : g # f => flow'[g] = flow[g]
      /\ \/ /\ flow'[f].at = "show" /\ flow'[f].token = flow[f].token /\ sure' = sure
            /\ (rust' = flow[f].token /\ slips' = slips) \/ slips' = slips \cup {"set"}
         \/ f # "restore" /\ flow'[f] = Idle /\ slips' = slips \cup {"set"} /\ sure' = "no"
  BY GotoFlow, EndFlow DEF Set, Steps, NoSlip, Slip, Note, history
<1>3. TypeOK'
  <2>1. slips' \subseteq {"overlap", "vault", "set", "env"} /\ sure' \in {"yes", "no"} /\ rust' \in AnyToken
    BY <1>1, <1>2 DEF TypeOK
  <2>2. running = "yes"
    BY <1>1 DEF TypeOK
  <2>3. \A g \in Flows : flow'[g].at \in {"write", "save"} => opened' = "yes" /\ g # "restore"
    BY <1>1, <1>2 DEF TypeOK
  <2>4. QED
    BY <1>1, <1>2, <2>1, <2>2, <2>3 DEF TypeOK, FlowType, Steps
<1>4. (KeyKept /\ NeverSentinel)'
  BY <1>1 DEF KeyKept, NeverSentinel
<1>5. NoKeyNoToken'
  BY <1>1, <1>2 DEF NoKeyNoToken
<1>6. (FlowTokens /\ OnlyAccepted)'
  BY <1>1, <1>2 DEF FlowTokens, OnlyAccepted, Stored
<1>7. (OneFlow /\ OpenIsReadable)'
  BY <1>1, <1>2 DEF Kept, OneFlow, OpenIsReadable, Readable
<1>8. Progressing'
  <2>1. SUFFICES ASSUME Ideal PROVE Progressing'
    BY <1>1, <1>2 DEF Progressing, Ideal, Readable
  <2>2. Progress(f) /\ \A g \in Flows : g # f => flow[g].at = "idle"
    BY <1>1, <2>1, Alone
  <2>3. store = flow[f].token /\ Stored = flow[f].token /\ Stored' = Stored
    BY <1>1, <2>2 DEF Progress, Stored
  <2>4. flow'[f].at = "show" => Progress(f)'
    BY <1>1, <1>2, <2>3 DEF Progress
  <2>5. flow'[f] = Idle => InStep'
    BY <1>1, <1>2, <2>3 DEF InStep, Same
  <2>6. QED
    BY <1>2, <2>2, <2>4, <2>5 DEF Progressing, Quiet, Busy
<1>9. Wished'
  BY <1>1, <1>2 DEF Kept, Wished, Stored
<1>10. QED
  BY <1>3, <1>4, <1>5, <1>6, <1>7, <1>8, <1>9 DEF Kept

LEMMA SaveIInv ==
  ASSUME NEW f \in Flows, IInv, Save(f)
  PROVE  IInv'
<1> USE Typed, IdleType DEF IInv
<1>1. /\ flow[f].at = "save" /\ opened = "yes" /\ f # "restore" /\ running = "yes" /\ Readable
      /\ held # Sentinel /\ store \in AnyToken
      /\ UNCHANGED <<keychain, running, held, opened, store, rust, auth, submits, starts>>
  BY DEF Save, TypeOK, tokens, Kept, OpenIsReadable, NoKeyNoToken
<1>2. CASE /\ snapshot' = [key |-> held, token |-> store, file |-> "present"]
           /\ Goto(f, "set") /\ NoSlip /\ UNCHANGED faults
  <2>1. /\ flow' \in FlowType
        /\ \A g \in Flows : flow'[g].token = flow[g].token
        /\ \A g \in Flows : g # f => flow'[g] = flow[g]
        /\ flow'[f].at = "set"
        /\ UNCHANGED <<slips, rekeyed, wish, sure, faults>>
    BY <1>2, GotoFlow DEF Steps, NoSlip, history
  <2>2. snapshot'.key = held /\ snapshot'.file = "present" /\ Stored' = store /\ Readable'
    BY <1>1, <1>2 DEF Stored, Readable
  <2>3. TypeOK'
    BY <1>1, <1>2, <2>1 DEF TypeOK, FlowType, Steps
  <2>4. (KeyKept /\ NeverSentinel)'
    BY <1>1, <2>1, <2>2 DEF KeyKept, NeverSentinel
  <2>5. NoKeyNoToken'
    BY <1>1 DEF NoKeyNoToken
  <2>6. (FlowTokens /\ OnlyAccepted)'
    BY <1>1, <2>1, <2>2 DEF FlowTokens, OnlyAccepted
  <2>7. (OneFlow /\ OpenIsReadable)'
    BY <1>1, <2>1, <2>2 DEF Kept, OneFlow, OpenIsReadable
  <2>8. Ideal => Progress(f) /\ \A g \in Flows : g # f => flow[g].at = "idle"
    BY <1>1, Alone
  <2>9. Progressing'
    <3>1. SUFFICES ASSUME Ideal PROVE Progressing'
      BY <1>1, <2>1 DEF Progressing, Ideal
    <3>2. Progress(f)'
      BY <1>1, <2>1, <2>2, <2>8, <3>1 DEF Progress
    <3>3. QED
      BY <2>1, <2>8, <3>1, <3>2 DEF Progressing, Quiet, Busy
  <2>10. Wished'
    <3>1. SUFFICES ASSUME sure = "yes" PROVE Wished'
      BY <2>1 DEF Wished
    <3>2. Ideal
      BY <1>1, <3>1 DEF Kept, Wished, Ideal
    <3>3. store = flow[f].token
      BY <1>1, <2>8, <3>2 DEF Progress
    <3>4. QED
      BY <1>1, <2>1, <2>2, <2>8, <3>2, <3>3 DEF Wished, Ideal
  <2>11. QED
    BY <2>3, <2>4, <2>5, <2>6, <2>7, <2>9, <2>10 DEF Kept
<1>3. CASE /\ Fault /\ Slip("vault") /\ UNCHANGED snapshot
           /\ IF f = "disconnect" THEN Goto(f, "show") ELSE End(f)
  <2>1. /\ flow' \in FlowType
        /\ \A g \in Flows : g # f => flow'[g] = flow[g]
        /\ \/ f = "disconnect" /\ flow'[f].at = "show" /\ flow'[f].token = flow[f].token
           \/ flow'[f] = Idle
    BY <1>3, GotoFlow, EndFlow DEF Steps
  <2>2. /\ slips' = slips \cup {"vault"} /\ sure' = "no"
        /\ UNCHANGED <<rekeyed, wish, snapshot>> /\ faults' \in 0 .. MaxFaults
    BY <1>3, BoundsAssumption DEF Slip, Fault, TypeOK
  <2>3. TypeOK'
    BY <1>1, <2>1, <2>2 DEF TypeOK, FlowType, Steps
  <2>4. (KeyKept /\ NeverSentinel)'
    BY <1>1, <2>2 DEF KeyKept, NeverSentinel
  <2>5. NoKeyNoToken'
    BY <1>1 DEF NoKeyNoToken
  <2>6. (FlowTokens /\ OnlyAccepted)'
    BY <1>1, <2>1, <2>2 DEF FlowTokens, OnlyAccepted, Stored
  <2>7. (OneFlow /\ OpenIsReadable)'
    BY <1>1, <2>1, <2>2 DEF Kept, OneFlow, OpenIsReadable, Readable
  <2>8. (Progressing /\ Wished)'
    BY <2>2 DEF Progressing, Ideal, Wished
  <2>9. QED
    BY <2>3, <2>4, <2>5, <2>6, <2>7, <2>8 DEF Kept
<1>4. QED
  BY <1>2, <1>3 DEF Save

LEMMA ShowIInv ==
  ASSUME NEW f \in Flows, IInv, Show(f)
  PROVE  IInv'
<1> USE Typed, IdleType DEF IInv
<1>1. /\ flow[f].at = "show" /\ opened = "yes" /\ running = "yes" /\ Readable
      /\ auth' = flow[f].token /\ auth' \in AnyToken /\ held # Sentinel
      /\ UNCHANGED <<keychain, snapshot, running, held, opened, store, rust>>
      /\ UNCHANGED <<slips, rekeyed, submits, faults, starts>>
  BY DEF Show, TypeOK, disk, bounds, NoSlip, history, Kept, OpenIsReadable, NoKeyNoToken
<1>2. /\ flow' \in FlowType
      /\ \A g \in Flows : g # f => flow'[g] = flow[g]
      /\ flow'[f] = Idle
  BY EndFlow DEF Show
<1>3. \/ f = "restore" /\ wish' = wish /\ sure' = sure
      \/ /\ f # "restore" /\ wish' = flow[f].token
         /\ sure' = IF slips \cap {"overlap", "vault"} = {} THEN "yes" ELSE sure
  BY DEF Show, NoSlip, history
<1>4. TypeOK'
  BY <1>1, <1>2, <1>3 DEF TypeOK, FlowType, Steps
<1>5. (KeyKept /\ NeverSentinel)'
  BY <1>1 DEF KeyKept, NeverSentinel
<1>6. NoKeyNoToken'
  BY <1>1 DEF NoKeyNoToken
<1>7. (FlowTokens /\ OnlyAccepted)'
  BY <1>1, <1>2 DEF FlowTokens, OnlyAccepted, Stored
<1>8. (OneFlow /\ OpenIsReadable)'
  BY <1>1, <1>2 DEF Kept, OneFlow, OpenIsReadable, Readable
<1>9. Ideal => Progress(f) /\ \A g \in Flows : g # f => flow[g].at = "idle"
  BY <1>1, Alone
<1>10. Progressing'
  <2>1. SUFFICES ASSUME Ideal PROVE Progressing'
    BY <1>1, <1>3 DEF Progressing, Ideal, TypeOK
  <2>2. InStep'
    BY <1>1, <1>9, <2>1 DEF InStep, Same, Progress, Stored
  <2>3. \A g \in Flows : flow'[g].at = "idle"
    BY <1>2, <1>9, <2>1
  <2>4. QED
    BY <2>2, <2>3 DEF Progressing
<1>11. Wished'
  <2>1. CASE f = "restore"
    BY <1>1, <1>2, <1>3, <2>1 DEF Kept, Wished, Stored
  <2>2. CASE f # "restore"
    <3>1. SUFFICES ASSUME sure' = "yes" PROVE Wished'
      BY DEF Wished
    <3>2. Ideal
      BY <1>1, <1>3, <2>2, <3>1 DEF Kept, Wished, TypeOK, Ideal
    <3>3. Stored = flow[f].token
      BY <1>1, <1>9, <3>2 DEF Progress
    <3>4. QED
      BY <1>1, <1>2, <1>3, <1>9, <2>2, <3>2, <3>3 DEF Wished, Stored, Ideal
  <2>3. QED
    BY <2>1, <2>2
<1>12. QED
  BY <1>4, <1>5, <1>6, <1>7, <1>8, <1>10, <1>11 DEF Kept

-----------------------------------------------------------------------------
LEMMA NextIInv == IInv /\ [Next]_vars => IInv'
<1> SUFFICES ASSUME IInv, [Next]_vars PROVE IInv'
  OBVIOUS
<1>1. CASE Start \/ Stop \/ Disconnect
  BY <1>1, StartIInv, StopIInv, DisconnectIInv
<1>2. CASE \E f \in Submits, t \in Tokens : Submit(f, t)
  BY <1>2, SubmitIInv
<1>3. CASE \E f \in Submits : Probe(f)
  BY <1>3, ProbeIInv
<1>4. CASE \E f \in Flows : Step(f)
  <2>1. PICK f \in Flows : Step(f)
    BY <1>4
  <2>2. QED
    BY <2>1, LoadIInv, ReadIInv, WriteIInv, SaveIInv, SetIInv, ShowIInv DEF Step
<1>5. CASE UNCHANGED vars
  BY <1>5 DEF vars, disk, tokens, history, bounds, IInv, TypeOK, KeyKept, NoKeyNoToken, NeverSentinel,
         FlowTokens, OnlyAccepted, Kept, OneFlow, OpenIsReadable, Progressing, Progress, InStep, Same,
         Ideal, Wished, Stored, Readable, Quiet, Busy
<1>6. QED
  BY <1>1, <1>2, <1>3, <1>4, <1>5 DEF Next

LEMMA SpecIInv == Spec => []IInv
<1>1. Init => IInv
  BY InitIInv
<1>2. IInv /\ [Next]_vars => IInv'
  BY NextIInv
<1>3. QED
  BY <1>1, <1>2, PTL DEF Spec

-----------------------------------------------------------------------------
\* The variables have their types, and a flow that is to write or save has the vault open.
THEOREM TypeCorrect == Spec => []TypeOK
<1>1. IInv => TypeOK
  BY DEF IInv
<1>2. QED
  BY <1>1, SpecIInv, PTL

\* The vault is never encrypted with the sentinel that stands for a key that could not be had
\* (ConnectBridgePage.tsx:37).
THEOREM SentinelNeverUsed == Spec => []NeverSentinel
<1>1. IInv => NeverSentinel
  BY DEF IInv
<1>2. QED
  BY <1>1, SpecIInv, PTL

\* As long as no key was replaced because the keychain failed to give it, the key of every
\* process that has one opens the vault, whatever else failed and wherever it stopped (lib.rs:59).
THEOREM VaultAlwaysOpens == Spec => []VaultOpens
<1>1. IInv => VaultOpens
  BY DEF IInv, VaultOpens, KeyKept
<1>2. QED
  BY <1>1, SpecIInv, PTL

\* The vault is never encrypted with the sentinel, nor with a key the keychain did not keep
\* (ConnectBridgePage.tsx:37, lib.rs:59).
THEOREM VaultIsSound == Spec => []VaultSound
<1>1. NeverSentinel /\ VaultOpens => VaultSound
  BY DEF VaultSound
<1>2. QED
  BY <1>1, SentinelNeverUsed, VaultAlwaysOpens, PTL

\* However the flows overlap, only a token the Bridge accepted is stored, shown or used
\* (ConnectBridgePage.tsx:65), but for the one of BRIDGE_TOKEN.
THEOREM AcceptedOnly == Spec => []OnlyAccepted
<1>1. IInv => OnlyAccepted
  BY DEF IInv
<1>2. QED
  BY <1>1, SpecIInv, PTL

\* The file, the process and the web view agree on the token once no flow is under way, in a
\* process where no two flows overlapped, no call of the vault failed, removing the token included
\* (credentialStore.ts:83), and the process took over every token it was given (app.tsx:107, :248).
THEOREM TokensAgree == Spec => []Agreed
<1>1. IInv => Agreed
  <2>1. SUFFICES ASSUME IInv, Quiet, slips = {}, Readable PROVE Stored = rust /\ rust = auth
    BY DEF Agreed
  <2>2. InStep
    BY <2>1 DEF IInv, Kept, Progressing, Ideal, Quiet
  <2>3. QED
    BY <2>1, <2>2 DEF InStep, Same
<1>2. QED
  BY <1>1, SpecIInv, PTL

\* What the user did last, if no other flow ran over it and the vault took it, the removal of the
\* token included, is what every later process shows once it is at rest and has read the vault
\* (credentialStore.ts:83, app.tsx:246, :286), whether or not the process took the token over.
THEOREM WishStands == Spec => []WishKept
<1>1. IInv => WishKept
  <2>1. SUFFICES ASSUME IInv, Quiet, sure = "yes", slips \subseteq {"env", "set"}, Readable PROVE auth = wish
    BY DEF WishKept
  <2>2. InStep
    BY <2>1 DEF IInv, Kept, Progressing, Ideal, Quiet
  <2>3. Stored = wish
    <3>1. \A f \in Flows : flow[f].at = "idle"
      BY <2>1 DEF Quiet, Busy
    <3>2. QED
      BY <2>1, <3>1 DEF IInv, Kept, Wished
  <2>4. QED
    BY <2>1, <2>2, <2>3 DEF InStep, Same
<1>2. QED
  BY <1>1, SpecIInv, PTL

=============================================================================
