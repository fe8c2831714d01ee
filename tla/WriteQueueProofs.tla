-------------------------- MODULE WriteQueueProofs --------------------------
(***************************************************************************)
(* Proofs about WriteQueue, for every set of writes, every clock and every *)
(* number of faults and restarts.                                          *)
(***************************************************************************)
EXTENDS WriteQueue, TLAPS, SequenceTheorems

(***************************************************************************)
(* Counting applications: a row that is pending, and not just being        *)
(* marked, has been applied no more often than a drain was cut short on    *)
(* it, and every cut is a restart or a failed update.                      *)
(***************************************************************************)
AbsentIsUnapplied == \A e \in Notes : row[e] = "absent" => applied[e] = 0
PendingWasCut ==
    \A e \in Notes :
        row[e] = "pending" => (drain = "mark" /\ current = e) \/ applied[e] <= cut[e]
CutsAreBounded == \A e \in Notes : cut[e] <= crashes + faults
OkWasApplied == drain = "mark" /\ verdict = "ok" => applied[current] >= 1

(***************************************************************************)
(* Order: what waits and has never been applied is no older than what was  *)
(* applied.  It holds because a drain takes the oldest row of its batch    *)
(* first, and what is pending outside the batch was queued after it.       *)
(***************************************************************************)
Draining == drain \in {"next", "send", "mark"}
InHand == batch \cup {current}

NobodyInHand == drain \notin {"send", "mark"} => current = Idle
CreatedInThePast == \A e \in Notes : created[e] <= second
BatchIsOlder ==
    Draining => \A g \in InHand \cap Notes, f \in Notes \ InHand :
                    row[f] = "pending" => created[g] <= created[f]
CurrentIsOldest == drain = "send" => \A g \in batch : created[current] <= created[g]
OrderIsApplied == \A i \in 1 .. Len(order) : applied[order[i]] >= 1
AppliedIsOlder ==
    \A e, f \in Notes :
        applied[e] >= 1 /\ row[f] = "pending" /\ applied[f] = 0 => created[e] <= created[f]

Counts ==
    /\ AbsentIsUnapplied
    /\ PendingWasCut
    /\ CutsAreBounded
    /\ OkWasApplied
    /\ SyncedWasApplied
    /\ DuplicateNeedsCut

Ages ==
    /\ CreatedInThePast
    /\ BatchIsOlder
    /\ CurrentIsOldest
    /\ OrderIsApplied
    /\ AppliedIsOlder
    /\ AppliedInOrder

IInv == TypeOK /\ NobodyInHand /\ Counts /\ Ages

-----------------------------------------------------------------------------
LEMMA InitIInv == Init => IInv
<1> SUFFICES ASSUME Init PROVE IInv
  OBVIOUS
<1> USE NotesAssumption, BootAssumption, BoundsAssumption, IdleAssumption DEF Init
<1>1. order \in Seq(Good) /\ Len(order) = 0
  BY EmptySeq
<1>2. TypeOK /\ NobodyInHand
  BY <1>1 DEF TypeOK, NobodyInHand
<1>3. Counts
  BY DEF Counts, AbsentIsUnapplied, PendingWasCut, CutsAreBounded, OkWasApplied,
         SyncedWasApplied, DuplicateNeedsCut
<1>4. Ages
  BY <1>1 DEF Ages, CreatedInThePast, BatchIsOlder, Draining, CurrentIsOldest,
              OrderIsApplied, AppliedIsOlder, AppliedInOrder
<1>5. QED
  BY <1>2, <1>3, <1>4 DEF IInv

\* The rows of the history of applications are rows.
LEMMA OrderHoldsNotes ==
  ASSUME TypeOK
  PROVE  Len(order) \in Nat /\ \A i \in 1 .. Len(order) : order[i] \in Notes
<1>1. order \in Seq(Good)
  BY DEF TypeOK
<1>2. Len(order) \in Nat /\ \A i \in 1 .. Len(order) : order[i] \in Good
  BY <1>1, LenProperties, ElementOfSeq
<1>3. QED
  BY <1>2, NotesAssumption

-----------------------------------------------------------------------------
(***************************************************************************)
(* The clock, the network, the token and the start of a process touch      *)
(* nothing the invariant speaks of, but for the second that passes.        *)
(***************************************************************************)
World == Tick \/ GoOnline \/ GoOffline \/ SetToken \/ ClearToken \/ Start

LEMMA WorldIInv == IInv /\ World => IInv'
<1> SUFFICES ASSUME IInv, World PROVE IInv'
  OBVIOUS
<1>1. /\ UNCHANGED <<database, batch, current, verdict, bridge, crashes, cut>>
      /\ drain' = drain \/ (drain = "off" /\ drain' = "spawned")
      /\ second' \in second .. MaxSecond
      /\ faults' \in faults .. MaxFaults
      /\ token' \in {"none", "valid"} /\ network' \in {"online", "offline"}
  <2> USE BoundsAssumption DEF IInv, TypeOK, database, process, bridge, ghost
  <2>1. CASE Tick
    BY <2>1 DEF Tick
  <2>2. CASE GoOnline \/ GoOffline
    BY <2>2 DEF GoOnline, GoOffline, Fault
  <2>3. CASE SetToken \/ ClearToken
    BY <2>3 DEF SetToken, ClearToken, Fault
  <2>4. CASE Start
    BY <2>4, BootAssumption DEF Start
  <2>5. QED
    BY <2>1, <2>2, <2>3, <2>4 DEF World
<1> USE <1>1 DEF IInv, database, bridge
<1>2. TypeOK' /\ NobodyInHand'
  BY BoundsAssumption DEF TypeOK, NobodyInHand
<1>3. Counts'
  <2>1. (AbsentIsUnapplied /\ PendingWasCut /\ OkWasApplied)'
    BY DEF Counts, AbsentIsUnapplied, PendingWasCut, OkWasApplied
  <2>2. CutsAreBounded'
    BY BoundsAssumption DEF TypeOK, Counts, CutsAreBounded
  <2>3. (SyncedWasApplied /\ DuplicateNeedsCut)'
    BY DEF Counts, SyncedWasApplied, DuplicateNeedsCut
  <2>4. QED
    BY <2>1, <2>2, <2>3 DEF Counts
<1>4. Ages'
  <2>1. CreatedInThePast'
    BY BoundsAssumption DEF TypeOK, Ages, CreatedInThePast
  <2>2. (BatchIsOlder /\ CurrentIsOldest)'
    BY DEF Ages, BatchIsOlder, Draining, InHand, CurrentIsOldest
  <2>3. (OrderIsApplied /\ AppliedIsOlder /\ AppliedInOrder)'
    BY DEF Ages, OrderIsApplied, AppliedIsOlder, AppliedInOrder
  <2>4. QED
    BY <2>1, <2>2, <2>3 DEF Ages
<1>5. QED
  BY <1>2, <1>3, <1>4

(***************************************************************************)
(* A row queued now has never been applied and is as young as can be.      *)
(***************************************************************************)
LEMMA EnqueueIInv ==
  ASSUME IInv, NEW n \in Notes, Enqueue(n)
  PROVE  IInv'
<1> USE DEF IInv, Enqueue, process, bridge, ghost
<1>1. TypeOK' /\ NobodyInHand'
  BY DEF TypeOK, NobodyInHand
<1>2. Counts'
  BY DEF TypeOK, Counts, AbsentIsUnapplied, PendingWasCut, CutsAreBounded, OkWasApplied,
         SyncedWasApplied, DuplicateNeedsCut
<1>3. applied[n] = 0 /\ created' = [created EXCEPT ![n] = second]
  BY DEF Counts, AbsentIsUnapplied
<1>4. CreatedInThePast' /\ OrderIsApplied'
  BY <1>3 DEF TypeOK, Ages, CreatedInThePast, OrderIsApplied
<1>5. BatchIsOlder' /\ CurrentIsOldest'
  <2>1. Draining => n \notin InHand
    BY IdleAssumption DEF TypeOK, NobodyInHand, Draining, InHand
  <2>2. BatchIsOlder'
    BY <2>1 DEF TypeOK, Ages, BatchIsOlder, CreatedInThePast, Draining, InHand
  <2>3. CurrentIsOldest'
    BY <2>1 DEF TypeOK, Ages, CurrentIsOldest, Draining, InHand
  <2>4. QED
    BY <2>2, <2>3
<1>6. AppliedIsOlder'
  BY <1>3 DEF TypeOK, Ages, AppliedIsOlder, CreatedInThePast
<1>7. AppliedInOrder'
  <2>1. \A i \in 1 .. Len(order) : order[i] \in Notes /\ order[i] # n
    BY <1>3, OrderHoldsNotes DEF Ages, OrderIsApplied
  <2>2. \A i \in 1 .. Len(order) : created'[order[i]] = created[order[i]]
    BY <1>3, <2>1 DEF TypeOK
  <2>3. QED
    BY <2>2 DEF Ages, AppliedInOrder
<1>8. QED
  BY <1>1, <1>2, <1>4, <1>5, <1>6, <1>7 DEF Ages

-----------------------------------------------------------------------------
LEMMA FetchIInv == IInv /\ Fetch => IInv'
<1> SUFFICES ASSUME IInv, Fetch PROVE IInv'
  OBVIOUS
<1> USE BoundsAssumption DEF IInv, Fetch, Fault, database, bridge, ghost
<1>1. TypeOK' /\ NobodyInHand'
  BY IdleAssumption DEF TypeOK, NobodyInHand
<1>2. Counts'
  <2>1. CutsAreBounded'
    BY DEF TypeOK, Counts, CutsAreBounded
  <2>2. (AbsentIsUnapplied /\ PendingWasCut /\ OkWasApplied)'
    BY DEF Counts, AbsentIsUnapplied, PendingWasCut, OkWasApplied
  <2>3. (SyncedWasApplied /\ DuplicateNeedsCut)'
    BY DEF Counts, SyncedWasApplied, DuplicateNeedsCut
  <2>4. QED
    BY <2>1, <2>2, <2>3 DEF Counts
<1>3. Ages'
  BY DEF Ages, CreatedInThePast, BatchIsOlder, Draining, InHand, CurrentIsOldest,
         OrderIsApplied, AppliedIsOlder, AppliedInOrder
<1>4. QED
  BY <1>1, <1>2, <1>3

LEMMA TakeIInv ==
  ASSUME IInv, NEW n \in Notes, Take(n)
  PROVE  IInv'
<1> USE DEF IInv, Take, database, bridge, ghost
<1>1. TypeOK' /\ NobodyInHand'
  BY IdleAssumption DEF TypeOK, NobodyInHand
<1>2. Counts'
  BY DEF TypeOK, Counts, AbsentIsUnapplied, PendingWasCut, CutsAreBounded, OkWasApplied,
         SyncedWasApplied, DuplicateNeedsCut
<1>3. current = Idle /\ InHand' = batch /\ Idle \notin Notes
  BY IdleAssumption DEF NobodyInHand, InHand
<1>4. Ages'
  <2>1. BatchIsOlder'
    BY <1>3 DEF Ages, BatchIsOlder, Draining, InHand
  <2>2. CurrentIsOldest'
    BY DEF Ages, CurrentIsOldest
  <2>3. (CreatedInThePast /\ OrderIsApplied /\ AppliedIsOlder /\ AppliedInOrder)'
    BY DEF Ages, CreatedInThePast, OrderIsApplied, AppliedIsOlder, AppliedInOrder
  <2>4. QED
    BY <2>1, <2>2, <2>3 DEF Ages
<1>5. QED
  BY <1>1, <1>2, <1>4

-----------------------------------------------------------------------------
(***************************************************************************)
(* The request: the only step that adds to applied and to order.           *)
(***************************************************************************)
LEMMA SendIInv == IInv /\ Send => IInv'
<1> SUFFICES ASSUME IInv, Send PROVE IInv'
  OBVIOUS
<1> USE DEF IInv, database
<1>1. /\ current \in Notes /\ row[current] = "pending"
      /\ applied[current] <= cut[current]
  BY DEF Send, TypeOK, Counts, PendingWasCut
<1>2. CASE bridge' = bridge /\ verdict' = "error" /\ ghost' = ghost
  <2>1. TypeOK' /\ NobodyInHand'
    BY <1>2 DEF Send, TypeOK, NobodyInHand, bridge, ghost
  <2>2. Counts'
    BY <1>1, <1>2
    DEF Send, Counts, AbsentIsUnapplied, PendingWasCut, CutsAreBounded, OkWasApplied,
        SyncedWasApplied, DuplicateNeedsCut, bridge, ghost
  <2>3. Ages'
    BY <1>2
    DEF Send, Ages, CreatedInThePast, BatchIsOlder, Draining, InHand, CurrentIsOldest,
        OrderIsApplied, AppliedIsOlder, AppliedInOrder, bridge
  <2>4. QED
    BY <2>1, <2>2, <2>3
<1>3. CASE /\ current \in Good
           /\ applied' = [applied EXCEPT ![current] = @ + 1]
           /\ order' = IF applied[current] = 0 THEN Append(order, current) ELSE order
           /\ verdict' \in {"ok", "error"}
           /\ faults' \in faults .. MaxFaults /\ UNCHANGED <<crashes, cut>>
  <2> USE <1>1, <1>3
  <2>1. TypeOK' /\ NobodyInHand'
    <3>1. order' \in Seq(Good)
      BY AppendProperties DEF TypeOK
    <3>2. cut[current] <= crashes + faults
      BY DEF Counts, CutsAreBounded
    <3>3. applied' \in [Notes -> 0 .. MaxCrashes + MaxFaults + 1]
      BY <3>2, BoundsAssumption DEF TypeOK
    <3>4. QED
      BY <3>1, <3>3, BoundsAssumption DEF Send, TypeOK, NobodyInHand
  <2>2. Counts'
    <3>1. AbsentIsUnapplied' /\ SyncedWasApplied' /\ OkWasApplied'
      BY DEF Send, TypeOK, Counts, AbsentIsUnapplied, SyncedWasApplied, OkWasApplied
    <3>2. PendingWasCut'
      BY DEF Send, TypeOK, Counts, PendingWasCut
    <3>3. CutsAreBounded'
      BY BoundsAssumption DEF TypeOK, Counts, CutsAreBounded
    <3>4. DuplicateNeedsCut'
      BY DEF TypeOK, Counts, DuplicateNeedsCut
    <3>5. QED
      BY <3>1, <3>2, <3>3, <3>4 DEF Counts
  <2>3. (CreatedInThePast /\ BatchIsOlder /\ CurrentIsOldest)'
    BY DEF Send, Ages, CreatedInThePast, BatchIsOlder, Draining, InHand, CurrentIsOldest
  <2>4. AppliedIsOlder'
    <3>1. \A f \in Notes : row[f] = "pending" /\ f # current => created[current] <= created[f]
      <4>1. SUFFICES ASSUME NEW f \in Notes, row[f] = "pending", f # current
                     PROVE  created[current] <= created[f]
        OBVIOUS
      <4>2. CASE f \in batch
        BY <4>1, <4>2 DEF Send, Ages, CurrentIsOldest
      <4>3. CASE f \notin batch
        BY <4>1, <4>3 DEF Send, Ages, BatchIsOlder, Draining, InHand
      <4>4. QED
        BY <4>2, <4>3
    <3>2. \A e \in Notes : e # current => applied'[e] = applied[e]
      BY DEF TypeOK
    <3>3. applied'[current] >= 1
      BY DEF TypeOK
    <3>4. created' = created /\ row' = row
      BY DEF Send
    <3>5. QED
      BY <3>1, <3>2, <3>3, <3>4 DEF TypeOK, Ages, AppliedIsOlder
  <2>5. OrderIsApplied' /\ AppliedInOrder'
    <3>1. \A e \in Notes : applied'[e] >= applied[e]
      BY DEF TypeOK
    <3>2. \A i \in 1 .. Len(order) : order[i] \in Notes
      BY OrderHoldsNotes
    <3>3. created' = created
      BY DEF Send
    <3>4. CASE applied[current] # 0
      BY <3>1, <3>2, <3>3, <3>4
      DEF TypeOK, Ages, OrderIsApplied, AppliedInOrder
    <3>5. CASE applied[current] = 0
      <4>1. /\ order \in Seq(Good) /\ order' = Append(order, current)
            /\ Len(order) \in Nat
        BY <3>5, OrderHoldsNotes DEF TypeOK
      <4>2. /\ Len(order') = Len(order) + 1
            /\ \A i \in 1 .. Len(order) : order'[i] = order[i]
            /\ order'[Len(order) + 1] = current
        BY <4>1, AppendProperties
      <4>3. applied'[current] = 1
        BY <3>5 DEF TypeOK
      <4>4. OrderIsApplied'
        BY <4>1, <4>2, <4>3, <3>1, <3>2 DEF TypeOK, Ages, OrderIsApplied
      <4>5. \A i \in 1 .. Len(order) : created[order[i]] <= created[current]
        BY <3>5, <3>2 DEF Ages, OrderIsApplied, AppliedIsOlder
      <4>6. AppliedInOrder'
        BY <4>1, <4>2, <4>5, <3>3 DEF TypeOK, Ages, AppliedInOrder
      <4>7. QED
        BY <4>4, <4>6
    <3>6. QED
      BY <3>4, <3>5
  <2>6. QED
    BY <2>1, <2>2, <2>3, <2>4, <2>5 DEF Ages
<1>4. CASE current \in Good /\ network = "online" /\ token = "valid"
  <2>1. /\ applied' = [applied EXCEPT ![current] = @ + 1]
        /\ order' = IF applied[current] = 0 THEN Append(order, current) ELSE order
        /\ \/ verdict' = "ok" /\ UNCHANGED ghost
           \/ verdict' = "error" /\ Fault /\ UNCHANGED <<crashes, cut>>
    BY <1>4 DEF Send
  <2>2. /\ verdict' \in {"ok", "error"}
        /\ faults' \in faults .. MaxFaults /\ UNCHANGED <<crashes, cut>>
    BY <2>1, BoundsAssumption DEF TypeOK, Fault, ghost
  <2>3. QED
    BY <1>3, <1>4, <2>1, <2>2
<1>5. CASE ~(current \in Good /\ network = "online" /\ token = "valid")
  BY <1>2, <1>5 DEF Send
<1>6. QED
  BY <1>4, <1>5

-----------------------------------------------------------------------------
(***************************************************************************)
(* The row leaves the hands of the drain: marked, or left pending by a     *)
(* drain that is cut short, which is then counted.                         *)
(***************************************************************************)
Hands == Mark \/ DrainEnds \/ Crash

LEMMA HandsIInv == IInv /\ Hands => IInv'
<1> SUFFICES ASSUME IInv, Hands PROVE IInv'
  OBVIOUS
<1> USE BoundsAssumption, IdleAssumption DEF IInv, Hands, bridge, database, ghost
<1>1. TypeOK' /\ NobodyInHand'
  <2>1. cut' \in [Notes -> 0 .. MaxCrashes + MaxFaults]
    <3>1. crashes + faults < MaxCrashes + MaxFaults =>
              CutCount \in [Notes -> 0 .. MaxCrashes + MaxFaults]
      BY DEF TypeOK, Counts, CutsAreBounded, CutCount
    <3>2. CASE UNCHANGED cut
      BY <3>2 DEF TypeOK
    <3>3. CASE cut' = CutCount /\ (faults < MaxFaults \/ crashes < MaxCrashes)
      BY <3>1, <3>3 DEF TypeOK
    <3>4. CASE Mark
      BY <3>2, <3>3, <3>4 DEF Mark, Fault
    <3>5. CASE DrainEnds \/ Crash
      BY <3>2, <3>3, <3>5 DEF DrainEnds, Crash
    <3>6. QED
      BY <3>4, <3>5
  <2>2. CASE Mark
    <3>1. faults' \in 0 .. MaxFaults /\ crashes' \in 0 .. MaxCrashes
      BY <2>2 DEF TypeOK, Mark, Fault
    <3>2. /\ row' \in [Notes -> {"absent", "pending", "synced", "failed"}]
          /\ batch' \subseteq Notes /\ \A e \in batch' : row'[e] = "pending"
          /\ current' = Idle /\ drain' \in {"next", "ended"}
      BY <2>2 DEF TypeOK, Mark
    <3>3. UNCHANGED <<created, verdict, token, network, second, applied, order>>
      BY <2>2 DEF Mark
    <3>4. QED
      BY <2>1, <3>1, <3>2, <3>3 DEF TypeOK, NobodyInHand
  <2>3. CASE DrainEnds
    BY <2>3 DEF TypeOK, NobodyInHand, DrainEnds
  <2>4. CASE Crash
    BY <2>1, <2>4 DEF TypeOK, NobodyInHand, Crash
  <2>5. QED
    BY <2>2, <2>3, <2>4
<1>2. Counts'
  <2> USE DEF Counts, AbsentIsUnapplied, PendingWasCut, CutsAreBounded, OkWasApplied,
              SyncedWasApplied, DuplicateNeedsCut
  <2>1. CASE Mark
    <3>1. CASE drain' = "next"
      BY <2>1, <3>1 DEF TypeOK, Mark
    <3>2. CASE drain' = "ended" /\ cut' = CutCount /\ faults' = faults + 1
      BY <2>1, <3>2 DEF TypeOK, Mark, CutCount
    <3>3. QED
      BY <2>1, <3>1, <3>2 DEF Mark, Fault
  <2>2. CASE DrainEnds
    BY <2>2 DEF TypeOK, DrainEnds
  <2>3. CASE Crash
    BY <2>3 DEF TypeOK, Crash, CutCount
  <2>4. QED
    BY <2>1, <2>2, <2>3
<1>3. Ages'
  <2>1. (CreatedInThePast /\ OrderIsApplied /\ AppliedInOrder)'
    BY DEF Mark, DrainEnds, Crash, Ages, CreatedInThePast, OrderIsApplied, AppliedInOrder
  <2>2. \A f \in Notes : row'[f] = "pending" => row[f] = "pending"
    BY DEF TypeOK, Mark, DrainEnds, Crash
  <2>3. AppliedIsOlder'
    BY <2>2 DEF Mark, DrainEnds, Crash, Ages, AppliedIsOlder
  <2>4. BatchIsOlder' /\ CurrentIsOldest'
    <3>1. CASE drain' = "next"
      <4>1. drain = "mark" /\ current \in Notes /\ row'[current] # "pending"
        BY <3>1 DEF TypeOK, Mark, DrainEnds, Crash
      <4>2. UNCHANGED <<batch, created>> /\ current' = Idle
        BY <3>1 DEF Mark, DrainEnds, Crash
      <4>3. QED
        BY <3>1, <4>1, <4>2, <2>2
        DEF TypeOK, Ages, BatchIsOlder, CurrentIsOldest, Draining, InHand
    <3>2. CASE drain' \in {"ended", "off"}
      BY <3>2 DEF BatchIsOlder, CurrentIsOldest, Draining
    <3>3. QED
      BY <3>1, <3>2 DEF Mark, DrainEnds, Crash
  <2>5. QED
    BY <2>1, <2>3, <2>4 DEF Ages
<1>4. QED
  BY <1>1, <1>2, <1>3

LEMMA NextIInv == IInv /\ [Next]_vars => IInv'
<1> SUFFICES ASSUME IInv, [Next]_vars PROVE IInv'
  OBVIOUS
<1>1. CASE World
  BY <1>1, WorldIInv
<1>2. CASE \E e \in Notes : Enqueue(e)
  BY <1>2, EnqueueIInv
<1>3. CASE Fetch \/ Send
  BY <1>3, FetchIInv, SendIInv
<1>4. CASE \E e \in Notes : Take(e)
  BY <1>4, TakeIInv
<1>5. CASE Hands
  BY <1>5, HandsIInv
<1>6. CASE UNCHANGED vars
  BY <1>6
  DEF vars, database, process, bridge, ghost, IInv, TypeOK, NobodyInHand,
      Counts, AbsentIsUnapplied, PendingWasCut, CutsAreBounded, OkWasApplied,
      SyncedWasApplied, DuplicateNeedsCut,
      Ages, CreatedInThePast, BatchIsOlder, Draining, InHand, CurrentIsOldest,
      OrderIsApplied, AppliedIsOlder, AppliedInOrder
<1>7. QED
  BY <1>1, <1>2, <1>3, <1>4, <1>5, <1>6 DEF Next, Drain, World, Hands

LEMMA SpecIInv == Spec => []IInv
  BY InitIInv, NextIInv, PTL DEF Spec

-----------------------------------------------------------------------------
\* Rows, drain and counters keep their types.
THEOREM TypeCorrect == Spec => []TypeOK
<1>1. IInv => TypeOK
  BY DEF IInv
<1>2. QED
  BY SpecIInv, <1>1, PTL

(***************************************************************************)
(* A row is marked synced only after the Bridge has applied its write.     *)
(***************************************************************************)
THEOREM SyncedSound == Spec => []SyncedWasApplied
<1>1. IInv => SyncedWasApplied
  BY DEF IInv, Counts
<1>2. QED
  BY SpecIInv, <1>1, PTL

(***************************************************************************)
(* The Bridge applies a write once more than the drains that were cut      *)
(* short between the request and the update of its row, at most.           *)
(***************************************************************************)
THEOREM OnceUnlessCut == Spec => []DuplicateNeedsCut
<1>1. IInv => DuplicateNeedsCut
  BY DEF IInv, Counts
<1>2. QED
  BY SpecIInv, <1>1, PTL

(***************************************************************************)
(* First applications are in the order of the seconds the rows were        *)
(* created in, across cut drains and rows queued while one is running.     *)
(***************************************************************************)
THEOREM OrderPreserved == Spec => []AppliedInOrder
<1>1. IInv => AppliedInOrder
  BY DEF IInv, Ages
<1>2. QED
  BY SpecIInv, <1>1, PTL

-----------------------------------------------------------------------------
(***************************************************************************)
(* The rows as an outbox.                                                  *)
(***************************************************************************)
\* The steps that concern no row.
LEMMA QuietOutbox ==
    ASSUME UNCHANGED <<row, applied, cut>>, drain # "mark", drain' # "mark", TypeOK
    PROVE  UNCHANGED <<State, applied, cut>>
BY DEF State, TypeOK

LEMMA EnqueueOutbox ==
    ASSUME IInv, NEW e \in Notes, Enqueue(e)
    PROVE  Box!Accept(e)
<1>1. row[e] = "absent" /\ row' = [row EXCEPT ![e] = "pending"] /\ UNCHANGED <<drain, current, applied, cut>>
  BY DEF Enqueue, process, bridge, ghost
<1>2. ~ (drain = "mark" /\ current = e)
  BY <1>1 DEF IInv, TypeOK
<1>3. State[e] = "absent"
  BY <1>1, <1>2 DEF State
<1>4. State' = [State EXCEPT ![e] = "pending"]
  BY <1>1, <1>2 DEF State, IInv, TypeOK
<1> QED
  BY <1>1, <1>3, <1>4 DEF Box!Accept

LEMMA SendOutbox ==
    ASSUME IInv, Send
    PROVE  \E e \in Notes : Box!Try(e)
<1>1. /\ drain = "send" /\ drain' = "mark" /\ current \in Notes /\ row[current] = "pending"
      /\ UNCHANGED <<row, current, cut>>
  BY DEF Send, database, ghost, IInv, TypeOK
<1>2. State[current] = "pending"
  BY <1>1 DEF State
<1>3. State' = [State EXCEPT ![current] = "tried"]
  BY <1>1 DEF State, IInv, TypeOK
<1>4. applied' \in {applied, [applied EXCEPT ![current] = @ + 1]}
  BY DEF Send, bridge
<1> QED
  BY <1>1, <1>2, <1>3, <1>4 DEF Box!Try

\* The outcome is written, or the drain dies before it is.
LEMMA MarkOutbox ==
    ASSUME IInv, drain = "mark", Mark \/ Crash
    PROVE  \E e \in Notes : Box!Settle(e) \/ Box!Forget(e)
<1>1. current \in Notes /\ row[current] = "pending" /\ State[current] = "tried"
  BY DEF IInv, TypeOK, State
<1>2. UNCHANGED applied /\ drain' # "mark"
  BY DEF Mark, Crash, bridge
<1>3. CASE /\ row' = [row EXCEPT ![current] = IF verdict = "ok" THEN "synced" ELSE "failed"]
           /\ UNCHANGED cut
  <2>1. State' = [State EXCEPT ![current] = IF verdict = "ok" THEN "synced" ELSE "failed"]
    BY <1>1, <1>2, <1>3 DEF State, IInv, TypeOK
  <2>2. verdict = "ok" => applied[current] > 0
    BY <1>1 DEF IInv, TypeOK, Counts, OkWasApplied
  <2>3. Box!Settle(current)
    BY <1>1, <1>2, <1>3, <2>1, <2>2 DEF Box!Settle
  <2> QED
    BY <1>1, <2>3
<1>4. CASE row' = row /\ cut' = CutCount
  <2>1. State' = [State EXCEPT ![current] = "pending"]
    BY <1>1, <1>2, <1>4 DEF State, IInv, TypeOK
  <2>2. cut' = [cut EXCEPT ![current] = @ + 1]
    BY <1>4 DEF CutCount
  <2>3. Box!Forget(current)
    BY <1>1, <1>2, <2>1, <2>2 DEF Box!Forget
  <2> QED
    BY <1>1, <2>3
<1> QED
  BY <1>3, <1>4 DEF Mark, Crash, database, ghost

LEMMA NextOutbox == IInv /\ [Next]_vars => [Box!Next]_<<State, applied, cut>>
<1> SUFFICES ASSUME IInv, [Next]_vars PROVE [Box!Next]_<<State, applied, cut>>
  OBVIOUS
<1>1. TypeOK
  BY DEF IInv
<1>2. CASE Tick \/ GoOnline \/ GoOffline \/ SetToken \/ ClearToken \/ UNCHANGED vars
  <2>1. UNCHANGED <<row, drain, current, applied, cut>>
    BY <1>2 DEF Tick, GoOnline, GoOffline, SetToken, ClearToken, vars, database, process, bridge, ghost
  <2> QED
    BY <2>1 DEF State
<1>3. ASSUME NEW e \in Notes, Enqueue(e) PROVE Box!Next
  BY <1>3, EnqueueOutbox DEF Box!Next
<1>4. CASE Start \/ Fetch \/ DrainEnds \/ \E e \in Notes : Take(e)
  <2>1. UNCHANGED <<row, applied, cut>> /\ drain # "mark" /\ drain' # "mark"
    BY <1>4 DEF Start, Fetch, DrainEnds, Take, database, bridge, ghost
  <2> QED
    BY <1>1, <2>1, QuietOutbox
<1>5. CASE Send
  BY <1>5, SendOutbox DEF Box!Next
<1>6. CASE drain = "mark" /\ (Mark \/ Crash)
  BY <1>6, MarkOutbox DEF Box!Next
<1>7. CASE drain # "mark" /\ Crash
  <2>1. UNCHANGED <<row, applied, cut>> /\ drain' # "mark"
    BY <1>7 DEF Crash, CutCount, database, bridge
  <2> QED
    BY <1>1, <1>7, <2>1, QuietOutbox
<1> QED
  BY <1>2, <1>3, <1>4, <1>5, <1>6, <1>7 DEF Next, Drain, Mark

(***************************************************************************)
(* The write queue implements Outbox: a row is settled once and left alone *)
(* then, and is sent again only if a drain died before it could mark it.   *)
(***************************************************************************)
THEOREM ImplementsOutbox == Spec => IsOutbox
<1>1. Init => Box!Init
  BY DEF Init, State, Box!Init
<1>2. QED
  BY <1>1, SpecIInv, NextOutbox, PTL DEF Spec, IsOutbox, Box!Spec
=============================================================================
