------------------------- MODULE PaymentQueueProofs -------------------------
(***************************************************************************)
(* Proofs about PaymentQueue, for every set of tabs, every number of       *)
(* payments, and every number of outages, faults and reloads.              *)
(***************************************************************************)
EXTENDS PaymentQueue, TLAPS, SequenceTheorems, WellFoundedInduction

(***************************************************************************)
(* Whatever waits anywhere has been submitted.                             *)
(***************************************************************************)
Submits ==
    /\ \A t \in Tabs : job[t] = "enqueue" => form[t] \in submitted
    /\ \A i \in 1 .. Len(queue) : queue[i] \in submitted
    /\ \A t \in Tabs : \A i \in 1 .. Len(saw[t]) : saw[t][i] \in submitted
    /\ \A r \in requests : r.payment \in submitted
    /\ \A p \in Payments : recorded[p] > 0 => p \in submitted

\* A request in its second stage has been recorded.
StageIsTrue == \A r \in requests : r.stage = "recorded" => recorded[r.payment] > 0

(***************************************************************************)
(* As long as no two tabs have accessed the queue at once, at most one is  *)
(* between its reading and its writing, and what it read is still there.   *)
(***************************************************************************)
Alone(t) == saw[t] = queue /\ \A u \in Tabs \ {t} : job[u] = "idle"
Undisturbed == overlap = "no" => \A t \in Tabs : job[t] # "idle" => Alone(t)

(***************************************************************************)
(* A payment submitted once is in one place: with the tab that is about to *)
(* enqueue it, in the queue, in one request not yet recorded, or with the  *)
(* server.                                                                 *)
(***************************************************************************)
Enqueuing(p) == \E t \in Tabs : job[t] = "enqueue" /\ form[t] = p
Sent(p) == \E r \in requests : r.payment = p /\ r.stage = "sent"

OnePlace(p) ==
    /\ recorded[p] <= 1
    /\ recorded[p] = 1 => ~Enqueuing(p) /\ ~InQueue(p) /\ ~Sent(p)
    /\ Sent(p) => ~Enqueuing(p) /\ ~InQueue(p)
    /\ InQueue(p) => ~Enqueuing(p)
    /\ \A r, s \in requests :
           r.payment = p /\ s.payment = p /\ r.stage = "sent" /\ s.stage = "sent" => r = s
    /\ \A i, j \in 1 .. Len(queue) : queue[i] = p /\ queue[j] = p => i = j

Once == overlap = "no" => \A p \in Payments \ resent : OnePlace(p)

IInv ==
    /\ TypeOK
    /\ Submits
    /\ StageIsTrue
    /\ Undisturbed
    /\ LossNeedsCause
    /\ Once

-----------------------------------------------------------------------------
(***************************************************************************)
(* The number LastId stands for exists: the least upper bound of the       *)
(* numbers of the requests under way.                                      *)
(***************************************************************************)
LEMMA LeastNumber ==
    ASSUME NEW S \in SUBSET Nat, S # {}
    PROVE  \E n \in S : \A m \in S : n <= m
<1> DEFINE R == OpToRel(<, Nat)
<1>1. \A x, y \in Nat : <<y, x>> \in R <=> y < x
  BY DEF OpToRel
<1>2. IsWellFoundedOn(R, Nat)
  BY NatLessThanWellFounded
<1> HIDE DEF R
<1>3. PICK n \in S : \A m \in S : ~ (<<m, n>> \in R)
  BY <1>2, WFMin
<1>4. \A m \in S : n \in Nat /\ m \in Nat /\ ~ (m < n)
  BY <1>1, <1>3
<1> QED
  BY <1>4

LEMMA LastIdType ==
    ASSUME TypeOK
    PROVE  LastId \in 0 .. MaxRequests /\ \A r \in requests : r.id <= LastId
<1>1. \A r \in requests : r.id \in 1 .. MaxRequests
  BY DEF TypeOK, Request
<1> DEFINE S == {n \in Nat : \A r \in requests : r.id <= n}
<1>2. MaxRequests \in S
  BY <1>1, BoundsAssumption
<1>3. PICK n \in S : \A m \in S : n <= m
  <2> HIDE DEF S
  <2>1. S \in SUBSET Nat /\ S # {}
    BY <1>2 DEF S
  <2> QED
    BY <2>1, LeastNumber
<1>4. n \in 0 .. MaxRequests /\ \A r \in requests : r.id <= n
  BY <1>2, <1>3, BoundsAssumption
<1>5. n = 0 \/ \E r \in requests : r.id = n
  <2> SUFFICES ASSUME n # 0 PROVE \E r \in requests : r.id = n
    OBVIOUS
  <2>1. n - 1 \in Nat /\ n - 1 \notin S
    BY <1>3
  <2>2. PICK r \in requests : ~ (r.id <= n - 1)
    BY <2>1
  <2> QED
    BY <1>1, <1>4, <2>2
<1> HIDE DEF S
<1> QED
  BY <1>4, <1>5 DEF LastId

-----------------------------------------------------------------------------
\* The requests a mutation adds, and what it does to the page.
LEMMA MutateType ==
    ASSUME TypeOK, NEW t \in Tabs, NEW ps \in Seq(Payments), Mutate(ps, t)
    PROVE  /\ requests' \subseteq Request
           /\ current' \in [Tabs -> 0 .. MaxRequests]
           /\ status' \in [Tabs -> {"idle", "error"}]
<1>1. /\ LastId \in Nat /\ Len(ps) \in Nat /\ MaxRequests \in Nat
      /\ LastId + Len(ps) <= MaxRequests
  BY LastIdType, BoundsAssumption DEF Mutate
<1>2. requests' \subseteq Request
  <2>1. ASSUME NEW i \in 1 .. Len(ps)
        PROVE  LastId + i \in 1 .. MaxRequests /\ ps[i] \in Payments
    BY <1>1
  <2>2. RequestsFor(ps, t) \subseteq Request
    BY <2>1 DEF RequestsFor, Request
  <2> QED
    BY <2>2 DEF Mutate, TypeOK
<1>3. LastId + Len(ps) \in 0 .. MaxRequests
  BY <1>1
<1> QED
  BY <1>2, <1>3 DEF Mutate, TypeOK

\* The outcome of a request leaves the page's view of its mutation typed.
LEMMA SettleType ==
    ASSUME TypeOK, NEW r, NEW how \in {"idle", "error"}, Settle(r, how)
    PROVE  status' \in [Tabs -> {"idle", "error"}] /\ current' \in [Tabs -> 0 .. MaxRequests]
<1>1. None \in 0 .. MaxRequests
  BY BoundsAssumption DEF None
<1>2. CASE r.mounted = "yes" /\ r.id = current[r.tab]
  BY <1>1, <1>2 DEF Settle, TypeOK
<1>3. CASE ~ (r.mounted = "yes" /\ r.id = current[r.tab])
  BY <1>3 DEF Settle, TypeOK
<1> QED
  BY <1>2, <1>3

LEMMA InitIInv == Init => IInv
<1> SUFFICES ASSUME Init PROVE IInv
  OBVIOUS
<1>1. TypeOK
  BY BoundsAssumption DEF Init, TypeOK, Payments, None
<1>2. Submits /\ StageIsTrue /\ Undisturbed /\ LossNeedsCause
  BY DEF Init, Submits, StageIsTrue, Undisturbed, LossNeedsCause, Payments
<1>3. Once
  BY DEF Init, Once, OnePlace, Enqueuing, InQueue, Sent, Payments
<1> QED
  BY <1>1, <1>2, <1>3 DEF IInv

(***************************************************************************)
(* Types.                                                                  *)
(***************************************************************************)
LEMMA TypeStep ==
    ASSUME TypeOK, Submits, [Next]_vars
    PROVE  TypeOK'
<1> USE BoundsAssumption DEF browser, storage, page, server, user, vars
<1>1. ASSUME NEW t \in Tabs, Mount(t) PROVE TypeOK'
  BY <1>1 DEF Mount, FreshPage, TypeOK, None
<1>2. ASSUME NEW t \in Tabs, Unmount(t) PROVE TypeOK'
  <2>1. \A r \in requests : Orphaned(r, t) \in Request
    BY DEF TypeOK, Request, Orphaned
  <2> QED
    BY <1>2, <2>1 DEF Unmount, FreshPage, TypeOK, None
<1>3. ASSUME NEW t \in Tabs, Unload(t) PROVE TypeOK'
  <2>1. failed' \subseteq submitted
    BY <1>3 DEF Unload, TypeOK, Submits
  <2> QED
    BY <1>3, <2>1 DEF Unload, Fault, FreshPage, TypeOK, None
<1>4. ASSUME NEW t \in Tabs, Fill(t) PROVE TypeOK'
  <2>1. filled + 1 \in Payments /\ filled' \in 0 .. MaxPayments
    BY <1>4 DEF Fill, TypeOK, Payments
  <2>2. form' \in [Tabs -> Payments \cup {None}] /\ form'[t] \in Payments
    BY <1>4, <2>1 DEF Fill, TypeOK
  <2>3. \A u \in Tabs : job[u] = "enqueue" => form'[u] \in Payments
    BY <1>4, <2>1 DEF Fill, TypeOK
  <2> QED
    BY <1>4, <2>1, <2>2, <2>3 DEF Fill, TypeOK
<1>5. ASSUME NEW t \in Tabs, SubmitOnline(t) PROVE TypeOK'
  <2>1. form[t] \in Payments
    BY <1>5 DEF SubmitOnline, CanSubmit, TypeOK
  <2>2. <<form[t]>> \in Seq(Payments)
    BY <2>1
  <2>3. /\ requests' \subseteq Request
        /\ current' \in [Tabs -> 0 .. MaxRequests]
        /\ status' \in [Tabs -> {"idle", "error"}]
    BY <1>5, <2>2, MutateType DEF SubmitOnline
  <2> QED
    BY <1>5, <2>1, <2>3 DEF SubmitOnline, Submitting, TypeOK
<1>6. ASSUME NEW t \in Tabs, SubmitOffline(t) PROVE TypeOK'
  <2>1. form[t] \in Payments
    BY <1>6 DEF SubmitOffline, CanSubmit, TypeOK
  <2> QED
    BY <1>6, <2>1 DEF SubmitOffline, CanSubmit, ShowsForm, Submitting, ReadQueue, TypeOK
<1>7. ASSUME NEW t \in Tabs, Enqueue(t) PROVE TypeOK'
  <2>1. form[t] \in Payments /\ form[t] \in submitted
    BY <1>7 DEF Enqueue, TypeOK, Submits
  <2>2. Append(saw[t], form[t]) \in Seq(Payments)
    BY <2>1 DEF TypeOK
  <2>3. saw' \in [Tabs -> Seq(Payments)]
    BY <1>7 DEF Enqueue, EndTurn, TypeOK
  <2> QED
    BY <1>7, <2>1, <2>2, <2>3 DEF Enqueue, EndTurn, TypeOK
<1>8. ASSUME NEW t \in Tabs, QueueAnother(t) PROVE TypeOK'
  BY <1>8 DEF QueueAnother, TypeOK, None
<1>9. ASSUME NEW t \in Tabs, RecordAnother(t) PROVE TypeOK'
  BY <1>9 DEF RecordAnother, TypeOK, None
<1>10. ASSUME NEW t \in Tabs, OnOnline(t) PROVE TypeOK'
  <2>1. CASE view[t] = "away"
    BY <1>10, <2>1 DEF OnOnline, TypeOK
  <2>2. CASE view[t] # "away"
    <3>1. /\ job' = [job EXCEPT ![t] = "drain"]
          /\ saw' = [saw EXCEPT ![t] = queue]
          /\ overlap' \in {"yes", overlap}
      BY <1>10, <2>2 DEF OnOnline, ReadQueue
    <3>2. job' \in [Tabs -> {"idle", "enqueue", "drain"}] /\ overlap' \in {"yes", "no"}
      BY <3>1 DEF TypeOK
    <3>3. saw' \in [Tabs -> Seq(Payments)]
      BY <3>1 DEF TypeOK
    <3>4. \A u \in Tabs : job'[u] = "enqueue" => form[u] \in Payments
      BY <3>1 DEF TypeOK
    <3>5. \A u \in Tabs : job'[u] # "idle" => view[u] # "away"
      BY <2>2, <3>1 DEF TypeOK
    <3> QED
      BY <1>10, <2>2, <3>2, <3>3, <3>4, <3>5 DEF OnOnline, TypeOK
  <2> QED
    BY <2>1, <2>2
<1>11. ASSUME NEW t \in Tabs, Drain(t) PROVE TypeOK'
  <2>1. saw[t] \in Seq(Payments)
    BY DEF TypeOK
  <2>2. /\ requests' \subseteq Request
        /\ current' \in [Tabs -> 0 .. MaxRequests]
        /\ status' \in [Tabs -> {"idle", "error"}]
    BY <1>11, <2>1, MutateType DEF Drain
  <2>3. saw' \in [Tabs -> Seq(Payments)] /\ queue' \in Seq(Payments)
    BY <1>11 DEF Drain, EndTurn, TypeOK
  <2> QED
    BY <1>11, <2>2, <2>3 DEF Drain, EndTurn, TypeOK
<1>12. ASSUME GoOffline PROVE TypeOK'
  BY <1>12 DEF GoOffline, TypeOK
<1>13. ASSUME GoOnline PROVE TypeOK'
  BY <1>13 DEF GoOnline, TypeOK
<1>14. ASSUME NEW r \in requests, Record(r) PROVE TypeOK'
  <2>1. r \in Request /\ [r EXCEPT !.stage = "recorded"] \in Request /\ r.payment \in Payments
    BY DEF TypeOK, Request
  <2>2. recorded' \in [Payments -> Nat]
    BY <1>14, <2>1 DEF Record, TypeOK
  <2>3. requests' \subseteq Request
    BY <1>14, <2>1 DEF Record, TypeOK
  <2> QED
    BY <1>14, <2>2, <2>3 DEF Record, TypeOK
<1>15. ASSUME NEW r \in requests, Answer(r) PROVE TypeOK'
  <2>1. status' \in [Tabs -> {"idle", "error"}] /\ current' \in [Tabs -> 0 .. MaxRequests]
    BY <1>15, SettleType DEF Answer
  <2>2. confirmed' \in [Tabs -> {"yes", "no"}]
    BY <1>15 DEF Answer, TypeOK
  <2> QED
    BY <1>15, <2>1, <2>2 DEF Answer, TypeOK
<1>16. ASSUME NEW r \in requests, Fail(r) PROVE TypeOK'
  <2>1. status' \in [Tabs -> {"idle", "error"}] /\ current' \in [Tabs -> 0 .. MaxRequests]
    BY <1>16, SettleType DEF Fail
  <2>2. failed' \subseteq submitted
    BY <1>16 DEF Fail, TypeOK, Submits
  <2>3. faults' \in 0 .. MaxFaults
    BY <1>16 DEF Fail, Fault, TypeOK
  <2> QED
    BY <1>16, <2>1, <2>2, <2>3 DEF Fail, TypeOK
<1>17. ASSUME UNCHANGED vars PROVE TypeOK'
  BY <1>17 DEF TypeOK
<1> QED
  BY <1>1, <1>2, <1>3, <1>4, <1>5, <1>6, <1>7, <1>8, <1>9, <1>10, <1>11, <1>12, <1>13, <1>14,
     <1>15, <1>16, <1>17
  DEF Next, Tab

-----------------------------------------------------------------------------
(***************************************************************************)
(* What waits has been submitted, and the stages of requests are true.     *)
(***************************************************************************)
LEMMA SubmitsStep ==
    ASSUME TypeOK, Submits, [Next]_vars
    PROVE  Submits'
<1> USE DEF browser, storage, page, server, user, vars
<1>1. ASSUME NEW t \in Tabs, Mount(t) PROVE Submits'
  BY <1>1 DEF Mount, FreshPage, TypeOK, Submits
<1>2. ASSUME NEW t \in Tabs, Unmount(t) PROVE Submits'
  <2>1. \A r \in requests : Orphaned(r, t).payment = r.payment
    BY DEF TypeOK, Request, Orphaned
  <2>2. \A r \in requests' : r.payment \in submitted
    BY <1>2, <2>1 DEF Unmount, Submits
  <2>3. \A u \in Tabs : job[u] = "enqueue" => form'[u] \in submitted
    BY <1>2 DEF Unmount, FreshPage, TypeOK, Submits
  <2> QED
    BY <1>2, <2>2, <2>3 DEF Unmount, Submits
<1>3. ASSUME NEW t \in Tabs, Unload(t) PROVE Submits'
  BY <1>3 DEF Unload, FreshPage, TypeOK, Submits
<1>4. ASSUME NEW t \in Tabs, Fill(t) PROVE Submits'
  BY <1>4 DEF Fill, TypeOK, Submits
<1>5. ASSUME NEW t \in Tabs, SubmitOnline(t) PROVE Submits'
  <2>1. submitted' = submitted \cup {form[t]}
    BY <1>5 DEF SubmitOnline, Submitting
  <2>2. \A r \in RequestsFor(<<form[t]>>, t) : r.payment = form[t]
    BY DEF RequestsFor
  <2>3. \A r \in requests' : r.payment \in submitted'
    BY <1>5, <2>1, <2>2 DEF SubmitOnline, Mutate, Submits
  <2> QED
    BY <1>5, <2>1, <2>3 DEF SubmitOnline, Submits
<1>6. ASSUME NEW t \in Tabs, SubmitOffline(t) PROVE Submits'
  <2>1. submitted' = submitted \cup {form[t]}
    BY <1>6 DEF SubmitOffline, Submitting
  <2>2. \A u \in Tabs : job'[u] = "enqueue" => form[u] \in submitted'
    BY <1>6, <2>1 DEF SubmitOffline, ReadQueue, TypeOK, Submits
  <2>3. \A u \in Tabs : saw'[u] = queue \/ saw'[u] = saw[u]
    BY <1>6 DEF SubmitOffline, ReadQueue, TypeOK
  <2>4. \A u \in Tabs : \A i \in 1 .. Len(saw'[u]) : saw'[u][i] \in submitted'
    BY <2>1, <2>3 DEF Submits
  <2> QED
    BY <1>6, <2>1, <2>2, <2>4 DEF SubmitOffline, Submits
<1>7. ASSUME NEW t \in Tabs, Enqueue(t) PROVE Submits'
  <2>1. form[t] \in submitted /\ saw[t] \in Seq(Payments) /\ form[t] \in Payments
    BY <1>7 DEF Enqueue, TypeOK, Submits
  <2>2. /\ queue' = Append(saw[t], form[t])
        /\ Len(saw[t]) \in Nat /\ Len(queue') = Len(saw[t]) + 1
        /\ \A i \in 1 .. Len(queue') : queue'[i] = IF i <= Len(saw[t]) THEN saw[t][i] ELSE form[t]
    BY <1>7, <2>1, AppendProperties DEF Enqueue
  <2>3. \A i \in 1 .. Len(queue') : queue'[i] \in submitted
    BY <2>1, <2>2 DEF Submits
  <2>4. /\ \A u \in Tabs : job'[u] = "enqueue" => form[u] \in submitted
        /\ \A u \in Tabs : \A i \in 1 .. Len(saw'[u]) : saw'[u][i] \in submitted
    BY <1>7 DEF Enqueue, EndTurn, TypeOK, Submits
  <2> QED
    BY <1>7, <2>3, <2>4 DEF Enqueue, Submits
<1>8. ASSUME NEW t \in Tabs, QueueAnother(t) PROVE Submits'
  BY <1>8 DEF QueueAnother, TypeOK, Submits
<1>9. ASSUME NEW t \in Tabs, RecordAnother(t) PROVE Submits'
  BY <1>9 DEF RecordAnother, TypeOK, Submits
<1>10. ASSUME NEW t \in Tabs, OnOnline(t) PROVE Submits'
  <2>1. CASE view[t] = "away"
    BY <1>10, <2>1 DEF OnOnline, Submits
  <2>2. CASE view[t] # "away"
    <3>1. \A u \in Tabs : job'[u] = "enqueue" => form[u] \in submitted
      BY <1>10, <2>2 DEF OnOnline, ReadQueue, TypeOK, Submits
    <3>2. \A u \in Tabs : saw'[u] = queue \/ saw'[u] = saw[u]
      BY <1>10, <2>2 DEF OnOnline, ReadQueue, TypeOK
    <3> QED
      BY <1>10, <2>2, <3>1, <3>2 DEF OnOnline, Submits
  <2> QED
    BY <2>1, <2>2
<1>11. ASSUME NEW t \in Tabs, Drain(t) PROVE Submits'
  <2>1. \A r \in RequestsFor(saw[t], t) : r.payment \in submitted
    BY DEF RequestsFor, Submits
  <2>2. \A r \in requests' : r.payment \in submitted
    BY <1>11, <2>1 DEF Drain, Mutate, Submits
  <2>3. /\ \A u \in Tabs : job'[u] = "enqueue" => form[u] \in submitted
        /\ \A u \in Tabs : \A i \in 1 .. Len(saw'[u]) : saw'[u][i] \in submitted
    BY <1>11 DEF Drain, EndTurn, TypeOK, Submits
  <2> QED
    BY <1>11, <2>2, <2>3 DEF Drain, Submits
<1>12. ASSUME GoOffline \/ GoOnline PROVE Submits'
  BY <1>12 DEF GoOffline, GoOnline, Submits
<1>13. ASSUME NEW r \in requests, Record(r) PROVE Submits'
  <2>1. r \in Request /\ [r EXCEPT !.stage = "recorded"].payment = r.payment
    BY DEF TypeOK, Request
  <2>2. \A p \in Payments : recorded'[p] > 0 => p \in submitted
    BY <1>13 DEF Record, TypeOK, Submits
  <2> QED
    BY <1>13, <2>1, <2>2 DEF Record, Submits
<1>14. ASSUME NEW r \in requests, Answer(r) \/ Fail(r) PROVE Submits'
  BY <1>14 DEF Answer, Fail, Submits
<1>15. ASSUME UNCHANGED vars PROVE Submits'
  BY <1>15 DEF Submits
<1> QED
  BY <1>1, <1>2, <1>3, <1>4, <1>5, <1>6, <1>7, <1>8, <1>9, <1>10, <1>11, <1>12, <1>13, <1>14,
     <1>15
  DEF Next, Tab

LEMMA StageStep ==
    ASSUME TypeOK, StageIsTrue, [Next]_vars
    PROVE  StageIsTrue'
<1> USE DEF browser, storage, page, server, user, vars
<1>1. ASSUME NEW t \in Tabs, Unmount(t) PROVE StageIsTrue'
  <2>1. \A r \in requests : Orphaned(r, t).payment = r.payment /\ Orphaned(r, t).stage = r.stage
    BY DEF TypeOK, Request, Orphaned
  <2> QED
    BY <1>1, <2>1 DEF Unmount, StageIsTrue
<1>2. ASSUME NEW t \in Tabs, NEW ps, Mutate(ps, t), UNCHANGED recorded PROVE StageIsTrue'
  <2>1. \A r \in RequestsFor(ps, t) : r.stage = "sent"
    BY DEF RequestsFor
  <2> QED
    BY <1>2, <2>1 DEF Mutate, StageIsTrue
<1>3. ASSUME NEW t \in Tabs, SubmitOnline(t) PROVE StageIsTrue'
  BY <1>2, <1>3 DEF SubmitOnline
<1>4. ASSUME NEW t \in Tabs, Drain(t) PROVE StageIsTrue'
  BY <1>2, <1>4 DEF Drain
<1>5. ASSUME NEW r \in requests, Record(r) PROVE StageIsTrue'
  <2>1. r \in Request /\ [r EXCEPT !.stage = "recorded"].payment = r.payment
    BY DEF TypeOK, Request
  <2>2. recorded'[r.payment] > 0 /\ \A p \in Payments : recorded[p] > 0 => recorded'[p] > 0
    BY <1>5, <2>1 DEF Record, TypeOK, Request
  <2>3. \A s \in requests : s.payment \in Payments
    BY DEF TypeOK, Request
  <2> QED
    BY <1>5, <2>1, <2>2, <2>3 DEF Record, StageIsTrue
<1>6. ASSUME UNCHANGED <<requests, recorded>> PROVE StageIsTrue'
  BY <1>6 DEF StageIsTrue
<1>7. ASSUME requests' \subseteq requests, UNCHANGED recorded PROVE StageIsTrue'
  BY <1>7 DEF StageIsTrue
<1>8. ASSUME NEW t \in Tabs, Unload(t) PROVE StageIsTrue'
  BY <1>7, <1>8 DEF Unload
<1>9. ASSUME NEW r \in requests, Answer(r) \/ Fail(r) PROVE StageIsTrue'
  BY <1>7, <1>9 DEF Answer, Fail
<1> QED
  BY <1>1, <1>3, <1>4, <1>5, <1>6, <1>8, <1>9
  DEF Next, Tab, Mount, Fill, SubmitOffline, Enqueue, QueueAnother, RecordAnother, OnOnline,
      GoOffline, GoOnline

-----------------------------------------------------------------------------
(***************************************************************************)
(* Reading the queue and writing it back.                                  *)
(***************************************************************************)
LEMMA UndisturbedStep ==
    ASSUME TypeOK, Undisturbed, [Next]_vars
    PROVE  Undisturbed'
<1> USE DEF browser, storage, page, server, user, vars
<1>1. ASSUME NEW t \in Tabs, NEW what, job[t] = "idle", ReadQueue(t, what), UNCHANGED queue
      PROVE  Undisturbed'
  <2> SUFFICES ASSUME overlap' = "no", NEW u \in Tabs, job'[u] # "idle" PROVE Alone(u)'
    BY DEF Undisturbed
  <2>1. \A v \in Tabs \ {t} : job[v] = "idle"
    BY <1>1 DEF ReadQueue
  <2>2. u = t
    BY <1>1, <2>1 DEF ReadQueue, TypeOK
  <2> QED
    BY <1>1, <2>1, <2>2 DEF ReadQueue, Alone, TypeOK
<1>2. ASSUME NEW t \in Tabs, job[t] # "idle", EndTurn(t), UNCHANGED overlap
      PROVE  Undisturbed'
  <2> SUFFICES ASSUME overlap' = "no", NEW u \in Tabs, job'[u] # "idle" PROVE FALSE
    BY DEF Undisturbed
  <2>1. \A v \in Tabs \ {t} : job[v] = "idle"
    BY <1>2 DEF Undisturbed, Alone
  <2> QED
    BY <1>2, <2>1 DEF EndTurn, TypeOK
<1>3. ASSUME UNCHANGED <<job, saw, queue, overlap>> PROVE Undisturbed'
  BY <1>3 DEF Undisturbed, Alone
<1>4. ASSUME NEW t \in Tabs, SubmitOffline(t) PROVE Undisturbed'
  BY <1>1, <1>4 DEF SubmitOffline, CanSubmit
<1>5. ASSUME NEW t \in Tabs, OnOnline(t) PROVE Undisturbed'
  BY <1>1, <1>3, <1>5 DEF OnOnline
<1>6. ASSUME NEW t \in Tabs, Enqueue(t) PROVE Undisturbed'
  BY <1>2, <1>6 DEF Enqueue
<1>7. ASSUME NEW t \in Tabs, Drain(t) PROVE Undisturbed'
  BY <1>2, <1>7 DEF Drain
<1> QED
  BY <1>3, <1>4, <1>5, <1>6, <1>7
  DEF Next, Tab, Mount, Unmount, Unload, Fill, SubmitOnline, QueueAnother, RecordAnother,
      GoOffline, GoOnline, Record, Answer, Fail

\* What an append does to the members of the queue.
LEMMA AppendMembers ==
    ASSUME NEW q \in Seq(Payments), NEW p \in Payments
    PROVE  /\ Len(q) \in Nat
           /\ Len(Append(q, p)) = Len(q) + 1
           /\ \A i \in 1 .. Len(q) : Append(q, p)[i] = q[i]
           /\ Append(q, p)[Len(q) + 1] = p
  BY AppendProperties

(***************************************************************************)
(* A promised payment is somewhere, unless something happened to it.       *)
(***************************************************************************)
LEMMA LossStep ==
    ASSUME TypeOK, Submits, StageIsTrue, Undisturbed, LossNeedsCause, [Next]_vars
    PROVE  LossNeedsCause'
<1> USE DEF browser, storage, page, server, user, vars
<1>1. ASSUME UNCHANGED <<accepted, queue, recorded>>, failed \subseteq failed',
             overlap = "yes" => overlap' = "yes",
             \A p \in accepted : UnderWay(p) => UnderWay(p)' \/ recorded[p] > 0 \/ p \in failed'
      PROVE  LossNeedsCause'
  BY <1>1 DEF LossNeedsCause, InQueue
<1>2. ASSUME UNCHANGED <<accepted, queue, recorded, failed, requests>>,
             overlap = "yes" => overlap' = "yes"
      PROVE  LossNeedsCause'
  BY <1>1, <1>2 DEF UnderWay
<1>3. ASSUME NEW t \in Tabs, Unmount(t) PROVE LossNeedsCause'
  <2>1. \A r \in requests : Orphaned(r, t).payment = r.payment
    BY DEF TypeOK, Request, Orphaned
  <2>2. \A p \in accepted : UnderWay(p) => UnderWay(p)'
    BY <1>3, <2>1 DEF Unmount, UnderWay
  <2> QED
    BY <1>1, <1>3, <2>2 DEF Unmount
<1>4. ASSUME NEW t \in Tabs, Unload(t) PROVE LossNeedsCause'
  <2>1. \A p \in accepted : UnderWay(p) => UnderWay(p)' \/ p \in failed'
    BY <1>4 DEF Unload, UnderWay
  <2> QED
    BY <1>1, <1>4, <2>1 DEF Unload
<1>5. ASSUME NEW t \in Tabs, SubmitOnline(t) PROVE LossNeedsCause'
  <2>1. requests \subseteq requests'
    BY <1>5 DEF SubmitOnline, Mutate
  <2> QED
    BY <1>1, <1>5, <2>1 DEF SubmitOnline, UnderWay
<1>6. ASSUME NEW t \in Tabs, SubmitOffline(t) PROVE LossNeedsCause'
  BY <1>2, <1>6 DEF SubmitOffline, ReadQueue
<1>7. ASSUME NEW t \in Tabs, OnOnline(t) PROVE LossNeedsCause'
  BY <1>2, <1>7 DEF OnOnline, ReadQueue
<1>8. ASSUME NEW t \in Tabs, Enqueue(t) PROVE LossNeedsCause'
  <2> SUFFICES ASSUME NEW p \in accepted', overlap' = "no"
               PROVE  InQueue(p)' \/ UnderWay(p)' \/ recorded'[p] > 0 \/ p \in failed'
    <3>1. overlap' \in {"yes", "no"}
      BY <1>8 DEF Enqueue, TypeOK
    <3> QED
      BY <3>1 DEF LossNeedsCause
  <2>1. queue' = Append(queue, form[t]) /\ form[t] \in Payments /\ queue \in Seq(Payments)
    BY <1>8 DEF Enqueue, Undisturbed, Alone, TypeOK
  <2>2. CASE p = form[t]
    BY <2>1, <2>2, AppendMembers DEF InQueue
  <2>3. CASE p # form[t]
    <3>1. InQueue(p) \/ UnderWay(p) \/ recorded[p] > 0 \/ p \in failed
      BY <1>8, <2>3 DEF Enqueue, LossNeedsCause
    <3>2. InQueue(p) => InQueue(p)'
      BY <2>1, AppendMembers DEF InQueue
    <3> QED
      BY <1>8, <3>1, <3>2 DEF Enqueue, UnderWay
  <2> QED
    BY <2>2, <2>3
<1>9. ASSUME NEW t \in Tabs, Drain(t) PROVE LossNeedsCause'
  <2> SUFFICES ASSUME NEW p \in accepted, overlap = "no"
               PROVE  UnderWay(p)' \/ recorded'[p] > 0 \/ p \in failed'
    <3>1. overlap \in {"yes", "no"} /\ UNCHANGED <<overlap, accepted>>
      BY <1>9 DEF Drain, TypeOK
    <3> QED
      BY <3>1 DEF LossNeedsCause
  <2>1. saw[t] = queue
    BY <1>9 DEF Drain, Undisturbed, Alone
  <2>2. requests' = requests \cup RequestsFor(queue, t)
    BY <1>9, <2>1 DEF Drain, Mutate
  <2>3. CASE InQueue(p)
    <3>1. PICK i \in 1 .. Len(queue) : queue[i] = p
      BY <2>3 DEF InQueue
    <3> DEFINE r == [id |-> LastId + i, payment |-> queue[i], tab |-> t,
                     mounted |-> "yes", stage |-> "sent"]
    <3>2. r \in RequestsFor(queue, t)
      BY DEF RequestsFor
    <3>3. r.payment = p
      BY <3>1
    <3> HIDE DEF r
    <3> QED
      BY <2>2, <3>2, <3>3 DEF UnderWay
  <2>4. CASE ~InQueue(p)
    BY <1>9, <2>2, <2>4 DEF Drain, LossNeedsCause, UnderWay
  <2> QED
    BY <2>3, <2>4
<1>10. ASSUME NEW r \in requests, Record(r) PROVE LossNeedsCause'
  <2> SUFFICES ASSUME NEW p \in accepted, overlap # "yes"
               PROVE  InQueue(p)' \/ UnderWay(p)' \/ recorded'[p] > 0 \/ p \in failed'
    BY <1>10 DEF Record, LossNeedsCause
  <2>1. r \in Request /\ [r EXCEPT !.stage = "recorded"].payment = r.payment
    BY DEF TypeOK, Request
  <2>2. UnderWay(p) => UnderWay(p)'
    BY <1>10, <2>1 DEF Record, UnderWay
  <2>3. recorded[p] > 0 => recorded'[p] > 0
    <3>1. p \in Payments
      BY DEF TypeOK
    <3> QED
      <4>1. /\ recorded \in [Payments -> Nat]
            /\ recorded' = [recorded EXCEPT ![r.payment] = @ + 1]
        BY <1>10 DEF Record, TypeOK
      <4> QED
        BY <3>1, <4>1
  <2>4. InQueue(p) \/ UnderWay(p) \/ recorded[p] > 0 \/ p \in failed
    BY DEF LossNeedsCause
  <2> QED
    BY <1>10, <2>2, <2>3, <2>4 DEF Record, InQueue
<1>11. ASSUME NEW r \in requests, Answer(r) PROVE LossNeedsCause'
  <2>1. recorded[r.payment] > 0
    BY <1>11 DEF Answer, StageIsTrue
  <2>2. \A p \in accepted : UnderWay(p) => UnderWay(p)' \/ recorded[p] > 0
    BY <1>11, <2>1 DEF Answer, UnderWay
  <2> QED
    BY <1>1, <1>11, <2>2 DEF Answer
<1>12. ASSUME NEW r \in requests, Fail(r) PROVE LossNeedsCause'
  <2>1. \A p \in accepted : UnderWay(p) => UnderWay(p)' \/ p \in failed'
    BY <1>12 DEF Fail, UnderWay
  <2> QED
    BY <1>1, <1>12, <2>1 DEF Fail
<1> QED
  BY <1>2, <1>3, <1>4, <1>5, <1>6, <1>7, <1>8, <1>9, <1>10, <1>11, <1>12
  DEF Next, Tab, Mount, Fill, QueueAnother, RecordAnother, GoOffline, GoOnline

-----------------------------------------------------------------------------
(***************************************************************************)
(* A payment submitted once is in one place.  The first lemma is about the *)
(* steps that only take things away from their places.                     *)
(***************************************************************************)
LEMMA OnceKept ==
    ASSUME Once, overlap' = "no" => overlap = "no", UNCHANGED <<queue, recorded>>,
           resent \subseteq resent', requests' \subseteq requests,
           \A p \in Payments : Enqueuing(p)' => Enqueuing(p)
    PROVE  Once'
<1> SUFFICES ASSUME overlap' = "no", NEW p \in Payments, p \notin resent' PROVE OnePlace(p)'
  BY DEF Once, Payments
<1>1. OnePlace(p)
  BY DEF Once
<1>2. Sent(p)' => Sent(p)
  BY DEF Sent
<1> QED
  BY <1>1, <1>2 DEF OnePlace, InQueue

\* A form that changes in a tab that is not enqueuing makes nothing be enqueued.
LEMMA FormChanged ==
    ASSUME TypeOK, NEW t \in Tabs, job[t] # "enqueue", NEW v,
           form' = [form EXCEPT ![t] = v], UNCHANGED job
    PROVE  \A p \in Payments : Enqueuing(p)' => Enqueuing(p)
  BY DEF Enqueuing, TypeOK

LEMMA OnceStep ==
    ASSUME TypeOK, Submits, Undisturbed, Once, [Next]_vars
    PROVE  Once'
<1> USE DEF browser, storage, page, server, user, vars
<1>1. ASSUME NEW t \in Tabs, Mount(t) \/ Unload(t) PROVE Once'
  <2>1. job[t] # "enqueue"
    BY <1>1 DEF Mount, Unload, TypeOK
  <2>2. form' = [form EXCEPT ![t] = None] /\ UNCHANGED job
    BY <1>1 DEF Mount, Unload, FreshPage
  <2>3. \A p \in Payments : Enqueuing(p)' => Enqueuing(p)
    BY <2>1, <2>2, FormChanged
  <2> QED
    BY <1>1, <2>3, OnceKept DEF Mount, Unload
<1>2. ASSUME NEW t \in Tabs, Unmount(t) PROVE Once'
  <2> SUFFICES ASSUME overlap' = "no", NEW p \in Payments, p \notin resent' PROVE OnePlace(p)'
    BY DEF Once, Payments
  <2>1. OnePlace(p)
    BY <1>2 DEF Unmount, Once
  <2>2. Enqueuing(p)' => Enqueuing(p)
    BY <1>2, FormChanged DEF Unmount, FreshPage
  <2>3. \A r \in requests : Orphaned(r, t).payment = r.payment /\ Orphaned(r, t).stage = r.stage
    BY DEF TypeOK, Request, Orphaned
  <2>4. requests' = {Orphaned(r, t) : r \in requests}
    BY <1>2 DEF Unmount
  <2>5. Sent(p)' => Sent(p)
    BY <2>3, <2>4 DEF Sent
  <2>6. ASSUME NEW r \in requests', NEW s \in requests', r.payment = p, s.payment = p,
               r.stage = "sent", s.stage = "sent"
        PROVE  r = s
    <3>1. PICK q \in requests : r = Orphaned(q, t)
      BY <2>4
    <3>2. PICK u \in requests : s = Orphaned(u, t)
      BY <2>4
    <3>3. q.payment = p /\ u.payment = p /\ q.stage = "sent" /\ u.stage = "sent"
      BY <2>3, <2>6, <3>1, <3>2
    <3> QED
      BY <2>1, <3>1, <3>2, <3>3 DEF OnePlace
  <2> QED
    BY <1>2, <2>1, <2>2, <2>5, <2>6 DEF Unmount, OnePlace, InQueue
<1>3. ASSUME NEW t \in Tabs, Fill(t) \/ QueueAnother(t) \/ RecordAnother(t) PROVE Once'
  <2>1. PICK v : form' = [form EXCEPT ![t] = v]
    BY <1>3 DEF Fill, QueueAnother, RecordAnother
  <2>2. job[t] # "enqueue" /\ UNCHANGED job
    BY <1>3 DEF Fill, QueueAnother, RecordAnother
  <2>3. \A p \in Payments : Enqueuing(p)' => Enqueuing(p)
    BY <2>1, <2>2, FormChanged
  <2> QED
    BY <1>3, <2>3, OnceKept DEF Fill, QueueAnother, RecordAnother
<1>4. ASSUME NEW t \in Tabs, SubmitOnline(t) PROVE Once'
  <2> SUFFICES ASSUME overlap = "no", NEW p \in Payments, p \notin resent' PROVE OnePlace(p)'
    BY <1>4 DEF SubmitOnline, Once, Payments
  <2>1. p \notin resent /\ OnePlace(p)
    BY <1>4 DEF SubmitOnline, Submitting, Once
  <2>2. UNCHANGED <<queue, recorded, job, form>>
    BY <1>4 DEF SubmitOnline
  <2> DEFINE new == [id |-> LastId + 1, payment |-> form[t], tab |-> t,
                     mounted |-> "yes", stage |-> "sent"]
  <2>3. requests' = requests \cup {new}
    <3>1. RequestsFor(<<form[t]>>, t) = {new}
      BY DEF RequestsFor
    <3> QED
      BY <1>4, <3>1 DEF SubmitOnline, Mutate
  <2>4. new.payment = form[t]
    OBVIOUS
  <2> HIDE DEF new
  <2>5. CASE p = form[t]
    <3>1. p \notin submitted
      BY <1>4, <2>5 DEF SubmitOnline, Submitting
    <3>2. ~Enqueuing(p) /\ ~InQueue(p) /\ ~Sent(p) /\ recorded[p] = 0
      BY <3>1 DEF Submits, Enqueuing, InQueue, Sent, TypeOK
    <3>3. ~Enqueuing(p)' /\ ~InQueue(p)'
      BY <2>2, <3>2 DEF Enqueuing, InQueue
    <3>4. \A r, s \in requests' :
              r.payment = p /\ s.payment = p /\ r.stage = "sent" /\ s.stage = "sent" => r = s
      BY <2>3, <3>2 DEF Sent
    <3> QED
      BY <2>1, <2>2, <3>2, <3>3, <3>4 DEF OnePlace
  <2>6. CASE p # form[t]
    <3>1. \A r \in requests' : r.payment = p => r \in requests
      BY <2>3, <2>4, <2>6
    <3>2. Sent(p)' => Sent(p)
      BY <3>1 DEF Sent
    <3> QED
      BY <2>1, <2>2, <3>1, <3>2 DEF OnePlace, Enqueuing, InQueue
  <2> QED
    BY <2>5, <2>6
<1>5. ASSUME NEW t \in Tabs, SubmitOffline(t) PROVE Once'
  <2> SUFFICES ASSUME overlap' = "no", NEW p \in Payments, p \notin resent' PROVE OnePlace(p)'
    BY DEF Once, Payments
  <2>1. p \notin resent /\ OnePlace(p)
    BY <1>5 DEF SubmitOffline, Submitting, ReadQueue, Once
  <2>2. UNCHANGED <<queue, recorded, requests, form>>
    BY <1>5 DEF SubmitOffline
  <2>3. CASE p = form[t]
    <3>1. p \notin submitted
      BY <1>5, <2>3 DEF SubmitOffline, Submitting
    <3>2. ~InQueue(p) /\ ~Sent(p) /\ recorded[p] = 0
      BY <3>1 DEF Submits, InQueue, Sent, TypeOK
    <3> QED
      BY <2>1, <2>2, <3>2 DEF OnePlace, InQueue, Sent
  <2>4. CASE p # form[t]
    <3>1. Enqueuing(p)' => Enqueuing(p)
      BY <1>5, <2>2, <2>4 DEF SubmitOffline, ReadQueue, Enqueuing, TypeOK
    <3> QED
      BY <2>1, <2>2, <3>1 DEF OnePlace, InQueue, Sent
  <2> QED
    BY <2>3, <2>4
<1>6. ASSUME NEW t \in Tabs, OnOnline(t) PROVE Once'
  <2>1. \A p \in Payments : Enqueuing(p)' => Enqueuing(p)
    BY <1>6 DEF OnOnline, ReadQueue, Enqueuing, TypeOK
  <2>2. overlap' = "no" => overlap = "no"
    BY <1>6 DEF OnOnline, ReadQueue
  <2> QED
    BY <1>6, <2>1, <2>2, OnceKept DEF OnOnline
<1>7. ASSUME NEW t \in Tabs, Enqueue(t) PROVE Once'
  <2> SUFFICES ASSUME overlap = "no", NEW p \in Payments, p \notin resent PROVE OnePlace(p)'
    BY <1>7 DEF Enqueue, Once, Payments
  <2>1. OnePlace(p)
    BY DEF Once
  <2>2. /\ queue' = Append(queue, form[t]) /\ form[t] \in Payments /\ queue \in Seq(Payments)
        /\ UNCHANGED <<recorded, requests, form>>
        /\ \A u \in Tabs \ {t} : job[u] = "idle"
    BY <1>7 DEF Enqueue, Undisturbed, Alone, TypeOK
  <2>3. /\ Len(queue) \in Nat /\ Len(queue') = Len(queue) + 1
        /\ \A i \in 1 .. Len(queue) : queue'[i] = queue[i]
        /\ queue'[Len(queue) + 1] = form[t]
    BY <2>2, AppendMembers
  <2>4. ~Enqueuing(p)'
    BY <1>7, <2>2 DEF Enqueue, EndTurn, Enqueuing, TypeOK
  <2>5. CASE p = form[t]
    <3>1. Enqueuing(p)
      BY <1>7, <2>5 DEF Enqueue, Enqueuing
    <3>2. ~InQueue(p) /\ ~Sent(p) /\ recorded[p] # 1
      BY <2>1, <3>1 DEF OnePlace
    <3>3. \A i, j \in 1 .. Len(queue') : queue'[i] = p /\ queue'[j] = p => i = j
      BY <2>3, <3>2 DEF InQueue
    <3> QED
      BY <2>1, <2>2, <2>4, <3>2, <3>3 DEF OnePlace, Sent
  <2>6. CASE p # form[t]
    <3>1. InQueue(p)' => InQueue(p)
      BY <2>3, <2>6 DEF InQueue
    <3>2. \A i, j \in 1 .. Len(queue') : queue'[i] = p /\ queue'[j] = p => i = j
      <4>1. \A i \in 1 .. Len(queue') : queue'[i] = p => i \in 1 .. Len(queue) /\ queue[i] = p
        BY <2>3, <2>6
      <4> QED
        BY <2>1, <4>1 DEF OnePlace
    <3> QED
      BY <2>1, <2>2, <2>4, <3>1, <3>2 DEF OnePlace, Sent
  <2> QED
    BY <2>5, <2>6
<1>8. ASSUME NEW t \in Tabs, Drain(t) PROVE Once'
  <2> SUFFICES ASSUME overlap = "no", NEW p \in Payments, p \notin resent PROVE OnePlace(p)'
    BY <1>8 DEF Drain, Once, Payments
  <2>1. OnePlace(p)
    BY DEF Once
  <2>2. /\ saw[t] = queue /\ queue' = <<>> /\ UNCHANGED <<recorded, form>>
        /\ \A u \in Tabs \ {t} : job[u] = "idle"
    BY <1>8 DEF Drain, Undisturbed, Alone
  <2>3. requests' = requests \cup RequestsFor(queue, t)
    BY <1>8, <2>2 DEF Drain, Mutate
  <2>4. ~Enqueuing(p)' /\ ~InQueue(p)'
    BY <1>8, <2>2 DEF Drain, EndTurn, Enqueuing, InQueue, TypeOK
  <2> DEFINE Nth(i) == [id |-> LastId + i, payment |-> queue[i], tab |-> t,
                        mounted |-> "yes", stage |-> "sent"]
  <2>5. ASSUME NEW r \in RequestsFor(queue, t), r.payment = p
        PROVE  \E i \in 1 .. Len(queue) : r = Nth(i) /\ queue[i] = p
    <3>1. PICK i \in 1 .. Len(queue) : r = Nth(i)
      BY DEF RequestsFor
    <3>2. Nth(i).payment = queue[i]
      OBVIOUS
    <3> HIDE DEF Nth
    <3> QED
      BY <2>5, <3>1, <3>2
  <2> HIDE DEF Nth
  <2>6. (\E r \in RequestsFor(queue, t) : r.payment = p) => InQueue(p)
    BY <2>5 DEF InQueue
  <2>7. Sent(p)' => Sent(p) \/ InQueue(p)
    BY <2>3, <2>6 DEF Sent
  <2>8. ASSUME NEW r \in requests', NEW s \in requests', r.payment = p, s.payment = p,
               r.stage = "sent", s.stage = "sent"
        PROVE  r = s
    <3>1. CASE r \in requests /\ s \in requests
      BY <2>1, <2>8, <3>1 DEF OnePlace
    <3>2. CASE r \in RequestsFor(queue, t) /\ s \in RequestsFor(queue, t)
      <4>1. PICK i \in 1 .. Len(queue) : r = Nth(i) /\ queue[i] = p
        BY <2>5, <2>8, <3>2
      <4>2. PICK j \in 1 .. Len(queue) : s = Nth(j) /\ queue[j] = p
        BY <2>5, <2>8, <3>2
      <4> QED
        BY <2>1, <4>1, <4>2 DEF OnePlace
    <3>3. CASE (r \in requests \/ s \in requests) /\ InQueue(p)
      BY <2>1, <2>8, <3>3 DEF OnePlace, Sent
    <3> QED
      BY <2>3, <2>6, <2>8, <3>1, <3>2, <3>3
  <2> QED
    BY <2>1, <2>2, <2>4, <2>7, <2>8 DEF OnePlace
<1>9. ASSUME NEW r \in requests, Record(r) PROVE Once'
  <2> SUFFICES ASSUME overlap = "no", NEW p \in Payments, p \notin resent PROVE OnePlace(p)'
    BY <1>9 DEF Record, Once, Payments
  <2>1. OnePlace(p)
    BY DEF Once
  <2> DEFINE new == [r EXCEPT !.stage = "recorded"]
  <2>2. r \in Request /\ r.stage = "sent" /\ new.stage = "recorded"
    BY <1>9 DEF Record, TypeOK, Request
  <2>3. requests' = (requests \ {r}) \cup {new}
    BY <1>9 DEF Record
  <2> HIDE DEF new
  <2>4. \A s \in requests' : s.stage = "sent" => s \in requests /\ s # r
    BY <2>2, <2>3
  <2>5. UNCHANGED <<queue, job, form>>
    BY <1>9 DEF Record
  <2>6. (Enqueuing(p)' <=> Enqueuing(p)) /\ (InQueue(p)' <=> InQueue(p)) /\ (Sent(p)' => Sent(p))
    BY <2>4, <2>5 DEF Enqueuing, InQueue, Sent
  <2>7. recorded[p] \in Nat /\ r.payment \in Payments
        /\ recorded' = [recorded EXCEPT ![r.payment] = @ + 1] /\ recorded \in [Payments -> Nat]
    BY <1>9, <2>2 DEF Record, TypeOK, Request
  <2>8. CASE p = r.payment
    <3>1. Sent(p)
      BY <2>2, <2>8 DEF Sent
    <3>2. recorded[p] = 0 /\ ~Enqueuing(p) /\ ~InQueue(p)
      BY <2>1, <2>7, <3>1 DEF OnePlace
    <3>3. recorded'[p] = 1
      BY <2>7, <2>8, <3>2
    <3>4. ~Sent(p)'
      BY <2>1, <2>2, <2>4, <2>8 DEF OnePlace, Sent
    <3>5. \A q, s \in requests' :
              q.payment = p /\ s.payment = p /\ q.stage = "sent" /\ s.stage = "sent" => q = s
      BY <2>1, <2>4 DEF OnePlace
    <3> QED
      BY <2>1, <2>5, <2>6, <3>2, <3>3, <3>4, <3>5 DEF OnePlace
  <2>9. CASE p # r.payment
    <3>1. recorded'[p] = recorded[p]
      BY <2>7, <2>9
    <3>2. \A q, s \in requests' :
              q.payment = p /\ s.payment = p /\ q.stage = "sent" /\ s.stage = "sent" => q = s
      BY <2>1, <2>4 DEF OnePlace
    <3> QED
      BY <2>1, <2>5, <2>6, <3>1, <3>2 DEF OnePlace
  <2> QED
    BY <2>8, <2>9
<1>10. ASSUME NEW r \in requests, Answer(r) \/ Fail(r) PROVE Once'
  <2>1. UNCHANGED <<job, form>>
    BY <1>10 DEF Answer, Fail
  <2>2. \A p \in Payments : Enqueuing(p)' => Enqueuing(p)
    BY <2>1 DEF Enqueuing
  <2> QED
    BY <1>10, <2>2, OnceKept DEF Answer, Fail
<1>11. ASSUME GoOffline \/ GoOnline \/ UNCHANGED vars PROVE Once'
  <2>1. UNCHANGED <<job, form>>
    BY <1>11 DEF GoOffline, GoOnline
  <2>2. \A p \in Payments : Enqueuing(p)' => Enqueuing(p)
    BY <2>1 DEF Enqueuing
  <2> QED
    BY <1>11, <2>2, OnceKept DEF GoOffline, GoOnline
<1> QED
  BY <1>1, <1>2, <1>3, <1>4, <1>5, <1>6, <1>7, <1>8, <1>9, <1>10, <1>11
  DEF Next, Tab

-----------------------------------------------------------------------------
LEMMA NextIInv == IInv /\ [Next]_vars => IInv'
  BY TypeStep, SubmitsStep, StageStep, UndisturbedStep, LossStep, OnceStep DEF IInv

LEMMA SpecIInv == Spec => []IInv
  BY InitIInv, NextIInv, PTL DEF Spec

(***************************************************************************)
(* Queue, tabs and requests keep their types; in particular a tab only     *)
(* enqueues a complete form, and nothing is promised, failed or sent again *)
(* that was not submitted.                                                 *)
(***************************************************************************)
THEOREM TypeCorrect == Spec => []TypeOK
<1>1. IInv => TypeOK
  BY DEF IInv
<1> QED
  BY SpecIInv, <1>1, PTL

(***************************************************************************)
(* A promised payment gets lost only when a request for it fails or is     *)
(* cut, or two tabs access the queue at once.                              *)
(***************************************************************************)
THEOREM PromisesKept == Spec => []LossNeedsCause
<1>1. IInv => LossNeedsCause
  BY DEF IInv
<1> QED
  BY SpecIInv, <1>1, PTL

(***************************************************************************)
(* A payment is recorded twice only when its user submitted it again or    *)
(* two tabs accessed the queue at once.                                    *)
(***************************************************************************)
THEOREM RecordedOnce == Spec => []DuplicateNeedsCause
<1>1. IInv => DuplicateNeedsCause
  <2> SUFFICES ASSUME IInv, NEW p \in Payments, recorded[p] > 1, p \notin resent
               PROVE  overlap = "yes"
    BY DEF DuplicateNeedsCause
  <2>1. recorded[p] \in Nat /\ overlap \in {"yes", "no"}
    BY DEF IInv, TypeOK
  <2>2. ~ (recorded[p] <= 1)
    BY <2>1
  <2>3. overlap # "no"
    BY <2>2 DEF IInv, Once, OnePlace
  <2> QED
    BY <2>1, <2>3
<1> QED
  BY SpecIInv, <1>1, PTL
=============================================================================
