--------------------------- MODULE ProjectsProofs ---------------------------
(***************************************************************************)
(* Proofs about the projects cockpit: the queries that a mutation leaves   *)
(* behind, the inputs of the forms and the requests that were made of what *)
(* the views displayed.                                                    *)
(***************************************************************************)
EXTENDS Projects, SequenceTheorems, TLAPS

(***************************************************************************)
(* The requests under way: each has its number, and only the view that     *)
(* sent it observes it.                                                    *)
(***************************************************************************)
RequestsNumbered ==
    /\ \A m \in mutations : m.id <= made
    /\ \A m, n \in mutations : m.id = n.id => m = n
    /\ \A k \in Kinds : watch[k] <= made
    /\ \A k \in Kinds : \A m \in mutations : watch[k] = m.id => m.kind = k

(***************************************************************************)
(* The queries: a fetch under way brings what this user has changed.       *)
(***************************************************************************)
FetchCurrent ==
    \A q \in Queries :
        /\ mine[q] <= Version(q)
        /\ fetch[q] > 0 => fetch[q] >= mine[q] \/ q \in crossed

(***************************************************************************)
(* The inputs: each is typed into one form, and is sent by it alone, once  *)
(* at a time; what the form has while its request is observed was sent or  *)
(* was typed over it.                                                      *)
(***************************************************************************)
Live(m) == m.stage \in {"sent", "done"} /\ m.draft # 0
InputsOfForm ==
    /\ draft["transition"] = 0
    /\ \A f \in Forms : draft[f] <= typed
    /\ \A f, g \in Forms : draft[f] = draft[g] /\ draft[f] # 0 => f = g
    /\ \A m \in mutations : m.draft <= typed /\ (m.draft # 0 => m.kind \in Forms)
    /\ \A m \in mutations : \A f \in Forms : m.draft # 0 /\ draft[f] = m.draft => f = m.kind
SentOnce ==
    /\ \A m \in mutations : Live(m) /\ draft[m.kind] = m.draft => watch[m.kind] = m.id
    /\ \A m, n \in mutations : Live(m) /\ Live(n) /\ m.draft = n.draft => m = n
RecordedOnce ==
    \A d \in 1 .. MaxActs : recorded[d] > 0 =>
        /\ d <= typed
        /\ d \notin unsure =>
            /\ recorded[d] = 1
            /\ \A m \in mutations : m.draft = d => m.stage # "sent"
            /\ \A f \in Forms : draft[f] = d => \E m \in mutations : m.draft = d /\ m.stage = "done"
OverTyped ==
    \A m \in mutations : m.kind \in Forms /\ watch[m.kind] = m.id =>
        draft[m.kind] \in {0, m.draft} \cup typedOver

(***************************************************************************)
(* The requests: what the views displayed when they were made.             *)
(***************************************************************************)
Source(k) == CASE k = "stop" -> "Open" [] k = "submit" -> "Stopped" [] k \in {"approve", "reject"} -> "Submitted"
EntrySeen ==
    \A m \in mutations : m.kind \in EntryKinds =>
        /\ m.entry \in Entries /\ m.seen \in 1 .. Len(log)
        /\ m.kind # "reject" => log[m.seen][m.entry] = Source(m.kind)

\* The status picked is not the one that was displayed then, or is the one the form opens with.
PickedOther ==
    pick.to = "Planned" \/ (pick.at \in 1 .. Len(statuses) /\ statuses[pick.at] # pick.to)

ProjectsIInv ==
    /\ TypeOK
    /\ RequestsNumbered
    /\ CacheCurrent
    /\ FetchCurrent
    /\ InputsOfForm
    /\ SentOnce
    /\ RecordedOnce
    /\ OverTyped
    /\ WipedNeedsOverlap
    /\ EntrySeen
    /\ RefusedNeedsChange
    /\ PickedOther
    /\ AsksWhatIsOffered

-----------------------------------------------------------------------------
(***************************************************************************)
(* The definitions by cases, case by case.                                 *)
(***************************************************************************)
LEMMA VersionIs ==
    /\ Version("list") = Len(statuses) /\ Version("detail") = Len(statuses)
    /\ Version("timeline") = milestones /\ Version("milestones") = milestones
    /\ Version("budget") = budget /\ Version("time") = Len(log)
<1>1. Version("list") = Len(statuses)
  BY DEF Version
<1>2. Version("detail") = Len(statuses)
  BY DEF Version
<1>3. Version("timeline") = milestones
  BY DEF Version
<1>4. Version("milestones") = milestones
  BY DEF Version
<1>5. Version("budget") = budget
  BY DEF Version
<1>6. Version("time") = Len(log)
  BY DEF Version
<1> QED
  BY <1>1, <1>2, <1>3, <1>4, <1>5, <1>6

LEMMA SuccessorsAre ==
    /\ Successors("None") = {"Open"} /\ Successors("Open") = {"Stopped"} /\ Successors("Stopped") = {"Submitted"}
    /\ Successors("Submitted") = {"Approved", "Rejected"}
    /\ Successors("Approved") = {} /\ Successors("Rejected") = {}
<1>1. Successors("None") = {"Open"}
  BY DEF Successors
<1>2. Successors("Open") = {"Stopped"}
  BY DEF Successors
<1>3. Successors("Stopped") = {"Submitted"}
  BY DEF Successors
<1>4. Successors("Submitted") = {"Approved", "Rejected"}
  BY DEF Successors
<1>5. Successors("Approved") = {}
  BY DEF Successors
<1>6. Successors("Rejected") = {}
  BY DEF Successors
<1> QED
  BY <1>1, <1>2, <1>3, <1>4, <1>5, <1>6

\* What the button of an entry asks for is the next state of the entries that have the button.
LEMMA TargetNext ==
    ASSUME NEW k \in EntryKinds
    PROVE  Target(k) \in Successors(Source(k)) /\ Target(k) \in EntryStatus
<1>1. Target("stop") = "Stopped" /\ Source("stop") = "Open"
  BY DEF Target, Source
<1>2. Target("submit") = "Submitted" /\ Source("submit") = "Stopped"
  BY DEF Target, Source
<1>3. Target("approve") = "Approved" /\ Source("approve") = "Submitted"
  BY DEF Target, Source
<1>4. Target("reject") = "Rejected" /\ Source("reject") = "Submitted"
  BY DEF Target, Source
<1> QED
  BY <1>1, <1>2, <1>3, <1>4, SuccessorsAre DEF EntryKinds, EntryStatus

LEMMA KeysCover ==
    ASSUME NEW k \in Kinds
    PROVE  Reads(k) \ LeftToAge(k) \subseteq Keys(k) /\ Keys(k) \subseteq Queries
<1>1. CASE k = "create"
  <2>1. Keys("create") = Queries
    BY DEF Keys, EntryKinds, KeysOfAll
  <2>2. Reads("create") = {"list", "detail"}
    BY DEF Reads, EntryKinds
  <2> QED
    BY <1>1, <2>1, <2>2 DEF Queries
<1>2. CASE k = "transition"
  <2>1. Keys("transition") = Queries
    BY DEF Keys, EntryKinds, KeysOfAll
  <2>2. Reads("transition") = {"list", "detail"}
    BY DEF Reads, EntryKinds
  <2> QED
    BY <1>2, <2>1, <2>2 DEF Queries
<1>3. CASE k = "insert"
  <2>1. Keys("insert") = {"budget"}
    BY DEF Keys, EntryKinds, KeysOfAll
  <2>2. Reads("insert") = {"budget"}
    BY DEF Reads, EntryKinds
  <2> QED
    BY <1>3, <2>1, <2>2 DEF Queries
<1>4. CASE k = "achieve"
  <2>1. Keys("achieve") = {"milestones", "timeline"}
    BY DEF Keys, EntryKinds, KeysOfAll
  <2>2. Reads("achieve") = {"milestones", "timeline"}
    BY DEF Reads, EntryKinds
  <2> QED
    BY <1>4, <2>1, <2>2 DEF Queries
<1>5. CASE k = "open"
  <2>1. Keys("open") = {"time"}
    BY DEF Keys, EntryKinds
  <2>2. Reads("open") = {"time"}
    BY DEF Reads, EntryKinds
  <2> QED
    BY <1>5, <2>1, <2>2 DEF Queries
<1>6. CASE k \in EntryKinds
  <2>1. k \notin {"create", "transition", "insert", "achieve", "open"}
    BY <1>6 DEF EntryKinds
  <2>2. Keys(k) = {"time"}
    BY <1>6, <2>1, Zenon DEF Keys
  <2>3. Reads(k) = {"time", "budget"}
    BY <1>6, <2>1, Zenon DEF Reads
  <2>4. LeftToAge(k) = {"budget"}
    BY <1>6 DEF LeftToAge
  <2> QED
    BY <2>2, <2>3, <2>4 DEF Queries
<1> QED
  BY <1>1, <1>2, <1>3, <1>4, <1>5, <1>6 DEF Kinds

-----------------------------------------------------------------------------
(***************************************************************************)
(* The server: what it has is never taken back.                            *)
(***************************************************************************)
ServerTyped ==
    /\ statuses \in Seq(Status) /\ statuses # <<>>
    /\ log \in Seq([Entries -> EntryStatus]) /\ log # <<>>
    /\ budget \in Nat \ {0} /\ milestones \in Nat \ {0}
MutationsTyped == mutations \subseteq Mutation

ServerGrows ==
    /\ Len(statuses) <= Len(statuses') /\ \A i \in 1 .. Len(statuses) : statuses'[i] = statuses[i]
    /\ Len(log) <= Len(log') /\ \A i \in 1 .. Len(log) : log'[i] = log[i]
    /\ budget <= budget' /\ milestones <= milestones'

LEMMA StatusNames == Status \subseteq STRING /\ Statuses[1] \in Status /\ "Planned" \in Status
<1>1. DOMAIN Statuses = 1 .. Len(Statuses) /\ Len(Statuses) \in Nat
  BY StatusesAssumption, LenProperties
<1>2. \A i \in DOMAIN Statuses : Statuses[i] \in STRING
  BY <1>1, StatusesAssumption, ElementOfSeq
<1>3. 1 \in DOMAIN Statuses
  BY <1>1, StatusesAssumption
<1> QED
  BY <1>2, <1>3, StatusesAssumption DEF Status

LEMMA VersionNat == ASSUME ServerTyped PROVE \A q \in Queries : Version(q) \in Nat \ {0}
<1>1. Len(statuses) \in Nat \ {0} /\ Len(log) \in Nat \ {0}
  BY EmptySeq DEF ServerTyped
<1> QED
  BY <1>1, VersionIs DEF ServerTyped, Queries

\* The last of what is known of the entries.
LEMMA EntryTyped == ASSUME ServerTyped PROVE Entry \in [Entries -> EntryStatus] /\ statuses[Len(statuses)] \in Status
<1>1. Len(statuses) \in Nat \ {0} /\ Len(log) \in Nat \ {0}
  BY EmptySeq DEF ServerTyped
<1>2. log[Len(log)] \in [Entries -> EntryStatus]
  BY <1>1, ElementOfSeq DEF ServerTyped
<1>3. statuses[Len(statuses)] \in Status
  BY <1>1, ElementOfSeq DEF ServerTyped
<1> QED
  BY <1>2, <1>3 DEF Entry

\* One more value of what the queries read.
LEMMA AppendGrows ==
    ASSUME NEW S, NEW s \in Seq(S), s # <<>>, NEW t, \E e \in S : t \in {s, Append(s, e)}
    PROVE  /\ t \in Seq(S) /\ t # <<>> /\ Len(s) <= Len(t)
           /\ \A i \in 1 .. Len(s) : t[i] = s[i]
<1>1. Len(s) \in Nat
  BY LenProperties
<1>2. PICK e \in S : t \in {s, Append(s, e)}
  OBVIOUS
<1>3. CASE t = s
  BY <1>1, <1>3
<1>4. CASE t = Append(s, e)
  BY <1>1, <1>4, AppendProperties
<1> QED
  BY <1>2, <1>3, <1>4

LEMMA LogGrows ==
    ASSUME ServerTyped, \E e \in [Entries -> EntryStatus] : log' \in {log, Append(log, e)}
    PROVE  /\ log' \in Seq([Entries -> EntryStatus]) /\ log' # <<>> /\ Len(log) <= Len(log')
           /\ \A i \in 1 .. Len(log) : log'[i] = log[i]
<1> DEFINE R == [Entries -> EntryStatus]
<1>1. log \in Seq(R) /\ log # <<>> /\ \E e \in R : log' \in {log, Append(log, e)}
  BY DEF ServerTyped
<1> HIDE DEF R
<1>2. /\ log' \in Seq(R) /\ log' # <<>> /\ Len(log) <= Len(log')
      /\ \A i \in 1 .. Len(log) : log'[i] = log[i]
  BY <1>1, AppendGrows
<1> QED
  BY <1>2 DEF R

LEMMA SameServer == ASSUME ServerTyped, UNCHANGED <<statuses, log, budget, milestones>> PROVE ServerTyped' /\ ServerGrows
<1>1. Len(statuses) \in Nat /\ Len(log) \in Nat
  BY LenProperties DEF ServerTyped
<1> QED
  BY <1>1 DEF ServerTyped, ServerGrows

LEMMA CommitStep ==
    ASSUME ServerTyped, NEW m \in Mutation, Commit(m)
    PROVE  ServerTyped' /\ ServerGrows
<1>1. CASE Refuses(m)
  BY <1>1, SameServer DEF Commit, server
<1>2. CASE ~ Refuses(m)
  <2>1. /\ statuses' = CASE m.kind = "transition" -> Append(statuses, m.to)
                         [] m.kind = "create" -> Append(statuses, statuses[Len(statuses)])
                         [] OTHER -> statuses
        /\ log' = IF m.kind \in EntryKinds THEN Append(log, [Entry EXCEPT ![m.entry] = Target(m.kind)])
                  ELSE IF m.kind = "open"
                       THEN LET e == CHOOSE e \in Entries : Entry[e] = "None"
                            IN  Append(log, [Entry EXCEPT ![e] = "Open"])
                       ELSE log
        /\ budget' \in Budgets(m.kind)
        /\ milestones' = IF m.kind = "achieve" THEN milestones + 1 ELSE milestones
    BY <1>2, Zenon DEF Commit
  <2>2. \E s \in Status : statuses' \in {statuses, Append(statuses, s)}
    <3>1. m.to \in Status /\ statuses[Len(statuses)] \in Status
      BY EntryTyped DEF Mutation
    <3>2. CASE m.kind = "transition"
      <4>1. statuses' = Append(statuses, m.to)
        BY <2>1, <3>2
      <4> QED
        BY <3>1, <4>1
    <3>3. CASE m.kind = "create"
      <4>1. statuses' = Append(statuses, statuses[Len(statuses)])
        BY <2>1, <3>3
      <4> QED
        BY <3>1, <4>1
    <3>4. CASE m.kind \notin {"transition", "create"}
      <4>1. statuses' = statuses
        BY <2>1, <3>4
      <4> QED
        BY <3>1, <4>1
    <3> QED
      BY <3>2, <3>3, <3>4
  <2>3. \E e \in [Entries -> EntryStatus] : log' \in {log, Append(log, e)}
    <3>1. CASE m.kind \in EntryKinds
      <4>1. [Entry EXCEPT ![m.entry] = Target(m.kind)] \in [Entries -> EntryStatus]
        BY <3>1, EntryTyped, TargetNext
      <4> QED
        BY <2>1, <3>1, <4>1
    <3>2. CASE m.kind \notin EntryKinds
      <4>1. \A e : [Entry EXCEPT ![e] = "Open"] \in [Entries -> EntryStatus]
        BY EntryTyped DEF EntryStatus
      <4> QED
        BY <2>1, <3>2, <4>1, EntryTyped
    <3> QED
      BY <3>1, <3>2
  <2>4. budget' \in Nat \ {0} /\ budget <= budget' /\ milestones' \in Nat \ {0} /\ milestones <= milestones'
    <3>1. Budgets(m.kind) \subseteq {budget, budget + 1}
      BY DEF Budgets
    <3> QED
      BY <2>1, <3>1 DEF ServerTyped
  <2>5. /\ statuses' \in Seq(Status) /\ statuses' # <<>> /\ Len(statuses) <= Len(statuses')
        /\ \A i \in 1 .. Len(statuses) : statuses'[i] = statuses[i]
    BY <2>2, AppendGrows DEF ServerTyped
  <2>6. /\ log' \in Seq([Entries -> EntryStatus]) /\ log' # <<>> /\ Len(log) <= Len(log')
        /\ \A i \in 1 .. Len(log) : log'[i] = log[i]
    BY <2>3, LogGrows
  <2> QED
    BY <2>4, <2>5, <2>6 DEF ServerTyped, ServerGrows
<1> QED
  BY <1>1, <1>2

LEMMA OthersStep ==
    ASSUME ServerTyped, OthersAct
    PROVE  ServerTyped' /\ ServerGrows
<1>1. \E s \in Status : statuses' \in {statuses, Append(statuses, s)}
  BY EntryTyped DEF OthersAct
<1>2. \E e \in [Entries -> EntryStatus] : log' \in {log, Append(log, e)}
  <2>1. ASSUME NEW e \in Entries, NEW s \in Successors(Entry[e])
        PROVE  [Entry EXCEPT ![e] = s] \in [Entries -> EntryStatus]
    <3>1. s \in EntryStatus
      BY EntryTyped, SuccessorsAre DEF EntryStatus
    <3> QED
      BY <3>1, EntryTyped
  <2> QED
    BY <2>1, EntryTyped DEF OthersAct
<1>3. budget' \in {budget, budget + 1} /\ milestones' \in {milestones, milestones + 1}
  BY DEF OthersAct
<1>4. /\ statuses' \in Seq(Status) /\ statuses' # <<>> /\ Len(statuses) <= Len(statuses')
      /\ \A i \in 1 .. Len(statuses) : statuses'[i] = statuses[i]
  BY <1>1, AppendGrows DEF ServerTyped
<1>5. /\ log' \in Seq([Entries -> EntryStatus]) /\ log' # <<>> /\ Len(log) <= Len(log')
      /\ \A i \in 1 .. Len(log) : log'[i] = log[i]
  BY <1>2, LogGrows
<1> QED
  BY <1>3, <1>4, <1>5 DEF ServerTyped, ServerGrows

LEMMA ServerStep ==
    ASSUME ServerTyped, MutationsTyped, [Next]_vars
    PROVE  ServerTyped' /\ ServerGrows
<1>1. ASSUME NEW m \in mutations, Commit(m) PROVE ServerTyped' /\ ServerGrows
  BY <1>1, CommitStep DEF MutationsTyped
<1>2. ASSUME NEW m \in mutations, Deny(m) \/ Succeed(m) \/ Fail(m) PROVE ServerTyped' /\ ServerGrows
  BY <1>2, SameServer DEF Deny, Succeed, Fail, server
<1>3. CASE OpenList \/ OpenProject \/ Achieve
  BY <1>3, SameServer DEF OpenList, OpenProject, Achieve, Mutate, server
<1>4. ASSUME NEW t, SelectTab(t) PROVE ServerTyped' /\ ServerGrows
  BY <1>4, SameServer DEF SelectTab, server
<1>5. ASSUME NEW q, Refetch(q) \/ Arrive(q) \/ FetchFails(q) PROVE ServerTyped' /\ ServerGrows
  BY <1>5, SameServer DEF Refetch, Arrive, FetchFails, server
<1>6. ASSUME NEW f, ShowForm(f) \/ Type(f) \/ Cancel(f) \/ Submit(f) PROVE ServerTyped' /\ ServerGrows
  BY <1>6, SameServer DEF ShowForm, Type, Cancel, Submit, Mutate, server
<1>7. ASSUME NEW s, PickStatus(s) PROVE ServerTyped' /\ ServerGrows
  BY <1>7, SameServer DEF PickStatus, server
<1>8. ASSUME NEW e, AskReason(e) \/ StopEntry(e) \/ SubmitEntry(e) \/ ApproveEntry(e) PROVE ServerTyped' /\ ServerGrows
  BY <1>8, SameServer DEF AskReason, StopEntry, SubmitEntry, ApproveEntry, Mutate, server
<1>9. CASE UNCHANGED vars
  BY <1>9, SameServer DEF vars, server
<1> QED
  BY <1>1, <1>2, <1>3, <1>4, <1>5, <1>6, <1>7, <1>8, <1>9, OthersStep DEF Next

LEMMA VersionGrows ==
    ASSUME ServerTyped, ServerTyped', ServerGrows
    PROVE  \A q \in Queries : Version(q) \in Nat \ {0} /\ Version(q)' \in Nat /\ Version(q) <= Version(q)'
<1>1. /\ Version("list")' = Len(statuses') /\ Version("detail")' = Len(statuses')
      /\ Version("timeline")' = milestones' /\ Version("milestones")' = milestones'
      /\ Version("budget")' = budget' /\ Version("time")' = Len(log')
  <2>1. Version("list")' = Len(statuses')
    BY DEF Version
  <2>2. Version("detail")' = Len(statuses')
    BY DEF Version
  <2>3. Version("timeline")' = milestones'
    BY DEF Version
  <2>4. Version("milestones")' = milestones'
    BY DEF Version
  <2>5. Version("budget")' = budget'
    BY DEF Version
  <2>6. Version("time")' = Len(log')
    BY DEF Version
  <2> QED
    BY <2>1, <2>2, <2>3, <2>4, <2>5, <2>6
<1>2. Len(statuses) \in Nat \ {0} /\ Len(log) \in Nat \ {0} /\ Len(statuses') \in Nat /\ Len(log') \in Nat
  BY EmptySeq, LenProperties DEF ServerTyped
<1> QED
  BY <1>1, <1>2, VersionIs DEF ServerTyped, ServerGrows, Queries

-----------------------------------------------------------------------------
(***************************************************************************)
(* The cache.                                                              *)
(***************************************************************************)
CacheTyped ==
    /\ data \in [Queries -> Nat] /\ fetch \in [Queries -> Nat]
    /\ \A q \in Queries : data[q] <= Version(q) /\ fetch[q] <= Version(q)
    /\ invalid \subseteq Queries /\ errors \subseteq Queries /\ crossed \subseteq Queries
    /\ mine \in [Queries -> Nat]
CacheHolds == CacheTyped /\ CacheCurrent /\ FetchCurrent

\* Nothing happens to the cache, or some fetches start.
LEMMA BeginStep ==
    ASSUME ServerTyped, ServerTyped', ServerGrows, CacheHolds,
           UNCHANGED <<data, invalid, errors, mine>>, NEW Q \in SUBSET Queries, Begin(Q) \/ UNCHANGED <<fetch, crossed>>
    PROVE  CacheHolds'
<1>1. \A q \in Queries : Version(q) \in Nat \ {0} /\ Version(q)' \in Nat /\ Version(q) <= Version(q)'
  BY VersionGrows
<1>2. CacheTyped /\ CacheCurrent /\ FetchCurrent
  BY DEF CacheHolds
<1>3. CASE Begin(Q)
  <2>1. /\ fetch' \in [Queries -> Nat]
        /\ \A q \in Q : fetch'[q] = Version(q) /\ q \notin crossed'
        /\ \A q \in Queries \ Q : fetch'[q] = fetch[q] /\ (q \in crossed' <=> q \in crossed)
        /\ crossed' \subseteq Queries
    BY <1>1, <1>2, <1>3 DEF Begin, CacheTyped
  <2>2. CacheTyped'
    BY <1>1, <1>2, <2>1 DEF CacheTyped
  <2>3. CacheCurrent'
    BY <1>1, <1>2, <2>1 DEF CacheCurrent, TakenForFresh
  <2>4. FetchCurrent'
    BY <1>1, <1>2, <2>1 DEF FetchCurrent, CacheTyped
  <2> QED
    BY <2>2, <2>3, <2>4 DEF CacheHolds
<1>4. CASE UNCHANGED <<fetch, crossed>>
  <2>1. CacheTyped'
    BY <1>1, <1>2, <1>4 DEF CacheTyped
  <2>2. CacheCurrent'
    BY <1>2, <1>4 DEF CacheCurrent, TakenForFresh
  <2>3. FetchCurrent'
    BY <1>1, <1>2, <1>4 DEF FetchCurrent, CacheTyped
  <2> QED
    BY <2>1, <2>2, <2>3 DEF CacheHolds
<1> QED
  BY <1>3, <1>4

LEMMA ArriveStep ==
    ASSUME ServerTyped, ServerTyped', ServerGrows, CacheHolds, tab \in Tabs, NEW q \in Queries, Arrive(q)
    PROVE  CacheHolds'
<1>1. \A p \in Queries : Version(p) \in Nat \ {0} /\ Version(p)' \in Nat /\ Version(p) <= Version(p)'
  BY VersionGrows
<1>2. CacheTyped /\ CacheCurrent /\ FetchCurrent
  BY DEF CacheHolds
<1> DEFINE N == IF q = "detail" /\ place = "detail" /\ ~HasPanel THEN Needed({tab}) ELSE {}
<1>3. N \subseteq Queries /\ \A p \in N : fetch[p] = 0
  BY DEF Needed, Tabs
<1>4. PICK v \in fetch[q] .. Version(q) : data' = [data EXCEPT ![q] = v]
  BY DEF Arrive
<1>5. /\ v \in Nat /\ fetch[q] > 0 /\ v >= fetch[q] /\ v <= Version(q)
      /\ invalid' = invalid \ {q} /\ errors' = errors \ {q} /\ UNCHANGED mine
      /\ fetch' = [p \in Queries |-> IF p = q THEN 0 ELSE IF p \in N THEN Version(p) ELSE fetch[p]]
      /\ crossed' = crossed \ N
  BY <1>1, <1>2, <1>4 DEF Arrive, CacheTyped, history
<1>6. q \notin N
  BY <1>3, <1>5
<1> HIDE DEF N
<1>7. /\ fetch' \in [Queries -> Nat] /\ fetch'[q] = 0 /\ (q \in crossed' <=> q \in crossed)
      /\ \A p \in N : fetch'[p] = Version(p)
      /\ \A p \in Queries \ (N \cup {q}) : fetch'[p] = fetch[p] /\ (p \in crossed' <=> p \in crossed)
      /\ crossed' \subseteq Queries
  BY <1>1, <1>2, <1>3, <1>5, <1>6 DEF CacheTyped
<1>8. /\ data' \in [Queries -> Nat] /\ data'[q] = v
      /\ \A p \in Queries \ {q} : data'[p] = data[p]
  BY <1>2, <1>4, <1>5 DEF CacheTyped
<1>9. CacheTyped'
  BY <1>1, <1>2, <1>3, <1>5, <1>7, <1>8 DEF CacheTyped
<1>10. v >= mine[q] \/ q \in crossed'
  BY <1>2, <1>5, <1>7 DEF FetchCurrent, CacheTyped
<1>11. CacheCurrent'
  <2> SUFFICES ASSUME NEW p \in Queries, TakenForFresh(p)' PROVE data'[p] >= mine'[p] \/ p \in crossed'
    BY DEF CacheCurrent
  <2>1. p \notin N
    BY <1>1, <1>3, <1>7 DEF TakenForFresh
  <2>2. CASE p = q
    BY <1>5, <1>8, <1>10, <2>2
  <2>3. CASE p # q
    BY <1>2, <1>5, <1>7, <1>8, <2>1, <2>3 DEF CacheCurrent, TakenForFresh
  <2> QED
    BY <2>2, <2>3
<1>12. FetchCurrent'
  <2> SUFFICES ASSUME NEW p \in Queries
               PROVE  /\ mine'[p] <= Version(p)'
                      /\ fetch'[p] > 0 => fetch'[p] >= mine'[p] \/ p \in crossed'
    BY DEF FetchCurrent
  <2>1. mine[p] <= Version(p) /\ mine[p] \in Nat
    BY <1>2 DEF FetchCurrent, CacheTyped
  <2>2. CASE p = q
    BY <1>1, <1>5, <1>7, <2>1, <2>2
  <2>3. CASE p \in N
    BY <1>1, <1>3, <1>5, <1>7, <2>1, <2>3
  <2>4. CASE p \notin N \cup {q}
    BY <1>1, <1>2, <1>5, <1>7, <2>1, <2>4 DEF FetchCurrent
  <2> QED
    BY <2>2, <2>3, <2>4
<1> QED
  BY <1>9, <1>11, <1>12 DEF CacheHolds

LEMMA FetchFailsStep ==
    ASSUME ServerTyped, ServerTyped', ServerGrows, CacheHolds, NEW q \in Queries, FetchFails(q)
    PROVE  CacheHolds'
<1>1. \A p \in Queries : Version(p) \in Nat \ {0} /\ Version(p)' \in Nat /\ Version(p) <= Version(p)'
  BY VersionGrows
<1>2. CacheTyped /\ CacheCurrent /\ FetchCurrent
  BY DEF CacheHolds
<1>3. /\ fetch' = [fetch EXCEPT ![q] = 0] /\ errors' = errors \cup {q} /\ UNCHANGED <<data, invalid, crossed, mine>>
  BY DEF FetchFails, history
<1>4. CacheTyped'
  BY <1>1, <1>2, <1>3 DEF CacheTyped
<1>5. CacheCurrent'
  BY <1>2, <1>3 DEF CacheCurrent, TakenForFresh, CacheTyped
<1>6. FetchCurrent'
  BY <1>1, <1>2, <1>3 DEF FetchCurrent, CacheTyped
<1> QED
  BY <1>4, <1>5, <1>6 DEF CacheHolds

\* The answer to a mutation of this user: what it has changed is invalidated.
LEMMA SucceedStep ==
    ASSUME ServerTyped, ServerTyped', ServerGrows, CacheHolds, NEW m \in Mutation, Succeed(m)
    PROVE  CacheHolds'
<1>1. \A p \in Queries : Version(p) \in Nat \ {0} /\ Version(p)' \in Nat /\ Version(p) <= Version(p)'
  BY VersionGrows
<1>2. CacheTyped /\ CacheCurrent /\ FetchCurrent
  BY DEF CacheHolds
<1> DEFINE Q == Keys(m.kind)
           R == Reads(m.kind) \ LeftToAge(m.kind)
           known == {q \in Q : data[q] > 0 \/ fetch[q] > 0 \/ q \in errors}
           again == {q \in known \cap Active : data[q] > 0 \/ fetch[q] = 0}
<1>3. R \subseteq Q /\ Q \subseteq Queries
  BY KeysCover DEF Mutation
<1>4. /\ mine' = [q \in Queries |-> IF q \in R THEN Version(q) ELSE mine[q]]
      /\ UNCHANGED <<data, errors>>
      /\ invalid' = invalid \cup known
      /\ fetch' = [q \in Queries |-> IF q \in again THEN Version(q) ELSE fetch[q]]
      /\ crossed' = (crossed \ again) \cup {q \in known \ again : fetch[q] > 0}
  BY DEF Succeed, Invalidate
<1>5. again \subseteq known /\ known \subseteq Queries
  BY <1>3
<1>6. \A q \in R \ known : data[q] = 0 /\ fetch[q] = 0
  BY <1>2, <1>3 DEF CacheTyped
<1> HIDE DEF Q, R
<1>7. /\ fetch' \in [Queries -> Nat] /\ mine' \in [Queries -> Nat]
      /\ \A q \in again : fetch'[q] = Version(q)
      /\ \A q \in Queries \ again : fetch'[q] = fetch[q] /\ (q \in crossed => q \in crossed')
      /\ \A q \in known \ again : fetch[q] > 0 => q \in crossed'
      /\ crossed' \subseteq Queries
  BY <1>1, <1>2, <1>4, <1>5 DEF CacheTyped
<1> HIDE DEF known, again
<1>8. CacheTyped'
  BY <1>1, <1>2, <1>4, <1>5, <1>7 DEF CacheTyped
<1>9. ASSUME NEW q \in Queries
      PROVE  /\ mine'[q] <= Version(q)' /\ mine'[q] <= Version(q)
             /\ q \notin R => mine'[q] = mine[q]
  BY <1>1, <1>2, <1>4 DEF CacheTyped, FetchCurrent
<1>10. CacheCurrent'
  <2> SUFFICES ASSUME NEW q \in Queries, TakenForFresh(q)' PROVE data'[q] >= mine'[q] \/ q \in crossed'
    BY DEF CacheCurrent
  <2>1. q \notin known /\ q \notin again
    BY <1>4, <1>5 DEF TakenForFresh
  <2>2. q \notin R
    BY <1>4, <1>6, <2>1 DEF TakenForFresh
  <2> QED
    BY <1>2, <1>4, <1>7, <1>9, <2>1, <2>2 DEF CacheCurrent, TakenForFresh
<1>11. FetchCurrent'
  <2> SUFFICES ASSUME NEW q \in Queries, fetch'[q] > 0 PROVE fetch'[q] >= mine'[q] \/ q \in crossed'
    BY <1>9 DEF FetchCurrent
  <2>1. CASE q \in again
    BY <1>1, <1>7, <1>8, <1>9, <2>1 DEF CacheTyped
  <2>2. CASE q \in known \ again
    BY <1>7, <2>2
  <2>3. CASE q \notin known
    <3>1. q \notin again /\ fetch'[q] = fetch[q]
      BY <1>5, <1>7, <2>3
    <3>2. q \notin R
      BY <1>6, <2>3, <3>1
    <3> QED
      BY <1>2, <1>7, <1>9, <3>1, <3>2 DEF FetchCurrent
  <2> QED
    BY <2>1, <2>2, <2>3
<1> QED
  BY <1>8, <1>10, <1>11 DEF CacheHolds

LEMMA CacheStep ==
    ASSUME ServerTyped, MutationsTyped, tab \in Tabs, CacheHolds, [Next]_vars
    PROVE  CacheHolds'
<1>1. ServerTyped' /\ ServerGrows
  BY ServerStep
<1>2. ASSUME UNCHANGED <<cache, mine>> PROVE CacheHolds'
  BY <1>1, <1>2, BeginStep DEF cache
<1>3. ASSUME NEW Q, Q \subseteq Queries, Begin(Needed(Q)), UNCHANGED <<data, invalid, errors, mine>> PROVE CacheHolds'
  <2>1. Needed(Q) \in SUBSET Queries
    BY <1>3 DEF Needed
  <2> QED
    BY <1>1, <1>3, <2>1, BeginStep
<1>4. CASE OpenList
  <2>1. {"list"} \subseteq Queries
    BY DEF Queries
  <2> QED
    BY <1>3, <1>4, <2>1 DEF OpenList, history
<1>5. CASE OpenProject
  <2> DEFINE Q == {"detail"} \cup (IF data["detail"] > 0 /\ "detail" \notin errors THEN {"timeline"} ELSE {})
  <2>1. Q \subseteq Queries
    BY DEF Queries
  <2>2. Begin(Needed(Q)) /\ UNCHANGED <<data, invalid, errors, mine>>
    BY <1>5 DEF OpenProject, history
  <2> HIDE DEF Q
  <2> QED
    BY <1>3, <2>1, <2>2
<1>6. ASSUME NEW t \in Tabs, SelectTab(t) PROVE CacheHolds'
  <2>1. {t} \subseteq Queries
    BY DEF Tabs
  <2> QED
    BY <1>3, <1>6, <2>1 DEF SelectTab, history
<1>7. ASSUME NEW q \in Queries, Refetch(q) PROVE CacheHolds'
  <2>1. {q} \in SUBSET Queries /\ Begin({q}) /\ UNCHANGED <<data, invalid, errors, mine>>
    BY <1>7 DEF Refetch, history
  <2> QED
    BY <1>1, <2>1, BeginStep
<1>8. ASSUME NEW q \in Queries, Arrive(q) \/ FetchFails(q) PROVE CacheHolds'
  BY <1>1, <1>8, ArriveStep, FetchFailsStep
<1>9. ASSUME NEW f, ShowForm(f) \/ Type(f) \/ Cancel(f) \/ Submit(f) PROVE CacheHolds'
  BY <1>2, <1>9 DEF ShowForm, Type, Cancel, Submit, Mutate, history
<1>10. ASSUME NEW s, PickStatus(s) PROVE CacheHolds'
  BY <1>2, <1>10 DEF PickStatus, history
<1>11. ASSUME NEW e, AskReason(e) \/ StopEntry(e) \/ SubmitEntry(e) \/ ApproveEntry(e) PROVE CacheHolds'
  BY <1>2, <1>11 DEF AskReason, StopEntry, SubmitEntry, ApproveEntry, Mutate, history
<1>12. CASE Achieve \/ OthersAct
  BY <1>2, <1>12 DEF Achieve, OthersAct, Mutate, history
<1>13. ASSUME NEW m \in mutations, Commit(m) \/ Deny(m) \/ Fail(m) PROVE CacheHolds'
  BY <1>2, <1>13 DEF Commit, Deny, Fail, history
<1>14. ASSUME NEW m \in mutations, Succeed(m) PROVE CacheHolds'
  BY <1>1, <1>14, SucceedStep DEF MutationsTyped
<1>15. CASE UNCHANGED vars
  BY <1>2, <1>15 DEF vars, history
<1> QED
  BY <1>4, <1>5, <1>6, <1>7, <1>8, <1>9, <1>10, <1>11, <1>12, <1>13, <1>14, <1>15 DEF Next

-----------------------------------------------------------------------------
(***************************************************************************)
(* The views.                                                              *)
(***************************************************************************)
ViewTyped ==
    /\ role \in Roles /\ place \in {"away", "list", "detail"} /\ tab \in Tabs
    /\ shown \subseteq Forms /\ draft \in [Forms -> 0 .. MaxActs]
    /\ \A f \in Forms : draft[f] # 0 => f \in shown
    /\ pick \in [to : Status, at : Nat]
    /\ rejecting \in Entries \cup {None} /\ (rejecting # None <=> "reject" \in shown)
    /\ watch \in [Kinds -> 0 .. MaxActs]
    /\ made \in Nat /\ typed \in Nat /\ made + typed <= MaxActs
HistoryTyped ==
    /\ recorded \in [1 .. MaxActs -> Nat]
    /\ unsure \subseteq 1 .. MaxActs /\ typedOver \subseteq 1 .. MaxActs /\ wiped \subseteq 1 .. MaxActs

LEMMA TypeParts == TypeOK <=> ViewTyped /\ CacheTyped /\ ServerTyped /\ MutationsTyped /\ HistoryTyped
BY DEF TypeOK, ViewTyped, CacheTyped, ServerTyped, MutationsTyped, HistoryTyped

\* What a view displays is a value the server has had.
LEMMA DisplayedTyped ==
    ASSUME ServerTyped, CacheTyped
    PROVE  /\ data["detail"] \in Nat /\ data["time"] \in Nat
           /\ data["detail"] > 0 => data["detail"] \in 1 .. Len(statuses) /\ DisplayedStatus \in Status
           /\ data["time"] > 0 => data["time"] \in 1 .. Len(log) /\ log[data["time"]] \in [Entries -> EntryStatus]
<1>1. data["detail"] \in Nat /\ data["time"] \in Nat
  BY DEF CacheTyped, Queries
<1>2. data["detail"] <= Len(statuses) /\ data["time"] <= Len(log)
  BY VersionIs DEF CacheTyped, Queries
<1>3. Len(statuses) \in Nat /\ Len(log) \in Nat
  BY LenProperties DEF ServerTyped
<1>4. data["detail"] > 0 => DisplayedStatus \in Status
  BY <1>1, <1>2, <1>3, ElementOfSeq DEF ServerTyped, DisplayedStatus
<1>5. data["time"] > 0 => log[data["time"]] \in [Entries -> EntryStatus]
  BY <1>1, <1>2, <1>3, ElementOfSeq DEF ServerTyped
<1> QED
  BY <1>1, <1>2, <1>3, <1>4, <1>5

\* The status the select displays is one of those there are.
LEMMA OfferedTyped == ASSUME ViewTyped PROVE Offered \in Status
<1>1. CASE pick.to # DisplayedStatus
  BY <1>1 DEF Offered, ViewTyped
<1>2. CASE pick.to = DisplayedStatus
  <2> DEFINE First(i) == /\ Statuses[i] # DisplayedStatus
                         /\ \A j \in DOMAIN Statuses : j < i => Statuses[j] = DisplayedStatus
             o == CHOOSE i \in DOMAIN Statuses : First(i)
  <2>1. DOMAIN Statuses = 1 .. Len(Statuses) /\ Len(Statuses) \in Nat
    BY StatusesAssumption, LenProperties
  <2>2. 1 \in DOMAIN Statuses /\ 2 \in DOMAIN Statuses
    BY <2>1, StatusesAssumption
  <2>3. Statuses[1] # Statuses[2]
    BY <2>2, StatusesAssumption
  <2>4. \E i \in DOMAIN Statuses : First(i)
    <3>1. CASE Statuses[1] # DisplayedStatus
      BY <2>1, <2>2, <3>1
    <3>2. CASE Statuses[1] = DisplayedStatus
      <4>1. \A j \in DOMAIN Statuses : j < 2 => j = 1
        BY <2>1
      <4> QED
        BY <2>2, <2>3, <3>2, <4>1
    <3> QED
      BY <3>1, <3>2
  <2> HIDE DEF First
  <2>5. o \in DOMAIN Statuses
    BY <2>4
  <2>6. Offered = Statuses[o]
    BY <1>2 DEF Offered, First
  <2> QED
    BY <2>5, <2>6 DEF Status
<1> QED
  BY <1>1, <1>2

\* A request is made by a button: of a form, for what was typed into it and once at a
\* time, or of the row of an entry in the state the button is for.
Asks(k, e, d) ==
    /\ Mutate(k, e, d)
    /\ k \in Kinds /\ e \in Entries \cup {None} /\ d \in 0 .. MaxActs
    /\ k \in Forms => watch[k] = 0 /\ d = draft[k]
    /\ k \notin Forms => d = 0
    /\ k = "transition" => data["detail"] > 0
    /\ k \in EntryKinds => e \in Entries /\ data["time"] > 0 /\ (k # "reject" => DisplayedEntry(e) = Source(k))

LEMMA SubmitAsks ==
    ASSUME ViewTyped, NEW f \in Forms, Submit(f)
    PROVE  \E e : Asks(f, e, draft[f])
<1> DEFINE e == IF f = "reject" THEN rejecting ELSE None
<1>1. Mutate(f, e, draft[f]) /\ f \in shown /\ watch[f] = 0 /\ HasForm(f)
  BY DEF Submit, Idle
<1>2. f \in Kinds /\ draft[f] \in 0 .. MaxActs /\ e \in Entries \cup {None}
  BY DEF ViewTyped, Forms, Kinds, EntryKinds
<1>3. f = "transition" => data["detail"] > 0
  BY <1>1 DEF HasForm, ListForms, DetailForms, BudgetForms, TimeForms, Displays
<1>4. f \in EntryKinds => f = "reject"
  BY DEF Forms, EntryKinds
<1>5. f = "reject" => e \in Entries /\ data["time"] > 0
  BY <1>1 DEF ViewTyped, HasForm, ListForms, DetailForms, BudgetForms, TimeForms, Displays
<1> QED
  BY <1>1, <1>2, <1>3, <1>4, <1>5 DEF Asks

LEMMA RowAsks ==
    ASSUME NEW e \in Entries, StopEntry(e) \/ SubmitEntry(e) \/ ApproveEntry(e)
    PROVE  \E k : Asks(k, e, 0)
<1>1. Source("stop") = "Open" /\ Source("submit") = "Stopped" /\ Source("approve") = "Submitted"
  BY DEF Source
<1>2. /\ "stop" \in Kinds /\ "submit" \in Kinds /\ "approve" \in Kinds
      /\ "stop" \notin Forms /\ "submit" \notin Forms /\ "approve" \notin Forms
  BY DEF Kinds, Forms, EntryKinds
<1>3. 0 \in 0 .. MaxActs
  BY BoundsAssumption
<1>4. CASE StopEntry(e)
  <2>1. Asks("stop", e, 0)
    BY <1>1, <1>2, <1>3, <1>4 DEF Asks, StopEntry, Displays
  <2> QED
    BY <2>1
<1>5. CASE SubmitEntry(e)
  <2>1. Asks("submit", e, 0)
    BY <1>1, <1>2, <1>3, <1>5 DEF Asks, SubmitEntry, Displays
  <2> QED
    BY <2>1
<1>6. CASE ApproveEntry(e)
  <2>1. Asks("approve", e, 0)
    BY <1>1, <1>2, <1>3, <1>6 DEF Asks, ApproveEntry, Displays
  <2> QED
    BY <2>1
<1> QED
  BY <1>4, <1>5, <1>6

LEMMA AchieveAsks == ASSUME Achieve PROVE Asks("achieve", None, 0)
<1>1. "achieve" \in Kinds /\ "achieve" \notin Forms /\ "achieve" \notin EntryKinds
  BY DEF Kinds, Forms, EntryKinds
<1>2. 0 \in 0 .. MaxActs
  BY BoundsAssumption
<1> QED
  BY <1>1, <1>2 DEF Asks, Achieve

\* The request made.
LEMMA AsksSends ==
    ASSUME ViewTyped, ServerTyped, CacheTyped, MutationsTyped, NEW k, NEW e, NEW d, Asks(k, e, d)
    PROVE  \E m \in Mutation :
               /\ mutations' = mutations \cup {m}
               /\ m.id = made + 1 /\ m.kind = k /\ m.entry = e /\ m.draft = d
               /\ m.seen = data["time"] /\ m.stage = "sent"
               /\ k = "transition" => /\ m.to = pick.to /\ m.offered = Offered
                                      /\ m.moved = IF pick.at # data["detail"] THEN "yes" ELSE "no"
               /\ made' = made + 1 /\ watch' = [watch EXCEPT ![k] = made + 1]
               /\ made + 1 \in 1 .. MaxActs /\ made' + typed <= MaxActs
               /\ UNCHANGED <<role, place, tab, shown, draft, pick, rejecting, typed, server, history>>
<1> DEFINE m == [id |-> made + 1, kind |-> k, entry |-> e, draft |-> d,
                 to |-> IF k = "transition" THEN pick.to ELSE Statuses[1],
                 offered |-> IF k = "transition" THEN Offered ELSE Statuses[1],
                 moved |-> IF k = "transition" /\ pick.at # data["detail"] THEN "yes" ELSE "no",
                 seen |-> data["time"], stage |-> "sent"]
<1>1. made + 1 \in 1 .. MaxActs /\ made + 1 + typed <= MaxActs
  BY BoundsAssumption DEF Asks, Mutate, ViewTyped
<1>2. Offered \in Status /\ pick.to \in Status /\ Statuses[1] \in Status /\ data["time"] \in Nat
  BY OfferedTyped, StatusNames, DisplayedTyped DEF ViewTyped
<1>3. m \in Mutation
  BY <1>1, <1>2 DEF Mutation, Asks
<1>4. mutations' = mutations \cup {m}
  BY DEF Asks, Mutate
<1> QED
  BY <1>1, <1>3, <1>4 DEF Asks, Mutate

-----------------------------------------------------------------------------
(***************************************************************************)
(* The steps, by what they do to the inputs and the requests.              *)
(***************************************************************************)
\* Forms and views come and go: an input may be dropped, and a request be observed no more.
Quiet ==
    /\ UNCHANGED <<mutations, made, typed, recorded, unsure, typedOver, wiped>>
    /\ \A f \in Forms : draft'[f] \in {0, draft[f]}
    /\ \A k \in Kinds : \/ watch'[k] = watch[k]
                        \/ watch'[k] = 0 /\ (k \in Forms => draft'[k] = 0)

\* A request is answered, and the view that still observes it may close its form.
Answered(m) == Succeed(m) \/ Fail(m)
Closed(m) ==
    \/ UNCHANGED <<shown, draft, rejecting, wiped>>
    \/ Closing(m)

LEMMA PanelGoneView ==
    ASSUME ViewTyped, PanelGone
    PROVE  /\ shown' \subseteq Forms /\ draft' \in [Forms -> 0 .. MaxActs]
           /\ \A f \in Forms : draft'[f] # 0 => f \in shown'
           /\ rejecting' \in Entries \cup {None} /\ (rejecting' # None <=> "reject" \in shown')
           /\ watch' \in [Kinds -> 0 .. MaxActs]
           /\ \A f \in Forms : draft'[f] \in {0, draft[f]}
           /\ \A k \in Kinds : \/ watch'[k] = watch[k]
                               \/ watch'[k] = 0 /\ (k \in Forms => draft'[k] = 0)
<1>1. 0 \in 0 .. MaxActs
  BY BoundsAssumption
<1>2. \A k \in Kinds \cap Forms : k \notin {"create", "transition"} => k \in PanelForms
  BY DEF Forms, PanelForms
<1> QED
  BY <1>1, <1>2 DEF ViewTyped, PanelGone, PanelForms

LEMMA ViewGoneView ==
    ASSUME ViewTyped, ViewGone
    PROVE  /\ shown' \subseteq Forms /\ draft' \in [Forms -> 0 .. MaxActs]
           /\ \A f \in Forms : draft'[f] # 0 => f \in shown'
           /\ rejecting' \in Entries \cup {None} /\ (rejecting' # None <=> "reject" \in shown')
           /\ watch' \in [Kinds -> 0 .. MaxActs]
           /\ tab' \in Tabs /\ pick' \in [to : Status, at : Nat] /\ pick'.to = "Planned"
           /\ \A f \in Forms : draft'[f] \in {0, draft[f]}
           /\ \A k \in Kinds : \/ watch'[k] = watch[k]
                               \/ watch'[k] = 0 /\ (k \in Forms => draft'[k] = 0)
<1>1. 0 \in 0 .. MaxActs
  BY BoundsAssumption
<1> QED
  BY <1>1, StatusNames DEF ViewTyped, ViewGone, Tabs, Queries

LEMMA ClosingView ==
    ASSUME ViewTyped, NEW m \in Mutation, Closed(m)
    PROVE  /\ shown' \subseteq Forms /\ draft' \in [Forms -> 0 .. MaxActs]
           /\ \A f \in Forms : draft'[f] # 0 => f \in shown'
           /\ rejecting' \in Entries \cup {None} /\ (rejecting' # None <=> "reject" \in shown')
           /\ \A f \in Forms : draft'[f] \in {0, draft[f]}
<1>1. 0 \in 0 .. MaxActs /\ "reject" \in Forms
  BY BoundsAssumption DEF Forms
<1> QED
  BY <1>1 DEF ViewTyped, Closed, Closing

\* The server decides about a request.
Decides(m) == Commit(m) \/ Deny(m)

LEMMA ViewStep ==
    ASSUME ViewTyped, ServerTyped, CacheTyped, MutationsTyped, [Next]_vars
    PROVE  ViewTyped'
<1>1. CASE OpenList \/ OpenProject
  BY <1>1, ViewGoneView DEF OpenList, OpenProject, ViewTyped
<1>2. ASSUME NEW t \in Tabs, SelectTab(t) PROVE ViewTyped'
  BY <1>2, PanelGoneView DEF SelectTab, ViewTyped
<1>3. ASSUME NEW q \in Queries, Refetch(q) \/ Arrive(q) PROVE ViewTyped'
  BY <1>3 DEF Refetch, Arrive, view, bounds, ViewTyped
<1>4. ASSUME NEW q \in Queries, FetchFails(q) PROVE ViewTyped'
  <2>1. PanelGone \/ UNCHANGED <<shown, draft, rejecting, watch>>
    BY <1>4 DEF FetchFails
  <2>2. UNCHANGED <<role, place, tab, pick, made, typed>>
    BY <1>4 DEF FetchFails
  <2> QED
    BY <2>1, <2>2, PanelGoneView DEF ViewTyped
<1>5. ASSUME NEW f \in Forms, ShowForm(f) PROVE ViewTyped'
  <2>1. pick' \in [to : Status, at : Nat]
    BY <1>5, StatusNames, DisplayedTyped DEF ShowForm, ViewTyped
  <2> QED
    BY <1>5, <2>1 DEF ShowForm, ViewTyped, bounds
<1>6. ASSUME NEW f \in Forms, Type(f) PROVE ViewTyped'
  <2>1. typed + 1 \in 0 .. MaxActs /\ typed' = typed + 1 /\ made + typed' <= MaxActs /\ typed' \in Nat
    BY <1>6, BoundsAssumption DEF Type, ViewTyped
  <2>2. draft' \in [Forms -> 0 .. MaxActs] /\ f \in shown /\ draft' = [draft EXCEPT ![f] = typed + 1]
    BY <1>6, <2>1 DEF Type, ViewTyped
  <2> QED
    BY <1>6, <2>1, <2>2 DEF Type, ViewTyped
<1>7. ASSUME NEW f \in Forms, Cancel(f) PROVE ViewTyped'
  <2>1. 0 \in 0 .. MaxActs
    BY BoundsAssumption
  <2> QED
    BY <1>7, <2>1 DEF Cancel, ViewTyped, bounds
<1>8. ASSUME NEW k, NEW e, NEW d, Asks(k, e, d) PROVE ViewTyped'
  <2>1. /\ made' = made + 1 /\ watch' = [watch EXCEPT ![k] = made + 1]
        /\ made + 1 \in 1 .. MaxActs /\ made' + typed <= MaxActs
        /\ UNCHANGED <<role, place, tab, shown, draft, pick, rejecting, typed>>
    BY <1>8, AsksSends
  <2>2. watch' \in [Kinds -> 0 .. MaxActs] /\ made' \in Nat
    <3>1. k \in Kinds /\ made + 1 \in 0 .. MaxActs
      BY <1>8, <2>1, BoundsAssumption DEF Asks
    <3> QED
      BY <2>1, <3>1 DEF ViewTyped
  <2> QED
    BY <2>1, <2>2 DEF ViewTyped
<1>9. ASSUME NEW s \in Status, PickStatus(s) PROVE ViewTyped'
  <2>1. pick' \in [to : Status, at : Nat]
    BY <1>9, DisplayedTyped DEF PickStatus
  <2> QED
    BY <1>9, <2>1 DEF PickStatus, ViewTyped, bounds
<1>10. ASSUME NEW e \in Entries, AskReason(e) PROVE ViewTyped'
  <2>1. 0 \in 0 .. MaxActs /\ "reject" \in Forms /\ e # None
    BY BoundsAssumption, NoneAssumption DEF Forms
  <2> QED
    BY <1>10, <2>1 DEF AskReason, ViewTyped, bounds
<1>11. ASSUME NEW m \in mutations, Decides(m) PROVE ViewTyped'
  BY <1>11 DEF Decides, Commit, Deny, view, bounds, ViewTyped
<1>12. ASSUME NEW m \in mutations, Succeed(m) \/ Fail(m) PROVE ViewTyped'
  <2>1. m \in Mutation
    BY DEF MutationsTyped
  <2>2. Closed(m) /\ watch' = Unwatched(m) /\ UNCHANGED <<role, place, tab, pick, made, typed>>
    BY <1>12 DEF Succeed, Fail, Closed, bounds
  <2>3. watch' \in [Kinds -> 0 .. MaxActs]
    BY <2>2, BoundsAssumption DEF Unwatched, ViewTyped
  <2> QED
    BY <2>1, <2>2, <2>3, ClosingView DEF ViewTyped
<1>13. CASE OthersAct \/ UNCHANGED vars
  BY <1>13 DEF OthersAct, vars, view, bounds, ViewTyped
<1> QED
  BY <1>1, <1>2, <1>3, <1>4, <1>5, <1>6, <1>7, <1>8, <1>9, <1>10, <1>11, <1>12, <1>13,
     SubmitAsks, RowAsks, AchieveAsks DEF Next, Decides

\* Every step is one of five.
LEMMA Steps ==
    ASSUME ViewTyped, [Next]_vars
    PROVE  \/ Quiet
           \/ \E f \in Forms : Type(f)
           \/ \E k, e, d : Asks(k, e, d)
           \/ \E m \in mutations : Decides(m)
           \/ \E m \in mutations : Answered(m)
<1> USE DEF Quiet
<1>1. CASE OpenList \/ OpenProject
  <2>1. \A f \in Forms : draft'[f] = 0
    BY <1>1 DEF OpenList, OpenProject, ViewGone
  <2>2. ViewGone /\ UNCHANGED <<mutations, made, typed, recorded, unsure, typedOver, wiped>>
    BY <1>1 DEF OpenList, OpenProject, server, history
  <2> QED
    BY <2>1, <2>2, ViewGoneView
<1>2. ASSUME NEW t \in Tabs, SelectTab(t) PROVE Quiet
  BY <1>2, PanelGoneView DEF SelectTab, server, history
<1>3. ASSUME NEW q \in Queries, Refetch(q) \/ Arrive(q) PROVE Quiet
  BY <1>3 DEF Refetch, Arrive, view, server, bounds, history
<1>4. ASSUME NEW q \in Queries, FetchFails(q) PROVE Quiet
  <2>1. PanelGone \/ UNCHANGED <<shown, draft, rejecting, watch>>
    BY <1>4 DEF FetchFails
  <2>2. UNCHANGED <<mutations, made, typed, recorded, unsure, typedOver, wiped>>
    BY <1>4 DEF FetchFails, server, history
  <2> QED
    BY <2>1, <2>2, PanelGoneView
<1>5. ASSUME NEW f \in Forms, ShowForm(f) PROVE Quiet
  BY <1>5 DEF ShowForm, server, bounds, history
<1>6. ASSUME NEW f \in Forms, Cancel(f) PROVE Quiet
  BY <1>6 DEF Cancel, server, bounds, history, ViewTyped
<1>7. ASSUME NEW s \in Status, PickStatus(s) PROVE Quiet
  BY <1>7 DEF PickStatus, server, bounds, history
<1>8. ASSUME NEW e \in Entries, AskReason(e) PROVE Quiet
  BY <1>8 DEF AskReason, server, bounds, history, ViewTyped, Forms
<1>9. CASE OthersAct \/ UNCHANGED vars
  BY <1>9 DEF OthersAct, vars, view, server, bounds, history
<1> QED
  BY <1>1, <1>2, <1>3, <1>4, <1>5, <1>6, <1>7, <1>8, <1>9,
     SubmitAsks, RowAsks, AchieveAsks DEF Next, Answered, Decides

\* A request that is carried out, refused or denied stays the request it was.
LEMMA DecidesSends ==
    ASSUME NEW m \in Mutation, Decides(m)
    PROVE  \E n \in Mutation :
               /\ mutations' = (mutations \ {m}) \cup {n} /\ m.stage = "sent" /\ n.stage # "sent"
               /\ n.stage = "refused" => Refuses(m) /\ UNCHANGED log
               /\ n.id = m.id /\ n.kind = m.kind /\ n.entry = m.entry /\ n.draft = m.draft /\ n.to = m.to
               /\ n.offered = m.offered /\ n.moved = m.moved /\ n.seen = m.seen
               /\ recorded' = IF m.draft # 0 /\ n.stage = "done" THEN [recorded EXCEPT ![m.draft] = @ + 1] ELSE recorded
               /\ UNCHANGED <<shown, draft, watch, pick, made, typed, unsure, typedOver, wiped>>
<1> DEFINE s == IF Commit(m) THEN IF Refuses(m) THEN "refused" ELSE "done" ELSE "denied"
           n == [m EXCEPT !.stage = s]
<1>1. n \in Mutation /\ n.stage = s /\ n.id = m.id /\ n.kind = m.kind /\ n.entry = m.entry /\ n.draft = m.draft
      /\ n.to = m.to /\ n.offered = m.offered /\ n.moved = m.moved /\ n.seen = m.seen
  BY DEF Mutation
<1>2. CASE Commit(m)
  <2>1. mutations' = (mutations \ {m}) \cup {n} /\ m.stage = "sent" /\ s = IF Refuses(m) THEN "refused" ELSE "done"
    BY <1>2 DEF Commit
  <2>2. s = "refused" => UNCHANGED <<log, recorded>>
    BY <1>2, <2>1 DEF Commit, server
  <2>3. s = "done" => recorded' = IF m.draft # 0 THEN [recorded EXCEPT ![m.draft] = @ + 1] ELSE recorded
    BY <1>2, <2>1 DEF Commit
  <2> HIDE DEF n, s
  <2> QED
    BY <1>1, <1>2, <2>1, <2>2, <2>3 DEF Commit, view, bounds, history
<1>3. CASE ~ Commit(m)
  <2>1. Deny(m) /\ s = "denied"
    BY <1>3 DEF Decides
  <2>2. mutations' = (mutations \ {m}) \cup {n} /\ m.stage = "sent" /\ UNCHANGED recorded
    BY <2>1 DEF Deny, server
  <2> HIDE DEF n, s
  <2> QED
    BY <1>1, <2>1, <2>2 DEF Deny, view, bounds, history
<1> QED
  BY <1>2, <1>3

LEMMA MutationsStep ==
    ASSUME ViewTyped, ServerTyped, CacheTyped, MutationsTyped, HistoryTyped, [Next]_vars
    PROVE  MutationsTyped' /\ HistoryTyped'
<1>1. CASE Quiet
  BY <1>1 DEF Quiet, MutationsTyped, HistoryTyped
<1>2. ASSUME NEW f \in Forms, Type(f) PROVE MutationsTyped' /\ HistoryTyped'
  <2>1. typed + 1 \in 1 .. MaxActs
    BY <1>2, BoundsAssumption DEF Type, ViewTyped
  <2>2. typedOver' \subseteq 1 .. MaxActs
    BY <1>2, <2>1 DEF Type, HistoryTyped
  <2> QED
    BY <1>2, <2>2 DEF Type, server, MutationsTyped, HistoryTyped
<1>3. ASSUME NEW k, NEW e, NEW d, Asks(k, e, d) PROVE MutationsTyped' /\ HistoryTyped'
  <2>1. PICK m \in Mutation : mutations' = mutations \cup {m} /\ UNCHANGED <<server, history>>
    BY <1>3, AsksSends
  <2> QED
    BY <2>1 DEF MutationsTyped, HistoryTyped, server, history
<1>4. ASSUME NEW m \in mutations, Decides(m) PROVE MutationsTyped' /\ HistoryTyped'
  <2>1. m \in Mutation
    BY DEF MutationsTyped
  <2>2. m.draft \in 0 .. MaxActs
    BY <2>1 DEF Mutation
  <2>3. PICK n \in Mutation :
            /\ mutations' = (mutations \ {m}) \cup {n}
            /\ recorded' = IF m.draft # 0 /\ n.stage = "done" THEN [recorded EXCEPT ![m.draft] = @ + 1] ELSE recorded
            /\ UNCHANGED <<unsure, typedOver, wiped>>
    BY <1>4, <2>1, DecidesSends
  <2>4. recorded' \in [1 .. MaxActs -> Nat]
    BY <2>2, <2>3, BoundsAssumption DEF HistoryTyped
  <2> QED
    BY <2>3, <2>4 DEF MutationsTyped, HistoryTyped
<1>5. ASSUME NEW m \in mutations, Answered(m) PROVE MutationsTyped' /\ HistoryTyped'
  <2>1. m \in Mutation
    BY DEF MutationsTyped
  <2>2. m.draft \in 0 .. MaxActs
    BY <2>1 DEF Mutation
  <2>3. mutations' \subseteq mutations /\ UNCHANGED <<recorded, typedOver>>
    BY <1>5 DEF Answered, Succeed, Fail, server
  <2>4. unsure' \subseteq unsure \cup ({m.draft} \ {0})
    BY <1>5 DEF Answered, Succeed, Fail
  <2>5. Closed(m)
    BY <1>5 DEF Answered, Succeed, Fail, Closed
  <2>6. \A f \in Forms : draft[f] \in 0 .. MaxActs
    BY DEF ViewTyped
  <2>7. wiped' \subseteq 1 .. MaxActs
    <3>1. \A f \in Forms : draft[f] # 0 => draft[f] \in 1 .. MaxActs
      BY <2>6, BoundsAssumption
    <3>2. wiped' \subseteq wiped \cup ({draft[f] : f \in Forms} \ {0})
      BY <2>5 DEF Closed, Closing
    <3> QED
      BY <3>1, <3>2 DEF HistoryTyped
  <2>8. unsure' \subseteq 1 .. MaxActs
    BY <2>2, <2>4, BoundsAssumption DEF HistoryTyped
  <2> QED
    BY <2>3, <2>7, <2>8 DEF MutationsTyped, HistoryTyped
<1> QED
  BY <1>1, <1>2, <1>3, <1>4, <1>5, Steps

-----------------------------------------------------------------------------
(***************************************************************************)
(* The inputs and their requests, step by step.                            *)
(***************************************************************************)
Typed == ViewTyped /\ CacheTyped /\ ServerTyped /\ MutationsTyped /\ HistoryTyped
Inputs ==
    /\ RequestsNumbered /\ InputsOfForm /\ SentOnce
    /\ RecordedOnce /\ OverTyped /\ WipedNeedsOverlap

\* What the types say of the requests and the forms.
LEMMA InputTypes ==
    ASSUME Typed
    PROVE  /\ \A f \in Forms : f \in Kinds /\ draft[f] \in Nat
           /\ \A k \in Kinds : watch[k] \in Nat
           /\ \A m \in mutations : m.id \in Nat \ {0} /\ m.kind \in Kinds /\ m.draft \in Nat /\ m.draft <= MaxActs
           /\ \A d \in 1 .. MaxActs : recorded[d] \in Nat /\ d \in Nat \ {0}
           /\ made \in Nat /\ typed \in Nat /\ MaxActs \in Nat
<1>1. MaxActs \in Nat
  BY BoundsAssumption
<1>2. \A f \in Forms : f \in Kinds
  BY DEF Forms, Kinds, EntryKinds
<1> QED
  BY <1>1, <1>2 DEF Typed, ViewTyped, MutationsTyped, HistoryTyped, Mutation

LEMMA QuietInputs == ASSUME Typed, Typed', Inputs, Quiet PROVE Inputs'
<1>1. RequestsNumbered'
  BY InputTypes DEF Inputs, Quiet, RequestsNumbered
<1>2. InputsOfForm'
  <2>1. "transition" \in Forms
    BY DEF Forms
  <2> QED
    BY <2>1, InputTypes DEF Inputs, Quiet, InputsOfForm
<1>3. SentOnce'
  BY InputTypes DEF Inputs, Quiet, SentOnce, InputsOfForm, Live
<1>4. RecordedOnce'
  BY InputTypes DEF Inputs, Quiet, RecordedOnce
<1>5. OverTyped'
  BY InputTypes DEF Inputs, Quiet, OverTyped
<1>6. WipedNeedsOverlap'
  BY DEF Inputs, Quiet, WipedNeedsOverlap
<1> QED
  BY <1>1, <1>2, <1>3, <1>4, <1>5, <1>6 DEF Inputs

\* What is typed is new, and replaces what the form has.
LEMMA TypeInputs == ASSUME Typed, Typed', Inputs, NEW f \in Forms, Type(f) PROVE Inputs'
<1>1. /\ UNCHANGED <<mutations, made, watch, recorded, unsure, wiped>>
      /\ typed' = typed + 1 /\ f # "transition"
      /\ draft'[f] = typed + 1 /\ \A g \in Forms \ {f} : draft'[g] = draft[g]
      /\ typedOver' = IF watch[f] # 0 THEN typedOver \cup {typed + 1} ELSE typedOver
  BY DEF Type, Typed, ViewTyped, server
<1>2. RequestsNumbered'
  BY <1>1 DEF Inputs, RequestsNumbered
<1>3. InputsOfForm'
  <2>1. "transition" \in Forms
    BY DEF Forms
  <2>2. draft'["transition"] = 0 /\ \A g \in Forms : draft'[g] <= typed'
    BY <1>1, <2>1, InputTypes DEF Inputs, InputsOfForm
  <2>3. \A g, h \in Forms : draft'[g] = draft'[h] /\ draft'[g] # 0 => g = h
    BY <1>1, InputTypes DEF Inputs, InputsOfForm
  <2>4. \A m \in mutations : m.draft <= typed' /\ (m.draft # 0 => m.kind \in Forms)
    BY <1>1, InputTypes DEF Inputs, InputsOfForm
  <2>5. \A m \in mutations : \A g \in Forms : m.draft # 0 /\ draft'[g] = m.draft => g = m.kind
    BY <1>1, InputTypes DEF Inputs, InputsOfForm
  <2> QED
    BY <1>1, <2>2, <2>3, <2>4, <2>5 DEF InputsOfForm
<1>4. SentOnce'
  <2>1. \A m \in mutations : Live(m) /\ draft'[m.kind] = m.draft => draft[m.kind] = m.draft
    BY <1>1, InputTypes DEF Inputs, InputsOfForm, Live
  <2> QED
    BY <1>1, <2>1 DEF Inputs, SentOnce, Live
<1>5. RecordedOnce'
  <2>1. \A d \in 1 .. MaxActs : recorded[d] > 0 => d <= typed'
    BY <1>1, InputTypes DEF Inputs, RecordedOnce
  <2>2. \A d \in 1 .. MaxActs, g \in Forms : d <= typed /\ draft'[g] = d => draft[g] = d
    BY <1>1, InputTypes
  <2> QED
    BY <1>1, <2>1, <2>2 DEF Inputs, RecordedOnce
<1>6. OverTyped'
  BY <1>1, InputTypes DEF Inputs, OverTyped
<1>7. WipedNeedsOverlap'
  BY <1>1 DEF Inputs, WipedNeedsOverlap
<1> QED
  BY <1>2, <1>3, <1>4, <1>5, <1>6, <1>7 DEF Inputs

\* A form is sent only while no request of it is observed: what it has is in no request
\* that may still be recorded.
LEMMA AsksInputs == ASSUME Typed, Typed', Inputs, NEW k, NEW e, NEW d, Asks(k, e, d) PROVE Inputs'
<1>1. PICK m \in Mutation :
          /\ mutations' = mutations \cup {m}
          /\ m.id = made + 1 /\ m.kind = k /\ m.draft = d /\ m.stage = "sent"
          /\ made' = made + 1 /\ watch' = [watch EXCEPT ![k] = made + 1]
          /\ UNCHANGED <<draft, typed, server, history>>
  BY AsksSends DEF Typed
<1>2. /\ watch'[k] = made + 1 /\ \A j \in Kinds \ {k} : watch'[j] = watch[j]
      /\ UNCHANGED <<recorded, unsure, typedOver, wiped>>
  BY <1>1 DEF Typed, ViewTyped, Asks, server, history
<1>3. /\ k \in Kinds /\ (k \in Forms => watch[k] = 0 /\ d = draft[k]) /\ (k \notin Forms => d = 0)
  BY DEF Asks
<1>4. ASSUME NEW n \in mutations, Live(n), n.draft = d PROVE FALSE
  <2>1. k \in Forms /\ d = draft[k] /\ watch[k] = 0
    BY <1>3, <1>4 DEF Live
  <2>2. n.kind = k
    BY <1>4, <2>1 DEF Inputs, InputsOfForm, Live
  <2>3. watch[k] = n.id
    BY <1>4, <2>1, <2>2 DEF Inputs, SentOnce
  <2> QED
    BY <2>1, <2>3, InputTypes
<1>5. RequestsNumbered'
  <2>1. \A n \in mutations : n.id # made + 1 /\ n.id <= made'
    BY <1>1, InputTypes DEF Inputs, RequestsNumbered
  <2>2. \A j \in Kinds : watch'[j] <= made'
    BY <1>1, <1>2, InputTypes DEF Inputs, RequestsNumbered
  <2>3. \A j \in Kinds : watch'[j] = made + 1 => j = k
    BY <1>2, InputTypes DEF Inputs, RequestsNumbered
  <2>4. \A j \in Kinds, n \in mutations' : watch'[j] = n.id => n.kind = j
    BY <1>1, <1>2, <2>1, <2>3 DEF Inputs, RequestsNumbered
  <2>5. \A n, o \in mutations' : n.id = o.id => n = o
    BY <1>1, <2>1 DEF Inputs, RequestsNumbered
  <2>6. \A n \in mutations' : n.id <= made'
    BY <1>1, <2>1, InputTypes
  <2> QED
    BY <2>2, <2>4, <2>5, <2>6 DEF RequestsNumbered
<1>6. InputsOfForm'
  <2>1. d <= typed /\ (d # 0 => k \in Forms)
    BY <1>3, InputTypes DEF Inputs, InputsOfForm
  <2>2. \A f \in Forms : d # 0 /\ draft[f] = d => f = k
    BY <1>3 DEF Inputs, InputsOfForm
  <2> QED
    BY <1>1, <2>1, <2>2 DEF Inputs, InputsOfForm
<1>7. SentOnce'
  <2>1. \A n \in mutations : Live(n) /\ draft[n.kind] = n.draft => watch'[n.kind] = n.id
    <3> SUFFICES ASSUME NEW n \in mutations, Live(n), draft[n.kind] = n.draft PROVE watch'[n.kind] = n.id
      OBVIOUS
    <3>1. watch[n.kind] = n.id /\ n.kind \in Forms /\ n.kind \in Kinds /\ n.id # 0
      BY InputTypes DEF Inputs, SentOnce, InputsOfForm, Live
    <3>2. n.kind # k
      BY <1>3, <3>1
    <3> QED
      BY <1>2, <3>1, <3>2
  <2>2. watch'[m.kind] = m.id
    BY <1>1, <1>2
  <2>3. \A n, o \in mutations' : Live(n) /\ Live(o) /\ n.draft = o.draft => n = o
    BY <1>1, <1>4 DEF Inputs, SentOnce, Live
  <2>4. \A n \in mutations' : Live(n) /\ draft'[n.kind] = n.draft => watch'[n.kind] = n.id
    BY <1>1, <2>1, <2>2
  <2> QED
    BY <2>3, <2>4 DEF SentOnce, Live
<1>8. RecordedOnce'
  <2> SUFFICES ASSUME NEW b \in 1 .. MaxActs, recorded[b] > 0
               PROVE  /\ b <= typed
                      /\ b \notin unsure =>
                            /\ recorded[b] = 1
                            /\ \A n \in mutations' : n.draft = b => n.stage # "sent"
                            /\ \A f \in Forms : draft[f] = b => \E n \in mutations' : n.draft = b /\ n.stage = "done"
    BY <1>1, <1>2 DEF RecordedOnce
  <2>1. b <= typed
    BY DEF Inputs, RecordedOnce
  <2> SUFFICES ASSUME b \notin unsure
               PROVE  /\ recorded[b] = 1
                      /\ \A n \in mutations' : n.draft = b => n.stage # "sent"
                      /\ \A f \in Forms : draft[f] = b => \E n \in mutations' : n.draft = b /\ n.stage = "done"
    BY <2>1
  <2>2. /\ recorded[b] = 1 /\ \A n \in mutations : n.draft = b => n.stage # "sent"
        /\ \A f \in Forms : draft[f] = b => \E n \in mutations : n.draft = b /\ n.stage = "done"
    BY DEF Inputs, RecordedOnce
  <2>3. d # b
    <3> SUFFICES ASSUME d = b PROVE FALSE
      OBVIOUS
    <3>1. b # 0
      BY InputTypes
    <3>2. k \in Forms /\ draft[k] = b
      BY <1>3, <3>1
    <3>3. PICK n \in mutations : n.draft = b /\ n.stage = "done"
      BY <2>2, <3>2
    <3> QED
      BY <1>4, <3>1, <3>3 DEF Live
  <2> QED
    BY <1>1, <2>2, <2>3
<1>9. OverTyped'
  <2> SUFFICES ASSUME NEW n \in mutations', n.kind \in Forms, watch'[n.kind] = n.id
               PROVE  draft[n.kind] \in {0, n.draft} \cup typedOver
    BY <1>1, <1>2 DEF OverTyped
  <2>1. CASE n = m
    BY <1>1, <1>3, <2>1
  <2>2. CASE n # m
    <3>1. n \in mutations /\ n.id # made + 1 /\ n.kind \in Kinds
      BY <1>1, <2>2, InputTypes DEF Inputs, RequestsNumbered
    <3>2. watch[n.kind] = n.id
      BY <1>2, <3>1
    <3> QED
      BY <3>1, <3>2 DEF Inputs, OverTyped
  <2> QED
    BY <2>1, <2>2
<1>10. WipedNeedsOverlap'
  BY <1>2 DEF Inputs, WipedNeedsOverlap
<1> QED
  BY <1>5, <1>6, <1>7, <1>8, <1>9, <1>10 DEF Inputs

\* What is recorded now was not recorded before, unless the response was lost.
LEMMA DecidesInputs == ASSUME Typed, Typed', Inputs, NEW m \in mutations, Decides(m) PROVE Inputs'
<1>1. m \in Mutation
  BY DEF Typed, MutationsTyped
<1>2. PICK n \in Mutation :
          /\ mutations' = (mutations \ {m}) \cup {n} /\ m.stage = "sent"
          /\ n.stage # "sent"
          /\ n.id = m.id /\ n.kind = m.kind /\ n.draft = m.draft
          /\ recorded' = IF m.draft # 0 /\ n.stage = "done" THEN [recorded EXCEPT ![m.draft] = @ + 1] ELSE recorded
          /\ UNCHANGED <<draft, watch, made, typed, unsure, typedOver, wiped>>
  BY <1>1, DecidesSends
<1>3. RequestsNumbered'
  BY <1>2 DEF Inputs, RequestsNumbered
<1>4. InputsOfForm'
  BY <1>2 DEF Inputs, InputsOfForm
<1>5. Live(n) => Live(m) /\ n.draft = m.draft
  BY <1>2 DEF Live
<1>6. SentOnce'
  <2>1. \A o \in mutations' : Live(o) /\ draft[o.kind] = o.draft => watch[o.kind] = o.id
    BY <1>2, <1>5 DEF Inputs, SentOnce
  <2>2. \A o, p \in mutations' : Live(o) /\ Live(p) /\ o.draft = p.draft => o = p
    BY <1>2, <1>5 DEF Inputs, SentOnce
  <2> QED
    BY <1>2, <2>1, <2>2 DEF SentOnce, Live
<1>7. RecordedOnce'
  <2> SUFFICES ASSUME NEW d \in 1 .. MaxActs, recorded'[d] > 0
               PROVE  /\ d <= typed
                      /\ d \notin unsure =>
                            /\ recorded'[d] = 1
                            /\ \A o \in mutations' : o.draft = d => o.stage # "sent"
                            /\ \A f \in Forms : draft[f] = d => \E o \in mutations' : o.draft = d /\ o.stage = "done"
    BY <1>2 DEF RecordedOnce
  <2>1. CASE d = m.draft /\ n.stage = "done"
    <3>1. d <= typed /\ d # 0
      BY <2>1, InputTypes DEF Inputs, InputsOfForm
    <3>2. recorded'[d] = recorded[d] + 1 /\ n.stage = "done" /\ n.draft = d /\ n \in mutations'
      BY <1>2, <2>1, <3>1 DEF Typed, HistoryTyped
    <3>3. Live(m)
      BY <1>2, <2>1, <3>1 DEF Live
    <3>4. \A o \in mutations \ {m} : o.draft = d => o.stage # "sent"
      BY <2>1, <3>1, <3>3 DEF Inputs, SentOnce, Live
    <3>5. d \notin unsure => recorded[d] = 0
      BY <1>2, <2>1, InputTypes DEF Inputs, RecordedOnce
    <3> QED
      BY <1>2, <3>1, <3>2, <3>4, <3>5
  <2>2. CASE ~ (d = m.draft /\ n.stage = "done")
    <3>1. recorded'[d] = recorded[d]
      BY <1>2, <2>2 DEF Typed, HistoryTyped
    <3>2. d <= typed
      BY <3>1 DEF Inputs, RecordedOnce
    <3> SUFFICES ASSUME d \notin unsure
                 PROVE  /\ recorded'[d] = 1
                        /\ \A o \in mutations' : o.draft = d => o.stage # "sent"
                        /\ \A f \in Forms : draft[f] = d => \E o \in mutations' : o.draft = d /\ o.stage = "done"
      BY <3>2
    <3>3. /\ recorded[d] = 1 /\ \A o \in mutations : o.draft = d => o.stage # "sent"
          /\ \A f \in Forms : draft[f] = d => \E o \in mutations : o.draft = d /\ o.stage = "done"
      BY <3>1 DEF Inputs, RecordedOnce
    <3>4. d # m.draft
      BY <1>2, <3>3
    <3> QED
      BY <1>2, <3>1, <3>3, <3>4
  <2> QED
    BY <2>1, <2>2
<1>8. OverTyped'
  BY <1>2 DEF Inputs, OverTyped
<1>9. WipedNeedsOverlap'
  BY <1>2 DEF Inputs, WipedNeedsOverlap
<1> QED
  BY <1>3, <1>4, <1>6, <1>7, <1>8, <1>9 DEF Inputs

\* A form that is closed had what was sent, or what was typed over it.
LEMMA AnsweredInputs == ASSUME Typed, Typed', Inputs, NEW m \in mutations, Answered(m) PROVE Inputs'
<1>1. /\ mutations' = mutations \ {m} /\ UNCHANGED <<made, typed, recorded, typedOver>>
      /\ watch' = [k \in Kinds |-> IF watch[k] = m.id THEN 0 ELSE watch[k]]
      /\ unsure \subseteq unsure'
  BY DEF Answered, Succeed, Fail, Unwatched, server, bounds
<1>2. m \in Mutation /\ m.id # 0
  BY InputTypes DEF Typed, MutationsTyped
<1>3. Closed(m)
  BY DEF Answered, Succeed, Fail, Closed
<1>4. \A f \in Forms : draft'[f] \in {0, draft[f]}
  BY <1>2, <1>3, ClosingView DEF Typed
<1>5. \A k \in Kinds : watch'[k] = 0 \/ watch'[k] = watch[k]
  BY <1>1
<1>6. RequestsNumbered'
  BY <1>1, <1>5, InputTypes DEF Inputs, RequestsNumbered
<1>7. InputsOfForm'
  <2>1. "transition" \in Forms
    BY DEF Forms
  <2> QED
    BY <1>1, <1>4, <2>1, InputTypes DEF Inputs, InputsOfForm
<1>8. SentOnce'
  <2> SUFFICES ASSUME NEW n \in mutations', Live(n), draft'[n.kind] = n.draft
               PROVE  watch'[n.kind] = n.id
    BY <1>1 DEF Inputs, SentOnce, Live
  <2>1. n \in mutations /\ n # m /\ n.kind \in Forms /\ n.kind \in Kinds /\ draft[n.kind] = n.draft
    BY <1>1, <1>4, InputTypes DEF Inputs, InputsOfForm, Live
  <2>2. watch[n.kind] = n.id /\ n.id # m.id
    BY <2>1 DEF Inputs, SentOnce, RequestsNumbered
  <2> QED
    BY <1>1, <2>1, <2>2
<1>9. RecordedOnce'
  <2> SUFFICES ASSUME NEW d \in 1 .. MaxActs, recorded[d] > 0
               PROVE  /\ d <= typed
                      /\ d \notin unsure' =>
                            /\ recorded[d] = 1
                            /\ \A n \in mutations' : n.draft = d => n.stage # "sent"
                            /\ \A f \in Forms : draft'[f] = d => \E n \in mutations' : n.draft = d /\ n.stage = "done"
    BY <1>1 DEF RecordedOnce
  <2>1. d <= typed /\ d # 0
    BY InputTypes DEF Inputs, RecordedOnce
  <2>2. d \notin unsure' => recorded[d] = 1 /\ \A n \in mutations' : n.draft = d => n.stage # "sent"
    BY <1>1 DEF Inputs, RecordedOnce
  <2>3. ASSUME d \notin unsure', NEW f \in Forms, draft'[f] = d
        PROVE  \E n \in mutations' : n.draft = d /\ n.stage = "done"
    <3>1. draft[f] = d
      BY <1>4, <2>1, <2>3
    <3>2. PICK n \in mutations : n.draft = d /\ n.stage = "done"
      BY <1>1, <2>3, <3>1 DEF Inputs, RecordedOnce
    <3>3. n # m
      <4> SUFFICES ASSUME m.draft = d, m.stage = "done" PROVE FALSE
        BY <3>2
      <4>1. Succeed(m)
        BY <2>1, <2>3 DEF Answered, Fail
      <4>2. f = m.kind
        BY <2>1, <3>1 DEF Inputs, InputsOfForm
      <4>3. watch[m.kind] = m.id
        BY <2>1, <3>1, <4>2 DEF Inputs, SentOnce, Live
      <4>4. draft'[f] = 0
        BY <4>1, <4>2, <4>3 DEF Succeed, Closing, Closes
      <4> QED
        BY <2>1, <2>3, <4>4
    <3> QED
      BY <1>1, <3>2, <3>3
  <2> QED
    BY <2>1, <2>2, <2>3
<1>10. OverTyped'
  <2> SUFFICES ASSUME NEW n \in mutations', n.kind \in Forms, watch'[n.kind] = n.id
               PROVE  draft'[n.kind] \in {0, n.draft} \cup typedOver
    BY <1>1 DEF OverTyped
  <2>1. n \in mutations /\ n.id # 0 /\ n.kind \in Kinds
    BY <1>1, InputTypes
  <2>2. watch[n.kind] = n.id
    BY <1>5, <2>1
  <2>3. draft[n.kind] \in {0, n.draft} \cup typedOver
    BY <2>1, <2>2 DEF Inputs, OverTyped
  <2> QED
    BY <1>4, <2>3
<1>11. WipedNeedsOverlap'
  <2>1. CASE UNCHANGED <<shown, draft, rejecting, wiped>>
    BY <1>1, <2>1 DEF Inputs, WipedNeedsOverlap
  <2>2. CASE Closing(m)
    <3>1. ASSUME NEW f \in Forms, Closes(m, f), draft[f] \notin {0, m.draft} PROVE draft[f] \in typedOver
      BY <3>1 DEF Inputs, OverTyped, Closes
    <3>2. wiped' \subseteq wiped \cup {draft[f] : f \in {g \in Forms : Closes(m, g) /\ draft[g] \notin {0, m.draft}}}
      BY <2>2 DEF Closing
    <3> QED
      BY <1>1, <3>1, <3>2 DEF Inputs, WipedNeedsOverlap
  <2> QED
    BY <1>3, <2>1, <2>2 DEF Closed
<1> QED
  BY <1>6, <1>7, <1>8, <1>9, <1>10, <1>11 DEF Inputs

LEMMA InputsStep == ASSUME Typed, Typed', Inputs, [Next]_vars PROVE Inputs'
<1>1. ViewTyped
  BY DEF Typed
<1> QED
  BY <1>1, Steps, QuietInputs, TypeInputs, AsksInputs, DecidesInputs, AnsweredInputs

-----------------------------------------------------------------------------
(***************************************************************************)
(* The requests for time entries, and the transitions.                     *)
(***************************************************************************)
Requests == EntrySeen /\ RefusedNeedsChange /\ PickedOther /\ AsksWhatIsOffered

\* What a request was made of is still there after a step, with what came since.
LEMMA SeenStays ==
    ASSUME Typed, Typed', ServerGrows, NEW m \in Mutation, m.kind \in EntryKinds,
           m.entry \in Entries, m.seen \in 1 .. Len(log)
    PROVE  /\ m.seen \in 1 .. Len(log') /\ log'[m.seen] = log[m.seen]
           /\ (\E v \in m.seen .. Len(log) : log[v][m.entry] # log[m.seen][m.entry])
                => \E v \in m.seen .. Len(log') : log'[v][m.entry] # log'[m.seen][m.entry]
<1>1. Len(log) \in Nat /\ Len(log') \in Nat /\ Len(log) <= Len(log') /\ m.seen \in Nat
  BY LenProperties DEF Typed, ServerTyped, ServerGrows
<1>2. \A v \in 1 .. Len(log) : log'[v] = log[v]
  BY DEF ServerGrows
<1>3. \A v \in m.seen .. Len(log) : v \in 1 .. Len(log) /\ v \in m.seen .. Len(log')
  BY <1>1
<1> QED
  BY <1>1, <1>2, <1>3

LEMMA OldRequests ==
    ASSUME Typed, Typed', ServerGrows, Requests, NEW m \in mutations
    PROVE  /\ m.kind \in EntryKinds =>
                /\ m.entry \in Entries /\ m.seen \in 1 .. Len(log')
                /\ m.kind # "reject" => log'[m.seen][m.entry] = Source(m.kind)
           /\ m.kind \in EntryKinds /\ m.stage = "refused" =>
                \/ \E v \in m.seen .. Len(log') : log'[v][m.entry] # log'[m.seen][m.entry]
                \/ m.kind = "reject" /\ log'[m.seen][m.entry] # "Submitted"
           /\ m.kind = "transition" => m.to = m.offered \/ m.to = "Planned" \/ m.moved = "yes"
<1>1. m \in Mutation
  BY DEF Typed, MutationsTyped
<1>2. m.kind = "transition" => m.to = m.offered \/ m.to = "Planned" \/ m.moved = "yes"
  BY DEF Requests, AsksWhatIsOffered
<1>3. CASE m.kind \in EntryKinds
  <2>1. m.entry \in Entries /\ m.seen \in 1 .. Len(log) /\ (m.kind # "reject" => log[m.seen][m.entry] = Source(m.kind))
    BY <1>3 DEF Requests, EntrySeen
  <2>2. /\ m.seen \in 1 .. Len(log') /\ log'[m.seen] = log[m.seen]
        /\ (\E v \in m.seen .. Len(log) : log[v][m.entry] # log[m.seen][m.entry])
             => \E v \in m.seen .. Len(log') : log'[v][m.entry] # log'[m.seen][m.entry]
    BY <1>1, <1>3, <2>1, SeenStays
  <2>3. m.stage = "refused" =>
            \/ \E v \in m.seen .. Len(log) : log[v][m.entry] # log[m.seen][m.entry]
            \/ m.kind = "reject" /\ log[m.seen][m.entry] # "Submitted"
    BY <1>3 DEF Requests, RefusedNeedsChange
  <2> QED
    BY <1>2, <2>1, <2>2, <2>3
<1> QED
  BY <1>2, <1>3

LEMMA PickedStays == ASSUME Typed, Typed', ServerGrows, PickedOther, UNCHANGED pick PROVE PickedOther'
<1>1. Len(statuses) \in Nat /\ Len(statuses') \in Nat
  BY LenProperties DEF Typed, ServerTyped
<1> QED
  BY <1>1 DEF PickedOther, ServerGrows

LEMMA PickedStep == ASSUME Typed, Typed', ServerGrows, PickedOther, [Next]_vars PROVE PickedOther'
<1>1. CASE OpenList \/ OpenProject
  BY <1>1 DEF OpenList, OpenProject, ViewGone, PickedOther
<1>2. ASSUME NEW t \in Tabs, SelectTab(t) PROVE PickedOther'
  BY <1>2, PickedStays DEF SelectTab
<1>3. ASSUME NEW q \in Queries, Refetch(q) \/ Arrive(q) \/ FetchFails(q) PROVE PickedOther'
  BY <1>3, PickedStays DEF Refetch, Arrive, FetchFails, view
<1>4. ASSUME NEW f \in Forms, ShowForm(f) PROVE PickedOther'
  <2>1. CASE f = "transition"
    BY <1>4, <2>1 DEF ShowForm, PickedOther
  <2>2. CASE f # "transition"
    BY <1>4, <2>2, PickedStays DEF ShowForm
  <2> QED
    BY <2>1, <2>2
<1>5. ASSUME NEW f \in Forms, Type(f) \/ Cancel(f) \/ Submit(f) PROVE PickedOther'
  BY <1>5, PickedStays DEF Type, Cancel, Submit, Mutate
<1>6. ASSUME NEW s \in Status, PickStatus(s) PROVE PickedOther'
  <2>1. /\ pick' = [to |-> s, at |-> data["detail"]] /\ s # statuses[data["detail"]] /\ UNCHANGED statuses
        /\ data["detail"] > 0
    BY <1>6 DEF PickStatus, DisplayedStatus, Displays, server
  <2>2. data["detail"] \in 1 .. Len(statuses)
    BY <2>1, DisplayedTyped DEF Typed
  <2> QED
    BY <2>1, <2>2 DEF PickedOther
<1>7. ASSUME NEW e \in Entries, AskReason(e) \/ StopEntry(e) \/ SubmitEntry(e) \/ ApproveEntry(e) PROVE PickedOther'
  BY <1>7, PickedStays DEF AskReason, StopEntry, SubmitEntry, ApproveEntry, Mutate
<1>8. CASE Achieve \/ OthersAct \/ UNCHANGED vars
  BY <1>8, PickedStays DEF Achieve, OthersAct, Mutate, view, vars
<1>9. ASSUME NEW m \in mutations, Commit(m) \/ Deny(m) \/ Succeed(m) \/ Fail(m) PROVE PickedOther'
  BY <1>9, PickedStays DEF Commit, Deny, Succeed, Fail, view
<1> QED
  BY <1>1, <1>2, <1>3, <1>4, <1>5, <1>6, <1>7, <1>8, <1>9 DEF Next

\* A new request is made of what is displayed.
LEMMA AsksRequests ==
    ASSUME Typed, Typed', ServerGrows, Requests, NEW k, NEW e, NEW d, Asks(k, e, d)
    PROVE  EntrySeen' /\ RefusedNeedsChange' /\ AsksWhatIsOffered'
<1>1. PICK m \in Mutation :
          /\ mutations' = mutations \cup {m}
          /\ m.kind = k /\ m.entry = e /\ m.seen = data["time"] /\ m.stage = "sent"
          /\ k = "transition" => /\ m.to = pick.to /\ m.offered = Offered
                                 /\ m.moved = IF pick.at # data["detail"] THEN "yes" ELSE "no"
          /\ UNCHANGED server
  BY AsksSends DEF Typed
<1>2. UNCHANGED log
  BY <1>1 DEF server
<1>3. k \in EntryKinds =>
          /\ m.entry \in Entries /\ m.seen \in 1 .. Len(log')
          /\ m.kind # "reject" => log'[m.seen][m.entry] = Source(m.kind)
  BY <1>1, <1>2, DisplayedTyped DEF Typed, Asks, DisplayedEntry
<1>4. k = "transition" => m.to = m.offered \/ m.to = "Planned" \/ m.moved = "yes"
  <2> SUFFICES ASSUME k = "transition" PROVE m.to = m.offered \/ m.to = "Planned" \/ m.moved = "yes"
    OBVIOUS
  <2>1. CASE pick.to # DisplayedStatus
    BY <1>1, <2>1 DEF Offered
  <2>2. CASE pick.to = DisplayedStatus
    BY <1>1, <2>2 DEF Requests, PickedOther, DisplayedStatus
  <2> QED
    BY <2>1, <2>2
<1>5. EntrySeen'
  BY <1>1, <1>3, OldRequests DEF EntrySeen
<1>6. RefusedNeedsChange'
  BY <1>1, OldRequests DEF RefusedNeedsChange
<1>7. AsksWhatIsOffered'
  BY <1>1, <1>4, OldRequests DEF AsksWhatIsOffered
<1> QED
  BY <1>5, <1>6, <1>7

\* A request is refused because the entry is not in the state that was displayed.
LEMMA DecidesRequests ==
    ASSUME Typed, Typed', ServerGrows, Requests, NEW m \in mutations, Decides(m)
    PROVE  EntrySeen' /\ RefusedNeedsChange' /\ AsksWhatIsOffered'
<1>1. m \in Mutation
  BY DEF Typed, MutationsTyped
<1>2. PICK n \in Mutation :
          /\ mutations' = (mutations \ {m}) \cup {n}
          /\ n.stage = "refused" => Refuses(m) /\ UNCHANGED log
          /\ n.kind = m.kind /\ n.entry = m.entry /\ n.to = m.to
          /\ n.offered = m.offered /\ n.moved = m.moved /\ n.seen = m.seen
  BY <1>1, DecidesSends
<1>3. /\ m.kind \in EntryKinds =>
            /\ m.entry \in Entries /\ m.seen \in 1 .. Len(log')
            /\ m.kind # "reject" => log'[m.seen][m.entry] = Source(m.kind)
      /\ m.kind = "transition" => m.to = m.offered \/ m.to = "Planned" \/ m.moved = "yes"
  BY OldRequests
<1>4. ASSUME m.kind \in EntryKinds, n.stage = "refused"
      PROVE  \/ \E v \in m.seen .. Len(log') : log'[v][m.entry] # log'[m.seen][m.entry]
             \/ m.kind = "reject" /\ log'[m.seen][m.entry] # "Submitted"
  <2>1. m.kind # "transition"
    BY <1>4 DEF EntryKinds
  <2>2. Target(m.kind) \notin Successors(log[Len(log)][m.entry])
    BY <1>2, <1>4, <2>1 DEF Refuses, Entry, EntryKinds
  <2>3. log[Len(log)][m.entry] # Source(m.kind)
    BY <1>4, <2>2, TargetNext
  <2>4. UNCHANGED log
    BY <1>2, <1>4
  <2>5. Len(log) \in m.seen .. Len(log)
    BY <1>3, <1>4, <2>4, LenProperties DEF Typed, ServerTyped
  <2>6. Source("reject") = "Submitted"
    BY DEF Source
  <2>7. CASE log[m.seen][m.entry] = Source(m.kind)
    BY <2>3, <2>4, <2>5, <2>7
  <2>8. CASE log[m.seen][m.entry] # Source(m.kind)
    BY <1>3, <1>4, <2>4, <2>6, <2>8
  <2> QED
    BY <2>7, <2>8
<1>5. EntrySeen'
  BY <1>2, <1>3, OldRequests DEF EntrySeen
<1>6. RefusedNeedsChange'
  BY <1>2, <1>4, OldRequests DEF RefusedNeedsChange
<1>7. AsksWhatIsOffered'
  BY <1>2, <1>3, OldRequests DEF AsksWhatIsOffered
<1> QED
  BY <1>5, <1>6, <1>7

LEMMA RequestsStep ==
    ASSUME Typed, Typed', ServerGrows, Requests, [Next]_vars
    PROVE  Requests'
<1>1. PickedOther'
  BY PickedStep DEF Requests
<1>2. ASSUME mutations' \subseteq mutations PROVE EntrySeen' /\ RefusedNeedsChange' /\ AsksWhatIsOffered'
  BY <1>2, OldRequests DEF EntrySeen, RefusedNeedsChange, AsksWhatIsOffered
<1>3. CASE Quiet
  BY <1>1, <1>2, <1>3 DEF Quiet, Requests
<1>4. ASSUME NEW f \in Forms, Type(f) PROVE Requests'
  BY <1>1, <1>2, <1>4 DEF Type, Requests
<1>5. ASSUME NEW m \in mutations, Answered(m) PROVE Requests'
  BY <1>1, <1>2, <1>5 DEF Answered, Succeed, Fail, Requests
<1>6. ASSUME NEW k, NEW e, NEW d, Asks(k, e, d) PROVE Requests'
  BY <1>1, <1>6, AsksRequests DEF Requests
<1>7. ASSUME NEW m \in mutations, Decides(m) PROVE Requests'
  BY <1>1, <1>7, DecidesRequests DEF Requests
<1>8. ViewTyped
  BY DEF Typed
<1> QED
  BY <1>3, <1>4, <1>5, <1>6, <1>7, <1>8, Steps

-----------------------------------------------------------------------------
(***************************************************************************)
(* The invariant.                                                          *)
(***************************************************************************)
LEMMA InvParts == ProjectsIInv <=> Typed /\ CacheCurrent /\ FetchCurrent /\ Inputs /\ Requests
BY TypeParts DEF ProjectsIInv, Typed, Inputs, Requests

LEMMA ProjectsInit == Init => ProjectsIInv
<1> SUFFICES ASSUME Init PROVE ProjectsIInv
  OBVIOUS
<1> DEFINE entries == [e \in Entries |-> IF role = "approver" THEN "Submitted" ELSE "None"]
<1>1. entries \in [Entries -> EntryStatus]
  BY DEF EntryStatus
<1>2. statuses = <<Statuses[1]>> /\ log = <<entries>> /\ budget = 1 /\ milestones = 1
  BY DEF Init
<1> HIDE DEF entries
<1>3. ServerTyped
  BY <1>1, <1>2, StatusNames DEF ServerTyped
<1>4. \A q \in Queries : Version(q) \in Nat
  BY <1>3, VersionNat
<1>5. CacheTyped
  BY <1>4 DEF Init, CacheTyped
<1>6. ViewTyped
  <2>1. 0 \in 0 .. MaxActs /\ "timeline" \in Tabs
    BY BoundsAssumption DEF Tabs, Queries
  <2> QED
    BY <2>1, StatusNames, BoundsAssumption DEF Init, ViewTyped
<1>7. MutationsTyped /\ HistoryTyped
  BY DEF Init, MutationsTyped, HistoryTyped
<1>8. CacheCurrent /\ FetchCurrent
  BY <1>4 DEF Init, CacheCurrent, FetchCurrent, TakenForFresh
<1>9. Inputs
  <2>1. "transition" \in Forms
    BY DEF Forms
  <2> QED
    BY <2>1 DEF Init, Inputs, RequestsNumbered, InputsOfForm, SentOnce, RecordedOnce, OverTyped, WipedNeedsOverlap
<1>10. Requests
  BY DEF Init, Requests, EntrySeen, RefusedNeedsChange, PickedOther, AsksWhatIsOffered
<1> QED
  BY <1>3, <1>5, <1>6, <1>7, <1>8, <1>9, <1>10, InvParts DEF Typed

LEMMA ProjectsNext == ProjectsIInv /\ [Next]_vars => ProjectsIInv'
<1> SUFFICES ASSUME ProjectsIInv, [Next]_vars PROVE ProjectsIInv'
  OBVIOUS
<1>1. Typed /\ CacheCurrent /\ FetchCurrent /\ Inputs /\ Requests
  BY InvParts
<1>2. ServerTyped' /\ ServerGrows
  BY <1>1, ServerStep DEF Typed
<1>3. CacheTyped' /\ CacheCurrent' /\ FetchCurrent'
  BY <1>1, CacheStep DEF Typed, ViewTyped, CacheHolds
<1>4. ViewTyped' /\ MutationsTyped' /\ HistoryTyped'
  BY <1>1, ViewStep, MutationsStep DEF Typed
<1>5. Typed'
  BY <1>2, <1>3, <1>4 DEF Typed
<1>6. Inputs' /\ Requests'
  BY <1>1, <1>2, <1>5, InputsStep, RequestsStep
<1> QED
  BY <1>3, <1>5, <1>6, InvParts, PTL

LEMMA ProjectsInvariant == Spec => []ProjectsIInv
BY ProjectsInit, ProjectsNext, PTL DEF Spec

-----------------------------------------------------------------------------
(***************************************************************************)
(* The theorems.                                                           *)
(***************************************************************************)
\* Whatever is opened, typed, sent, answered and fetched, and whatever the others do
\* meanwhile: no more is displayed than the server has had, and only an open form has
\* an input.
THEOREM ProjectsTypeCorrect == Spec => []TypeOK
<1>1. ProjectsIInv => TypeOK
  BY DEF ProjectsIInv
<1> QED
  BY <1>1, ProjectsInvariant, PTL

\* onSuccess of the mutations the views use (useProjects.ts) invalidates every query that displays
\* what was changed, but for the Actuals of the budget after a request for a time entry: whatever
\* is fetched, fails or is abandoned, on or off the screen, data that is taken for fresh has the
\* answered changes of this user, except for a query whose fetch was under way and could not be
\* abandoned.
THEOREM OwnChangesFetched == Spec => []CacheCurrent
<1>1. ProjectsIInv => CacheCurrent
  BY DEF ProjectsIInv
<1> QED
  BY <1>1, ProjectsInvariant, PTL

\* The callbacks of mutate() run for the view that made the request and no other
\* (ProjectListView.tsx:44): a form, even one cancelled and shown again, is closed with an input
\* that was not sent only if that was typed into it while a request of it was under way.
THEOREM NothingElseWiped == Spec => []WipedNeedsOverlap
<1>1. ProjectsIInv => WipedNeedsOverlap
  BY DEF ProjectsIInv
<1> QED
  BY <1>1, ProjectsInvariant, PTL

\* The submit buttons are disabled while their request is pending, and a form that was
\* answered is closed: the server records an input twice only after a lost response.
THEOREM InputsRecordedOnce == Spec => []OnceEach
<1>1. ProjectsIInv => OnceEach
  <2> SUFFICES ASSUME ProjectsIInv, NEW d \in 1 .. MaxActs, recorded[d] > 1, d \notin unsure PROVE FALSE
    BY DEF OnceEach
  <2>1. recorded[d] \in Nat
    BY DEF ProjectsIInv, TypeOK
  <2>2. recorded[d] = 1
    BY <2>1 DEF ProjectsIInv, RecordedOnce
  <2> QED
    BY <2>2
<1> QED
  BY <1>1, ProjectsInvariant, PTL

\* The rows of the time table have a button only for what the entry they display can
\* become (ProjectTimePanel.tsx:171): a request that is refused for the status of the entry, and
\* not denied for who asks, means that the entry has changed since, or that the reason for a
\* rejection was confirmed under a row that had shown it decided.
THEOREM RefusalsAreNews == Spec => []RefusedNeedsChange
<1>1. ProjectsIInv => RefusedNeedsChange
  BY DEF ProjectsIInv
<1> QED
  BY <1>1, ProjectsInvariant, PTL

\* The select of a transition may display another option than the value it holds only
\* for "Planned", the value it starts with, or once the project has another status than
\* when the user picked one.
THEOREM TransitionsAskForWhatIsShown == Spec => []AsksWhatIsOffered
<1>1. ProjectsIInv => AsksWhatIsOffered
  BY DEF ProjectsIInv
<1> QED
  BY <1>1, ProjectsInvariant, PTL
=============================================================================
