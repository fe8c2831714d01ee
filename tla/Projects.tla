------------------------------ MODULE Projects ------------------------------
(***************************************************************************)
(* The projects cockpit of the web application: the list of projects, one  *)
(* project with its four tabs (cockpit/projects), the queries and          *)
(* mutations of hooks/useProjects.ts and the requests of api/projects.ts.  *)
(* Other users work on the same project.                                   *)
(*                                                                         *)
(* A query is fetched when a view that uses it appears and has no data, or *)
(* data that is invalid; the cache outlives the views.  A mutation that    *)
(* succeeds invalidates the queries of its keys: those on the screen are   *)
(* fetched anew, the others are marked.  A fetch under way is abandoned    *)
(* only for a query that is on the screen and has data; any other goes on, *)
(* and what it brings counts as fresh.                                     *)
(***************************************************************************)
EXTENDS Naturals, Sequences

CONSTANTS
    Entries,      \* the time entries of the project
    Roles,        \* the roles the user may have; "approver" is one of its own
    Statuses,     \* the project statuses, in the order they are offered
    MaxActs,      \* bound on the inputs this user types and the mutations they send
    MaxSends,     \* bound on the mutations
    MaxVisits,    \* bound on the pages and tabs opened, and data fetched again
    MaxUpsets     \* bound on requests and responses lost, and changes by other users

ASSUME BoundsAssumption ==
    MaxActs \in Nat /\ MaxSends \in Nat /\ MaxVisits \in Nat /\ MaxUpsets \in Nat
ASSUME StatusesAssumption ==
    /\ Statuses \in Seq(STRING) /\ Len(Statuses) > 1
    /\ \A i, j \in DOMAIN Statuses : Statuses[i] = Statuses[j] => i = j
    /\ "Planned" \in {Statuses[i] : i \in DOMAIN Statuses}

\* A tab's panel is named after its query ("gantt" shows the timeline).
Queries == {"list", "detail", "timeline", "budget", "milestones", "time"}
Tabs == Queries \ {"list", "detail"}
Forms == {"create", "transition", "insert", "open", "reject"}
EntryKinds == {"stop", "submit", "approve", "reject"}
Kinds == {"create", "transition", "insert", "achieve", "open"} \cup EntryKinds
Status == {Statuses[i] : i \in DOMAIN Statuses}
None == "none"

ASSUME NoneAssumption == None \notin Entries

VARIABLES
    role,
    \* the views
    place,     \* "away", "list" or "detail"
    tab,       \* activeTab
    shown,     \* the forms that are open
    draft,     \* draft[f]: the last input typed into f, or 0
    pick,      \* the status chosen for a transition, and what was displayed then
    rejecting, \* the entry whose reason is asked for, or None
    watch,     \* watch[k]: the mutation of kind k the view observes while pending, or 0
    \* the cache: versions of what the server has, 0 for no data
    data, fetch, invalid, errors,
    \* the server: the successive values of what the queries read
    statuses, \* of the projects
    log,      \* of the time entries
    budget, milestones,
    mutations, \* the requests under way
    \* history and bounds
    mine,     \* mine[q]: the version the last mutation of this user left, once answered
    crossed,  \* the queries whose last fetch was under way when they were invalidated
    recorded, \* recorded[d]: how often the server has recorded input d
    unsure,   \* the inputs of which a response was lost
    typedOver, wiped, \* inputs typed while their form was being sent; dropped unsent
    made, typed, visits, upsets

view == <<place, tab, shown, draft, pick, rejecting, watch>>
cache == <<data, fetch, invalid, errors, crossed>>
server == <<statuses, log, budget, milestones, recorded>>
bounds == <<made, typed, visits, upsets>>
history == <<mine, unsure, typedOver, wiped>>
vars == <<role, view, cache, server, mutations, bounds, history>>

Version(q) ==
    CASE q \in {"list", "detail"} -> Len(statuses)
      [] q \in {"timeline", "milestones"} -> milestones
      [] q = "budget" -> budget
      [] q = "time" -> Len(log)

DisplayedStatus == statuses[data["detail"]]
DisplayedEntry(e) == log[data["time"]][e]

\* The panel of a tab is part of the detail view once that has its project and no error.
HasPanel == place = "detail" /\ data["detail"] > 0 /\ "detail" \notin errors
Active == IF place = "list" THEN {"list"}
          ELSE IF place = "detail" THEN {"detail"} \cup (IF HasPanel THEN {tab} ELSE {}) ELSE {}
\* A query displays its data, "Loading…", or its error, even if it has data.
Displays(q) == q \in Active /\ data[q] > 0 /\ q \notin errors

Successors(s) == CASE s = "None" -> {"Open"} [] s = "Open" -> {"Stopped"} [] s = "Stopped" -> {"Submitted"}
              [] s = "Submitted" -> {"Approved", "Rejected"} [] OTHER -> {}
EntryStatus == {"None", "Open", "Stopped", "Submitted", "Approved", "Rejected"}

Mutation == [id : 1 .. MaxActs, kind : Kinds, entry : Entries \cup {None},
             draft : 0 .. MaxActs, to : Status, offered : Status, moved : {"yes", "no"},
             seen : Nat, stage : {"sent", "done", "refused", "denied"}]

TypeOK ==
    /\ role \in Roles /\ place \in {"away", "list", "detail"} /\ tab \in Tabs
    /\ shown \subseteq Forms /\ draft \in [Forms -> 0 .. MaxActs]
    /\ \A f \in Forms : draft[f] # 0 => f \in shown
    /\ pick \in [to : Status, at : Nat]
    /\ rejecting \in Entries \cup {None} /\ (rejecting # None <=> "reject" \in shown)
    /\ watch \in [Kinds -> 0 .. MaxActs]
    /\ data \in [Queries -> Nat] /\ fetch \in [Queries -> Nat]
    /\ \A q \in Queries : data[q] <= Version(q) /\ fetch[q] <= Version(q)
    /\ invalid \subseteq Queries /\ errors \subseteq Queries /\ crossed \subseteq Queries
    /\ statuses \in Seq(Status) /\ statuses # <<>>
    /\ log \in Seq([Entries -> EntryStatus]) /\ log # <<>>
    /\ budget \in Nat \ {0} /\ milestones \in Nat \ {0}
    /\ mutations \subseteq Mutation
    /\ mine \in [Queries -> Nat]
    /\ recorded \in [1 .. MaxActs -> Nat]
    /\ unsure \subseteq 1 .. MaxActs /\ typedOver \subseteq 1 .. MaxActs /\ wiped \subseteq 1 .. MaxActs
    /\ made \in Nat /\ typed \in Nat /\ made + typed <= MaxActs

-----------------------------------------------------------------------------
(***************************************************************************)
(* The cache.                                                              *)
(***************************************************************************)
\* The fetches of the queries in Q start: each will bring a version no older than this.
Begin(Q) ==
    /\ fetch' = [q \in Queries |-> IF q \in Q THEN Version(q) ELSE fetch[q]]
    /\ crossed' = crossed \ Q

\* Those in Q that are fetched when they come on the screen.
Needed(Q) == {q \in Q : fetch[q] = 0 /\ (data[q] = 0 \/ q \in invalid \/ q \in errors)}

\* invalidateQueries for the queries in Q.
Invalidate(Q) ==
    LET known == {q \in Q : data[q] > 0 \/ fetch[q] > 0 \/ q \in errors}
        again == {q \in known \cap Active : data[q] > 0 \/ fetch[q] = 0}
    IN  /\ invalid' = invalid \cup known
        /\ fetch' = [q \in Queries |-> IF q \in again THEN Version(q) ELSE fetch[q]]
        /\ crossed' = (crossed \ again) \cup {q \in known \ again : fetch[q] > 0}

\* The user opens a page or a tab, or comes back to the window.
Visit == visits < MaxVisits /\ visits' = visits + 1

\* The window gets the focus, the data on the screen gets old, or the user asks for the
\* list once more.
Refetch(q) ==
    /\ q \in Active /\ fetch[q] = 0 /\ Visit
    /\ data[q] > 0 \/ (q = "list" /\ q \in errors)
    /\ Begin({q})
    /\ UNCHANGED <<role, view, data, invalid, errors, server, mutations, made, typed, upsets, history>>

\* The panel goes with all that was typed into it; what it has sent goes on unobserved.
PanelForms == {"insert", "open", "reject"}
PanelGone ==
    /\ shown' = shown \ PanelForms
    /\ draft' = [f \in Forms |-> IF f \in PanelForms THEN 0 ELSE draft[f]]
    /\ rejecting' = None
    /\ watch' = [k \in Kinds |-> IF k \in {"create", "transition"} THEN watch[k] ELSE 0]

\* A fetch brings what the server had at some time since it was sent.
Arrive(q) ==
    /\ fetch[q] > 0
    /\ \E v \in fetch[q] .. Version(q) : data' = [data EXCEPT ![q] = v]
    /\ invalid' = invalid \ {q} /\ errors' = errors \ {q}
    /\ LET opens == q = "detail" /\ place = "detail" /\ ~HasPanel
       IN  /\ fetch' = [p \in Queries |->
                            IF p = q THEN 0
                            ELSE IF opens /\ p \in Needed({tab}) THEN Version(p) ELSE fetch[p]]
           /\ crossed' = IF opens THEN crossed \ Needed({tab}) ELSE crossed
    /\ UNCHANGED <<role, view, server, mutations, bounds, history>>

\* It fails, after its retries.  The detail view without its project has no panel.
FetchFails(q) ==
    /\ fetch[q] > 0 /\ upsets < MaxUpsets
    /\ upsets' = upsets + 1
    /\ fetch' = [fetch EXCEPT ![q] = 0]
    /\ errors' = errors \cup {q}
    /\ IF q = "detail" /\ place = "detail" THEN PanelGone
       ELSE UNCHANGED <<shown, draft, rejecting, watch>>
    /\ UNCHANGED <<role, place, tab, pick, data, invalid, crossed, server, mutations,
                   made, typed, visits, history>>

-----------------------------------------------------------------------------
(***************************************************************************)
(* The views.                                                              *)
(***************************************************************************)
ViewGone ==
    /\ shown' = {} /\ draft' = [f \in Forms |-> 0] /\ rejecting' = None
    /\ watch' = [k \in Kinds |-> 0]
    /\ tab' = "timeline" /\ pick' = [to |-> "Planned", at |-> 0]

OpenList ==
    /\ place # "list" /\ Visit
    /\ place' = "list" /\ ViewGone
    /\ Begin(Needed({"list"}))
    /\ UNCHANGED <<role, data, invalid, errors, server, mutations,
                   made, typed, upsets, history>>

OpenProject ==
    /\ place = "list" /\ data["list"] > 0 /\ Visit
    /\ place' = "detail" /\ ViewGone
    /\ Begin(Needed({"detail"} \cup
                    (IF data["detail"] > 0 /\ "detail" \notin errors THEN {"timeline"} ELSE {})))
    /\ UNCHANGED <<role, data, invalid, errors, server, mutations,
                   made, typed, upsets, history>>

SelectTab(t) ==
    /\ HasPanel /\ t # tab /\ Visit
    /\ tab' = t /\ PanelGone
    /\ Begin(Needed({t}))
    /\ UNCHANGED <<role, place, pick, data, invalid, errors, server, mutations,
                   made, typed, upsets, history>>

\* The forms each page or panel has while it is there.
ListForms == IF place = "list" THEN {"create"} ELSE {}
DetailForms == IF Displays("detail") THEN {"transition"} ELSE {}
BudgetForms == IF Displays("budget") THEN {"insert"} ELSE {}
TimeForms ==
    IF ~Displays("time") THEN {} ELSE IF role = "approver" THEN {"reject"} ELSE {"open"}

HasForm(f) == f \in ListForms \cup DetailForms \cup BudgetForms \cup TimeForms

\* A wrong ShowForm: the transition form opens with the status picked the last time.
ShowFormAsLeft(f) ==
    /\ HasForm(f) /\ f \notin shown /\ f # "reject"
    /\ shown' = shown \cup {f}
    /\ pick' = IF f = "transition" THEN [pick EXCEPT !.at = data["detail"]] ELSE pick
    /\ UNCHANGED <<role, place, tab, draft, rejecting, watch, cache, server, mutations, bounds, history>>

ShowForm(f) ==
    /\ HasForm(f) /\ f \notin shown /\ f # "reject"
    /\ shown' = shown \cup {f}
    /\ pick' = IF f = "transition" THEN [to |-> "Planned", at |-> data["detail"]] ELSE pick
    /\ UNCHANGED <<role, place, tab, draft, rejecting, watch, cache, server, mutations, bounds, history>>

Idle(k) == watch[k] = 0     \* the button is enabled

\* The reason form replaces the buttons of the row.
AskReason(e) ==
    /\ HasForm("reject") /\ DisplayedEntry(e) = "Submitted" /\ rejecting # e /\ Idle("reject")
    /\ rejecting' = e /\ shown' = shown \cup {"reject"}
    /\ draft' = [draft EXCEPT !["reject"] = 0]
    /\ UNCHANGED <<role, place, tab, pick, watch, cache, server, mutations, bounds, history>>

\* All inputs stay enabled while the form is being sent.
Type(f) ==
    /\ f \in shown \ {"transition"} /\ HasForm(f) /\ made + typed < MaxActs
    /\ typed' = typed + 1
    /\ draft' = [draft EXCEPT ![f] = typed + 1]
    /\ typedOver' = IF watch[f] # 0 THEN typedOver \cup {typed + 1} ELSE typedOver
    /\ UNCHANGED <<role, place, tab, shown, pick, rejecting, watch, cache, server, mutations,
                   made, visits, upsets, mine, unsure, wiped>>

PickStatus(s) ==
    /\ "transition" \in shown /\ Displays("detail")
    /\ s \in Status \ {DisplayedStatus}
    /\ pick' = [to |-> s, at |-> data["detail"]]
    /\ UNCHANGED <<role, place, tab, shown, draft, rejecting, watch, cache, server, mutations, bounds, history>>

Cancel(f) ==
    /\ f \in shown /\ HasForm(f)
    /\ shown' = shown \ {f} /\ draft' = [draft EXCEPT ![f] = 0]
    /\ rejecting' = IF f = "reject" THEN None ELSE rejecting
    /\ UNCHANGED <<role, place, tab, pick, watch, cache, server, mutations, bounds, history>>

-----------------------------------------------------------------------------
(***************************************************************************)
(* Mutations.  Each of them first asks for an antiforgery token.           *)
(***************************************************************************)
\* What the select displays: without an option for its value, the first option.
Offered == IF pick.to # DisplayedStatus THEN pick.to
           ELSE LET i == CHOOSE i \in DOMAIN Statuses :
                             /\ Statuses[i] # DisplayedStatus
                             /\ \A j \in DOMAIN Statuses : j < i => Statuses[j] = DisplayedStatus
                IN  Statuses[i]

Mutate(k, e, d) ==
    /\ made + typed < MaxActs /\ made < MaxSends
    /\ made' = made + 1
    /\ watch' = [watch EXCEPT ![k] = made + 1]
    /\ mutations' = mutations \cup
         {[id |-> made + 1, kind |-> k, entry |-> e, draft |-> d,
           to |-> IF k = "transition" THEN pick.to ELSE Statuses[1],
           offered |-> IF k = "transition" THEN Offered ELSE Statuses[1],
           moved |-> IF k = "transition" /\ pick.at # data["detail"] THEN "yes" ELSE "no",
           seen |-> data["time"], stage |-> "sent"]}
    /\ UNCHANGED <<role, place, tab, shown, draft, pick, rejecting, cache, server,
                   typed, visits, upsets, history>>

\* A wrong Submit: the button stays enabled while the form is being sent.
SubmitAgain(f) ==
    /\ f \in shown /\ HasForm(f)
    /\ f = "transition" \/ draft[f] # 0
    /\ Mutate(f, IF f = "reject" THEN rejecting ELSE None, draft[f])

Submit(f) ==
    /\ f \in shown /\ HasForm(f)
    /\ Idle(f) /\ (f = "transition" \/ draft[f] # 0)
    /\ Mutate(f, IF f = "reject" THEN rejecting ELSE None, draft[f])

\* Each milestone has a button of its own.
Achieve == Displays("milestones") /\ Mutate("achieve", None, 0)

StopEntry(e) ==
    /\ Displays("time") /\ role # "approver" /\ DisplayedEntry(e) = "Open"
    /\ Idle("stop") /\ Mutate("stop", e, 0)

\* A wrong SubmitEntry: an entry that is still running can be submitted.
SubmitEntryRunning(e) ==
    /\ Displays("time") /\ role # "approver" /\ DisplayedEntry(e) \in {"Open", "Stopped"}
    /\ Idle("submit") /\ Mutate("submit", e, 0)

SubmitEntry(e) ==
    /\ Displays("time") /\ role # "approver" /\ DisplayedEntry(e) = "Stopped"
    /\ Idle("submit") /\ Mutate("submit", e, 0)

ApproveEntry(e) ==
    /\ Displays("time") /\ role = "approver" /\ DisplayedEntry(e) = "Submitted" /\ rejecting # e
    /\ Idle("approve") /\ Mutate("approve", e, 0)

(***************************************************************************)
(* The server's part.  A request whose time has passed is refused; any     *)
(* may be denied for what the views cannot know: who recorded an entry,    *)
(* who owns the project, who has which authority, what is acceptable.      *)
(***************************************************************************)
Target(k) == CASE k = "stop" -> "Stopped" [] k = "submit" -> "Submitted"
               [] k = "approve" -> "Approved" [] k = "reject" -> "Rejected"
Entry == log[Len(log)]

Refuses(m) ==
    CASE m.kind = "transition" -> m.to = statuses[Len(statuses)]
      [] m.kind \in EntryKinds -> Target(m.kind) \notin Successors(Entry[m.entry])
      [] m.kind = "open" -> \A e \in Entries : Entry[e] # "None"
      [] OTHER -> FALSE

Deny(m) ==
    /\ m.stage = "sent"
    /\ mutations' = (mutations \ {m}) \cup {[m EXCEPT !.stage = "denied"]}
    /\ UNCHANGED <<role, view, cache, server, bounds, history>>

\* The budget is displayed with its Actuals, which the Bridge assembles: they may change with a
\* time entry.
Budgets(k) == CASE k = "insert" -> {budget + 1} [] k \in EntryKinds -> {budget, budget + 1} [] OTHER -> {budget}

Commit(m) ==
    /\ m.stage = "sent"
    /\ mutations' = (mutations \ {m}) \cup {[m EXCEPT !.stage = IF Refuses(m) THEN "refused" ELSE "done"]}
    /\ IF Refuses(m) THEN UNCHANGED server
       ELSE /\ statuses' = CASE m.kind = "transition" -> Append(statuses, m.to)
                             [] m.kind = "create" -> Append(statuses, statuses[Len(statuses)])
                             [] OTHER -> statuses
            /\ log' = IF m.kind \in EntryKinds THEN Append(log, [Entry EXCEPT ![m.entry] = Target(m.kind)])
                      ELSE IF m.kind = "open"
                           THEN LET e == CHOOSE e \in Entries : Entry[e] = "None"
                                IN  Append(log, [Entry EXCEPT ![e] = "Open"])
                           ELSE log
            /\ budget' \in Budgets(m.kind)
            /\ milestones' = IF m.kind = "achieve" THEN milestones + 1 ELSE milestones
            /\ recorded' = IF m.draft # 0 THEN [recorded EXCEPT ![m.draft] = @ + 1] ELSE recorded
    /\ UNCHANGED <<role, view, cache, bounds, history>>

\* Every key begins with that of the list.
KeysOfAll == Queries

\* Wrong Keys: an achieved milestone does not refresh the timeline.
KeysOfPanel(k) ==
    CASE k \in {"create", "transition"} -> KeysOfAll
      [] k = "insert" -> {"budget"}
      [] k = "achieve" -> {"milestones"}
      [] k \in {"open"} \cup EntryKinds -> {"time"}

\* The keys a mutation invalidates once it has succeeded.  (A milestone is never added:
\* useAddMilestone, which would leave the timeline as it is, is used by no view.)
Keys(k) ==
    CASE k \in {"create", "transition"} -> KeysOfAll
      [] k = "insert" -> {"budget"}
      [] k = "achieve" -> {"milestones", "timeline"}
      [] k \in {"open"} \cup EntryKinds -> {"time"}

\* The queries that display what it has changed, or may have.
Reads(k) ==
    CASE k \in {"create", "transition"} -> {"list", "detail"}
      [] k = "insert" -> {"budget"}
      [] k = "achieve" -> {"milestones", "timeline"}
      [] k = "open" -> {"time"}
      [] k \in EntryKinds -> {"time", "budget"}

\* Those of them that are left until their data is old: the budget, whose Actuals a time entry
\* may have changed.
LeftToAge(k) == IF k \in EntryKinds THEN {"budget"} ELSE {}

\* A wrong Closes: the callback runs whatever view is there when the answer comes.
ClosesAny(m, f) == f = m.kind /\ f \in Forms

\* The form that a mutation of kind k closes: the view that sent it must still be there.
Closes(m, f) == watch[m.kind] = m.id /\ f = m.kind /\ f \in Forms

Closing(m) ==
    /\ shown' = {f \in shown : ~Closes(m, f)}
    /\ draft' = [f \in Forms |-> IF Closes(m, f) THEN 0 ELSE draft[f]]
    /\ rejecting' = IF Closes(m, "reject") THEN None ELSE rejecting
    /\ wiped' = wiped \cup {draft[f] : f \in {g \in Forms : Closes(m, g) /\ draft[g] \notin {0, m.draft}}}

Unwatched(m) == [k \in Kinds |-> IF watch[k] = m.id THEN 0 ELSE watch[k]]

Succeed(m) ==
    /\ m.stage = "done"
    /\ mutations' = mutations \ {m}
    /\ mine' = [q \in Queries |-> IF q \in Reads(m.kind) \ LeftToAge(m.kind) THEN Version(q) ELSE mine[q]]
    /\ Invalidate(Keys(m.kind))
    /\ Closing(m)
    /\ watch' = Unwatched(m)
    /\ UNCHANGED <<role, place, tab, pick, data, errors, server, bounds, unsure, typedOver>>

\* The request is refused or denied, or it or its response is lost.  Only the reason form closes.
Fail(m) ==
    /\ mutations' = mutations \ {m}
    /\ IF m.stage \in {"refused", "denied"} THEN upsets' = upsets
       ELSE upsets < MaxUpsets /\ upsets' = upsets + 1
    /\ unsure' = IF m.stage = "done" THEN unsure \cup ({m.draft} \ {0}) ELSE unsure
    /\ IF m.kind = "reject" THEN Closing(m) ELSE UNCHANGED <<shown, draft, rejecting, wiped>>
    /\ watch' = Unwatched(m)
    /\ UNCHANGED <<role, place, tab, pick, cache, server, made, typed, visits, mine, typedOver>>

\* Somebody else works on the project.
OthersAct ==
    /\ upsets < MaxUpsets
    /\ upsets' = upsets + 1
    /\ \/ /\ \E e \in Entries : \E s \in Successors(Entry[e]) : log' = Append(log, [Entry EXCEPT ![e] = s])
          /\ budget' \in {budget, budget + 1} /\ UNCHANGED <<statuses, milestones>>
       \/ /\ \E s \in Status \ {statuses[Len(statuses)]} : statuses' = Append(statuses, s)
          /\ UNCHANGED <<log, budget, milestones>>
       \/ /\ budget' = budget + 1 /\ milestones' \in {milestones, milestones + 1}
          /\ UNCHANGED <<statuses, log>>
    /\ UNCHANGED <<role, view, cache, recorded, mutations, made, typed, visits, history>>

-----------------------------------------------------------------------------
Init ==
    /\ role \in Roles /\ place = "away" /\ tab = "timeline"
    /\ shown = {} /\ draft = [f \in Forms |-> 0] /\ rejecting = None
    /\ pick = [to |-> "Planned", at |-> 0]
    /\ watch = [k \in Kinds |-> 0]
    /\ data = [q \in Queries |-> 0] /\ fetch = [q \in Queries |-> 0]
    /\ invalid = {} /\ errors = {} /\ crossed = {}
    /\ statuses = <<Statuses[1]>>
    /\ log = <<[e \in Entries |-> IF role = "approver" THEN "Submitted" ELSE "None"]>>
    /\ budget = 1 /\ milestones = 1
    /\ mutations = {} /\ mine = [q \in Queries |-> 0]
    /\ recorded = [d \in 1 .. MaxActs |-> 0]
    /\ unsure = {} /\ typedOver = {} /\ wiped = {}
    /\ made = 0 /\ typed = 0 /\ visits = 0 /\ upsets = 0

Next ==
    \/ OpenList \/ OpenProject \/ \E t \in Tabs : SelectTab(t)
    \/ \E q \in Queries : Refetch(q) \/ Arrive(q) \/ FetchFails(q)
    \/ \E f \in Forms : ShowForm(f) \/ Type(f) \/ Cancel(f) \/ Submit(f)
    \/ \E s \in Status : PickStatus(s)
    \/ \E e \in Entries : AskReason(e) \/ StopEntry(e) \/ SubmitEntry(e) \/ ApproveEntry(e)
    \/ Achieve
    \/ \E m \in mutations : Commit(m) \/ Deny(m) \/ Succeed(m) \/ Fail(m)
    \/ OthersAct

Spec == Init /\ [][Next]_vars

-----------------------------------------------------------------------------
(***************************************************************************)
(* What should hold.                                                       *)
(***************************************************************************)
\* Once a change of this user is answered, no view takes for fresh what is older than
\* it, wherever the user has been meanwhile; except for a query that was being fetched
\* when it was invalidated, and whose fetch could not be abandoned; and except for the
\* Actuals of the budget, which nothing refreshes when a time entry is dealt with (LeftToAge).
TakenForFresh(q) == data[q] > 0 /\ q \notin invalid \cup errors /\ fetch[q] = 0
CacheCurrent ==
    \A q \in Queries : TakenForFresh(q) => data[q] >= mine[q] \/ q \in crossed

\* What the user types is dropped unsent by an answer only if it was typed while a request of
\* the same form and view was pending: the answer closes that form, even one that was cancelled
\* and shown again meanwhile, and never one of a view opened later.
WipedNeedsOverlap == wiped \subseteq typedOver

\* An input is recorded twice only if the response to it was lost: the form stays open,
\* and the user sends it again.
OnceEach == \A d \in 1 .. MaxActs : recorded[d] > 1 => d \in unsure

\* A request for a time entry is refused for what the entry has become (not denied for who
\* asks) only if the entry has changed since the table displayed it, or if the reason for a
\* rejection was confirmed after the table had shown the entry decided.
RefusedNeedsChange ==
    \A m \in mutations : m.kind \in EntryKinds /\ m.stage = "refused" =>
        \/ \E v \in m.seen .. Len(log) : log[v][m.entry] # log[m.seen][m.entry]
        \/ m.kind = "reject" /\ log[m.seen][m.entry] # "Submitted"

\* A transition asks for the status the select displays, except for a project that is
\* Planned (the select offers every status but that one, and its value is that one until
\* the user picks another), or whose status has changed since the user picked one.
AsksWhatIsOffered ==
    \A m \in mutations : m.kind = "transition" =>
        m.to = m.offered \/ m.to = "Planned" \/ m.moved = "yes"
=============================================================================
