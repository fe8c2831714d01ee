---------------------------- MODULE PaymentQueue ----------------------------
(***************************************************************************)
(* Rent payments in the web application: the form of RentCollectionPage,   *)
(* the queue a submission goes to while the browser is offline             *)
(* (lib/offlineQueue.ts, in localStorage), the listener that drains it,    *)
(* and the two requests of recordPayment (api/financial.ts).               *)
(*                                                                         *)
(* The tabs of a browser share the queue.  Inside a tab the code is        *)
(* single-threaded, and reading the queue and writing it back are one      *)
(* turn of its event loop; tabs are processes of their own, nothing locks  *)
(* localStorage, and the two accesses of one tab may have another's        *)
(* between them.                                                           *)
(***************************************************************************)
EXTENDS Naturals, Sequences

CONSTANTS
    Tabs,        \* the tabs the application is open in
    MaxPayments, \* bound on the payments users fill in
    MaxRequests, \* bound on the requests under way
    MaxFlips,    \* bound on the times the network goes away
    MaxFaults    \* bound on refusals, lost responses and reloads

ASSUME BoundsAssumption ==
    MaxPayments \in Nat /\ MaxRequests \in Nat /\ MaxFlips \in Nat /\ MaxFaults \in Nat

Payments == 1 .. MaxPayments
None == 0

VARIABLES
    \* the browser
    network,   \* navigator.onLine: "online" or "offline"
    owed,      \* the tabs whose 'online' event has not been dispatched yet
    queue,     \* the payments under QUEUE_KEY, oldest first
    \* each tab
    job,       \* job[t]: "idle", or what it reads the queue for: "enqueue", "drain"
    saw,       \* saw[t]: the queue as it read it
    view,      \* view[t]: "away", "form", or "queued" (queuedOffline)
    form,      \* form[t]: the payment filled in, or None
    confirmed, \* confirmed[t]: "yes" once it has a result to confirm
    current,   \* current[t]: the last request of the page's mutation while it is
               \* pending, or None
    status,    \* status[t]: "error" once that one has failed, or "idle"
    \* the requests under way, and what the server has done
    requests,
    recorded,  \* recorded[p]: how often the server has recorded p
    \* bounds and history
    filled,    \* the payments filled in so far
    submitted, \* those submitted
    accepted,  \* those the page has promised to send
    resent,    \* those submitted again by the user
    failed,    \* those of which a request failed or was cut
    overlap,   \* "yes" once two tabs have accessed the queue at once
    flips, faults

browser == <<network, owed, flips>>
storage == <<queue, job, saw, overlap, accepted>>
page == <<view, form, confirmed, current, status>>
server == <<requests, recorded, failed>>
user == <<filled, submitted, resent>>
vars == <<browser, storage, page, server, user, faults>>

Request ==
    [id : 1 .. MaxRequests, payment : Payments, tab : Tabs,
     mounted : {"yes", "no"},                \* is the page that sent it still there?
     stage : {"sent", "recorded"}]          \* how far it has come

TypeOK ==
    /\ network \in {"online", "offline"}
    /\ owed \subseteq Tabs
    /\ queue \in Seq(Payments)
    /\ job \in [Tabs -> {"idle", "enqueue", "drain"}]
    /\ saw \in [Tabs -> Seq(Payments)]
    /\ view \in [Tabs -> {"away", "form", "queued"}]
    /\ form \in [Tabs -> Payments \cup {None}]
    /\ \A t \in Tabs : job[t] = "enqueue" => form[t] \in Payments
    /\ \A t \in Tabs : job[t] # "idle" => view[t] # "away"
    /\ confirmed \in [Tabs -> {"yes", "no"}]
    /\ current \in [Tabs -> 0 .. MaxRequests]
    /\ status \in [Tabs -> {"idle", "error"}]
    /\ requests \subseteq Request
    /\ recorded \in [Payments -> Nat]
    /\ filled \in 0 .. MaxPayments
    /\ submitted \subseteq Payments /\ accepted \subseteq submitted
    /\ resent \subseteq submitted /\ failed \subseteq submitted
    /\ overlap \in {"yes", "no"}
    /\ flips \in 0 .. MaxFlips /\ faults \in 0 .. MaxFaults

Init ==
    /\ network = "online" /\ owed = {} /\ queue = <<>>
    /\ job = [t \in Tabs |-> "idle"] /\ saw = [t \in Tabs |-> <<>>]
    /\ view = [t \in Tabs |-> "away"]
    /\ form = [t \in Tabs |-> None] /\ confirmed = [t \in Tabs |-> "no"]
    /\ current = [t \in Tabs |-> None] /\ status = [t \in Tabs |-> "idle"]
    /\ requests = {} /\ recorded = [p \in Payments |-> 0]
    /\ filled = 0 /\ submitted = {} /\ accepted = {} /\ resent = {} /\ failed = {}
    /\ overlap = "no" /\ flips = 0 /\ faults = 0

Fault == faults < MaxFaults /\ faults' = faults + 1

\* What the page shows: the notice "Payment queued", else a confirmation, else the form.
ShowsForm(t) == view[t] = "form" /\ confirmed[t] = "no"

-----------------------------------------------------------------------------
(***************************************************************************)
(* Coming to the page and leaving it.  All its state starts afresh; the    *)
(* requests it has sent go on without it.                                  *)
(***************************************************************************)
FreshPage(t, v) ==
    /\ view' = [view EXCEPT ![t] = v]
    /\ form' = [form EXCEPT ![t] = None]
    /\ confirmed' = [confirmed EXCEPT ![t] = "no"]
    /\ current' = [current EXCEPT ![t] = None]
    /\ status' = [status EXCEPT ![t] = "idle"]

Mount(t) ==
    /\ view[t] = "away"
    /\ FreshPage(t, "form")
    /\ UNCHANGED <<browser, storage, server, user, faults>>

Orphaned(r, t) == IF r.tab = t THEN [r EXCEPT !.mounted = "no"] ELSE r

Unmount(t) ==
    /\ view[t] # "away" /\ job[t] = "idle"
    /\ FreshPage(t, "away")
    /\ requests' = {Orphaned(r, t) : r \in requests}
    /\ UNCHANGED <<browser, storage, recorded, failed, user, faults>>

\* The tab is reloaded or closed, and its requests are cut.
Unload(t) ==
    /\ job[t] = "idle" /\ \E r \in requests : r.tab = t
    /\ Fault
    /\ FreshPage(t, "away")
    /\ owed' = owed \ {t}
    /\ failed' = failed \cup {r.payment : r \in {q \in requests : q.tab = t}}
    /\ requests' = {r \in requests : r.tab # t}
    /\ UNCHANGED <<network, flips, storage, recorded, user>>

-----------------------------------------------------------------------------
(***************************************************************************)
(* The form.  A payment is filled in once and stays there until it is      *)
(* submitted with success; the submit button is disabled while the         *)
(* mutation is pending, and "Try again" submits the same form.             *)
(***************************************************************************)
Fill(t) ==
    /\ ShowsForm(t) /\ job[t] = "idle" /\ form[t] = None /\ filled < MaxPayments
    /\ filled' = filled + 1
    /\ form' = [form EXCEPT ![t] = filled + 1]
    /\ UNCHANGED <<browser, storage, view, confirmed, current, status, server, submitted, resent, faults>>

CanSubmit(t) ==
    /\ ShowsForm(t) /\ job[t] = "idle" /\ form[t] # None
    /\ current[t] = None

Submitting(p) ==
    /\ submitted' = submitted \cup {p}
    /\ resent' = IF p \in submitted THEN resent \cup {p} ELSE resent
    /\ UNCHANGED filled

\* A number above those of the requests under way.
LastId == CHOOSE n \in 0 .. MaxRequests :
              /\ \A r \in requests : r.id <= n
              /\ n = 0 \/ \E r \in requests : r.id = n

\* The requests for the payments of a sequence, numbered in its order.
RequestsFor(ps, t) ==
    {[id |-> LastId + i, payment |-> ps[i], tab |-> t, mounted |-> "yes", stage |-> "sent"] :
        i \in 1 .. Len(ps)}

\* mutation.mutate for each: the mutation shows how the last one stands.
Mutate(ps, t) ==
    /\ LastId + Len(ps) <= MaxRequests
    /\ requests' = requests \cup RequestsFor(ps, t)
    /\ IF ps = <<>> THEN UNCHANGED <<current, status>>
       ELSE /\ current' = [current EXCEPT ![t] = LastId + Len(ps)]
            /\ status' = [status EXCEPT ![t] = "idle"]

SubmitOnline(t) ==
    /\ network = "online" /\ CanSubmit(t)
    /\ Submitting(form[t])
    /\ Mutate(<<form[t]>>, t)
    /\ UNCHANGED <<browser, storage, view, form, confirmed, recorded, failed, faults>>

\* readQueue, in the turn of the event loop that writes the queue back.
ReadQueue(t, what) ==
    /\ job' = [job EXCEPT ![t] = what]
    /\ saw' = [saw EXCEPT ![t] = queue]
    /\ overlap' = IF \E u \in Tabs \ {t} : job[u] # "idle" THEN "yes" ELSE overlap

EndTurn(t) ==
    /\ job' = [job EXCEPT ![t] = "idle"]
    /\ saw' = [saw EXCEPT ![t] = <<>>]

SubmitOffline(t) ==
    /\ network = "offline" /\ CanSubmit(t)
    /\ Submitting(form[t])
    /\ ReadQueue(t, "enqueue")
    /\ UNCHANGED <<browser, queue, accepted, page, server, faults>>

\* A wrong enqueuePayment, that does not keep what is there.
EnqueueOnly(t) ==
    /\ job[t] = "enqueue"
    /\ queue' = <<form[t]>>
    /\ EndTurn(t)
    /\ accepted' = accepted \cup {form[t]}
    /\ view' = [view EXCEPT ![t] = "queued"]
    /\ UNCHANGED <<browser, overlap, form, confirmed, current, status, server, user, faults>>

\* enqueuePayment stores the queue, and the page says "Payment queued".
Enqueue(t) ==
    /\ job[t] = "enqueue"
    /\ queue' = Append(saw[t], form[t])
    /\ EndTurn(t)
    /\ accepted' = accepted \cup {form[t]}
    /\ view' = [view EXCEPT ![t] = "queued"]
    /\ UNCHANGED <<browser, overlap, form, confirmed, current, status, server, user, faults>>

QueueAnother(t) ==
    /\ view[t] = "queued" /\ job[t] = "idle"
    /\ view' = [view EXCEPT ![t] = "form"]
    /\ form' = [form EXCEPT ![t] = None]
    /\ UNCHANGED <<browser, storage, confirmed, current, status, server, user, faults>>

RecordAnother(t) ==
    /\ view[t] = "form" /\ confirmed[t] = "yes" /\ job[t] = "idle"
    /\ confirmed' = [confirmed EXCEPT ![t] = "no"]
    /\ form' = [form EXCEPT ![t] = None]
    /\ UNCHANGED <<browser, storage, view, current, status, server, user, faults>>

-----------------------------------------------------------------------------
GoOffline ==
    /\ network = "online" /\ flips < MaxFlips
    /\ network' = "offline" /\ flips' = flips + 1
    /\ UNCHANGED <<owed, storage, page, server, user, faults>>

GoOnline ==
    /\ network = "offline"
    /\ network' = "online" /\ owed' = Tabs
    /\ UNCHANGED <<flips, storage, page, server, user, faults>>

\* The event is dispatched; the page listens for it while it is mounted.
OnOnline(t) ==
    /\ t \in owed /\ job[t] = "idle"
    /\ owed' = owed \ {t}
    /\ \/ view[t] = "away" /\ UNCHANGED storage
       \/ view[t] # "away" /\ ReadQueue(t, "drain") /\ UNCHANGED <<queue, accepted>>
    /\ UNCHANGED <<network, flips, page, server, user, faults>>

\* A wrong drainQueue, that leaves the queue to be removed once it is sent.
DrainAndKeep(t) ==
    /\ job[t] = "drain"
    /\ EndTurn(t)
    /\ Mutate(saw[t], t)
    /\ UNCHANGED <<browser, queue, overlap, accepted, view, form, confirmed, recorded, failed, user, faults>>

\* drainQueue removes the queue, and every payment in it is sent.
Drain(t) ==
    /\ job[t] = "drain"
    /\ queue' = <<>>
    /\ EndTurn(t)
    /\ Mutate(saw[t], t)
    /\ UNCHANGED <<browser, overlap, accepted, view, form, confirmed, recorded, failed, user, faults>>

-----------------------------------------------------------------------------
(***************************************************************************)
(* recordPayment: the antiforgery token is fetched and the payment posted, *)
(* without a key by which the server could know it again.  Until it is     *)
(* recorded either request may fail, and to the page both look the same.   *)
(***************************************************************************)
Record(r) ==
    /\ r \in requests /\ r.stage = "sent" /\ network = "online"
    /\ recorded' = [recorded EXCEPT ![r.payment] = @ + 1]
    /\ requests' = (requests \ {r}) \cup {[r EXCEPT !.stage = "recorded"]}
    /\ UNCHANGED <<browser, storage, page, failed, user, faults>>

\* The mutation shows the outcome of r if r is its last request.
Settle(r, how) ==
    IF r.mounted = "yes" /\ r.id = current[r.tab]
    THEN /\ status' = [status EXCEPT ![r.tab] = how]
         /\ current' = [current EXCEPT ![r.tab] = None]
    ELSE UNCHANGED <<status, current>>

\* onSuccess is called for every request of the mutation, by a page still mounted.
Answer(r) ==
    /\ r \in requests /\ r.stage = "recorded"
    /\ requests' = requests \ {r}
    /\ Settle(r, "idle")
    /\ confirmed' = IF r.mounted = "yes" THEN [confirmed EXCEPT ![r.tab] = "yes"] ELSE confirmed
    /\ UNCHANGED <<browser, storage, view, form, recorded, failed, user, faults>>

\* The request is refused, or it or its response is lost.
Fail(r) ==
    /\ r \in requests
    /\ (network = "offline" /\ UNCHANGED faults) \/ Fault
    /\ requests' = requests \ {r}
    /\ failed' = failed \cup {r.payment}
    /\ Settle(r, "error")
    /\ UNCHANGED <<browser, storage, view, form, confirmed, recorded, user>>

-----------------------------------------------------------------------------
Tab ==
    \E t \in Tabs :
        \/ Mount(t) \/ Unmount(t) \/ Unload(t)
        \/ Fill(t) \/ SubmitOnline(t) \/ SubmitOffline(t) \/ Enqueue(t)
        \/ QueueAnother(t) \/ RecordAnother(t)
        \/ OnOnline(t) \/ Drain(t)

Next ==
    \/ Tab \/ GoOffline \/ GoOnline
    \/ \E r \in requests : Record(r) \/ Answer(r) \/ Fail(r)

Spec == Init /\ [][Next]_vars

(***************************************************************************)
(* The network comes back, the event loop of every tab runs, and requests  *)
(* are answered.  Nobody has to fill in anything, to stay on the page or   *)
(* to come back to it.                                                     *)
(***************************************************************************)
FairSpec ==
    /\ Spec
    /\ WF_vars(GoOnline)
    /\ WF_vars(\E r \in requests : Record(r) \/ Answer(r))
    /\ \A t \in Tabs : WF_vars(Enqueue(t) \/ OnOnline(t) \/ Drain(t))

-----------------------------------------------------------------------------
InQueue(p) == \E i \in 1 .. Len(queue) : queue[i] = p
UnderWay(p) == \E r \in requests : r.payment = p

(***************************************************************************)
(* A payment the page has promised to send is recorded, or waits in the    *)
(* queue, or is under way; it gets lost only when a request that carries   *)
(* it fails or is cut, or when two tabs access the queue at once.          *)
(***************************************************************************)
LossNeedsCause ==
    \A p \in accepted :
        InQueue(p) \/ UnderWay(p) \/ recorded[p] > 0 \/ p \in failed \/ overlap = "yes"

(***************************************************************************)
(* The server, which cannot know a payment again, records one twice only   *)
(* when its user submitted it again or two tabs drained the queue at once. *)
(***************************************************************************)
DuplicateNeedsCause ==
    \A p \in Payments : recorded[p] > 1 => p \in resent \/ overlap = "yes"

(***************************************************************************)
(* The page says that a queued payment "will be sent when you're back      *)
(* online", and the banner says "Syncing" for as long as one is queued     *)
(* and the browser online: every payment the page has promised to send is  *)
(* recorded in the end.                                                    *)
(***************************************************************************)
QueuedIsSent == \A p \in Payments : p \in accepted ~> recorded[p] > 0

=============================================================================
