------------------------------ MODULE HubComms ------------------------------
(***************************************************************************)
(* The page of the crew's messages, over one SignalR connection to the     *)
(* Bridge: that of the web application (pages/CrewCommsPage.tsx over       *)
(* hooks/useHubConnection.ts) and that of the desktop application, which   *)
(* has the connection in the page.                                         *)
(*                                                                         *)
(* The Bridge sends a message to the connections that joined its thread;   *)
(* a connection that was lost has another identity when it is back, and    *)
(* has joined nothing.  The client's invocations reach the Bridge in the   *)
(* order they were made, and so do the Bridge's messages and answers.      *)
(* What React has rendered follows the state that was set; a reconnection, *)
(* which takes a round trip, finds it rendered.                            *)
(***************************************************************************)
EXTENDS Naturals, Sequences, FiniteSets

CONSTANTS
    Threads,
    First,       \* the thread the page opens with
    Texts,       \* what the user may write
    MaxFaults,   \* bound on connections lost and invocations the Bridge refuses
    MaxSwitches, \* bound on the threads opened
    MaxWire      \* bound on the invocations and answers under way, but for one

ASSUME FirstAssumption == First \in Threads
ASSUME BoundsAssumption == {MaxFaults, MaxSwitches, MaxWire} \subseteq Nat

Empty == "empty"                 \* no text
ASSUME EmptyAssumption == Empty \notin Texts

VARIABLES
    app,         \* which application it is
    page,        \* "open" or "left"
    link,        \* the state of the connection
    joined,      \* the threads the connection has joined at the Bridge
    wire,        \* invocations under way
    stream,      \* messages and answers under way
    hub,         \* hubState, or connected, as last set
    shown,       \* as last rendered
    active,      \* activeThread
    prev,        \* prevThreadRef (web)
    draft,
    messages,    \* those received
    \* history and bounds
    last,        \* the text last written
    sentOn,      \* the thread each text the Bridge has was sent to
    excused,     \* texts written over a send, or sent by the key without a connection (web)
    denied,      \* threads whose last join or leave on this connection the Bridge has refused
    unheard,     \* texts sent while the page had not joined the thread or had been denied it, or
                 \* lost on the way back
    strayed,     \* "yes": the desktop page reconnected, or changed thread while not connected
    faults,
    switches

view == <<hub, shown, active, prev, draft, messages>>
network == <<link, joined, wire, stream>>
ghosts == <<last, sentOn, excused, denied, unheard, strayed>>
bounds == <<faults, switches>>
vars == <<app, page, network, view, ghosts, bounds>>

HubStates == {"disconnected", "connecting", "connected", "reconnecting"}
Invocations == [op : {"leave", "join", "send"}, thread : Threads, text : Texts \cup {Empty}]
Events == [kind : {"message", "done"}, thread : Threads, text : Texts]

TypeOK ==
    /\ app \in {"web", "desktop"} /\ page \in {"open", "left"} /\ link \in HubStates
    /\ joined \subseteq Threads /\ (link # "connected" => joined = {} /\ wire = <<>> /\ stream = <<>>)
    /\ wire \in Seq(Invocations) /\ stream \in Seq(Events)
    /\ \A i \in DOMAIN wire : wire[i].op = "send" <=> wire[i].text # Empty
    /\ {hub, shown} \subseteq HubStates
    /\ app = "desktop" => {hub, shown} \subseteq {"disconnected", "connected"}
    /\ active \in Threads /\ prev \in Threads
    /\ draft \in Texts \cup {Empty} /\ last \in Texts \cup {Empty}
    /\ messages \subseteq Threads \X Texts /\ sentOn \subseteq Threads \X Texts
    /\ excused \subseteq Texts /\ unheard \subseteq Texts
    /\ denied \subseteq Threads /\ (link # "connected" => denied = {}) /\ strayed \in {"yes", "no"}
    /\ faults \in 0 .. MaxFaults /\ switches \in 0 .. MaxSwitches

-----------------------------------------------------------------------------
Leave(t) == [op |-> "leave", thread |-> t, text |-> Empty]
Join(t) == [op |-> "join", thread |-> t, text |-> Empty]
Sends == {w \in {wire[i] : i \in DOMAIN wire} : w.op = "send"}
Room == Len(wire) + Len(stream) < MaxWire
SendUnderWay == Sends # {} \/ \E i \in DOMAIN stream : stream[i].kind = "done"

\* An invocation while there is no connection is dropped without a word.
Invoke(calls) == wire' = IF link = "connected" THEN wire \o calls ELSE wire

\* A wrong page: it joins the thread it opened with, as the desktop's does.
RejoinFirst(thread) == Invoke((IF prev # thread THEN <<Leave(prev)>> ELSE <<>>) \o <<Join(First)>>)

\* What the web page does when it shows another state or another thread.
Rejoin(thread) == Invoke((IF prev # thread THEN <<Leave(prev)>> ELSE <<>>) \o <<Join(thread)>>)

-----------------------------------------------------------------------------
(***************************************************************************)
(* The connection.                                                         *)
(***************************************************************************)
Fault == faults < MaxFaults /\ faults' = faults + 1

\* The web page is told of every change of the connection, the desktop page of the first alone.
Tell(state) == hub' = IF app = "web" THEN state ELSE hub

Started ==
    /\ link = "connecting" /\ page = "open"
    /\ link' = "connected" /\ hub' = "connected"
    /\ wire' = IF app = "desktop" THEN <<Join(First)>> ELSE <<>>
    /\ UNCHANGED <<app, page, joined, stream, shown, active, prev, draft, messages, ghosts, bounds>>

\* It is not tried again.
StartFails ==
    /\ link = "connecting" /\ Fault
    /\ link' = "disconnected" /\ Tell("disconnected")
    /\ UNCHANGED <<app, page, joined, wire, stream, shown, active, prev, draft, messages, ghosts, switches>>

\* What was under way fails, whether it was handled or not.
Drop ==
    /\ joined' = {} /\ denied' = {} /\ wire' = <<>> /\ stream' = <<>>
    /\ unheard' = unheard \cup {stream[i].text : i \in DOMAIN stream}

Lost ==
    /\ link = "connected" /\ Fault
    /\ link' = "reconnecting" /\ Tell("reconnecting") /\ Drop
    /\ UNCHANGED <<app, page, shown, active, prev, draft, messages, last, sentOn, excused, strayed, switches>>

\* A wrong hook: it says nothing of a connection that is back.
ReconnectedSilent ==
    /\ link = "reconnecting" /\ shown = hub
    /\ link' = "connected" /\ hub' = hub
    /\ strayed' = IF app = "desktop" THEN "yes" ELSE strayed
    /\ UNCHANGED <<app, page, joined, wire, stream, shown, active, prev, draft, messages,
                   last, sentOn, excused, denied, unheard, bounds>>

Reconnected ==
    /\ link = "reconnecting" /\ shown = hub
    /\ link' = "connected" /\ Tell("connected")
    /\ strayed' = IF app = "desktop" THEN "yes" ELSE strayed
    /\ UNCHANGED <<app, page, joined, wire, stream, shown, active, prev, draft, messages,
                   last, sentOn, excused, denied, unheard, bounds>>

\* Four attempts have failed.
GivesUp ==
    /\ link = "reconnecting" /\ Fault
    /\ link' = "disconnected" /\ Tell("disconnected")
    /\ UNCHANGED <<app, page, joined, wire, stream, shown, active, prev, draft, messages, ghosts, switches>>

-----------------------------------------------------------------------------
(***************************************************************************)
(* The Bridge (external).                                                  *)
(***************************************************************************)
Handle ==
    /\ wire # <<>>
    /\ wire' = Tail(wire)
    /\ LET w == Head(wire) IN
         /\ joined' = CASE w.op = "leave" -> joined \ {w.thread}
                        [] w.op = "join" -> joined \cup {w.thread}
                        [] OTHER -> joined
         /\ IF w.op = "send"
            THEN LET event(k) == [kind |-> k, thread |-> w.thread, text |-> w.text] IN
                 /\ sentOn' = sentOn \cup {<<w.thread, w.text>>}
                 /\ unheard' = IF w.thread \in denied THEN unheard \cup {w.text} ELSE unheard
                 /\ UNCHANGED denied
                 /\ stream' = stream \o (IF w.thread \in joined THEN <<event("message")>> ELSE <<>>)
                                     \o <<event("done")>>
            ELSE denied' = denied \ {w.thread} /\ UNCHANGED <<sentOn, unheard, stream>>
    /\ UNCHANGED <<app, page, link, view, last, excused, strayed, bounds>>

\* A message that is refused stays in the draft.  A join or a leave that is refused is passed
\* over in silence, and made again only when the page opens the thread again or, the web page,
\* when the connection is back.
Refuse ==
    /\ wire # <<>> /\ Fault
    /\ wire' = Tail(wire)
    /\ denied' = IF Head(wire).op = "send" THEN denied ELSE denied \cup {Head(wire).thread}
    /\ UNCHANGED <<app, page, link, joined, stream, view, last, sentOn, excused, unheard, strayed, switches>>

-----------------------------------------------------------------------------
(***************************************************************************)
(* The page.                                                               *)
(***************************************************************************)
Render ==
    /\ page = "open" /\ shown # hub
    /\ shown' = hub
    /\ IF app = "web" /\ hub = "connected"
       THEN prev' = active /\ Rejoin(active)
       ELSE UNCHANGED <<prev, wire>>
    /\ UNCHANGED <<app, page, link, joined, stream, hub, active, draft, messages, ghosts, bounds>>

\* A wrong page: another thread is opened without joining it.
SwitchShown(t) ==
    /\ page = "open" /\ t # active /\ Room
    /\ switches < MaxSwitches /\ switches' = switches + 1
    /\ active' = t
    /\ UNCHANGED <<prev, wire>>
    /\ strayed' = IF app = "desktop" /\ link # "connected" THEN "yes" ELSE strayed
    /\ UNCHANGED <<app, page, link, joined, stream, hub, shown, draft, messages,
                   last, sentOn, excused, denied, unheard, faults>>

\* The desktop page leaves and joins the thread it opens, and stays in the one it had.
Switch(t) ==
    /\ page = "open" /\ t # active /\ Room
    /\ switches < MaxSwitches /\ switches' = switches + 1
    /\ active' = t
    /\ IF app = "web"
       THEN IF shown = "connected" THEN prev' = t /\ Rejoin(t) ELSE UNCHANGED <<prev, wire>>
       ELSE Invoke(<<Leave(t), Join(t)>>) /\ UNCHANGED prev
    /\ strayed' = IF app = "desktop" /\ link # "connected" THEN "yes" ELSE strayed
    /\ UNCHANGED <<app, page, link, joined, stream, hub, shown, draft, messages,
                   last, sentOn, excused, denied, unheard, faults>>

\* Each text is written once, over what the draft had.
Type(m) ==
    /\ page = "open"
    /\ m \notin {last, draft} \cup excused \cup {s[2] : s \in sentOn}
    /\ draft' = m /\ last' = m
    /\ excused' = IF SendUnderWay THEN excused \cup {m} ELSE excused
    /\ UNCHANGED <<app, page, network, hub, shown, active, prev, messages, sentOn, denied, unheard, strayed, bounds>>

\* A wrong page: the draft is cleared before the Bridge has answered.
SendCleared ==
    /\ page = "open" /\ draft # Empty /\ Room /\ link = "connected"
    /\ wire' = Append(wire, [op |-> "send", thread |-> active, text |-> draft])
    /\ unheard' = IF (app = "web" /\ shown # "connected") \/ strayed = "yes"
                  THEN unheard \cup {draft} ELSE unheard
    /\ draft' = Empty
    /\ UNCHANGED <<app, page, link, joined, stream, hub, shown, active, prev, messages,
                   last, sentOn, excused, denied, strayed, bounds>>

\* handleSend, by the button or by the key: the button asks for a connection to be shown, the
\* key does not.
Send ==
    /\ page = "open" /\ draft # Empty /\ Room
    /\ IF link = "connected"
       THEN /\ wire' = Append(wire, [op |-> "send", thread |-> active, text |-> draft])
            /\ unheard' = IF (app = "web" /\ shown # "connected") \/ strayed = "yes"
                          THEN unheard \cup {draft} ELSE unheard
            /\ UNCHANGED <<draft, excused>>
       ELSE /\ app = "web"                         \* the desktop page puts up an alert
            /\ draft' = Empty /\ excused' = excused \cup {draft}
            /\ UNCHANGED <<wire, unheard>>
    /\ UNCHANGED <<app, page, link, joined, stream, hub, shown, active, prev, messages,
                   last, sentOn, denied, strayed, bounds>>

\* A message is put in the list, or a send has ended and clears the draft, whatever it has.
Receive ==
    /\ stream # <<>> /\ stream' = Tail(stream)
    /\ LET e == Head(stream) IN
         IF e.kind = "message"
         THEN messages' = messages \cup {<<e.thread, e.text>>} /\ UNCHANGED draft
         ELSE draft' = Empty /\ UNCHANGED messages
    /\ UNCHANGED <<app, page, link, joined, wire, hub, shown, active, prev, ghosts, bounds>>

\* The page is left: the connection is stopped, and the draft goes with the page.
LeavePage ==
    /\ page = "open" /\ page' = "left"
    /\ link' = "disconnected" /\ Drop
    /\ UNCHANGED <<app, view, last, sentOn, excused, strayed, bounds>>

-----------------------------------------------------------------------------
Init ==
    /\ app \in {"web", "desktop"} /\ page = "open"
    /\ link = "connecting" /\ joined = {} /\ wire = <<>> /\ stream = <<>>
    /\ hub = (IF app = "web" THEN "connecting" ELSE "disconnected") /\ shown = hub
    /\ active = First /\ prev = First /\ draft = Empty /\ messages = {}
    /\ last = Empty /\ sentOn = {} /\ excused = {} /\ denied = {} /\ unheard = {} /\ strayed = "no"
    /\ faults = 0 /\ switches = 0

Next ==
    \/ Started \/ StartFails \/ Lost \/ Reconnected \/ GivesUp
    \/ Handle \/ Refuse
    \/ Render \/ Send \/ Receive \/ LeavePage
    \/ \E t \in Threads : Switch(t)
    \/ \E m \in Texts : Type(m)

\* React renders, and the Bridge handles what reaches it while the connection lasts.
Spec == Init /\ [][Next]_vars /\ WF_vars(Render) /\ WF_vars(Handle)

-----------------------------------------------------------------------------
Settled == page = "open" /\ link = "connected" /\ shown = hub /\ wire = <<>>

\* Joined and not joined are as the page has asked, but for the threads it was denied.
InThread == joined \ denied = {active} \ denied

\* Once nothing is under way, a page with a connection says so, the web page has joined the
\* thread it shows and no other, and the desktop page has joined it unless it went astray: it
\* joins nothing again after a reconnection (CrewCommsPage.tsx:42, :54 of the desktop).  A
\* refusal, which both pages swallow, spoils this for the thread it was about and for no other.
JoinedShown ==
    Settled => /\ shown = "connected"
               /\ app = "web" => InThread
               /\ app = "desktop" /\ strayed = "no" => active \in joined \cup denied

\* Whoever sends a message sees it in the thread it was sent to, since its page has joined that
\* thread before (CrewCommsPage.tsx:50), with the exceptions named in unheard.
SenderHears ==
    page = "open" /\ stream = <<>> => \A s \in sentOn : s[2] \in unheard \/ s \in messages

\* A draft that is gone is at the Bridge, or was written while another was being sent
\* (CrewCommsPage.tsx:63), or the web page sent it without a connection, which the desktop page
\* never does (CrewCommsPage.tsx:71 of the desktop).
DraftsKept ==
    draft = Empty /\ last # Empty => last \in excused \/ \E t \in Threads : <<t, last>> \in sentOn

\* While the connection lasts, the web page ends up in the thread it shows, and in no other, but
\* for the threads it was denied: nothing joins them again (CrewCommsPage.tsx:50).
EndsUpJoined ==
    app = "web" => []<>(page = "left" \/ link # "connected" \/ InThread)
=============================================================================
