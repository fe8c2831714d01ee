----------------------------- MODULE WebSession -----------------------------
(***************************************************************************)
(* Who is signed in in one tab of the web application: the stores of user, *)
(* antiforgery token, company and tenant (stores/), the whoami of the      *)
(* application's frame (app.tsx), signing in and out (hooks/useAuth.ts)    *)
(* and, as pages whose data outlives a session, the audit trail and its    *)
(* detail page.  The cookie of the session is the browser's: another tab   *)
(* may change it.                                                          *)
(*                                                                         *)
(* Every account is the only one of its tenant, and has two companies or   *)
(* none.  An answer of the Bridge says who was signed in when it was given *)
(* and may arrive after any other.                                         *)
(***************************************************************************)
EXTENDS Naturals, Sequences, FiniteSets

CONSTANTS
    Users,       \* the accounts
    Bound,       \* those that have companies
    MaxMoves,    \* bound on what the user does in this tab or in another, and on calls
                 \* that fail
    MaxPages     \* bound on the pages of the audit trail

ASSUME BoundAssumption == Bound \subseteq Users
ASSUME BoundsAssumption == MaxMoves \in Nat /\ MaxPages \in Nat \ {0}

Nobody == "nobody"        \* no account: no session, an anonymous token, no tenant
DevUser == "dev-user"
Unnamed == "unnamed"      \* the empty user name
NoToken == "no-token"

\* Where there is no account, none has the name.
ASSUME NobodyAssumption == Nobody \notin Users

\* The numbers that tell calls of a kind apart.
Ids == Nat \ {0}

VARIABLES
    session,   \* the account the cookie stands for, at the Bridge
    \* the stores
    auth,      \* "loading", "in" or "out": loaded and isAuthenticated
    user, csrf,
    company,   \* whose companies are offered, and one of them is active
    picked,    \* the number of the active company
    tenant,    \* whose tenant it is
    \* the views
    place,     \* the route: "login" or a page of the application
    mounted,   \* the page that is on the screen: its code is loaded on demand
    viewed,    \* whose event the detail page is about
    visited,   \* those whose events are in the history of the tab
    broken,    \* "yes": the error boundary of the routes shows its fallback
    signingIn, signingOut,       \* the mutation the page observes, or 0
    \* the cache
    pages,     \* whose events the loaded pages of the audit trail are
    details,   \* those one of whose events is loaded
    failed,    \* how the audit trail was last refused: "changed", "failed" or "no"
    erred,     \* those the last request for whose event was refused
    calls,     \* requests under way
    \* history and bound
    crossed,   \* what the stores, or the audit trail, may be wrong about since the tab was
               \* loaded: the session changed in another tab or with a call about it under
               \* way, a call failed, or the login page of a sign-in was gone
    moves

stores == <<auth, user, csrf, company, picked, tenant>>
views == <<place, mounted, viewed, visited, broken, signingIn, signingOut>>
cache == <<pages, details, failed, erred>>
sessionVars == <<session, stores, views, cache, calls, crossed, moves>>

AppPages == {"home", "list", "detail"}
Whoami == {"whoami", "whoamiLogin"}
Kinds == Whoami \cup {"token", "login", "logout", "list", "detail"}
Call == [id : Ids, kind : Kinds, stage : {"sent", "done", "refused"},
         who : Users \cup {Nobody}, csrf : Users \cup {Nobody, NoToken},
         got : Seq(Users), goal : 0 .. MaxPages,
         more : {"yes", "no"}]     \* "yes": it asks for one page more

SessionTypeOK ==
    /\ session \in Users \cup {Nobody}
    /\ auth \in {"loading", "in", "out"} /\ user \in Users \cup {DevUser, Unnamed}
    /\ csrf \in Users \cup {Nobody, NoToken}
    /\ company \in Bound \cup {Nobody}
    /\ tenant \in Users \cup {Nobody} /\ picked \in {1, 2}
    /\ place \in AppPages \cup {"login"} /\ mounted \in AppPages \cup {"none"}
    /\ mounted # "none" => mounted = place /\ auth = "in"
    /\ viewed \in Users \cup {Nobody} /\ visited \subseteq Users
    /\ broken \in {"yes", "no"} /\ crossed \subseteq {"stores", "list"}
    /\ signingIn \in Ids \cup {0} /\ signingOut \in Ids \cup {0}
    /\ signingIn # 0 => place = "login"
    /\ signingOut # 0 => place # "login"
    /\ pages \in Seq(Users) /\ Len(pages) <= MaxPages
    /\ details \subseteq Users
    /\ failed \in {"no", "changed", "failed"} /\ erred \subseteq Users
    /\ calls \subseteq Call /\ IsFiniteSet(calls)
    /\ \A c \in calls : Len(c.got) <= c.goal
    /\ \A c, d \in calls : c.kind = d.kind /\ c.id = d.id => c = d
    /\ \A c, d \in calls : c.kind = d.kind /\ c.kind \in {"list", "detail"}
                            /\ (c.kind = "detail" => c.who = d.who) => c = d

-----------------------------------------------------------------------------
(***************************************************************************)
(* Calls and what is on the screen.                                        *)
(***************************************************************************)
New(kind, id) == [id |-> id, kind |-> kind, stage |-> "sent", who |-> Nobody,
                  csrf |-> NoToken, got |-> <<>>, goal |-> 0, more |-> "no"]
Free(C, kind) == CHOOSE i \in 1 .. Cardinality(C) + 1 : \A c \in C : c.kind = kind => c.id # i
Add(C, kind) == C \cup {New(kind, Free(C, kind))}
Move == moves < MaxMoves /\ moves' = moves + 1
UnderWay(K) == \E c \in calls : c.kind \in K

\* A wrong detail page: it shows whatever it has.
ThrowsNever == FALSE

\* The detail page refuses to show the event of a tenant that is not the active one.
Throws == /\ mounted = "detail" /\ viewed \in details \ erred
          /\ tenant \notin {Nobody, viewed}
Boundary == broken' = IF mounted' # "none" /\ Throws' THEN "yes" ELSE broken

\* The frame of the application shows a page only to a user who is signed in, and sends
\* those who are not to the login page.
Frame(p, a) == IF p # "login" /\ a = "out" THEN "login" ELSE p

\* A wrong frame: it asks nothing of a tab that knows an answer.
FrameOpensUnasked(C) == IF auth = "loading" /\ csrf = NoToken THEN Add(C, "whoami") ELSE C

\* The frame asks who is signed in whenever it is put up.
FrameOpens(C) == Add(C, "whoami")

LeaveFrame ==
    IF place' = "login"
    THEN mounted' = "none" /\ broken' = "no" /\ signingOut' = 0 /\ UNCHANGED signingIn
    ELSE UNCHANGED <<mounted, signingOut, signingIn>> /\ Boundary

-----------------------------------------------------------------------------
(***************************************************************************)
(* The stores change when whoami, a sign-in or a sign-out is answered.     *)
(***************************************************************************)
\* A wrong frame: only a company brings its tenant with it.
TenantOfCompany(u) == IF u \in Bound THEN u ELSE tenant

TenantOf(u) == u

\* A wrong frame: it asks for no token.
ThenNothing(C) == C

ThenToken(C) == Add(C, "token")

\* The frame's whoami.  Anything but a 401 signs somebody in.
ArriveWhoami(c) ==
    /\ c.kind = "whoami" /\ c.stage = "done"
    /\ auth' = IF c.who = Nobody THEN "out" ELSE "in"
    /\ IF c.who = Nobody
       THEN /\ calls' = calls \ {c}
            /\ UNCHANGED <<user, company, tenant, picked>>
       ELSE /\ calls' = ThenToken(calls \ {c})
            /\ user' = c.who /\ tenant' = TenantOf(c.who)
            /\ IF c.who \in Bound
               THEN company' = c.who /\ picked' = 1
               ELSE UNCHANGED <<company, picked>>
    /\ place' = Frame(place, auth')
    /\ UNCHANGED <<session, csrf, viewed, visited, cache, crossed, moves>>
    /\ LeaveFrame

\* The whoami of a sign-in.  A 401 has no user.
ArriveWhoamiLogin(c) ==
    /\ c.kind = "whoamiLogin" /\ c.stage = "done"
    /\ calls' = calls \ {c}
    /\ auth' = "in" /\ user' = IF c.who = Nobody THEN Unnamed ELSE c.who
    /\ UNCHANGED <<session, csrf, company, tenant, picked, views, cache, crossed, moves>>

\* A token is for whoever is signed in.
ArriveToken(c) ==
    /\ c.kind = "token"
    /\ calls' = calls \ {c}
    /\ csrf' = session
    /\ UNCHANGED <<session, auth, user, company, picked, tenant, views, cache, crossed, moves>>

\* A whoami that cannot be sent, or that the Bridge fails to answer, makes the user up.
CallFails(c) ==
    /\ c.kind \in Whoami \cup {"token"} /\ Move
    /\ crossed' = crossed \cup {"stores"}
    /\ IF c.kind = "token" THEN UNCHANGED <<auth, user>>
       ELSE auth' = "in" /\ user' = IF c.kind = "whoami" THEN DevUser ELSE Unnamed
    /\ \/ calls' = calls \ {c} /\ UNCHANGED tenant
       \/ c.kind = "whoami" /\ calls' = ThenToken(calls \ {c}) /\ tenant' = Nobody
    /\ UNCHANGED <<session, csrf, company, picked, views, cache>>

\* The Bridge says who is signed in.
AnswerWho(c) ==
    /\ c.kind \in Whoami /\ c.stage = "sent"
    /\ calls' = (calls \ {c}) \cup {[c EXCEPT !.stage = "done", !.who = session]}
    /\ UNCHANGED <<session, stores, views, cache, crossed, moves>>

-----------------------------------------------------------------------------
(***************************************************************************)
(* Signing in and out.                                                     *)
(***************************************************************************)
Change(c, s) ==
    /\ session' = s
    /\ crossed' = crossed \cup {IF d.kind = "list" THEN "list" ELSE "stores" : d \in
                                   {d \in calls \ {c} : d.kind # "detail"}}

Login(u) ==
    /\ place = "login" /\ signingIn = 0 /\ Move
    /\ signingIn' = Free(calls, "login")
    /\ calls' = calls \cup {[New("login", Free(calls, "login")) EXCEPT !.who = u]}
    /\ UNCHANGED <<session, stores, place, mounted, viewed, visited, broken, signingOut,
                   cache, crossed>>

\* The token it needs was asked for just before.  It may be refused or lost; one whose
\* answer is lost is Elsewhere(c.who) and a refusal.
AnswerLogin(c) ==
    /\ c.kind = "login" /\ c.stage = "sent"
    /\ \/ calls' = (calls \ {c}) \cup {[c EXCEPT !.stage = "done"]} /\ Change(c, c.who)
       \/ calls' = (calls \ {c}) \cup {[c EXCEPT !.stage = "refused"]} /\ UNCHANGED <<session, crossed>>
    /\ UNCHANGED <<stores, views, cache, moves>>

\* Success: the hook stores the token and asks who it is; the page, if it is still
\* there, opens the application, whose frame asks as well.
ArriveLogin(c) ==
    /\ c.kind = "login" /\ c.stage = "done"
    /\ csrf' = c.who
    /\ LET C == Add(calls \ {c}, "whoamiLogin")
       IN  IF signingIn = c.id
           THEN /\ calls' = FrameOpens(C)
                /\ place' = Frame("home", auth) /\ signingIn' = 0 /\ UNCHANGED crossed
           ELSE calls' = C /\ crossed' = crossed \cup {"stores"} /\ UNCHANGED <<place, signingIn>>
    /\ UNCHANGED <<session, auth, user, company, tenant, picked, mounted, viewed, visited,
                   broken, signingOut, cache, moves>>

Logout ==
    /\ place # "login" /\ auth = "in" /\ signingOut = 0 /\ Move
    /\ csrf # NoToken
    /\ signingOut' = Free(calls, "logout")
    /\ calls' = calls \cup {[New("logout", Free(calls, "logout")) EXCEPT !.csrf = csrf]}
    /\ UNCHANGED <<session, stores, place, mounted, viewed, visited, broken, signingIn,
                   cache, crossed>>

AnswerLogout(c) ==
    /\ c.kind = "logout" /\ c.stage = "sent"
    /\ calls' = (calls \ {c}) \cup {[c EXCEPT !.stage = IF c.csrf = session THEN "done" ELSE "refused"]}
    /\ IF c.csrf = session THEN Change(c, Nobody) ELSE UNCHANGED <<session, crossed>>
    /\ UNCHANGED <<stores, views, cache, moves>>

ArriveLogout(c) ==
    /\ c.kind = "logout" /\ c.stage = "done"
    /\ calls' = calls \ {c}
    /\ auth' = "out" /\ csrf' = NoToken
    /\ place' = "login"
    /\ UNCHANGED <<session, user, company, tenant, picked, viewed, visited, cache, crossed, moves>>
    /\ LeaveFrame

\* Refused, or lost: the button is enabled again.
Refused(c) ==
    /\ c.kind \in {"login", "logout"} /\ c.stage = "refused"
    /\ calls' = calls \ {c}
    /\ signingIn' = IF c.kind = "login" /\ signingIn = c.id THEN 0 ELSE signingIn
    /\ signingOut' = IF c.kind = "logout" /\ signingOut = c.id THEN 0 ELSE signingOut
    /\ UNCHANGED <<session, stores, place, mounted, viewed, visited, broken, cache, crossed, moves>>

\* Another tab signs in or out, or the session ends.
Elsewhere(s) ==
    /\ s # session /\ Move
    /\ session' = s /\ crossed' = {"stores", "list"}
    /\ UNCHANGED <<stores, views, cache, calls>>

-----------------------------------------------------------------------------
(***************************************************************************)
(* The pages.                                                              *)
(***************************************************************************)
\* A link of the frame, a row of the audit trail, or the history of the tab.
Open(p, u) ==
    /\ p # place \/ (p = "detail" /\ u # viewed)
    /\ Move
    /\ IF p = "detail" THEN u \in visited \cup (IF mounted = "list" THEN {pages[i] : i \in DOMAIN pages} ELSE {})
       ELSE u = viewed
    /\ place' = Frame(p, auth)
    /\ viewed' = u /\ visited' = IF p = "detail" THEN visited \cup {u} ELSE visited
    /\ mounted' = "none" /\ signingIn' = 0
    /\ IF place' = "login" THEN signingOut' = 0 /\ broken' = "no" ELSE UNCHANGED <<signingOut, broken>>
    /\ calls' = IF place = "login" /\ p # "login" THEN FrameOpens(calls) ELSE calls
    /\ UNCHANGED <<session, stores, cache, crossed>>

Asked(p, u) == \E c \in calls : c.kind = p /\ (p = "detail" => c.who = u)
Ask(p, u, n, i) == [New(p, i) EXCEPT !.who = IF p = "detail" THEN u ELSE Nobody,
                                     !.goal = IF p = "detail" THEN 0 ELSE IF n = 0 THEN 1 ELSE n]

Awaited == place # "login" /\ auth = "in" /\ mounted = "none" /\ broken = "no"

\* A wrong audit trail: it is fetched only once.
AsksOnce(p) == p # "home" /\ ~Asked(p, viewed) /\ ~(p = "list" /\ pages # <<>>)

Asks(p) == p # "home" /\ ~Asked(p, viewed)

\* The page comes on the screen, and asks for its data again.  An audit trail that was
\* refused because the tenant changed starts from nothing.
Mount ==
    /\ Awaited
    /\ mounted' = place
    /\ LET resets == place = "list" /\ failed = "changed"
       IN  /\ pages' = IF resets THEN <<>> ELSE pages
           /\ failed' = IF resets \/ (place = "list" /\ pages = <<>>) THEN "no" ELSE failed
    /\ erred' = IF place = "detail" /\ viewed \notin details THEN erred \ {viewed} ELSE erred
    /\ calls' = IF ~Asks(place) THEN calls
                ELSE calls \cup {Ask(place, viewed, Len(pages'), Free(calls, place))}
    /\ UNCHANGED <<session, stores, place, viewed, visited, signingIn, signingOut, details, crossed, moves>>
    /\ Boundary

\* The buttons of the fallback: try again, or go to the dashboard.
TryAgain(p) ==
    /\ broken = "yes" /\ p \in {place, "home"}
    /\ broken' = "no" /\ mounted' = "none" /\ place' = p
    /\ UNCHANGED <<session, stores, viewed, visited, signingIn, signingOut, cache, calls, crossed, moves>>

\* What is under way when the audit trail is asked for anew: a request for it is given up.
Unlisted == {c \in calls : c.kind # "list"}

\* The button is disabled only while it fetches: what the page asks for by itself, when it
\* comes on the screen, is given up for one page more after those of the cache.
LoadMore ==
    /\ mounted = "list" /\ broken = "no" /\ failed = "no"
    /\ ~\E c \in calls : c.kind = "list" /\ c.more = "yes"
    /\ Len(pages) \in 1 .. MaxPages - 1
    /\ calls' = Unlisted \cup {[New("list", Free(Unlisted, "list"))
                                   EXCEPT !.got = pages, !.goal = Len(pages) + 1, !.more = "yes"]}
    /\ UNCHANGED <<session, stores, views, cache, crossed, moves>>

\* The button of the error card.
Retry ==
    /\ mounted = "list" /\ broken = "no" /\ failed = "failed"
    /\ calls' = Unlisted \cup {Ask("list", Nobody, Len(pages), 1)}
    /\ failed' = IF pages = <<>> THEN "no" ELSE failed
    /\ UNCHANGED <<session, stores, views, pages, details, erred, crossed, moves>>

\* A wrong request: the cursor is left out, and the page begins where it likes.
GivesAny(c) == session # Nobody

\* A cursor is good for its own tenant only.
Gives(c) == session # Nobody /\ (c.got = <<>> \/ c.got[Len(c.got)] = session)

\* The pages are asked for one after the other.
AnswerList(c) ==
    /\ c.kind = "list" /\ c.stage = "sent" /\ Len(c.got) < c.goal
    /\ calls' = (calls \ {c}) \cup
         {IF Gives(c)
          THEN [c EXCEPT !.got = Append(@, session)]
          ELSE [c EXCEPT !.stage = "refused", !.who = session]}
    /\ UNCHANGED <<session, stores, views, cache, crossed, moves>>

\* Without a session the request fails, after its retries; with that of another tenant
\* the page, if it is there, discards what it has and starts from the first page.
ArriveList(c) ==
    /\ c.kind = "list" /\ (c.stage = "refused" \/ Len(c.got) = c.goal)
    /\ LET changed == c.stage = "refused" /\ c.who # Nobody
       IN  IF changed /\ mounted = "list" /\ broken = "no"
           THEN /\ pages' = <<>> /\ failed' = "no"
                /\ calls' = (calls \ {c}) \cup {Ask("list", Nobody, 0, c.id)}
           ELSE /\ calls' = calls \ {c}
                /\ pages' = IF c.stage = "refused" THEN pages ELSE c.got
                /\ failed' = IF changed THEN "changed" ELSE IF c.stage = "refused" THEN "failed" ELSE "no"
    /\ UNCHANGED <<session, stores, views, details, erred, crossed, moves>>

\* The Bridge has the event of a tenant for a session of that tenant only.
AnswerDetail(c) ==
    /\ c.kind = "detail" /\ c.stage = "sent"
    /\ calls' = (calls \ {c}) \cup {[c EXCEPT !.stage = IF c.who = session THEN "done" ELSE "refused"]}
    /\ UNCHANGED <<session, stores, views, cache, crossed, moves>>

ArriveDetail(c) ==
    /\ c.kind = "detail" /\ c.stage \in {"done", "refused"}
    /\ calls' = calls \ {c}
    /\ IF c.stage = "done" THEN details' = details \cup {c.who} /\ erred' = erred \ {c.who}
       ELSE erred' = erred \cup {c.who} /\ UNCHANGED details
    /\ UNCHANGED <<session, stores, place, mounted, viewed, visited, signingIn, signingOut,
                   pages, failed, crossed, moves>>
    /\ Boundary

\* Another company is picked: every query is invalidated, and that of the page on the
\* screen fetched again.  No request names the company.
PickCompany ==
    /\ place # "login" /\ auth = "in" /\ company # Nobody /\ Move
    /\ picked' = 3 - picked
    /\ calls' = IF mounted \in {"none", "home"} \/ broken = "yes" THEN calls
                ELSE IF Asked(mounted, viewed) /\ (IF mounted = "list" THEN pages = <<>> ELSE viewed \notin details)
                THEN calls
                ELSE LET C == {c \in calls : ~(c.kind = mounted /\ (mounted = "detail" => c.who = viewed))}
                     IN  C \cup {Ask(mounted, viewed, Len(pages), Free(C, mounted))}
    /\ UNCHANGED <<session, auth, user, csrf, company, tenant, views, cache, crossed>>

\* The tab is loaded again.  A request to sign in or out may still reach the Bridge.
Fresh ==
    /\ auth' = "loading" /\ user' = Unnamed /\ csrf' = NoToken
    /\ company' = Nobody /\ tenant' = Nobody /\ picked' = 1
    /\ mounted' = "none" /\ broken' = "no" /\ signingIn' = 0 /\ signingOut' = 0
    /\ pages' = <<>> /\ details' = {} /\ failed' = "no" /\ erred' = {} /\ crossed' = {}

Reload ==
    /\ Move /\ Fresh
    /\ session' \in {session}
           \cup {c.who : c \in {d \in calls : d.kind = "login" /\ d.stage = "sent"}}
           \cup {Nobody : c \in {d \in calls : d.kind = "logout" /\ d.stage = "sent" /\ d.csrf = session}}
    /\ calls' = IF place = "login" THEN {} ELSE FrameOpens({})
    /\ UNCHANGED <<place, viewed, visited>>

-----------------------------------------------------------------------------
\* A fresh tab, at the login page or at one of the application's.
SessionInit ==
    /\ session \in Users \cup {Nobody} /\ place \in AppPages \cup {"login"}
    /\ auth = "loading" /\ user = Unnamed /\ csrf = NoToken
    /\ company = Nobody /\ tenant = Nobody /\ picked = 1
    /\ mounted = "none" /\ viewed \in IF place = "detail" THEN Users ELSE {Nobody}
    /\ visited = {viewed} \ {Nobody} /\ broken = "no"
    /\ signingIn = 0 /\ signingOut = 0
    /\ pages = <<>> /\ details = {} /\ failed = "no" /\ erred = {}
    /\ calls = IF place = "login" THEN {} ELSE FrameOpens({})
    /\ crossed = {} /\ moves = 0

Calls == \E c \in calls :
    \/ AnswerWho(c) \/ ArriveWhoami(c) \/ ArriveWhoamiLogin(c) \/ ArriveToken(c) \/ CallFails(c)
    \/ AnswerLogin(c) \/ ArriveLogin(c) \/ AnswerLogout(c) \/ ArriveLogout(c) \/ Refused(c)
    \/ AnswerList(c) \/ ArriveList(c) \/ AnswerDetail(c) \/ ArriveDetail(c)

People ==
    \/ \E u \in Users : Login(u)
    \/ Logout
    \/ \E s \in Users \cup {Nobody} : Elsewhere(s)
    \/ \E p \in AppPages \cup {"login"}, u \in Users \cup {Nobody} : Open(p, u)
    \/ LoadMore \/ Retry
    \/ \E p \in AppPages : TryAgain(p)
    \/ PickCompany \/ Reload

\* A page comes on the screen before anything else happens.
SessionNext ==
    \/ Mount
    \/ ~Awaited /\ (Calls \/ People)

SessionSpec == SessionInit /\ [][SessionNext]_sessionVars

-----------------------------------------------------------------------------
Settled == auth # "loading" /\ ~UnderWay(Whoami \cup {"token"}) /\ "stores" \notin crossed
           /\ ~\E c \in calls : c.kind \in {"login", "logout"} /\ c.stage # "sent"

(***************************************************************************)
(* Once the questions about it are answered, the stores say of the session *)
(* what the Bridge says (setAuth, setUnauthenticated, setActiveTenantId),  *)
(* unless the session was changed behind the tab's back.                   *)
(***************************************************************************)
StoreFollowsSession ==
    Settled => IF auth = "in" THEN user = session /\ (place # "login" => tenant = session)
               ELSE session = Nobody

\* A user who is signed in, whichever way he came in, has the token that signs him out
\* (app.tsx:180, useAuth.ts:14).
CanSignOut == Settled /\ auth = "in" => csrf = session

\* The companies offered in the frame are those of the user in front of it, if he has
\* any (app.tsx:173-174): the store keeps those of the user before one who has none.
CompanyOfUser == Settled /\ auth = "in" /\ place # "login" /\ user \in Bound => company = user

\* All that the stores know of a session (the user and tenant, the antiforgery token, the companies)
\* is of the session there is.
StoresOfSession == StoreFollowsSession /\ CanSignOut /\ CompanyOfUser

\* The pages of the audit trail, kept in the cache over sign-ins and loaded one after the
\* other, are never those of two tenants (AuditEventsPage.tsx:26).
PagesOneTenant == \A i, j \in DOMAIN pages : pages[i] = pages[j]

\* The event on the screen is one of the tenant who is signed in, although the cache
\* outlives the session (AuditEventDetailPage.tsx:26).
Shown(p) == mounted = p /\ broken = "no" /\ auth = "in"
DetailOfSession ==
    Settled /\ Shown("detail") /\ viewed \in details \ erred => viewed = session

\* The audit trail on the screen is that of the tenant who is signed in as soon as the
\* request its page made has been answered.
ListOfSession ==
    Settled /\ "list" \notin crossed /\ Shown("list") /\ failed = "no" /\ ~Asked("list", Nobody) /\ pages # <<>> => pages[1] = session

\* The audit trail is of one tenant, and of the one who is signed in.
TrailOfSession == PagesOneTenant /\ ListOfSession

\* Whoever signs in while the login page is there to see it comes to the application
\* (e2e/auth-login.spec.ts:37).  It fails where the frame has sent him to the login page.
SignedIn == \E c \in calls : ArriveLogin(c) /\ signingIn = c.id
SignInOpensApp == [][SignedIn => place' # "login"]_sessionVars
=============================================================================
