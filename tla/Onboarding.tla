----------------------------- MODULE Onboarding -----------------------------
(***************************************************************************)
(* Signing up for an account in the web application: the form, the page    *)
(* that says to look for the mail, the page that asks for another mail,    *)
(* and the page the link of a mail opens (pages/auth/), over the requests  *)
(* of api/onboarding.ts, and the captcha of the forms.  The Bridge is      *)
(* modelled as far as the requests and their tests say what it does.       *)
(*                                                                         *)
(* One tab is open.  A request the page no longer waits for may still      *)
(* reach the Bridge; a request or its answer may be lost.                  *)
(***************************************************************************)
EXTENDS Naturals, Sequences, FiniteSets

CONSTANTS
    Emails,
    Slugs,       \* the names of organizations that the form takes
    Reserved,    \* those the Bridge gives to nobody, reserved or of a shape it does not take
    MaxSteps,    \* bound on the pages opened and the forms sent
    MaxLinks     \* bound on the mails

ASSUME ReservedAssumption == Reserved \subseteq Slugs
ASSUME OnboardingBounds == {MaxSteps, MaxLinks} \subseteq Nat

Blank == "blank"     \* an input not filled in, or no e-mail, or no organization

\* What is not filled in is neither an e-mail nor a name.
ASSUME BlankAssumption == Blank \notin Emails \cup Slugs

NoRequest == [kind |-> "none", email |-> Blank, slug |-> Blank, link |-> 0]

VARIABLES
    \* the Bridge
    accounts,    \* the organization each e-mail signed up with
    verified,    \* the e-mails that are verified
    links,       \* the links that were mailed
    \* the tab
    page,        \* the route
    sentTo,      \* the e-mail in the state of the pending page
    welcome,     \* the e-mail in the state of the page of a verified address
    form,        \* the inputs
    token,       \* "held" or "none": the token of the captcha
    ticked,      \* "yes" or "no": its box
    notice,      \* the error under an input
    status,      \* of the mutation of the page
    request,     \* the variables it was last called with
    stage,       \* "sent", or the Bridge's answer
    resent,      \* "yes": the pending page says that another mail was sent
    \* the network
    orphans,     \* requests under way that no page waits for
    \* history and bounds
    lost,        \* the e-mails an answer to a sign-up for which was lost
    solved,      \* "yes": the box was ticked since the page was opened, or the captcha failed
    edited,      \* "yes": an input changed while the mutation was pending
    steps

bridge == <<accounts, verified, links>>
mutation == <<status, request, stage>>
captcha == <<token, ticked, solved>>
places == <<page, sentTo, welcome>>
onboardingVars == <<bridge, places, form, captcha, notice, mutation, resent, orphans, lost, edited, steps>>

Pages == {"signup", "pending", "resend", "verify", "verified", "login"}
SlugErrors == {"taken", "reserved"}
Answers == SlugErrors \cup {"ok", "captcha", "failed", "expired", "invalid"}
Requests == [kind : {"none", "signup", "resend", "verify"}, email : Emails \cup {Blank},
             slug : Slugs \cup {Blank}, link : 0 .. MaxLinks]

OnboardingTypeOK ==
    /\ accounts \in [Emails -> Slugs \cup {Blank}]
    /\ \A e, d \in Emails : e # d /\ accounts[e] # Blank => accounts[e] # accounts[d]
    /\ verified \subseteq {e \in Emails : accounts[e] # Blank}
    /\ links \in UNION {[1 .. n -> [email : Emails, state : {"good", "expired"}]] : n \in 0 .. MaxLinks}
    /\ page \in Pages /\ sentTo \in Emails \cup {Blank} /\ welcome \in Emails \cup {Blank}
    /\ page = "verified" => welcome # Blank
    /\ form \in [email : Emails \cup {Blank}, slug : Slugs \cup {Blank}]
    /\ token \in {"held", "none"} /\ ticked \in {"yes", "no"} /\ solved \in {"yes", "no"}
    /\ notice \in SlugErrors \cup {"none", "complete", "captcha"}
    /\ notice # "none" => page = "signup"
    /\ status \in {"idle", "pending", "success"} \cup (Answers \ {"ok"})
    /\ request \in Requests /\ stage \in Answers \cup {"sent"}
    /\ status = "pending" => request.kind = CASE page = "signup" -> "signup" [] page = "verify" -> "verify"
                                              [] OTHER -> "resend"
    /\ resent \in {"yes", "no"} /\ orphans \subseteq Requests
    /\ lost \subseteq Emails /\ edited \in {"yes", "no"} /\ steps \in 0 .. MaxSteps

-----------------------------------------------------------------------------
(***************************************************************************)
(* Pages and inputs.                                                       *)
(***************************************************************************)
Act == steps < MaxSteps /\ steps' = steps + 1
NoForm == [email |-> Blank, slug |-> Blank]

\* What a page held is gone, and with it what it waits for.
Abandon ==
    /\ orphans' = IF status = "pending" /\ stage = "sent" THEN orphans \cup {request} ELSE orphans
    /\ form' = NoForm /\ token' = "none" /\ ticked' = "no" /\ solved' = "no"
    /\ notice' = "none" /\ resent' = "no" /\ edited' = "no"

\* A link, an address, the history of the tab, or the same page loaded again.  The page
\* of a verified address has nothing to show to those who come there by themselves.
OpenPage(p) ==
    /\ p \in Pages \ {"verify"} /\ Act
    /\ page' = IF p = "verified" /\ welcome = Blank THEN "login" ELSE p
    /\ Abandon
    /\ status' = "idle" /\ request' = NoRequest /\ stage' = "sent"
    /\ UNCHANGED <<bridge, sentTo, welcome, lost>>

\* A wrong form: what the Bridge said of a name stays when the name is changed.
ClearsNothing(f) == FALSE

\* An input that changes is looked at again.
Clears(f) == f.slug # form.slug /\ notice \in SlugErrors

\* A wrong page: its inputs outlive the form.
InputsAlways == page \in {"signup", "resend"}

Inputs == page = "signup" \/ (page = "resend" /\ status # "success")

\* The inputs are open while a request is under way, too.
Type(f) ==
    /\ Inputs /\ f # form
    /\ page = "resend" => f.slug = form.slug
    /\ form' = f
    /\ notice' = IF Clears(f) THEN "none" ELSE notice
    /\ edited' = IF status = "pending" THEN "yes" ELSE edited
    /\ UNCHANGED <<bridge, places, captcha, mutation, resent, orphans, lost, steps>>

HasCaptcha ==
    \/ page = "signup"
    \/ page = "resend" /\ status # "success"
    \/ page = "pending" /\ resent = "no"

\* Ticking the box gives a token; clearing it takes none back.
Tick ==
    /\ HasCaptcha
    /\ IF ticked = "yes"
       THEN ticked' = "no" /\ UNCHANGED <<token, solved, notice>>
       ELSE /\ ticked' = "yes" /\ token' = "held" /\ solved' = "yes"
            /\ notice' = IF notice \in {"complete", "captcha"} THEN "none" ELSE notice
    /\ UNCHANGED <<bridge, places, form, mutation, resent, orphans, lost, edited, steps>>

-----------------------------------------------------------------------------
(***************************************************************************)
(* Requests.                                                               *)
(***************************************************************************)
Mutate(r) ==
    /\ status' = "pending" /\ request' = r /\ stage' = "sent" /\ edited' = "no"

\* A valid form is sent with the token, or asks for one.
Signup ==
    /\ page = "signup" /\ status # "pending" /\ Blank \notin {form.email, form.slug} /\ Act
    /\ IF token = "none"
       THEN notice' = "complete" /\ UNCHANGED <<mutation, edited>>
       ELSE notice' = "none" /\ Mutate([kind |-> "signup", email |-> form.email, slug |-> form.slug, link |-> 0])
    /\ UNCHANGED <<bridge, places, form, captcha, resent, orphans, lost>>

Resend ==
    /\ page = "resend" /\ status \notin {"pending", "success"}
    /\ form.email # Blank /\ token = "held" /\ Act
    /\ Mutate([kind |-> "resend", email |-> form.email, slug |-> Blank, link |-> 0])
    /\ UNCHANGED <<bridge, places, form, captcha, notice, resent, orphans, lost>>

\* The pending page asks with the mock token if there is no other.
ResendPending ==
    /\ page = "pending" /\ status # "pending" /\ resent = "no" /\ sentTo # Blank /\ Act
    /\ Mutate([kind |-> "resend", email |-> sentTo, slug |-> Blank, link |-> 0])
    /\ UNCHANGED <<bridge, places, form, captcha, notice, resent, orphans, lost>>

\* A link opens its page, which sends its token at once.
OpenLink(i) ==
    /\ i \in DOMAIN links /\ Act
    /\ page' = "verify"
    /\ Abandon
    /\ status' = "pending" /\ stage' = "sent"
    /\ request' = [kind |-> "verify", email |-> Blank, slug |-> Blank, link |-> i]
    /\ UNCHANGED <<bridge, sentTo, welcome, lost>>

-----------------------------------------------------------------------------
(***************************************************************************)
(* The Bridge.                                                             *)
(***************************************************************************)
Mail(e) == links' = IF Len(links) < MaxLinks THEN Append(links, [email |-> e, state |-> "good"]) ELSE links

\* No request names one that was made before: the key of a sign-up is a new one.  What is
\* wrong with a name is said before the e-mail is looked at.
Judge(r) ==
    CASE r.kind = "signup" /\ r.slug \in Reserved -> "reserved"
      [] r.kind = "signup" /\ r.slug \in {accounts[e] : e \in Emails} -> "taken"
      [] r.kind = "verify" /\ links[r.link].state = "expired" -> "expired"
      [] OTHER -> "ok"

Carry(r) ==
    CASE r.kind = "signup" ->
           IF accounts[r.email] = Blank
           THEN accounts' = [accounts EXCEPT ![r.email] = r.slug] /\ Mail(r.email) /\ UNCHANGED verified
           ELSE UNCHANGED bridge
      [] r.kind = "resend" ->
           IF accounts[r.email] # Blank /\ r.email \notin verified
           THEN Mail(r.email) /\ UNCHANGED <<accounts, verified>>
           ELSE UNCHANGED bridge
      [] OTHER -> verified' = verified \cup {links[r.link].email} /\ UNCHANGED <<accounts, links>>

\* The Bridge answers the page's request: it may find the captcha wrong, the link unknown,
\* or the requests too many.
Serve ==
    /\ status = "pending" /\ stage = "sent"
    /\ \/ stage' = Judge(request) /\ IF stage' = "ok" THEN Carry(request) ELSE UNCHANGED bridge
       \/ /\ stage' \in {"failed", IF request.kind = "verify" THEN "invalid" ELSE "captcha"}
          /\ UNCHANGED bridge
    /\ UNCHANGED <<places, form, captcha, notice, status, request, resent, orphans, lost, edited, steps>>

ServeOrphan(r) ==
    /\ orphans' = orphans \ {r}
    /\ \/ Judge(r) = "ok" /\ Carry(r)
       \/ UNCHANGED bridge
    /\ UNCHANGED <<places, form, captcha, notice, mutation, resent, lost, edited, steps>>

Expire(i) ==
    /\ links[i].state = "good"
    /\ links' = [links EXCEPT ![i].state = "expired"]
    /\ UNCHANGED <<accounts, verified, places, form, captcha, notice, mutation, resent, orphans, lost,
                   edited, steps>>

-----------------------------------------------------------------------------
(***************************************************************************)
(* Answers.  None but those the code names are told apart.                 *)
(***************************************************************************)
Arrives(kind, answers) == status = "pending" /\ request.kind = kind /\ stage \in answers

\* A wrong page: it names the e-mail of the form.
AcceptedTyped == form.email

Accepted == request.email

ArriveSignup ==
    /\ Arrives("signup", {"ok"})
    /\ page' = "pending" /\ sentTo' = Accepted
    /\ Abandon
    /\ status' = "idle" /\ request' = NoRequest /\ stage' = "sent"
    /\ UNCHANGED <<bridge, welcome, lost, steps>>

\* A wrong page: it tells of the captcha and keeps the token.
SpendNothing == UNCHANGED token

Spend == token' = "none"

\* The error goes under the input; a captcha that failed takes the token with it, but does
\* not clear the box.
RefuseSignup ==
    /\ Arrives("signup", Answers \ {"ok"})
    /\ status' = stage
    /\ notice' = IF stage \in SlugErrors \cup {"captcha"} THEN stage ELSE notice
    /\ IF stage = "captcha" THEN Spend /\ solved' = "no" ELSE UNCHANGED <<token, solved>>
    /\ UNCHANGED <<bridge, places, form, ticked, request, stage, resent, orphans, lost, edited, steps>>

\* The hook of the resending tells no captcha from other failures.
ArriveResend ==
    /\ Arrives("resend", Answers)
    /\ status' = IF stage = "ok" THEN "success" ELSE "failed"
    /\ resent' = IF page = "pending" /\ stage = "ok" THEN "yes" ELSE resent
    /\ UNCHANGED <<bridge, places, form, captcha, notice, request, stage, orphans, lost, edited, steps>>

\* A wrong page: it welcomes whoever has followed a link.
WelcomesAll == Answers

Welcomes == {"ok"}

ArriveVerify ==
    /\ Arrives("verify", Welcomes)
    /\ page' = "verified" /\ welcome' = links[request.link].email
    /\ Abandon
    /\ status' = "idle" /\ request' = NoRequest /\ stage' = "sent"
    /\ UNCHANGED <<bridge, sentTo, lost, steps>>

\* A wrong page: it waits on when it does not know what is wrong.
RefuseVerifyKnown ==
    /\ Arrives("verify", {"expired", "invalid"})
    /\ status' = stage
    /\ UNCHANGED <<bridge, places, form, captcha, notice, request, stage, resent, orphans, lost, edited, steps>>

RefuseVerify ==
    /\ Arrives("verify", Answers \ Welcomes)
    /\ status' = stage
    /\ UNCHANGED <<bridge, places, form, captcha, notice, request, stage, resent, orphans, lost, edited, steps>>

\* The request, or the answer to it, is lost.
Lose ==
    /\ status = "pending"
    /\ status' = "failed"
    /\ lost' = IF request.kind = "signup" /\ stage = "ok" THEN lost \cup {request.email} ELSE lost
    /\ UNCHANGED <<bridge, places, form, captcha, notice, request, stage, resent, orphans, edited, steps>>

-----------------------------------------------------------------------------
\* Some have signed up already.
OnboardingInit ==
    /\ \E E \in SUBSET Emails : \E f \in [E -> Slugs \ Reserved] :
         /\ \A e, d \in E : f[e] = f[d] => e = d
         /\ accounts = [e \in Emails |-> IF e \in E THEN f[e] ELSE Blank]
    /\ verified = {} /\ links = <<>>
    /\ page \in {"signup", "resend"} /\ sentTo = Blank /\ welcome = Blank
    /\ form = NoForm /\ token = "none" /\ ticked = "no" /\ notice = "none"
    /\ status = "idle" /\ request = NoRequest /\ stage = "sent" /\ resent = "no"
    /\ orphans = {} /\ lost = {} /\ solved = "no" /\ edited = "no" /\ steps = 0

Answered == ArriveSignup \/ RefuseSignup \/ ArriveResend \/ ArriveVerify \/ RefuseVerify

OnboardingNext ==
    \/ \E p \in Pages : OpenPage(p)
    \/ \E e \in Emails \cup {Blank}, s \in Slugs \cup {Blank} : Type([email |-> e, slug |-> s])
    \/ Tick \/ Signup \/ Resend \/ ResendPending
    \/ \E i \in DOMAIN links : OpenLink(i) \/ Expire(i)
    \/ Serve \/ Answered \/ Lose
    \/ \E r \in orphans : ServeOrphan(r)

\* A request is answered or fails, and the page deals with it.
OnboardingSpec == OnboardingInit /\ [][OnboardingNext]_onboardingVars /\ WF_onboardingVars(Serve \/ Answered)

-----------------------------------------------------------------------------
(***************************************************************************)
(* The page that says where the link went names an e-mail that has signed  *)
(* up (SignupPage.tsx:68), whatever the form says by then.                 *)
(***************************************************************************)
PendingTrue == page = "pending" /\ sentTo # Blank => accounts[sentTo] # Blank

\* The page that says a new link was sent names the e-mail it was asked for, unless that was
\* typed over meanwhile (ResendVerificationPage.tsx:33).
ResentTo == page = "resend" /\ status = "success" /\ edited = "no" => form.email = request.email

\* What the Bridge said of a name stands under the input that has it (SignupPage.tsx:72),
\* unless that was typed over while the form was sent.
Owners(s) == {e \in Emails : accounts[e] = s}
SlugErrorTrue ==
    /\ edited = "no" /\ notice = "taken" => Owners(form.slug) # {}
    /\ edited = "no" /\ notice = "reserved" => form.slug \in Reserved

\* After a captcha that failed, no sign-up is sent before the box is ticked again
\* (SignupPage.tsx:77).
CaptchaSolved == [][Signup /\ status' = "pending" => solved = "yes"]_onboardingVars

\* Whoever is welcomed is verified (VerifyEmailPage.tsx:22), and remains so whatever happens to
\* the link.
VerifiedTrue == welcome # Blank => welcome \in verified

\* Where a page says that a step of the sign-up is behind the user, it is.
PagesTrue == PendingTrue /\ VerifiedTrue

\* An answer stands next to the input that was sent.
AnswersFit == ResentTo /\ SlugErrorTrue

\* A page does not wait for ever, and the page of a link shows something in the end
\* (VerifyEmailPage.tsx:46).
Settles == status = "pending" ~> status # "pending"

\* A sign-up that was sent again is not refused for what the first one did (onboarding.ts:107).
SafeResubmit ==
    notice = "taken" /\ status = "taken" /\ request.email \in lost => Owners(request.slug) \ {request.email} # {}
=============================================================================
