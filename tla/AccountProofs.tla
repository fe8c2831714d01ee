--------------------------- MODULE AccountProofs ---------------------------
(***************************************************************************)
(* Proofs about accounts in the web application: signing up (Onboarding)   *)
(* and signing in and out (WebSession).  The two share no state, and each  *)
(* has its own specification.                                              *)
(***************************************************************************)
EXTENDS Onboarding, WebSession, TLAPS, SequenceTheorems, FiniteSetTheorems

(***************************************************************************)
(*                               Signing up.                               *)
(***************************************************************************)
Link == [email : Emails, state : {"good", "expired"}]

(***************************************************************************)
(* What can be asked: a sign-up has an e-mail and a name, and the token of *)
(* a link is that of one that was mailed.                                  *)
(***************************************************************************)
Proper(r) ==
    /\ r.kind \in {"signup", "resend"} => r.email # Blank
    /\ r.kind = "signup" => r.slug # Blank
    /\ r.kind = "verify" => r.link \in DOMAIN links
RequestsProper ==
    /\ \A r \in orphans : r.kind # "none" /\ Proper(r)
    /\ status = "pending" => Proper(request)

\* Mails go to those who have signed up.
LinksOwned == \A i \in DOMAIN links : accounts[links[i].email] # Blank

\* What the Bridge has said of the request under way is true, and remains so.
AnswerTrue ==
    status = "pending" =>
        /\ stage = "ok" /\ request.kind = "signup" => accounts[request.email] # Blank
        /\ stage = "ok" /\ request.kind = "verify" => links[request.link].email \in verified
        /\ stage = "taken" => Owners(request.slug) # {}
        /\ stage = "reserved" => request.slug \in Reserved
        /\ stage \in SlugErrors => request.kind = "signup"

\* The pending page was opened for an e-mail that has signed up.
SentToOwned == sentTo # Blank => accounts[sentTo] # Blank

\* While a form is sent it holds what was sent, unless that was typed over, and the error
\* of the form sent before is gone.  An error about a name is about one that is there.
FormSent ==
    /\ notice \in SlugErrors /\ edited = "no" => form.slug # Blank
    /\ page = "resend" /\ status \in {"pending", "success"} /\ edited = "no" => form.email = request.email
    /\ page = "signup" /\ status = "pending" => notice \notin SlugErrors
    /\ page = "signup" /\ status = "pending" /\ edited = "no" => form.slug = request.slug

\* A token was given for a box that was ticked.
TokenSolved == token = "held" => solved = "yes"

OnboardingIInv ==
    /\ OnboardingTypeOK
    /\ RequestsProper
    /\ LinksOwned
    /\ AnswerTrue
    /\ SentToOwned
    /\ VerifiedTrue
    /\ FormSent
    /\ SlugErrorTrue
    /\ TokenSolved

-----------------------------------------------------------------------------
(***************************************************************************)
(* The Bridge: accounts are never given up, nor verifications taken back,  *)
(* and no link changes its owner.                                          *)
(***************************************************************************)
BridgeTyped ==
    /\ accounts \in [Emails -> Slugs \cup {Blank}]
    /\ \A e, d \in Emails : e # d /\ accounts[e] # Blank => accounts[e] # accounts[d]
    /\ verified \subseteq {e \in Emails : accounts[e] # Blank}
    /\ links \in Seq(Link) /\ Len(links) <= MaxLinks
    /\ LinksOwned

Grows ==
    /\ \A e \in Emails : accounts[e] # Blank => accounts'[e] = accounts[e]
    /\ verified \subseteq verified'
    /\ DOMAIN links \subseteq DOMAIN links'
    /\ \A i \in DOMAIN links : links'[i].email = links[i].email

LEMMA LinksType ==
    links \in UNION {[1 .. n -> Link] : n \in 0 .. MaxLinks} <=> links \in Seq(Link) /\ Len(links) <= MaxLinks
<1>0. MaxLinks \in Nat
  BY OnboardingBounds
<1>1. ASSUME links \in UNION {[1 .. n -> Link] : n \in 0 .. MaxLinks}
      PROVE  links \in Seq(Link) /\ Len(links) <= MaxLinks
  <2>1. PICK n \in 0 .. MaxLinks : links \in [1 .. n -> Link]
    BY <1>1
  <2>2. n \in Nat
    BY <1>0
  <2>3. links \in Seq(Link) /\ Len(links) = n
    BY <2>1, <2>2, SeqDef, LenProperties
  <2> QED
    BY <2>3
<1>2. ASSUME links \in Seq(Link), Len(links) <= MaxLinks
      PROVE  links \in UNION {[1 .. n -> Link] : n \in 0 .. MaxLinks}
  <2>1. links \in [1 .. Len(links) -> Link] /\ Len(links) \in 0 .. MaxLinks
    BY <1>0, <1>2, LenProperties
  <2> QED
    BY <2>1
<1> QED
  BY <1>1, <1>2

LEMMA MailStep ==
    ASSUME BridgeTyped, NEW e \in Emails, Mail(e)
    PROVE  /\ links' \in Seq(Link) /\ Len(links') <= MaxLinks
           /\ DOMAIN links \subseteq DOMAIN links'
           /\ \A i \in DOMAIN links : links'[i].email = links[i].email
           /\ \A i \in DOMAIN links' \ DOMAIN links : links'[i].email = e
<1>1. CASE Len(links) < MaxLinks
  <2>1. [email |-> e, state |-> "good"] \in Link
    BY DEF Link
  <2>2. links' = Append(links, [email |-> e, state |-> "good"])
    BY <1>1 DEF Mail
  <2>3. /\ links' \in Seq(Link)
        /\ Len(links') = Len(links) + 1
        /\ \A i \in 1 .. Len(links) : links'[i] = links[i]
        /\ links'[Len(links) + 1] = [email |-> e, state |-> "good"]
    BY <2>1, <2>2, AppendProperties DEF BridgeTyped
  <2>4. DOMAIN links = 1 .. Len(links) /\ DOMAIN links' = 1 .. Len(links') /\ Len(links) \in Nat
    BY <2>3, LenProperties DEF BridgeTyped
  <2> QED
    BY <1>1, <2>3, <2>4, OnboardingBounds
<1>2. CASE ~ (Len(links) < MaxLinks)
  BY <1>2 DEF Mail, BridgeTyped
<1> QED
  BY <1>1, <1>2

LEMMA LinkEmail ==
    ASSUME BridgeTyped, NEW i \in DOMAIN links
    PROVE  links[i] \in Link /\ links[i].email \in Emails /\ accounts[links[i].email] # Blank
<1>1. links \in Seq(Link) /\ i \in 1 .. Len(links)
  BY LenProperties DEF BridgeTyped
<1>2. links[i] \in Link
  BY <1>1, ElementOfSeq
<1> QED
  BY <1>2 DEF BridgeTyped, LinksOwned, Link

\* What the Bridge does with a request it has found nothing wrong with.
LEMMA CarryStep ==
    ASSUME BridgeTyped, NEW r \in Requests, r.kind # "none", Proper(r), Judge(r) = "ok", Carry(r)
    PROVE  /\ BridgeTyped' /\ Grows
           /\ r.kind = "signup" => accounts'[r.email] # Blank
           /\ r.kind = "verify" => links'[r.link].email \in verified'
<1>1. CASE r.kind = "signup"
  <2>1. r.email \in Emails /\ r.slug \in Slugs /\ r.slug # Blank
    BY <1>1 DEF Proper, Requests
  <2>2. CASE accounts[r.email] = Blank
    <3>1. /\ accounts' = [accounts EXCEPT ![r.email] = r.slug]
          /\ Mail(r.email) /\ verified' = verified
      BY <1>1, <2>2 DEF Carry
    <3>2. \A e \in Emails : accounts[e] # r.slug
      BY <1>1, <2>1 DEF Judge
    <3>3. /\ links' \in Seq(Link) /\ Len(links') <= MaxLinks
          /\ DOMAIN links \subseteq DOMAIN links'
          /\ \A i \in DOMAIN links : links'[i].email = links[i].email
          /\ \A i \in DOMAIN links' \ DOMAIN links : links'[i].email = r.email
      BY <2>1, <3>1, MailStep
    <3>4. \A i \in DOMAIN links : links[i].email \in Emails
      BY LinkEmail
    <3>5. /\ accounts' \in [Emails -> Slugs \cup {Blank}]
          /\ accounts'[r.email] = r.slug
          /\ \A e \in Emails : e # r.email => accounts'[e] = accounts[e]
      BY <2>1, <3>1 DEF BridgeTyped
    <3>6. \A e \in Emails : accounts[e] # Blank => accounts'[e] = accounts[e]
      BY <2>2, <3>5
    <3>7. LinksOwned'
      BY <2>1, <3>3, <3>4, <3>5, <3>6 DEF BridgeTyped, LinksOwned
    <3>8. \A e, d \in Emails : e # d /\ accounts'[e] # Blank => accounts'[e] # accounts'[d]
      BY <2>1, <3>2, <3>5 DEF BridgeTyped
    <3>9. verified' \subseteq {e \in Emails : accounts'[e] # Blank}
      BY <3>1, <3>6 DEF BridgeTyped
    <3> QED
      BY <1>1, <2>1, <3>1, <3>3, <3>5, <3>6, <3>7, <3>8, <3>9 DEF BridgeTyped, Grows
  <2>3. CASE accounts[r.email] # Blank
    BY <1>1, <2>3 DEF Carry, bridge, BridgeTyped, Grows, LinksOwned
  <2> QED
    BY <2>2, <2>3
<1>2. CASE r.kind = "resend"
  <2>1. r.email \in Emails
    BY <1>2 DEF Proper, Requests
  <2>2. CASE accounts[r.email] # Blank /\ r.email \notin verified
    <3>1. Mail(r.email) /\ UNCHANGED <<accounts, verified>>
      BY <1>2, <2>2 DEF Carry
    <3>2. /\ links' \in Seq(Link) /\ Len(links') <= MaxLinks
          /\ DOMAIN links \subseteq DOMAIN links'
          /\ \A i \in DOMAIN links : links'[i].email = links[i].email
          /\ \A i \in DOMAIN links' \ DOMAIN links : links'[i].email = r.email
      BY <2>1, <3>1, MailStep
    <3>3. LinksOwned'
      BY <2>2, <3>1, <3>2 DEF BridgeTyped, LinksOwned
    <3> QED
      BY <1>2, <3>1, <3>2, <3>3 DEF BridgeTyped, Grows
  <2>3. CASE ~ (accounts[r.email] # Blank /\ r.email \notin verified)
    BY <1>2, <2>3 DEF Carry, bridge, BridgeTyped, Grows, LinksOwned
  <2> QED
    BY <2>2, <2>3
<1>3. CASE r.kind = "verify"
  <2>1. verified' = verified \cup {links[r.link].email} /\ UNCHANGED <<accounts, links>>
    BY <1>3 DEF Carry
  <2>2. r.link \in DOMAIN links
    BY <1>3 DEF Proper
  <2>3. links[r.link].email \in Emails /\ accounts[links[r.link].email] # Blank
    BY <2>2, LinkEmail
  <2> QED
    BY <1>3, <2>1, <2>3 DEF BridgeTyped, Grows, LinksOwned
<1> QED
  BY <1>1, <1>2, <1>3 DEF Requests
-----------------------------------------------------------------------------
(***************************************************************************)
(* The tab.                                                                *)
(***************************************************************************)
TabTyped ==
    /\ page \in Pages /\ sentTo \in Emails \cup {Blank} /\ welcome \in Emails \cup {Blank}
    /\ page = "verified" => welcome # Blank
    /\ form \in [email : Emails \cup {Blank}, slug : Slugs \cup {Blank}]
    /\ token \in {"held", "none"} /\ ticked \in {"yes", "no"} /\ solved \in {"yes", "no"}
    /\ notice \in SlugErrors \cup {"none", "complete", "captcha"}
    /\ notice # "none" => page = "signup"
    /\ status \in {"idle", "pending", "success"} \cup (Answers \ {"ok"})
    /\ request \in Requests /\ stage \in Answers \cup {"sent"}
    /\ status = "pending" => request.kind = CASE page = "signup" -> "signup" [] page = "verify" -> "verify"
                                              [] OTHER -> "resend"
    /\ resent \in {"yes", "no"} /\ orphans \subseteq Requests
    /\ lost \subseteq Emails /\ edited \in {"yes", "no"} /\ steps \in 0 .. MaxSteps

LEMMA TypeParts == OnboardingTypeOK /\ LinksOwned <=> BridgeTyped /\ TabTyped
  BY LinksType DEF OnboardingTypeOK, BridgeTyped, TabTyped, Link

LEMMA BridgeStays == BridgeTyped /\ UNCHANGED bridge => BridgeTyped' /\ Grows
  BY DEF bridge, BridgeTyped, Grows, LinksOwned

\* Every step leaves the Bridge alone or has it carry out a request.
LEMMA BridgeStep ==
    ASSUME OnboardingIInv, [OnboardingNext]_onboardingVars
    PROVE  BridgeTyped' /\ Grows
<1>1. BridgeTyped /\ TabTyped
  BY TypeParts DEF OnboardingIInv
<1>2. ASSUME NEW p \in Pages, OpenPage(p) PROVE UNCHANGED bridge
  BY <1>2 DEF OpenPage
<1>3. ASSUME NEW f, Type(f) PROVE UNCHANGED bridge
  BY <1>3 DEF Type
<1>4. CASE Tick \/ Signup \/ Resend \/ ResendPending \/ Answered \/ Lose
  BY <1>1, <1>4, BridgeStays DEF Tick, Signup, Resend, ResendPending, Answered, ArriveSignup, RefuseSignup, ArriveResend,
              ArriveVerify, RefuseVerify, Lose
<1>5. ASSUME NEW i \in DOMAIN links, OpenLink(i) PROVE UNCHANGED bridge
  BY <1>5 DEF OpenLink
<1>6. ASSUME NEW i \in DOMAIN links, Expire(i) PROVE BridgeTyped' /\ Grows
  <2>1. links \in Seq(Link) /\ links[i] \in Link /\ DOMAIN links = 1 .. Len(links)
    BY <1>1, LinkEmail, LenProperties DEF BridgeTyped
  <2>2. links' = [links EXCEPT ![i].state = "expired"] /\ UNCHANGED <<accounts, verified>>
    BY <1>6 DEF Expire
  <2>3. links' = [links EXCEPT ![i] = [links[i] EXCEPT !.state = "expired"]]
    BY <2>2
  <2>4. [links[i] EXCEPT !.state = "expired"] \in Link /\ [links[i] EXCEPT !.state = "expired"].email = links[i].email
    BY <2>1 DEF Link
  <2>5. links' \in Seq(Link) /\ Len(links') = Len(links)
    BY <1>6, <2>1, <2>3, <2>4, ExceptSeq
  <2>6. DOMAIN links' = DOMAIN links /\ \A j \in DOMAIN links : links'[j].email = links[j].email
    BY <2>1, <2>3, <2>4
  <2> QED
    BY <1>1, <2>2, <2>5, <2>6 DEF BridgeTyped, Grows, LinksOwned
<1>7. CASE Serve
  <2>1. status = "pending" /\ request \in Requests /\ request.kind # "none" /\ Proper(request)
    BY <1>1, <1>7 DEF Serve, TabTyped, OnboardingIInv, RequestsProper
  <2>2. CASE UNCHANGED bridge
    BY <1>1, <2>2, BridgeStays
  <2>3. CASE Judge(request) = "ok" /\ Carry(request)
    BY <1>1, <2>1, <2>3, CarryStep
  <2> QED
    BY <1>7, <2>2, <2>3 DEF Serve
<1>8. ASSUME NEW r \in orphans, ServeOrphan(r) PROVE BridgeTyped' /\ Grows
  <2>1. r \in Requests /\ r.kind # "none" /\ Proper(r)
    BY <1>1 DEF TabTyped, OnboardingIInv, RequestsProper
  <2>2. CASE UNCHANGED bridge
    BY <1>1, <2>2, BridgeStays
  <2>3. CASE Judge(r) = "ok" /\ Carry(r)
    BY <1>1, <2>1, <2>3, CarryStep
  <2> QED
    BY <1>8, <2>2, <2>3 DEF ServeOrphan
<1>9. CASE UNCHANGED onboardingVars
  BY <1>1, <1>9, BridgeStays DEF onboardingVars
<1> QED
  BY <1>1, <1>2, <1>3, <1>4, <1>5, <1>6, <1>7, <1>8, <1>9, BridgeStays DEF OnboardingNext

LEMMA TabStep ==
    ASSUME OnboardingIInv, [OnboardingNext]_onboardingVars
    PROVE  TabTyped'
<1>1. BridgeTyped /\ TabTyped
  BY TypeParts DEF OnboardingIInv
<1>2. NoForm \in [email : Emails \cup {Blank}, slug : Slugs \cup {Blank}] /\ NoRequest \in Requests
  BY OnboardingBounds DEF NoForm, NoRequest, Requests
<1>3. orphans \cup {request} \subseteq Requests
  BY <1>1 DEF TabTyped
<1>4. ASSUME NEW p \in Pages, OpenPage(p) PROVE TabTyped'
  BY <1>1, <1>2, <1>3, <1>4, OnboardingBounds DEF OpenPage, Act, Abandon, TabTyped, Pages
<1>5. ASSUME NEW e \in Emails \cup {Blank}, NEW s \in Slugs \cup {Blank}, Type([email |-> e, slug |-> s]) PROVE TabTyped'
  BY <1>1, <1>5 DEF Type, TabTyped, places, captcha, mutation
<1>6. CASE Tick
  BY <1>1, <1>6 DEF Tick, HasCaptcha, TabTyped, places, mutation
<1>7. CASE Signup
  <2>1. [kind |-> "signup", email |-> form.email, slug |-> form.slug, link |-> 0] \in Requests
    BY <1>1, <1>7, OnboardingBounds DEF Signup, TabTyped, Requests
  <2> QED
    BY <1>1, <1>7, <2>1, OnboardingBounds DEF Signup, Act, Mutate, mutation, TabTyped, places, captcha
<1>8. CASE Resend
  <2>1. [kind |-> "resend", email |-> form.email, slug |-> Blank, link |-> 0] \in Requests
    BY <1>1, <1>8, OnboardingBounds DEF Resend, TabTyped, Requests
  <2> QED
    BY <1>1, <1>8, <2>1, OnboardingBounds DEF Resend, Act, Mutate, TabTyped, places, captcha
<1>9. CASE ResendPending
  <2>1. [kind |-> "resend", email |-> sentTo, slug |-> Blank, link |-> 0] \in Requests
    BY <1>1, <1>9, OnboardingBounds DEF ResendPending, TabTyped, Requests
  <2> QED
    BY <1>1, <1>9, <2>1, OnboardingBounds DEF ResendPending, Act, Mutate, TabTyped, places, captcha
<1>10. ASSUME NEW i \in DOMAIN links, OpenLink(i) PROVE TabTyped'
  <2>1. i \in 0 .. MaxLinks
    BY <1>1, LenProperties, OnboardingBounds DEF BridgeTyped
  <2>2. [kind |-> "verify", email |-> Blank, slug |-> Blank, link |-> i] \in Requests
    BY <2>1 DEF Requests
  <2> QED
    BY <1>1, <1>2, <1>3, <1>10, <2>2, OnboardingBounds DEF OpenLink, Act, Abandon, TabTyped, Pages
<1>11. ASSUME NEW i \in DOMAIN links, Expire(i) PROVE TabTyped'
  BY <1>1, <1>11 DEF Expire, TabTyped, places, captcha, mutation
<1>12. CASE Serve
  <2>1. stage' \in Answers
    BY <1>1, <1>12 DEF Serve, Judge, TabTyped, Answers, SlugErrors
  <2> QED
    BY <1>1, <1>12, <2>1 DEF Serve, TabTyped, places, captcha
<1>13. CASE ArriveSignup
  <2>1. request.email \in Emails \cup {Blank}
    BY <1>1 DEF TabTyped, Requests
  <2> QED
    BY <1>1, <1>2, <1>3, <1>13, <2>1 DEF ArriveSignup, Accepted, Abandon, TabTyped, Pages
<1>14. CASE RefuseSignup
  BY <1>1, <1>14 DEF RefuseSignup, Arrives, Spend, TabTyped, places, SlugErrors, Answers
<1>15. CASE ArriveResend
  BY <1>1, <1>15 DEF ArriveResend, Arrives, TabTyped, places, captcha, SlugErrors, Answers
<1>16. CASE ArriveVerify
  <2>1. status = "pending" /\ request.kind = "verify"
    BY <1>16 DEF ArriveVerify, Arrives
  <2>2. request.link \in DOMAIN links
    BY <2>1 DEF OnboardingIInv, RequestsProper, Proper
  <2>3. links[request.link].email \in Emails
    BY <1>1, <2>2, LinkEmail
  <2>4. welcome' \in Emails /\ welcome' # Blank
    BY <1>16, <2>3, BlankAssumption DEF ArriveVerify
  <2> QED
    BY <1>1, <1>2, <1>3, <1>16, <2>4 DEF ArriveVerify, Abandon, TabTyped, Pages
<1>17. CASE RefuseVerify
  BY <1>1, <1>17 DEF RefuseVerify, Arrives, Welcomes, TabTyped, places, captcha
<1>18. CASE Lose
  <2>1. request.kind = "signup" /\ status = "pending" => request.email \in Emails
    BY <1>1 DEF OnboardingIInv, RequestsProper, Proper, TabTyped, Requests
  <2> QED
    BY <1>1, <1>18, <2>1 DEF Lose, TabTyped, places, captcha, Answers
<1>19. ASSUME NEW r \in orphans, ServeOrphan(r) PROVE TabTyped'
  BY <1>1, <1>19 DEF ServeOrphan, TabTyped, places, captcha, mutation
<1>20. CASE UNCHANGED onboardingVars
  BY <1>1, <1>20 DEF onboardingVars, TabTyped, places, captcha, mutation
<1> QED
  BY <1>4, <1>5, <1>6, <1>7, <1>8, <1>9, <1>10, <1>11, <1>12, <1>13, <1>14, <1>15, <1>16, <1>17, <1>18, <1>19, <1>20
  DEF OnboardingNext, Answered
-----------------------------------------------------------------------------
(***************************************************************************)
(* What the requests are, and what the pages say.                             *)
(***************************************************************************)
\* Each page sends requests of one kind.
LEMMA KindOfPage ==
    ASSUME TabTyped, status = "pending"
    PROVE  /\ page = "signup" => request.kind = "signup"
           /\ page = "verify" => request.kind = "verify"
           /\ page \notin {"signup", "verify"} => request.kind = "resend"
<1>1. request.kind = CASE page = "signup" -> "signup" [] page = "verify" -> "verify" [] OTHER -> "resend"
  BY DEF TabTyped
<1>2. CASE page = "signup"
  BY <1>1, <1>2
<1>3. CASE page = "verify"
  BY <1>1, <1>3
<1>4. CASE page \notin {"signup", "verify"}
  BY <1>1, <1>4
<1> QED
  BY <1>2, <1>3, <1>4

LEMMA RequestsStep ==
    ASSUME OnboardingIInv, [OnboardingNext]_onboardingVars
    PROVE  RequestsProper'
<1>1. BridgeTyped /\ TabTyped /\ RequestsProper /\ SentToOwned
  BY TypeParts DEF OnboardingIInv
<1>2. \A r : Proper(r) => Proper(r)'
  BY BridgeStep DEF Proper, Grows
<1>3. \A r \in orphans : r.kind # "none" /\ Proper(r)'
  BY <1>1, <1>2 DEF RequestsProper
<1>4. status = "pending" => \A r : r = request => r.kind # "none" /\ Proper(r)'
  BY <1>1, <1>2, KindOfPage DEF RequestsProper
<1>5. CASE orphans' \subseteq orphans \cup (IF status = "pending" THEN {request} ELSE {})
           /\ (status' # "pending" \/ (status = "pending" /\ request' = request))
  <2>1. \A r \in orphans' : r.kind # "none" /\ Proper(r)'
    BY <1>3, <1>4, <1>5
  <2>2. status' = "pending" => Proper(request)'
    BY <1>4, <1>5 DEF Proper
  <2> QED
    BY <2>1, <2>2 DEF RequestsProper, Proper
<1>6. ASSUME orphans' \subseteq orphans \cup (IF status = "pending" THEN {request} ELSE {}),
             Proper(request)' PROVE RequestsProper'
  <2>1. \A r \in orphans' : r.kind # "none" /\ Proper(r)'
    BY <1>3, <1>4, <1>6
  <2> QED
    BY <1>6, <2>1 DEF RequestsProper, Proper
<1>7. ASSUME NEW p \in Pages, OpenPage(p) PROVE RequestsProper'
  BY <1>5, <1>7 DEF OpenPage, Abandon
<1>8. ASSUME NEW f, Type(f) PROVE RequestsProper'
  BY <1>5, <1>8 DEF Type, mutation
<1>9. CASE Tick \/ Serve
  BY <1>5, <1>9 DEF Tick, Serve, mutation
<1>10. CASE Signup
  <2>1. CASE UNCHANGED mutation
    BY <1>5, <1>10, <2>1 DEF Signup, mutation
  <2>2. CASE Mutate([kind |-> "signup", email |-> form.email, slug |-> form.slug, link |-> 0])
    BY <1>6, <1>10, <2>2 DEF Signup, Mutate, Proper
  <2> QED
    BY <1>10, <2>1, <2>2 DEF Signup
<1>11. CASE Resend
  BY <1>6, <1>11 DEF Resend, Mutate, Proper
<1>12. CASE ResendPending
  BY <1>6, <1>12 DEF ResendPending, Mutate, Proper
<1>13. ASSUME NEW i \in DOMAIN links, OpenLink(i) PROVE RequestsProper'
  BY <1>6, <1>13 DEF OpenLink, Abandon, Proper, bridge
<1>14. ASSUME NEW i \in DOMAIN links, Expire(i) PROVE RequestsProper'
  BY <1>5, <1>14 DEF Expire, mutation
<1>15. CASE Answered
  BY <1>5, <1>15 DEF Answered, ArriveSignup, RefuseSignup, ArriveResend, ArriveVerify, RefuseVerify, Arrives, Abandon
<1>16. CASE Lose
  BY <1>5, <1>16 DEF Lose
<1>17. ASSUME NEW r \in orphans, ServeOrphan(r) PROVE RequestsProper'
  BY <1>5, <1>17 DEF ServeOrphan, mutation
<1>18. CASE UNCHANGED onboardingVars
  BY <1>5, <1>18 DEF onboardingVars, mutation
<1> QED
  BY <1>7, <1>8, <1>9, <1>10, <1>11, <1>12, <1>13, <1>14, <1>15, <1>16, <1>17, <1>18 DEF OnboardingNext

\* An answer the Bridge gives is true when it is given, and stays so.
LEMMA AnswerStep ==
    ASSUME OnboardingIInv, [OnboardingNext]_onboardingVars
    PROVE  AnswerTrue'
<1>1. BridgeTyped /\ TabTyped /\ RequestsProper /\ AnswerTrue
  BY TypeParts DEF OnboardingIInv
<1>2. \A s : s # Blank /\ Owners(s) # {} => Owners(s)' # {}
  BY BridgeStep DEF Owners, Grows
<1>3. CASE status' # "pending" \/ stage' \notin {"ok", "taken", "reserved"}
  BY <1>3 DEF AnswerTrue, SlugErrors
<1>4. request \in Requests /\ (status = "pending" => Proper(request))
  BY <1>1 DEF TabTyped, RequestsProper
<1>5. CASE UNCHANGED <<status, request, stage>>
  <2>1. SUFFICES ASSUME status = "pending"
                 PROVE  /\ stage = "ok" /\ request.kind = "signup" => accounts'[request.email] # Blank
                        /\ stage = "ok" /\ request.kind = "verify" => links'[request.link].email \in verified'
                        /\ stage = "taken" => Owners(request.slug)' # {}
                        /\ stage = "reserved" => request.slug \in Reserved
                        /\ stage \in SlugErrors => request.kind = "signup"
    BY <1>5 DEF AnswerTrue, Owners
  <2>2. request.kind = "signup" => request.email \in Emails
    BY <1>4, <2>1 DEF Proper, Requests
  <2>3. stage \in SlugErrors => request.kind = "signup"
    BY <1>1, <2>1 DEF AnswerTrue
  <2>4. stage = "taken" => Owners(request.slug)' # {}
    <3>1. stage = "taken" => Owners(request.slug) # {} /\ request.slug # Blank
      BY <1>1, <1>4, <2>1, <2>3 DEF AnswerTrue, Proper, SlugErrors
    <3> QED
      BY <1>2, <1>5, <3>1 DEF Owners
  <2> QED
    BY <1>1, <1>4, <2>1, <2>2, <2>3, <2>4, BridgeStep DEF AnswerTrue, Grows, Proper
<1>6. ASSUME NEW p \in Pages, OpenPage(p) PROVE AnswerTrue'
  BY <1>3, <1>6 DEF OpenPage
<1>7. ASSUME NEW f, Type(f) PROVE AnswerTrue'
  BY <1>5, <1>7 DEF Type, mutation
<1>8. CASE Tick
  BY <1>5, <1>8 DEF Tick, mutation
<1>9. CASE Signup \/ Resend \/ ResendPending
  BY <1>3, <1>5, <1>9 DEF Signup, Resend, ResendPending, Mutate, mutation
<1>10. ASSUME NEW i \in DOMAIN links, OpenLink(i) PROVE AnswerTrue'
  BY <1>3, <1>10 DEF OpenLink
<1>11. ASSUME NEW i \in DOMAIN links, Expire(i) PROVE AnswerTrue'
  BY <1>5, <1>11 DEF Expire, mutation
<1>12. CASE Serve
  <2>1. status = "pending" /\ request.kind # "none" /\ request' = request /\ status' = status
    BY <1>1, <1>12 DEF Serve, TabTyped
  <2>2. CASE stage' \notin {"ok", "taken", "reserved"}
    BY <1>3, <2>2
  <2>3. CASE stage' = Judge(request) /\ stage' = "ok"
    <3>1. Carry(request)
      BY <1>12, <2>3 DEF Serve
    <3>2. /\ request.kind = "signup" => accounts'[request.email] # Blank
          /\ request.kind = "verify" => links'[request.link].email \in verified'
      BY <1>1, <1>4, <2>1, <2>3, <3>1, CarryStep
    <3> QED
      BY <2>1, <2>3, <3>2 DEF AnswerTrue, SlugErrors
  <2>4. CASE stage' = Judge(request) /\ stage' = "taken"
    <3>1. request.kind = "signup" /\ \E e \in Emails : accounts[e] = request.slug
      BY <2>4 DEF Judge
    <3>2. UNCHANGED bridge
      BY <1>12, <2>4 DEF Serve
    <3> QED
      BY <2>1, <2>4, <3>1, <3>2 DEF AnswerTrue, Owners, bridge
  <2>5. CASE stage' = Judge(request) /\ stage' = "reserved"
    <3>1. request.kind = "signup" /\ request.slug \in Reserved
      BY <2>5 DEF Judge
    <3> QED
      BY <2>1, <2>5, <3>1 DEF AnswerTrue
  <2>6. stage' = Judge(request) \/ stage' \notin {"ok", "taken", "reserved"}
    BY <1>12 DEF Serve
  <2> QED
    BY <2>2, <2>3, <2>4, <2>5, <2>6
<1>13. CASE Answered
  BY <1>3, <1>13 DEF Answered, ArriveSignup, RefuseSignup, ArriveResend, ArriveVerify, RefuseVerify, Arrives, Answers,
                     SlugErrors
<1>14. CASE Lose
  BY <1>3, <1>14 DEF Lose
<1>15. ASSUME NEW r \in orphans, ServeOrphan(r) PROVE AnswerTrue'
  BY <1>5, <1>15 DEF ServeOrphan, mutation
<1>16. CASE UNCHANGED onboardingVars
  BY <1>5, <1>16 DEF onboardingVars, mutation
<1> QED
  BY <1>6, <1>7, <1>8, <1>9, <1>10, <1>11, <1>12, <1>13, <1>14, <1>15, <1>16 DEF OnboardingNext

\* The pages that are opened by an answer name an e-mail for which it was given.
LEMMA PlacesStep ==
    ASSUME OnboardingIInv, [OnboardingNext]_onboardingVars
    PROVE  SentToOwned' /\ VerifiedTrue'
<1>1. BridgeTyped /\ TabTyped /\ RequestsProper /\ AnswerTrue /\ SentToOwned /\ VerifiedTrue
  BY TypeParts DEF OnboardingIInv
<1>2. ASSUME UNCHANGED sentTo PROVE SentToOwned'
  <2>1. sentTo # Blank => sentTo \in Emails /\ accounts[sentTo] # Blank
    BY <1>1 DEF SentToOwned, TabTyped
  <2> QED
    BY <1>2, <2>1, BridgeStep DEF SentToOwned, Grows
<1>3. ASSUME UNCHANGED welcome PROVE VerifiedTrue'
  <2>1. verified \subseteq verified'
    BY BridgeStep DEF Grows
  <2> QED
    BY <1>1, <1>3, <2>1 DEF VerifiedTrue
<1>4. ASSUME NEW p \in Pages, OpenPage(p) PROVE UNCHANGED <<sentTo, welcome>>
  BY <1>4 DEF OpenPage
<1>5. ASSUME NEW f, Type(f) PROVE UNCHANGED <<sentTo, welcome>>
  BY <1>5 DEF Type, places
<1>6. ASSUME NEW i \in DOMAIN links, OpenLink(i) \/ Expire(i) PROVE UNCHANGED <<sentTo, welcome>>
  BY <1>6 DEF OpenLink, Expire, places
<1>7. CASE Tick \/ Signup \/ Resend \/ ResendPending \/ Serve \/ RefuseSignup \/ ArriveResend \/ RefuseVerify \/ Lose
  BY <1>2, <1>3, <1>7 DEF Tick, Signup, Resend, ResendPending, Serve, RefuseSignup, ArriveResend, RefuseVerify, Lose, places
<1>8. ASSUME NEW r \in orphans, ServeOrphan(r) PROVE UNCHANGED <<sentTo, welcome>>
  BY <1>8 DEF ServeOrphan, places
<1>9. CASE ArriveSignup
  BY <1>1, <1>3, <1>9 DEF ArriveSignup, Arrives, Accepted, SentToOwned, AnswerTrue, bridge
<1>10. CASE ArriveVerify
  BY <1>1, <1>2, <1>10 DEF ArriveVerify, Arrives, Welcomes, VerifiedTrue, AnswerTrue, bridge
<1>11. CASE UNCHANGED onboardingVars
  BY <1>2, <1>3, <1>11 DEF onboardingVars, places
<1> QED
  BY <1>2, <1>3, <1>4, <1>5, <1>6, <1>7, <1>8, <1>9, <1>10, <1>11 DEF OnboardingNext, Answered

\* What the form has, while it is sent and when the answer stands next to it.
LEMMA FormStep ==
    ASSUME OnboardingIInv, [OnboardingNext]_onboardingVars
    PROVE  FormSent' /\ SlugErrorTrue'
<1>1. BridgeTyped /\ TabTyped /\ RequestsProper /\ AnswerTrue /\ FormSent /\ SlugErrorTrue
  BY TypeParts DEF OnboardingIInv
<1>2. \A s : s # Blank /\ Owners(s) # {} => Owners(s)' # {}
  BY BridgeStep DEF Owners, Grows
<1>3. ASSUME UNCHANGED <<page, form, notice, edited>>, UNCHANGED <<status, request>> \/ status' \notin {"pending", "success"}
      PROVE  FormSent' /\ SlugErrorTrue'
  <2>1. FormSent'
    BY <1>1, <1>3 DEF FormSent
  <2>2. edited = "no" /\ notice = "taken" => Owners(form.slug)' # {}
    BY <1>1, <1>2, <1>3 DEF SlugErrorTrue, FormSent, SlugErrors, Owners
  <2> QED
    BY <1>1, <1>3, <2>1, <2>2 DEF SlugErrorTrue, Owners
<1>4. ASSUME notice' = "none", status' \notin {"pending", "success"} PROVE FormSent' /\ SlugErrorTrue'
  BY <1>4 DEF FormSent, SlugErrorTrue, SlugErrors
<1>5. ASSUME NEW p \in Pages, OpenPage(p) PROVE FormSent' /\ SlugErrorTrue'
  BY <1>4, <1>5 DEF OpenPage, Abandon
<1>6. ASSUME NEW e \in Emails \cup {Blank}, NEW s \in Slugs \cup {Blank}, Type([email |-> e, slug |-> s])
      PROVE FormSent' /\ SlugErrorTrue'
  <2> DEFINE f == [email |-> e, slug |-> s]
  <2>1. /\ Inputs /\ form' = f /\ UNCHANGED <<page, status, request, bridge>>
        /\ page = "resend" => f.slug = form.slug
        /\ notice' = IF Clears(f) THEN "none" ELSE notice
        /\ edited' = IF status = "pending" THEN "yes" ELSE edited
    BY <1>6 DEF Type, places, mutation
  <2>2. notice' \in SlugErrors => f.slug = form.slug /\ notice' = notice
    BY <2>1 DEF Clears, SlugErrors
  <2>3. FormSent'
    <3>1. notice' \in SlugErrors /\ edited' = "no" => form'.slug # Blank
      BY <1>1, <2>1, <2>2 DEF FormSent
    <3>2. ~ (page = "resend" /\ status \in {"pending", "success"} /\ edited' = "no")
      BY <2>1 DEF Inputs
    <3>3. page = "signup" /\ status = "pending" => notice' \notin SlugErrors
      BY <1>1, <2>2 DEF FormSent
    <3>4. ~ (page = "signup" /\ status = "pending" /\ edited' = "no")
      BY <2>1
    <3> QED
      BY <2>1, <3>1, <3>2, <3>3, <3>4 DEF FormSent
  <2>4. SlugErrorTrue'
    BY <1>1, <2>1, <2>2 DEF SlugErrorTrue, SlugErrors, Owners, bridge, FormSent
  <2> QED
    BY <2>3, <2>4
<1>7. CASE Tick
  <2>1. UNCHANGED <<bridge, page, form, status, request, edited>> /\ (notice' = notice \/ notice' = "none")
    BY <1>7 DEF Tick, places, mutation
  <2> QED
    BY <1>1, <2>1 DEF FormSent, SlugErrorTrue, SlugErrors, Owners, bridge
<1>8. CASE Signup
  <2>1. CASE UNCHANGED <<mutation, edited>> /\ notice' = "complete"
    BY <1>1, <1>8, <2>1 DEF Signup, mutation, places, FormSent, SlugErrorTrue, SlugErrors
  <2>2. CASE notice' = "none" /\ Mutate([kind |-> "signup", email |-> form.email, slug |-> form.slug, link |-> 0])
    BY <1>1, <1>8, <2>2 DEF Signup, Mutate, places, FormSent, SlugErrorTrue, SlugErrors
  <2> QED
    BY <1>8, <2>1, <2>2 DEF Signup
<1>9. CASE Resend \/ ResendPending
  <2>1. notice = "none" /\ page # "signup"
    BY <1>1, <1>9 DEF Resend, ResendPending, TabTyped
  <2> QED
    BY <1>1, <1>9, <2>1 DEF Resend, ResendPending, Mutate, places, FormSent, SlugErrorTrue, SlugErrors
<1>10. ASSUME NEW i \in DOMAIN links, OpenLink(i) PROVE FormSent' /\ SlugErrorTrue'
  BY <1>10 DEF OpenLink, Abandon, FormSent, SlugErrorTrue, SlugErrors
<1>11. ASSUME NEW i \in DOMAIN links, Expire(i) PROVE FormSent' /\ SlugErrorTrue'
  BY <1>3, <1>11 DEF Expire, mutation, places
<1>12. CASE Serve \/ Lose
  BY <1>3, <1>12 DEF Serve, Lose, places
<1>13. CASE ArriveSignup \/ ArriveVerify
  BY <1>4, <1>13 DEF ArriveSignup, ArriveVerify, Abandon
<1>14. CASE RefuseSignup
  <2>1. /\ status = "pending" /\ request.kind = "signup" /\ stage # "ok" /\ status' = stage
        /\ UNCHANGED <<bridge, page, form, request, edited>>
        /\ notice' = IF stage \in SlugErrors \cup {"captcha"} THEN stage ELSE notice
        /\ stage \in Answers
    BY <1>14 DEF RefuseSignup, Arrives, places
  <2>2. page = "signup" /\ request.slug # Blank
    BY <1>1, <2>1, KindOfPage DEF RequestsProper, Proper
  <2>3. notice \notin SlugErrors /\ (edited = "no" => form.slug = request.slug)
    BY <1>1, <2>1, <2>2 DEF FormSent
  <2>4. /\ stage = "taken" => Owners(request.slug) # {}
        /\ stage = "reserved" => request.slug \in Reserved
    BY <1>1, <2>1 DEF AnswerTrue
  <2>5. status' \notin {"pending", "success"}
    BY <2>1 DEF Answers, SlugErrors
  <2>6. FormSent'
    BY <2>1, <2>2, <2>3, <2>5 DEF FormSent
  <2>7. SlugErrorTrue'
    BY <2>1, <2>3, <2>4 DEF SlugErrorTrue, Owners, bridge, SlugErrors
  <2> QED
    BY <2>6, <2>7
<1>15. CASE ArriveResend
  <2>1. status = "pending" /\ request.kind = "resend" /\ UNCHANGED <<bridge, page, form, notice, request, edited>>
    BY <1>15 DEF ArriveResend, Arrives, places
  <2>2. page # "signup" /\ notice = "none"
    BY <1>1, <2>1, KindOfPage DEF TabTyped
  <2> QED
    BY <1>1, <2>1, <2>2 DEF FormSent, SlugErrorTrue, SlugErrors
<1>16. CASE RefuseVerify
  <2>1. status' \notin {"pending", "success"}
    BY <1>16 DEF RefuseVerify, Arrives, Answers, SlugErrors
  <2> QED
    BY <1>3, <1>16, <2>1 DEF RefuseVerify, places
<1>17. ASSUME NEW r \in orphans, ServeOrphan(r) PROVE FormSent' /\ SlugErrorTrue'
  BY <1>3, <1>17 DEF ServeOrphan, mutation, places
<1>18. CASE UNCHANGED onboardingVars
  BY <1>3, <1>18 DEF onboardingVars, mutation, places
<1> QED
  BY <1>5, <1>6, <1>7, <1>8, <1>9, <1>10, <1>11, <1>12, <1>13, <1>14, <1>15, <1>16, <1>17, <1>18
  DEF OnboardingNext, Answered

\* The token goes with the solution: a captcha that failed takes both.
LEMMA TokenStep ==
    ASSUME OnboardingIInv, [OnboardingNext]_onboardingVars
    PROVE  TokenSolved'
<1>1. TokenSolved
  BY DEF OnboardingIInv
<1>2. CASE UNCHANGED <<token, solved>> \/ token' = "none" \/ solved' = "yes"
  BY <1>1, <1>2 DEF TokenSolved
<1>3. ASSUME NEW p \in Pages, OpenPage(p) PROVE TokenSolved'
  BY <1>2, <1>3 DEF OpenPage, Abandon
<1>4. ASSUME NEW f, Type(f) PROVE TokenSolved'
  BY <1>2, <1>4 DEF Type, captcha
<1>5. ASSUME NEW i \in DOMAIN links, OpenLink(i) \/ Expire(i) PROVE TokenSolved'
  BY <1>2, <1>5 DEF OpenLink, Expire, Abandon, captcha
<1>6. CASE Tick \/ Signup \/ Resend \/ ResendPending \/ Serve \/ Lose
  BY <1>2, <1>6 DEF Tick, Signup, Resend, ResendPending, Serve, Lose, captcha
<1>7. CASE Answered
  BY <1>2, <1>7 DEF Answered, ArriveSignup, RefuseSignup, ArriveResend, ArriveVerify, RefuseVerify, Abandon, Spend, captcha
<1>8. ASSUME NEW r \in orphans, ServeOrphan(r) PROVE TokenSolved'
  BY <1>2, <1>8 DEF ServeOrphan, captcha
<1>9. CASE UNCHANGED onboardingVars
  BY <1>2, <1>9 DEF onboardingVars, captcha
<1> QED
  BY <1>3, <1>4, <1>5, <1>6, <1>7, <1>8, <1>9 DEF OnboardingNext

-----------------------------------------------------------------------------
LEMMA InitOnboarding == OnboardingInit => OnboardingIInv
<1> SUFFICES ASSUME OnboardingInit PROVE OnboardingIInv
  OBVIOUS
<1>0. PICK E \in SUBSET Emails : \E f \in [E -> Slugs \ Reserved] :
          /\ \A e, d \in E : f[e] = f[d] => e = d
          /\ accounts = [e \in Emails |-> IF e \in E THEN f[e] ELSE Blank]
  BY DEF OnboardingInit
<1>1. PICK f \in [E -> Slugs \ Reserved] :
          /\ \A e, d \in E : f[e] = f[d] => e = d
          /\ accounts = [e \in Emails |-> IF e \in E THEN f[e] ELSE Blank]
  BY <1>0
<1>2. \A e \in E : f[e] \in Slugs /\ f[e] # Blank
  BY BlankAssumption
<1>3. /\ accounts \in [Emails -> Slugs \cup {Blank}]
      /\ \A e, d \in Emails : e # d /\ accounts[e] # Blank => accounts[e] # accounts[d]
  BY <1>1, <1>2
<1>4. BridgeTyped
  BY <1>3, OnboardingBounds, EmptySeq DEF OnboardingInit, BridgeTyped, LinksOwned
<1>5. TabTyped
  BY OnboardingBounds DEF OnboardingInit, TabTyped, NoForm, NoRequest, Requests, Pages
<1>6. RequestsProper /\ AnswerTrue /\ SentToOwned /\ VerifiedTrue /\ FormSent /\ SlugErrorTrue /\ TokenSolved
  BY DEF OnboardingInit, RequestsProper, AnswerTrue, SentToOwned, VerifiedTrue, FormSent, SlugErrorTrue, TokenSolved,
         SlugErrors
<1> QED
  BY <1>4, <1>5, <1>6, TypeParts DEF OnboardingIInv

LEMMA NextOnboarding == OnboardingIInv /\ [OnboardingNext]_onboardingVars => OnboardingIInv'
<1> SUFFICES ASSUME OnboardingIInv, [OnboardingNext]_onboardingVars PROVE OnboardingIInv'
  OBVIOUS
<1>1. BridgeTyped' /\ TabTyped'
  BY BridgeStep, TabStep
<1>2. (OnboardingTypeOK /\ LinksOwned)'
  BY <1>1, TypeParts, PTL
<1> QED
  BY <1>2, RequestsStep, AnswerStep, PlacesStep, FormStep, TokenStep DEF OnboardingIInv

LEMMA SpecOnboarding == OnboardingSpec => []OnboardingIInv
  BY InitOnboarding, NextOnboarding, PTL DEF OnboardingSpec

(***************************************************************************)
(* Accounts, links, forms and requests keep their types: a name belongs to *)
(* one account, only accounts are verified, and a page sends requests of   *)
(* its own kind (pages/auth/, api/onboarding.ts).                          *)
(***************************************************************************)
THEOREM OnboardingTypeCorrect == OnboardingSpec => []OnboardingTypeOK
<1>1. OnboardingIInv => OnboardingTypeOK
  BY DEF OnboardingIInv
<1> QED
  BY SpecOnboarding, <1>1, PTL

(***************************************************************************)
(* Whom the pending page names has signed up, and whom the last page       *)
(* welcomes is verified, whatever requests of pages that were left reach   *)
(* the Bridge meanwhile.                                                   *)
(***************************************************************************)
THEOREM PagesTellTheTruth == OnboardingSpec => []PagesTrue
<1>1. OnboardingIInv => PagesTrue
  BY DEF OnboardingIInv, PagesTrue, PendingTrue, SentToOwned
<1> QED
  BY SpecOnboarding, <1>1, PTL

(***************************************************************************)
(* An answer stands next to the input it is about, unless that was typed   *)
(* over while the form was being sent.                                     *)
(***************************************************************************)
THEOREM AnswersStandWhereAsked == OnboardingSpec => []AnswersFit
<1>1. OnboardingIInv => AnswersFit
  BY DEF OnboardingIInv, AnswersFit, ResentTo, FormSent
<1> QED
  BY SpecOnboarding, <1>1, PTL

(***************************************************************************)
(* No sign-up is sent between a captcha that failed and the next tick of   *)
(* its box.                                                                *)
(***************************************************************************)
THEOREM SentWithSolvedCaptcha == OnboardingSpec => CaptchaSolved
<1>1. OnboardingIInv /\ [OnboardingNext]_onboardingVars => (Signup /\ status' = "pending" => solved = "yes")
  <2> SUFFICES ASSUME OnboardingIInv, Signup, status' = "pending" PROVE solved = "yes"
    OBVIOUS
  <2>1. TabTyped /\ TokenSolved
    BY TypeParts DEF OnboardingIInv
  <2>2. token # "none"
    BY DEF Signup, mutation
  <2> QED
    BY <2>1, <2>2 DEF TabTyped, TokenSolved
<1> QED
  BY SpecOnboarding, <1>1, PTL DEF OnboardingSpec, CaptchaSolved

-----------------------------------------------------------------------------
(***************************************************************************)
(*                         Signing in and out.                             *)
(***************************************************************************)
(***************************************************************************)
(* The accounts that calls and routes name are accounts, and the fallback  *)
(* is one of the application's pages.                                      *)
(***************************************************************************)
Named ==
    /\ \A c \in calls : c.kind \in {"login", "detail"} => c.who \in Users
    /\ place = "detail" => viewed \in Users
    /\ broken = "yes" => place # "login"

(***************************************************************************)
(* What the stores are about to be told.                                   *)
(***************************************************************************)
Asking(kind) == \E c \in calls : c.kind = kind
Done(kind) == \E c \in calls : c.kind = kind /\ c.stage = "done"
Changed == Done("login") \/ Done("logout")

\* An answer that is under way says what the session is: had it changed, it had crossed.
AnswersCurrent ==
    /\ \A c \in calls : c.stage = "done" /\ c.kind \in Whoami \cup {"login"} => c.who = session
    /\ Done("logout") => session = Nobody
    /\ Asking("whoamiLogin") => session # Nobody

\* What a store says of the session is right, or a call that puts it right is under way.
StoresAnswered ==
    /\ auth = "out" => session = Nobody \/ Asking("whoami") \/ Asking("whoamiLogin") \/ Done("login")
    /\ auth = "in" => user = session \/ Asking("whoami") \/ Asking("whoamiLogin") \/ Changed
    /\ auth = "in" \/ Asking("whoamiLogin") =>
           csrf = session \/ Asking("whoami") \/ Asking("token") \/ Changed
    /\ place # "login" =>
           \/ tenant = session /\ (session \in Bound => company = session)
           \/ Asking("whoami") \/ Changed

StoresFollow == "stores" \notin crossed => AnswersCurrent /\ StoresAnswered

(***************************************************************************)
(* The pages of the audit trail that are kept, and those that are fetched. *)
(***************************************************************************)
OneOwner(s) == \A i, j \in DOMAIN s : s[i] = s[j]
CallsOneTenant == \A c \in calls : OneOwner(c.got)

\* Pages that were fetched for a session that has not changed are its own.
FetchedCurrent ==
    "list" \notin crossed =>
        \A c \in calls : c.kind = "list" /\ c.stage # "refused" /\ Len(c.got) = c.goal
                         => c.goal # 0 /\ c.got[1] = session

\* The audit trail on the screen is asked for again, or what it has is of the session.
ScreenCurrent ==
    crossed = {} /\ mounted = "list" =>
        pages = <<>> \/ pages[1] = session \/ failed # "no" \/ Asking("list") \/ Changed

\* A detail page that must not be shown is not.
BoundaryHolds == Throws => broken = "yes"

SessionIInv ==
    /\ SessionTypeOK
    /\ Named
    /\ StoresFollow
    /\ PagesOneTenant
    /\ CallsOneTenant
    /\ FetchedCurrent
    /\ ScreenCurrent
    /\ BoundaryHolds

-----------------------------------------------------------------------------
(***************************************************************************)
(* Calls.                                                                  *)
(***************************************************************************)
\* Among n calls one of the first n + 1 numbers is free.
LEMMA FreeNumber ==
    ASSUME NEW C, IsFiniteSet(C), NEW kind
    PROVE  Free(C, kind) \in Ids /\ \A c \in C : c.kind = kind => c.id # Free(C, kind)
<1> DEFINE n == Cardinality(C)
           f == [c \in C |-> c.id]
           T == {f[c] : c \in C}
<1>1. n \in Nat
  BY FS_CardinalityType
<1>2. f \in Surjection(C, T)
  BY DEF Surjection
<1>3. IsFiniteSet(T) /\ Cardinality(T) <= n
  BY <1>2, FS_Surjection, Zenon
<1>4. \E i \in 1 .. n + 1 : i \notin T
  <2>1. SUFFICES ASSUME 1 .. n + 1 \subseteq T PROVE FALSE
    OBVIOUS
  <2>2. Cardinality(1 .. n + 1) = n + 1
    <3>1. Cardinality(1 .. n + 1) = IF 1 > n + 1 THEN 0 ELSE n + 1 - 1 + 1
      BY <1>1, FS_Interval
    <3> QED
      BY <1>1, <3>1
  <2>3. Cardinality(1 .. n + 1) <= Cardinality(T) /\ Cardinality(T) \in Nat
    BY <1>3, <2>1, FS_Subset, FS_CardinalityType
  <2> QED
    BY <1>1, <1>3, <2>2, <2>3
<1>5. \E i \in 1 .. n + 1 : \A c \in C : c.kind = kind => c.id # i
  BY <1>4
<1>6. /\ Free(C, kind) \in 1 .. n + 1
      /\ \A c \in C : c.kind = kind => c.id # Free(C, kind)
  BY <1>5 DEF Free
<1> QED
  BY <1>1, <1>6 DEF Ids

CallsTyped(C) ==
    /\ C \subseteq Call /\ IsFiniteSet(C)
    /\ \A c \in C : Len(c.got) <= c.goal
    /\ \A c, d \in C : c.kind = d.kind /\ c.id = d.id => c = d
    /\ \A c, d \in C : c.kind = d.kind /\ c.kind \in {"list", "detail"}
                        /\ (c.kind = "detail" => c.who = d.who) => c = d
    /\ \A c \in C : c.kind \in {"login", "detail"} => c.who \in Users
    /\ \A c \in C : OneOwner(c.got)

LEMMA FewerCalls ==
    ASSUME NEW C, CallsTyped(C), NEW D, D \subseteq C
    PROVE  CallsTyped(D)
<1>1. IsFiniteSet(D)
  BY FS_Subset DEF CallsTyped
<1> QED
  BY <1>1 DEF CallsTyped

LEMMA AddCall ==
    ASSUME NEW C, CallsTyped(C), NEW n \in Call, Len(n.got) <= n.goal, OneOwner(n.got),
           n.kind \in {"login", "detail"} => n.who \in Users,
           n.id = Free(C, n.kind),
           \A c \in C : c.kind = n.kind /\ c.kind \in {"list", "detail"} => c.kind = "detail" /\ c.who # n.who
    PROVE  CallsTyped(C \cup {n})
<1>1. \A c \in C : c.kind = n.kind => c.id # n.id
  BY FreeNumber DEF CallsTyped
<1>2. IsFiniteSet(C \cup {n})
  BY FS_AddElement DEF CallsTyped
<1> QED
  BY <1>1, <1>2 DEF CallsTyped

\* An answer changes neither the kind of a call nor its number.
LEMMA SetCall ==
    ASSUME NEW C, CallsTyped(C), NEW c \in C, NEW n \in Call, Len(n.got) <= n.goal, OneOwner(n.got),
           n.kind = c.kind, n.id = c.id, c.kind \in {"login", "detail"} => n.who = c.who
    PROVE  CallsTyped((C \ {c}) \cup {n})
<1>1. IsFiniteSet((C \ {c}) \cup {n})
  BY FS_RemoveElement, FS_AddElement DEF CallsTyped
<1>2. \A d \in C \ {c} : ~ (d.kind = n.kind /\ d.id = n.id)
  BY DEF CallsTyped
<1>3. \A d \in C \ {c} : d.kind = n.kind /\ d.kind \in {"list", "detail"} => d.kind = "detail" /\ d.who # n.who
  BY DEF CallsTyped
<1> QED
  BY <1>1, <1>2, <1>3 DEF CallsTyped

LEMMA NewTyped ==
    ASSUME NEW kind \in Kinds, NEW i \in Ids
    PROVE  /\ New(kind, i) \in Call
           /\ New(kind, i).kind = kind /\ New(kind, i).id = i /\ New(kind, i).stage = "sent"
           /\ New(kind, i).got = <<>> /\ New(kind, i).goal = 0
           /\ Len(New(kind, i).got) <= New(kind, i).goal /\ OneOwner(New(kind, i).got)
<1>1. MaxPages \in Nat \ {0}
  BY BoundsAssumption
<1>2. <<>> \in Seq(Users) /\ Len(<<>>) = 0
  BY EmptySeq
<1>3. OneOwner(<<>>)
  BY DEF OneOwner
<1> QED
  BY <1>1, <1>2, <1>3 DEF New, Call, Kinds

\* Another question about the session.
LEMMA AddTyped ==
    ASSUME NEW C, CallsTyped(C), NEW kind \in Whoami \cup {"token"}
    PROVE  /\ CallsTyped(Add(C, kind))
           /\ C \subseteq Add(C, kind)
           /\ \A d \in Add(C, kind) \ C : d.kind = kind /\ d.stage = "sent"
           /\ \E d \in Add(C, kind) : d.kind = kind
<1>1. Free(C, kind) \in Ids
  BY FreeNumber DEF CallsTyped
<1>2. kind \in Kinds /\ kind \notin {"login", "list", "detail"}
  BY DEF Kinds, Whoami
<1>3. CallsTyped(C \cup {New(kind, Free(C, kind))})
  BY <1>1, <1>2, NewTyped, AddCall
<1> QED
  BY <1>1, <1>2, <1>3, NewTyped DEF Add

ViewsTyped ==
    /\ session \in Users \cup {Nobody}
    /\ auth \in {"loading", "in", "out"} /\ user \in Users \cup {DevUser, Unnamed}
    /\ csrf \in Users \cup {Nobody, NoToken}
    /\ company \in Bound \cup {Nobody}
    /\ tenant \in Users \cup {Nobody} /\ picked \in {1, 2}
    /\ place \in AppPages \cup {"login"} /\ mounted \in AppPages \cup {"none"}
    /\ mounted # "none" => mounted = place /\ auth = "in"
    /\ viewed \in Users \cup {Nobody} /\ visited \subseteq Users
    /\ place = "detail" => viewed \in Users
    /\ broken = "yes" => place # "login"
    /\ broken \in {"yes", "no"} /\ crossed \subseteq {"stores", "list"}
    /\ signingIn \in Ids \cup {0} /\ signingOut \in Ids \cup {0}
    /\ signingIn # 0 => place = "login"
    /\ signingOut # 0 => place # "login"
PagesTyped ==
    /\ pages \in Seq(Users) /\ Len(pages) <= MaxPages
    /\ OneOwner(pages)
    /\ details \subseteq Users
    /\ failed \in {"no", "changed", "failed"} /\ erred \subseteq Users

LEMMA SessionParts ==
    SessionTypeOK /\ Named /\ PagesOneTenant /\ CallsOneTenant <=> CallsTyped(calls) /\ ViewsTyped /\ PagesTyped
BY DEF SessionTypeOK, Named, PagesOneTenant, CallsOneTenant, CallsTyped, ViewsTyped, PagesTyped, OneOwner

LEMMA AskTyped ==
    ASSUME NEW p \in {"list", "detail"}, NEW u \in Users \cup {Nobody}, NEW n \in 0 .. MaxPages, NEW i \in Ids
    PROVE  /\ Ask(p, u, n, i) \in Call
           /\ Ask(p, u, n, i).kind = p /\ Ask(p, u, n, i).id = i
           /\ p = "detail" => Ask(p, u, n, i).who = u
           /\ Ask(p, u, n, i).got = <<>>
           /\ p = "list" => Ask(p, u, n, i).goal # 0
           /\ Len(Ask(p, u, n, i).got) <= Ask(p, u, n, i).goal /\ OneOwner(Ask(p, u, n, i).got)
<1>1. MaxPages \in Nat \ {0}
  BY BoundsAssumption
<1>2. <<>> \in Seq(Users) /\ Len(<<>>) = 0
  BY EmptySeq
<1>3. OneOwner(<<>>)
  BY DEF OneOwner
<1>4. CASE p = "list"
  <2> DEFINE a == Ask("list", u, n, i)
             g == IF n = 0 THEN 1 ELSE n
  <2>1. g \in 0 .. MaxPages /\ g # 0 /\ 0 <= g
    BY <1>1
  <2> HIDE DEF g
  <2>2. a = [New("list", i) EXCEPT !.who = Nobody, !.goal = g]
    BY DEF Ask, g
  <2>3. a \in Call /\ a.kind = "list" /\ a.id = i /\ a.got = <<>> /\ a.goal = g
    BY <1>2, <2>1, <2>2 DEF New, Call, Kinds
  <2> QED
    BY <1>2, <1>3, <1>4, <2>1, <2>3
<1>5. CASE p = "detail"
  <2> DEFINE a == Ask("detail", u, n, i)
  <2>1. a = [New("detail", i) EXCEPT !.who = u, !.goal = 0]
    BY DEF Ask
  <2>2. a \in Call /\ a.kind = "detail" /\ a.id = i /\ a.who = u /\ a.got = <<>> /\ a.goal = 0
    <3>1. 0 \in 0 .. MaxPages
      BY <1>1
    <3> QED
      BY <1>2, <2>1, <3>1 DEF New, Call, Kinds
  <2> QED
    BY <1>2, <1>3, <1>5, <2>2
<1> QED
  BY <1>4, <1>5

\* A page that nobody is waiting for yet is asked for.
LEMMA AddAsk ==
    ASSUME NEW C, CallsTyped(C), NEW p \in {"list", "detail"}, NEW u \in Users \cup {Nobody}, NEW n \in 0 .. MaxPages,
           p = "detail" => u \in Users,
           \A c \in C : ~ (c.kind = p /\ (p = "detail" => c.who = u))
    PROVE  CallsTyped(C \cup {Ask(p, u, n, Free(C, p))})
<1>1. Free(C, p) \in Ids
  BY FreeNumber DEF CallsTyped
<1> QED
  BY <1>1, AskTyped, AddCall

-----------------------------------------------------------------------------
(***************************************************************************)
(* Calls keep their types, and none is made twice.                         *)
(***************************************************************************)
LEMMA CallsStep ==
    ASSUME CallsTyped(calls), ViewsTyped, PagesTyped, [SessionNext]_sessionVars
    PROVE  CallsTyped(calls')
<1>1. \A c \in calls : c \in Call /\ CallsTyped(calls \ {c})
  BY FewerCalls DEF CallsTyped
<1>0. \A c \in calls : CallsTyped(ThenToken(calls \ {c}))
  BY <1>1, AddTyped DEF ThenToken
<1>2. ASSUME NEW c \in calls, ArriveWhoami(c) PROVE CallsTyped(calls')
  BY <1>0, <1>1, <1>2 DEF ArriveWhoami
<1>3. ASSUME NEW c \in calls, ArriveWhoamiLogin(c) \/ ArriveToken(c) \/ ArriveLogout(c) \/ Refused(c) \/ ArriveDetail(c)
      PROVE  CallsTyped(calls')
  BY <1>1, <1>3 DEF ArriveWhoamiLogin, ArriveToken, ArriveLogout, Refused, ArriveDetail
<1>4. ASSUME NEW c \in calls, CallFails(c) PROVE CallsTyped(calls')
  BY <1>0, <1>1, <1>4 DEF CallFails
<1>5. ASSUME NEW c \in calls, AnswerWho(c) PROVE CallsTyped(calls')
  <2> DEFINE d == [c EXCEPT !.stage = "done", !.who = session]
  <2>1. /\ d \in Call /\ d.kind = c.kind /\ d.id = c.id
        /\ d.got = c.got /\ d.goal = c.goal
    BY <1>1 DEF Call, ViewsTyped
  <2>2. Len(d.got) <= d.goal /\ OneOwner(d.got)
    BY <2>1 DEF CallsTyped
  <2>3. c.kind \notin {"login", "detail"} /\ calls' = (calls \ {c}) \cup {d}
    BY <1>5 DEF AnswerWho, Whoami
  <2> QED
    BY <2>1, <2>2, <2>3, SetCall
<1>6. ASSUME NEW c \in calls, NEW st \in {"done", "refused"}, calls' = (calls \ {c}) \cup {[c EXCEPT !.stage = st]}
      PROVE  CallsTyped(calls')
  <2> DEFINE d == [c EXCEPT !.stage = st]
  <2>1. /\ d \in Call /\ d.kind = c.kind /\ d.id = c.id
        /\ d.got = c.got /\ d.goal = c.goal /\ d.who = c.who
    BY <1>1 DEF Call
  <2>2. Len(d.got) <= d.goal /\ OneOwner(d.got)
    BY <2>1 DEF CallsTyped
  <2> QED
    BY <1>6, <2>1, <2>2, SetCall
<1>7. ASSUME NEW c \in calls, AnswerLogin(c) \/ AnswerLogout(c) \/ AnswerDetail(c) PROVE CallsTyped(calls')
  BY <1>6, <1>7 DEF AnswerLogin, AnswerLogout, AnswerDetail
<1>8. ASSUME NEW c \in calls, ArriveLogin(c) PROVE CallsTyped(calls')
  <2>1. CallsTyped(Add(calls \ {c}, "whoamiLogin"))
    BY <1>1, AddTyped DEF Whoami
  <2>2. CallsTyped(FrameOpens(Add(calls \ {c}, "whoamiLogin")))
    BY <2>1, AddTyped DEF FrameOpens, Whoami
  <2> QED
    BY <1>8, <2>1, <2>2 DEF ArriveLogin
<1>9. ASSUME NEW u \in Users, Login(u) PROVE CallsTyped(calls')
  <2> DEFINE i == Free(calls, "login")
             n == [New("login", i) EXCEPT !.who = u]
  <2>1. i \in Ids
    BY FreeNumber DEF CallsTyped
  <2>2. /\ n \in Call /\ n.kind = "login" /\ n.id = i /\ n.who = u
        /\ n.got = <<>> /\ n.goal = 0
    BY <2>1, NewTyped DEF New, Call, Kinds
  <2>3. Len(n.got) <= n.goal /\ OneOwner(n.got)
    BY <2>2, EmptySeq DEF OneOwner
  <2>4. CallsTyped(calls \cup {n})
    BY <2>2, <2>3, AddCall
  <2> QED
    BY <1>9, <2>4 DEF Login
<1>10. CASE Logout
  <2> DEFINE i == Free(calls, "logout")
             n == [New("logout", i) EXCEPT !.csrf = csrf]
  <2>1. i \in Ids
    BY FreeNumber DEF CallsTyped
  <2>2. /\ n \in Call /\ n.kind = "logout" /\ n.id = i
        /\ n.got = <<>> /\ n.goal = 0
    BY <2>1, NewTyped DEF New, Call, Kinds, ViewsTyped
  <2>3. Len(n.got) <= n.goal /\ OneOwner(n.got)
    BY <2>2, EmptySeq DEF OneOwner
  <2>4. CallsTyped(calls \cup {n})
    BY <2>2, <2>3, AddCall
  <2> QED
    BY <1>10, <2>4 DEF Logout
<1>11. ASSUME NEW s, Elsewhere(s) PROVE CallsTyped(calls')
  BY <1>11 DEF Elsewhere
<1>12. ASSUME NEW p, NEW u, Open(p, u) PROVE CallsTyped(calls')
  BY <1>12, AddTyped DEF Open, FrameOpens, Whoami
<1>13. CASE Mount
  <2>1. place \in {"home", "list", "detail"} /\ viewed \in Users \cup {Nobody} /\ (place = "detail" => viewed \in Users)
    BY <1>13 DEF Mount, Awaited, ViewsTyped, AppPages
  <2>2. Len(pages') \in 0 .. MaxPages
    BY <1>13, LenProperties, EmptySeq, BoundsAssumption DEF Mount, PagesTyped
  <2>3. CASE ~ Asks(place)
    BY <1>13, <2>3 DEF Mount
  <2>4. CASE Asks(place)
    <3>1. place \in {"list", "detail"} /\ \A c \in calls : ~ (c.kind = place /\ (place = "detail" => c.who = viewed))
      BY <2>1, <2>4 DEF Asks, Asked
    <3>2. CallsTyped(calls \cup {Ask(place, viewed, Len(pages'), Free(calls, place))})
      BY <2>1, <2>2, <3>1, AddAsk
    <3> QED
      BY <1>13, <2>4, <3>2 DEF Mount
  <2> QED
    BY <2>3, <2>4
<1>14. ASSUME NEW p, TryAgain(p) PROVE CallsTyped(calls')
  BY <1>14 DEF TryAgain
<1>23. CallsTyped(Unlisted) /\ \A c \in Unlisted : c.kind # "list"
  BY FewerCalls DEF Unlisted
<1>15. CASE LoadMore
  <2> DEFINE i == Free(Unlisted, "list")
             n == [New("list", i) EXCEPT !.got = pages, !.goal = Len(pages) + 1, !.more = "yes"]
  <2>1. i \in Ids
    BY <1>23, FreeNumber DEF CallsTyped
  <2>2. Len(pages) \in Nat /\ Len(pages) + 1 \in 0 .. MaxPages
    BY <1>15, LenProperties, BoundsAssumption DEF LoadMore, PagesTyped
  <2>3. /\ n \in Call /\ n.kind = "list" /\ n.id = i
        /\ n.got = pages /\ n.goal = Len(pages) + 1
    BY <2>1, <2>2, NewTyped DEF New, Call, Kinds, PagesTyped
  <2>4. Len(n.got) <= n.goal /\ OneOwner(n.got)
    BY <2>2, <2>3 DEF PagesTyped
  <2>5. CallsTyped(Unlisted \cup {n})
    BY <1>23, <2>3, <2>4, AddCall
  <2> QED
    BY <1>15, <2>5 DEF LoadMore
<1>16. ASSUME NEW C, CallsTyped(C), \A d \in C : d.kind # "list", NEW n \in 0 .. MaxPages, NEW i \in Ids
       PROVE  CallsTyped(C \cup {Ask("list", Nobody, n, i)})
  <2> DEFINE a == Ask("list", Nobody, n, i)
  <2>1. a \in Call /\ a.kind = "list" /\ Len(a.got) <= a.goal /\ OneOwner(a.got)
    BY <1>16, AskTyped
  <2>2. IsFiniteSet(C \cup {a})
    BY <1>16, FS_AddElement DEF CallsTyped
  <2> QED
    BY <1>16, <2>1, <2>2 DEF CallsTyped
<1>17. CASE Retry
  <2>1. Len(pages) \in 0 .. MaxPages
    BY LenProperties, BoundsAssumption DEF PagesTyped
  <2>2. CallsTyped(Unlisted \cup {Ask("list", Nobody, Len(pages), 1)})
    BY <1>16, <1>23, <2>1 DEF Ids
  <2> QED
    BY <1>17, <2>2 DEF Retry
<1>18. ASSUME NEW c \in calls, AnswerList(c) PROVE CallsTyped(calls')
  <2>1. /\ c.kind = "list" /\ Len(c.got) < c.goal /\ c.got \in Seq(Users) /\ c.goal \in 0 .. MaxPages
        /\ OneOwner(c.got)
    BY <1>1, <1>18 DEF AnswerList, Call, CallsTyped
  <2>2. CASE Gives(c)
    <3> DEFINE d == [c EXCEPT !.got = Append(@, session)]
    <3>1. session \in Users /\ (c.got = <<>> \/ c.got[Len(c.got)] = session)
      BY <2>2 DEF Gives, ViewsTyped
    <3>2. /\ Append(c.got, session) \in Seq(Users)
          /\ Len(Append(c.got, session)) = Len(c.got) + 1
          /\ \A i \in 1 .. Len(c.got) : Append(c.got, session)[i] = c.got[i]
          /\ Append(c.got, session)[Len(c.got) + 1] = session
      BY <2>1, <3>1, AppendProperties
    <3>3. Len(c.got) \in Nat /\ DOMAIN c.got = 1 .. Len(c.got)
      BY <2>1, LenProperties
    <3>4. \A i \in 1 .. Len(c.got) : c.got[i] = session
      BY <2>1, <3>1, <3>3, EmptySeq DEF OneOwner
    <3>5. OneOwner(Append(c.got, session))
      <4>1. DOMAIN Append(c.got, session) = 1 .. Len(c.got) + 1
        BY <3>2, LenProperties
      <4>2. \A i \in 1 .. Len(c.got) + 1 : Append(c.got, session)[i] = session
        BY <3>2, <3>3, <3>4
      <4> QED
        BY <4>1, <4>2 DEF OneOwner
    <3>6. /\ d \in Call /\ d.kind = c.kind /\ d.id = c.id /\ d.got = Append(c.got, session) /\ d.goal = c.goal
      BY <1>1, <3>2 DEF Call
    <3>7. Len(d.got) <= d.goal
      BY <2>1, <3>2, <3>3, <3>6
    <3>8. calls' = (calls \ {c}) \cup {d}
      BY <1>18, <2>2 DEF AnswerList
    <3> QED
      BY <2>1, <3>5, <3>6, <3>7, <3>8, SetCall
  <2>3. CASE ~ Gives(c)
    <3> DEFINE d == [c EXCEPT !.stage = "refused", !.who = session]
    <3>1. /\ d \in Call /\ d.kind = c.kind /\ d.id = c.id /\ d.got = c.got /\ d.goal = c.goal
      BY <1>1 DEF Call, ViewsTyped
    <3>2. calls' = (calls \ {c}) \cup {d}
      BY <1>18, <2>3 DEF AnswerList
    <3>3. Len(d.got) <= d.goal /\ OneOwner(d.got)
      BY <3>1 DEF CallsTyped
    <3> QED
      BY <2>1, <3>1, <3>2, <3>3, SetCall
  <2> QED
    BY <2>2, <2>3
<1>19. ASSUME NEW c \in calls, ArriveList(c) PROVE CallsTyped(calls')
  <2>1. \A d \in calls \ {c} : d.kind # "list"
    BY <1>19 DEF ArriveList, CallsTyped
  <2>2. c.id \in Ids
    BY <1>1 DEF Call
  <2>3. CallsTyped((calls \ {c}) \cup {Ask("list", Nobody, 0, c.id)})
    <3>1. 0 \in 0 .. MaxPages /\ CallsTyped(calls \ {c})
      BY <1>1, BoundsAssumption
    <3> QED
      BY <1>16, <2>1, <2>2, <3>1
  <2> QED
    BY <1>1, <1>19, <2>3 DEF ArriveList
<1>20. CASE PickCompany
  <2> DEFINE C == {c \in calls : ~(c.kind = mounted /\ (mounted = "detail" => c.who = viewed))}
  <2>1. CASE calls' = calls
    BY <2>1
  <2>2. CASE mounted \notin {"none", "home"} /\ calls' = C \cup {Ask(mounted, viewed, Len(pages), Free(C, mounted))}
    <3>1. mounted \in {"list", "detail"} /\ viewed \in Users \cup {Nobody} /\ (mounted = "detail" => viewed \in Users)
      BY <2>2 DEF ViewsTyped, AppPages
    <3>2. Len(pages) \in 0 .. MaxPages
      BY LenProperties, BoundsAssumption DEF PagesTyped
    <3>3. CallsTyped(C)
      BY FewerCalls
    <3>4. CallsTyped(C \cup {Ask(mounted, viewed, Len(pages), Free(C, mounted))})
      BY <3>1, <3>2, <3>3, AddAsk
    <3> QED
      BY <2>2, <3>4
  <2> QED
    BY <1>20, <2>1, <2>2 DEF PickCompany
<1>21. CASE Reload
  <2>1. CallsTyped({})
    BY FewerCalls
  <2>2. CallsTyped(FrameOpens({}))
    BY <2>1, AddTyped DEF FrameOpens, Whoami
  <2> QED
    BY <1>21, <2>1, <2>2 DEF Reload
<1>22. CASE UNCHANGED sessionVars
  BY <1>22 DEF sessionVars
<1> QED
  BY <1>2, <1>3, <1>4, <1>5, <1>7, <1>8, <1>9, <1>10, <1>11, <1>12, <1>13, <1>14, <1>15, <1>17, <1>18, <1>19, <1>20,
     <1>21, <1>22 DEF SessionNext, Calls, People

\* A page is on the screen only of a user who is signed in, and no event but an account's
\* is on the detail page.
LEMMA ViewsStep ==
    ASSUME CallsTyped(calls), ViewsTyped, PagesTyped, [SessionNext]_sessionVars
    PROVE  ViewsTyped'
<1>1. \A c \in calls : /\ c.who \in Users \cup {Nobody} /\ c.csrf \in Users \cup {Nobody, NoToken} /\ c.id \in Ids
                       /\ c.kind \in {"login", "detail"} => c.who \in Users
  BY DEF CallsTyped, Call
<1>2. ASSUME NEW c \in calls, ArriveWhoami(c) PROVE ViewsTyped'
  <2>1. /\ auth' = IF c.who = Nobody THEN "out" ELSE "in"
        /\ place' = Frame(place, auth')
        /\ UNCHANGED <<session, csrf, viewed, visited, crossed>>
        /\ LeaveFrame
    BY <1>2 DEF ArriveWhoami
  <2>2. /\ user' \in Users \cup {DevUser, Unnamed} /\ tenant' \in Users \cup {Nobody}
        /\ company' \in Bound \cup {Nobody} /\ picked' \in {1, 2}
    BY <1>1, <1>2 DEF ArriveWhoami, TenantOf, ViewsTyped
  <2>3. CASE place' = "login"
    BY <2>1, <2>2, <2>3 DEF LeaveFrame, Frame, ViewsTyped, AppPages
  <2>4. CASE place' # "login"
    <3>1. place' = place /\ auth' = "in"
      BY <2>1, <2>4 DEF Frame
    <3>2. UNCHANGED <<mounted, signingOut, signingIn>> /\ broken' \in {"yes", "no"}
      BY <2>1, <2>4 DEF LeaveFrame, Boundary, ViewsTyped
    <3> QED
      BY <2>1, <2>2, <2>4, <3>1, <3>2 DEF ViewsTyped
  <2> QED
    BY <2>3, <2>4
<1>3. ASSUME NEW c \in calls, ArriveWhoamiLogin(c) PROVE ViewsTyped'
  BY <1>1, <1>3 DEF ArriveWhoamiLogin, views, ViewsTyped
<1>4. ASSUME NEW c \in calls, ArriveToken(c) \/ AnswerWho(c) \/ AnswerList(c) \/ AnswerDetail(c) \/ ArriveList(c)
      PROVE  ViewsTyped'
  BY <1>1, <1>4 DEF ArriveToken, AnswerWho, AnswerList, AnswerDetail, ArriveList, views, stores, ViewsTyped
<1>5. ASSUME NEW c \in calls, CallFails(c) PROVE ViewsTyped'
  BY <1>1, <1>5 DEF CallFails, views, ViewsTyped
<1>6. ASSUME NEW c \in calls, AnswerLogin(c) \/ AnswerLogout(c) PROVE ViewsTyped'
  <2>1. session' \in Users \cup {Nobody} /\ crossed' \subseteq {"stores", "list"}
    BY <1>1, <1>6 DEF AnswerLogin, AnswerLogout, Change, ViewsTyped
  <2> QED
    BY <1>6, <2>1 DEF AnswerLogin, AnswerLogout, views, stores, ViewsTyped
<1>7. ASSUME NEW c \in calls, ArriveLogin(c) PROVE ViewsTyped'
  <2>1. CASE signingIn = c.id
    <3>1. place = "login" /\ mounted = "none" /\ signingOut = 0
      BY <1>1, <2>1 DEF ViewsTyped, Ids, AppPages
    <3>2. place' \in {"home", "login"} /\ signingIn' = 0 /\ UNCHANGED crossed
      BY <1>7, <2>1 DEF ArriveLogin, Frame
    <3> QED
      BY <1>1, <1>7, <3>1, <3>2 DEF ArriveLogin, ViewsTyped, AppPages
  <2>2. CASE signingIn # c.id
    BY <1>1, <1>7, <2>2 DEF ArriveLogin, ViewsTyped
  <2> QED
    BY <2>1, <2>2
<1>8. ASSUME NEW c \in calls, ArriveLogout(c) PROVE ViewsTyped'
  BY <1>1, <1>8 DEF ArriveLogout, LeaveFrame, ViewsTyped, AppPages
<1>9. ASSUME NEW c \in calls, Refused(c) PROVE ViewsTyped'
  BY <1>1, <1>9 DEF Refused, stores, ViewsTyped
<1>10. ASSUME NEW c \in calls, ArriveDetail(c) PROVE ViewsTyped'
  BY <1>1, <1>10 DEF ArriveDetail, Boundary, stores, ViewsTyped, AppPages
<1>11. ASSUME NEW u \in Users, Login(u) PROVE ViewsTyped'
  <2>1. Free(calls, "login") \in Ids
    BY FreeNumber DEF CallsTyped
  <2> QED
    BY <1>11, <2>1 DEF Login, stores, ViewsTyped
<1>12. CASE Logout
  <2>1. Free(calls, "logout") \in Ids
    BY FreeNumber DEF CallsTyped
  <2> QED
    BY <1>12, <2>1 DEF Logout, stores, ViewsTyped
<1>13. ASSUME NEW s \in Users \cup {Nobody}, Elsewhere(s) PROVE ViewsTyped'
  BY <1>13 DEF Elsewhere, stores, views, ViewsTyped
<1>14. ASSUME NEW p \in AppPages \cup {"login"}, NEW u \in Users \cup {Nobody}, Open(p, u) PROVE ViewsTyped'
  <2>1. p = "detail" => u \in Users
    <3>1. \A i \in DOMAIN pages : pages[i] \in Users
      BY LenProperties, ElementOfSeq DEF PagesTyped
    <3> QED
      BY <1>14, <3>1 DEF Open, ViewsTyped
  <2>2. /\ place' = Frame(p, auth) /\ viewed' = u /\ mounted' = "none" /\ signingIn' = 0
        /\ visited' = IF p = "detail" THEN visited \cup {u} ELSE visited
        /\ IF place' = "login" THEN signingOut' = 0 /\ broken' = "no" ELSE UNCHANGED <<signingOut, broken>>
        /\ UNCHANGED <<session, stores, crossed>>
    BY <1>14 DEF Open
  <2> QED
    BY <2>1, <2>2 DEF Frame, stores, ViewsTyped, AppPages
<1>15. CASE Mount
  BY <1>15 DEF Mount, Awaited, Boundary, stores, ViewsTyped
<1>16. ASSUME NEW p \in AppPages, TryAgain(p) PROVE ViewsTyped'
  BY <1>16 DEF TryAgain, stores, ViewsTyped, AppPages
<1>17. CASE LoadMore \/ Retry
  BY <1>17 DEF LoadMore, Retry, stores, views, ViewsTyped
<1>18. CASE PickCompany
  BY <1>18 DEF PickCompany, views, ViewsTyped
<1>19. CASE Reload
  <2>1. session' \in Users \cup {Nobody}
    BY <1>1, <1>19 DEF Reload, ViewsTyped
  <2> QED
    BY <1>19, <2>1 DEF Reload, Fresh, ViewsTyped
<1>20. CASE UNCHANGED sessionVars
  BY <1>20 DEF sessionVars, stores, views, ViewsTyped
<1> QED
  BY <1>2, <1>3, <1>4, <1>5, <1>6, <1>7, <1>8, <1>9, <1>10, <1>11, <1>12, <1>13, <1>14, <1>15, <1>16, <1>17, <1>18,
     <1>19, <1>20 DEF SessionNext, Calls, People

\* Pages of the audit trail are added to those of the same tenant, or replace them.
LEMMA PagesStep ==
    ASSUME CallsTyped(calls), ViewsTyped, PagesTyped, [SessionNext]_sessionVars
    PROVE  PagesTyped'
<1>1. \A c \in calls : /\ c.got \in Seq(Users) /\ Len(c.got) <= c.goal /\ c.goal \in 0 .. MaxPages
                       /\ c.kind = "detail" => c.who \in Users
                       /\ OneOwner(c.got)
  BY DEF CallsTyped, Call
<1>2. <<>> \in Seq(Users) /\ Len(<<>>) <= MaxPages /\ OneOwner(<<>>)
  BY EmptySeq, BoundsAssumption DEF OneOwner
<1>3. CASE UNCHANGED cache
  BY <1>3 DEF cache, PagesTyped
<1>4. ASSUME NEW c \in calls,
             \/ AnswerWho(c) \/ ArriveWhoami(c) \/ ArriveWhoamiLogin(c) \/ ArriveToken(c) \/ CallFails(c)
             \/ AnswerLogin(c) \/ ArriveLogin(c) \/ AnswerLogout(c) \/ ArriveLogout(c) \/ Refused(c)
             \/ AnswerList(c) \/ AnswerDetail(c)
      PROVE  PagesTyped'
  BY <1>3, <1>4 DEF AnswerWho, ArriveWhoami, ArriveWhoamiLogin, ArriveToken, CallFails, AnswerLogin, ArriveLogin,
                    AnswerLogout, ArriveLogout, Refused, AnswerList, AnswerDetail
<1>5. ASSUME NEW c \in calls, ArriveList(c) PROVE PagesTyped'
  <2>1. Len(c.got) <= MaxPages
    BY <1>1, LenProperties, BoundsAssumption
  <2>2. (pages' = <<>> \/ pages' = pages \/ pages' = c.got) /\ UNCHANGED <<details, erred>>
        /\ failed' \in {"no", "changed", "failed"}
    BY <1>5 DEF ArriveList
  <2> QED
    BY <1>1, <1>2, <2>1, <2>2 DEF PagesTyped
<1>6. ASSUME NEW c \in calls, ArriveDetail(c) PROVE PagesTyped'
  BY <1>1, <1>6 DEF ArriveDetail, PagesTyped
<1>7. ASSUME NEW u, Login(u) \/ Elsewhere(u) PROVE PagesTyped'
  BY <1>3, <1>7 DEF Login, Elsewhere
<1>8. CASE Logout \/ LoadMore \/ PickCompany
  BY <1>3, <1>8 DEF Logout, LoadMore, PickCompany
<1>9. ASSUME NEW p, NEW u, Open(p, u) \/ TryAgain(p) PROVE PagesTyped'
  BY <1>3, <1>9 DEF Open, TryAgain
<1>10. CASE Mount
  BY <1>2, <1>10 DEF Mount, PagesTyped
<1>11. CASE Retry
  BY <1>11 DEF Retry, PagesTyped
<1>12. CASE Reload
  BY <1>2, <1>12 DEF Reload, Fresh, PagesTyped
<1>13. CASE UNCHANGED sessionVars
  BY <1>3, <1>13 DEF sessionVars
<1> QED
  BY <1>4, <1>5, <1>6, <1>7, <1>8, <1>9, <1>10, <1>11, <1>12, <1>13 DEF SessionNext, Calls, People

-----------------------------------------------------------------------------
(***************************************************************************)
(* The stores.  Only the answers about the session, and those that sign in *)
(* or out, tell them anything.                                             *)
(***************************************************************************)
Tells(c) == c.kind \in Whoami \cup {"token"} \/ (c.kind \in {"login", "logout"} /\ c.stage = "done")

\* A step that neither changes the session or the stores nor what they are about to be told.
LEMMA QuietStep ==
    ASSUME StoresFollow, UNCHANGED <<session, auth, user, csrf, company, tenant, crossed>>,
           place' = place \/ place' = "login" \/ place # "login",
           \A c : Tells(c) => (c \in calls' <=> c \in calls)
    PROVE  StoresFollow'
<1>1. \A kind \in Whoami \cup {"token"} : Asking(kind)' <=> Asking(kind)
  BY DEF Asking, Tells
<1>2. \A kind \in {"login", "logout"} : Done(kind)' <=> Done(kind)
  BY DEF Done, Tells
<1>3. AnswersCurrent => AnswersCurrent'
  BY <1>1, <1>2 DEF AnswersCurrent, Tells, Whoami
<1>4. StoresAnswered => StoresAnswered'
  BY <1>1, <1>2 DEF StoresAnswered, Changed, Whoami
<1> QED
  BY <1>3, <1>4 DEF StoresFollow

\* The Bridge changes the session: nothing was under way that could be wrong about it.
LEMMA ChangeStep ==
    ASSUME CallsTyped(calls), StoresFollow, UNCHANGED stores, UNCHANGED place,
           NEW c \in calls, c.kind \in {"login", "logout"}, NEW s, Change(c, s),
           c.kind = "login" => s = c.who /\ s # Nobody, c.kind = "logout" => s = Nobody,
           NEW d, d.kind = c.kind, d.stage = "done", d.who = c.who, calls' = (calls \ {c}) \cup {d}
    PROVE  StoresFollow'
<1>1. SUFFICES ASSUME "stores" \notin crossed' PROVE AnswersCurrent' /\ StoresAnswered'
  BY DEF StoresFollow
<1>2. \A e \in calls \ {c} : e.kind \in {"list", "detail"}
  <2>1. SUFFICES ASSUME NEW e \in calls \ {c}, e.kind \notin {"list", "detail"} PROVE FALSE
    OBVIOUS
  <2>2. "stores" \in {IF b.kind = "list" THEN "list" ELSE "stores" : b \in {b \in calls \ {c} : b.kind # "detail"}}
    BY <2>1
  <2> QED
    BY <1>1, <2>2 DEF Change
<1>3. \A e \in calls' : e = d \/ e.kind \in {"list", "detail"}
  BY <1>2
<1>4. session' = s
  BY DEF Change
<1>5. AnswersCurrent'
  BY <1>3, <1>4 DEF AnswersCurrent, Done, Asking, Whoami
<1>6. Done(c.kind)' 
  BY DEF Done
<1>7. \A kind \in Whoami \cup {"token"} : ~ Asking(kind)'
  BY <1>3 DEF Asking, Whoami
<1>8. StoresAnswered'
  BY <1>4, <1>6, <1>7 DEF StoresAnswered, Changed, Whoami, stores
<1> QED
  BY <1>5, <1>8

LEMMA StoresStep ==
    ASSUME CallsTyped(calls), ViewsTyped, PagesTyped, StoresFollow, [SessionNext]_sessionVars
    PROVE  StoresFollow'
<1>1. \A c \in calls : c \in Call /\ (c.kind = "login" => c.who \in Users /\ c.who # Nobody)
  BY NobodyAssumption DEF CallsTyped
<1>2. ASSUME NEW c \in calls, ArriveWhoami(c) PROVE StoresFollow'
  <2>1. /\ c.kind = "whoami" /\ c.stage = "done" /\ place' = Frame(place, auth')
        /\ auth' = IF c.who = Nobody THEN "out" ELSE "in"
        /\ UNCHANGED <<session, csrf, crossed>>
    BY <1>2 DEF ArriveWhoami
  <2>2. SUFFICES ASSUME "stores" \notin crossed' PROVE AnswersCurrent' /\ StoresAnswered'
    BY DEF StoresFollow
  <2>3. AnswersCurrent /\ StoresAnswered
    BY <2>1, <2>2 DEF StoresFollow
  <2>4. c.who = session
    BY <2>1, <2>3 DEF AnswersCurrent, Whoami
  <2>5. CASE c.who = Nobody
    <3>1. calls' = calls \ {c} /\ auth' = "out" /\ place' = "login"
      BY <1>2, <2>1, <2>5 DEF ArriveWhoami, Frame
    <3>2. AnswersCurrent'
      BY <2>1, <2>3, <3>1 DEF AnswersCurrent, Done, Asking, Whoami
    <3>3. ~ Asking("whoamiLogin")'
      BY <2>3, <2>4, <2>5, <3>1 DEF AnswersCurrent, Asking
    <3>4. StoresAnswered'
      BY <2>1, <2>4, <2>5, <3>1, <3>3 DEF StoresAnswered
    <3> QED
      BY <3>2, <3>4
  <2>6. CASE c.who # Nobody
    <3>1. /\ calls' = Add(calls \ {c}, "token") /\ auth' = "in" /\ user' = c.who /\ tenant' = c.who
          /\ c.who \in Bound => company' = c.who
      BY <1>2, <2>1, <2>6 DEF ArriveWhoami, ThenToken, TenantOf
    <3>2. /\ calls \ {c} \subseteq calls'
          /\ \A d \in calls' \ (calls \ {c}) : d.kind = "token" /\ d.stage = "sent"
          /\ \E d \in calls' : d.kind = "token"
      <4> DEFINE C == calls \ {c}
      <4>1. CallsTyped(C) /\ "token" \in Whoami \cup {"token"}
        BY FewerCalls
      <4>2. /\ C \subseteq Add(C, "token")
            /\ \A d \in Add(C, "token") \ C : d.kind = "token" /\ d.stage = "sent"
            /\ \E d \in Add(C, "token") : d.kind = "token"
        <5> HIDE DEF C
        <5> QED
          BY <4>1, AddTyped
      <4> QED
        BY <3>1, <4>2
    <3>3. AnswersCurrent'
      BY <2>1, <2>3, <3>2 DEF AnswersCurrent, Done, Asking, Whoami
    <3>4. Asking("token")'
      BY <3>2 DEF Asking
    <3>5. StoresAnswered'
      BY <2>1, <2>4, <3>1, <3>4 DEF StoresAnswered
    <3> QED
      BY <3>3, <3>5
  <2> QED
    BY <2>5, <2>6
<1>3. ASSUME NEW c \in calls, ArriveWhoamiLogin(c) PROVE StoresFollow'
  <2>1. /\ c.kind = "whoamiLogin" /\ c.stage = "done" /\ calls' = calls \ {c} /\ auth' = "in"
        /\ user' = IF c.who = Nobody THEN Unnamed ELSE c.who
        /\ UNCHANGED <<session, csrf, company, tenant, place, crossed>>
    BY <1>3 DEF ArriveWhoamiLogin, views
  <2>2. SUFFICES ASSUME "stores" \notin crossed' PROVE AnswersCurrent' /\ StoresAnswered'
    BY DEF StoresFollow
  <2>3. AnswersCurrent /\ StoresAnswered
    BY <2>1, <2>2 DEF StoresFollow
  <2>4. user' = session'
    BY <2>1, <2>3 DEF AnswersCurrent, Asking, Whoami
  <2>5. AnswersCurrent'
    BY <2>1, <2>3 DEF AnswersCurrent, Done, Asking, Whoami
  <2>6. /\ Asking("whoami") => Asking("whoami")'
        /\ Asking("token") => Asking("token")'
        /\ Changed => Changed'
        /\ Asking("whoamiLogin")
    BY <2>1 DEF Asking, Changed, Done
  <2>7. StoresAnswered'
    BY <2>1, <2>3, <2>4, <2>6 DEF StoresAnswered
  <2> QED
    BY <2>5, <2>7
<1>4. ASSUME NEW c \in calls, ArriveToken(c) PROVE StoresFollow'
  <2>1. /\ c.kind = "token" /\ calls' = calls \ {c} /\ csrf' = session
        /\ UNCHANGED <<session, auth, user, company, tenant, place, crossed>>
    BY <1>4 DEF ArriveToken, views
  <2>2. SUFFICES ASSUME "stores" \notin crossed' PROVE AnswersCurrent' /\ StoresAnswered'
    BY DEF StoresFollow
  <2>3. AnswersCurrent /\ StoresAnswered
    BY <2>1, <2>2 DEF StoresFollow
  <2>4. AnswersCurrent'
    BY <2>1, <2>3 DEF AnswersCurrent, Done, Asking, Whoami
  <2>5. /\ Asking("whoami") => Asking("whoami")'
        /\ Asking("whoamiLogin") => Asking("whoamiLogin")'
        /\ Changed => Changed'
        /\ Done("login") => Done("login")'
    BY <2>1 DEF Asking, Changed, Done
  <2>6. StoresAnswered'
    BY <2>1, <2>3, <2>5 DEF StoresAnswered
  <2> QED
    BY <2>4, <2>6
<1>5. ASSUME "stores" \in crossed' PROVE StoresFollow'
  BY <1>5 DEF StoresFollow
<1>6. ASSUME NEW c \in calls, CallFails(c) PROVE StoresFollow'
  BY <1>5, <1>6 DEF CallFails
<1>7. ASSUME NEW c \in calls, AnswerWho(c) PROVE StoresFollow'
  <2> DEFINE d == [c EXCEPT !.stage = "done", !.who = session]
  <2>1. /\ c.kind \in Whoami /\ c.stage = "sent" /\ calls' = (calls \ {c}) \cup {d}
        /\ UNCHANGED <<session, stores, place, crossed>>
    BY <1>7 DEF AnswerWho, views
  <2>2. d.kind = c.kind /\ d.stage = "done" /\ d.who = session
    BY <1>1 DEF Call
  <2>3. \A kind : (Asking(kind)' <=> Asking(kind)) /\ (kind \notin Whoami => (Done(kind)' <=> Done(kind)))
    BY <2>1, <2>2 DEF Asking, Done
  <2>4. AnswersCurrent => AnswersCurrent'
    BY <2>1, <2>2, <2>3 DEF AnswersCurrent, Whoami
  <2>5. StoresAnswered => StoresAnswered'
    BY <2>1, <2>3 DEF StoresAnswered, Changed, Whoami, stores
  <2> QED
    BY <2>1, <2>4, <2>5 DEF StoresFollow
<1>8. ASSUME NEW c \in calls, AnswerLogin(c) PROVE StoresFollow'
  <2>1. c.kind = "login" /\ UNCHANGED <<stores, place>>
    BY <1>8 DEF AnswerLogin, views
  <2>2. CASE calls' = (calls \ {c}) \cup {[c EXCEPT !.stage = "done"]} /\ Change(c, c.who)
    <3> DEFINE d == [c EXCEPT !.stage = "done"]
    <3>1. d.kind = c.kind /\ d.stage = "done" /\ d.who = c.who
      BY <1>1 DEF Call
    <3> QED
      BY <1>1, <2>1, <2>2, <3>1, ChangeStep
  <2>3. CASE calls' = (calls \ {c}) \cup {[c EXCEPT !.stage = "refused"]} /\ UNCHANGED <<session, crossed>>
    <3> DEFINE d == [c EXCEPT !.stage = "refused"]
    <3>1. d.kind = c.kind /\ d.stage = "refused" /\ c.stage = "sent"
      BY <1>1, <1>8 DEF Call, AnswerLogin
    <3>2. ~ Tells(c) /\ ~ Tells(d)
      BY <2>1, <3>1 DEF Tells, Whoami
    <3> QED
      BY <2>1, <2>3, <3>2, QuietStep DEF stores
  <2> QED
    BY <1>8, <2>2, <2>3 DEF AnswerLogin
<1>9. ASSUME NEW c \in calls, AnswerLogout(c) PROVE StoresFollow'
  <2>1. c.kind = "logout" /\ c.stage = "sent" /\ UNCHANGED <<stores, place>>
    BY <1>9 DEF AnswerLogout, views
  <2>2. CASE c.csrf = session
    <3> DEFINE d == [c EXCEPT !.stage = "done"]
    <3>1. d.kind = c.kind /\ d.stage = "done" /\ d.who = c.who
      BY <1>1 DEF Call
    <3>2. calls' = (calls \ {c}) \cup {d} /\ Change(c, Nobody)
      BY <1>9, <2>2 DEF AnswerLogout
    <3> QED
      BY <1>1, <2>1, <3>1, <3>2, ChangeStep
  <2>3. CASE c.csrf # session
    <3> DEFINE d == [c EXCEPT !.stage = "refused"]
    <3>1. d.kind = c.kind /\ d.stage = "refused"
      BY <1>1 DEF Call
    <3>2. calls' = (calls \ {c}) \cup {d} /\ UNCHANGED <<session, crossed>>
      BY <1>9, <2>3 DEF AnswerLogout
    <3>3. ~ Tells(c) /\ ~ Tells(d)
      BY <2>1, <3>1 DEF Tells, Whoami
    <3> QED
      BY <2>1, <3>2, <3>3, QuietStep DEF stores
  <2> QED
    BY <2>2, <2>3
<1>10. ASSUME NEW c \in calls, ArriveLogin(c) PROVE StoresFollow'
  <2> DEFINE C == Add(calls \ {c}, "whoamiLogin")
  <2>1. CASE signingIn = c.id
    <3>1. /\ c.kind = "login" /\ c.stage = "done" /\ csrf' = c.who /\ calls' = Add(C, "whoami")
          /\ UNCHANGED <<session, auth, user, company, tenant, crossed>>
      BY <1>10, <2>1 DEF ArriveLogin, FrameOpens
    <3>2. /\ CallsTyped(C) /\ calls \ {c} \subseteq C
          /\ \A d \in C \ (calls \ {c}) : d.kind = "whoamiLogin" /\ d.stage = "sent"
      BY FewerCalls, AddTyped DEF Whoami
    <3>3. /\ C \subseteq calls'
          /\ \A d \in calls' \ C : d.kind = "whoami" /\ d.stage = "sent"
          /\ \E d \in calls' : d.kind = "whoami"
      <4>1. "whoami" \in Whoami \cup {"token"}
        BY DEF Whoami
      <4>2. /\ C \subseteq Add(C, "whoami")
            /\ \A d \in Add(C, "whoami") \ C : d.kind = "whoami" /\ d.stage = "sent"
            /\ \E d \in Add(C, "whoami") : d.kind = "whoami"
        <5> HIDE DEF C
        <5> QED
          BY <3>2, <4>1, AddTyped
      <4> QED
        BY <3>1, <4>2
    <3> HIDE DEF C
    <3>4. SUFFICES ASSUME "stores" \notin crossed' PROVE AnswersCurrent' /\ StoresAnswered'
      BY DEF StoresFollow
    <3>5. AnswersCurrent /\ StoresAnswered
      BY <3>1, <3>4 DEF StoresFollow
    <3>6. c.who = session /\ session # Nobody
      BY <1>1, <3>1, <3>5 DEF AnswersCurrent
    <3>7. AnswersCurrent'
      <4>1. \A d \in calls' : d \in calls \ {c} \/ (d.stage = "sent" /\ d.kind \in Whoami)
        BY <3>2, <3>3 DEF Whoami
      <4>2. Done("logout")' => Done("logout")
        BY <4>1 DEF Done, Whoami
      <4>3. \A d \in calls' : d.stage = "done" => d \in calls
        BY <4>1
      <4> QED
        BY <3>1, <3>5, <3>6, <4>2, <4>3 DEF AnswersCurrent
    <3>8. Asking("whoami")'
      BY <3>3 DEF Asking
    <3>9. StoresAnswered'
      BY <3>8 DEF StoresAnswered
    <3> QED
      BY <3>7, <3>9
  <2>2. CASE signingIn # c.id
    BY <1>5, <1>10, <2>2 DEF ArriveLogin
  <2> QED
    BY <2>1, <2>2
<1>11. ASSUME NEW c \in calls, ArriveLogout(c) PROVE StoresFollow'
  <2>1. /\ c.kind = "logout" /\ c.stage = "done" /\ calls' = calls \ {c} /\ auth' = "out" /\ place' = "login"
        /\ UNCHANGED <<session, crossed>>
    BY <1>11 DEF ArriveLogout
  <2>2. SUFFICES ASSUME "stores" \notin crossed' PROVE AnswersCurrent' /\ StoresAnswered'
    BY DEF StoresFollow
  <2>3. AnswersCurrent
    BY <2>1, <2>2 DEF StoresFollow
  <2>4. session = Nobody /\ ~ Asking("whoamiLogin")
    BY <2>1, <2>3 DEF AnswersCurrent, Done
  <2>5. AnswersCurrent'
    BY <2>1, <2>3 DEF AnswersCurrent, Done, Asking, Whoami
  <2>6. ~ Asking("whoamiLogin")'
    BY <2>1, <2>4 DEF Asking
  <2>7. StoresAnswered'
    BY <2>1, <2>4, <2>6 DEF StoresAnswered
  <2> QED
    BY <2>5, <2>7
<1>12. ASSUME NEW c \in calls, Refused(c) \/ ArriveDetail(c) PROVE StoresFollow'
  <2>1. ~ Tells(c) /\ calls' = calls \ {c}
    BY <1>12 DEF Refused, ArriveDetail, Tells, Whoami
  <2> QED
    BY <1>12, <2>1, QuietStep DEF Refused, ArriveDetail, stores
<1>13. ASSUME NEW c \in calls, NEW n, n.kind = c.kind, c.kind \in {"list", "detail"},
              calls' \in {calls \ {c}, (calls \ {c}) \cup {n}}, UNCHANGED <<session, stores, place, crossed>>
       PROVE  StoresFollow'
  <2>1. ~ Tells(c) /\ ~ Tells(n)
    BY <1>13 DEF Tells, Whoami
  <2> QED
    BY <1>13, <2>1, QuietStep DEF stores
<1>14. ASSUME NEW c \in calls, AnswerList(c) \/ ArriveList(c) \/ AnswerDetail(c) PROVE StoresFollow'
  <2>1. c.kind \in {"list", "detail"} /\ UNCHANGED <<session, stores, place, crossed>>
    BY <1>14 DEF AnswerList, ArriveList, AnswerDetail, views
  <2>2. [c EXCEPT !.got = Append(@, session)].kind = c.kind
    BY <1>1 DEF Call
  <2>3. [c EXCEPT !.stage = "refused", !.who = session].kind = c.kind
    BY <1>1 DEF Call
  <2>4. \A st : [c EXCEPT !.stage = st].kind = c.kind
    BY <1>1 DEF Call
  <2>5. Ask("list", Nobody, 0, c.id).kind = "list"
    BY DEF Ask, New
  <2>6. CASE AnswerList(c)
    BY <1>13, <2>1, <2>2, <2>3, <2>6 DEF AnswerList
  <2>7. CASE AnswerDetail(c)
    BY <1>13, <2>1, <2>4, <2>7 DEF AnswerDetail
  <2>8. CASE ArriveList(c)
    BY <1>13, <2>1, <2>5, <2>8 DEF ArriveList
  <2> QED
    BY <1>14, <2>6, <2>7, <2>8
<1>15. ASSUME NEW C, NEW n, ~ Tells(n), C \subseteq calls, \A c \in calls \ C : ~ Tells(c),
              calls' \in {C, C \cup {n}}, UNCHANGED <<session, auth, user, csrf, company, tenant, crossed>>,
              place' = place \/ place' = "login" \/ place # "login"
       PROVE  StoresFollow'
  BY <1>15, QuietStep
<1>16. ASSUME NEW u \in Users, Login(u) PROVE StoresFollow'
  <2>1. ~ Tells([New("login", Free(calls, "login")) EXCEPT !.who = u])
    BY DEF New, Tells, Whoami
  <2> QED
    BY <1>15, <1>16, <2>1 DEF Login, stores
<1>17. CASE Logout
  <2>1. ~ Tells([New("logout", Free(calls, "logout")) EXCEPT !.csrf = csrf])
    BY DEF New, Tells, Whoami
  <2> QED
    BY <1>15, <1>17, <2>1 DEF Logout, stores
<1>18. ASSUME NEW s, Elsewhere(s) PROVE StoresFollow'
  BY <1>5, <1>18 DEF Elsewhere
<1>19. ASSUME NEW p \in AppPages \cup {"login"}, NEW u, Open(p, u) PROVE StoresFollow'
  <2>1. /\ place' = Frame(p, auth) /\ UNCHANGED <<session, stores, crossed>>
        /\ calls' = IF place = "login" /\ p # "login" THEN FrameOpens(calls) ELSE calls
    BY <1>19 DEF Open
  <2>2. CASE calls' = calls /\ ~ (place = "login" /\ p # "login")
    BY <2>1, <2>2, QuietStep DEF Frame, stores
  <2>3. CASE place = "login" /\ p # "login"
    <3>1. /\ calls \subseteq calls'
          /\ \A d \in calls' \ calls : d.kind = "whoami" /\ d.stage = "sent"
          /\ \E d \in calls' : d.kind = "whoami"
      BY <2>1, <2>3, AddTyped DEF FrameOpens, Whoami
    <3>2. AnswersCurrent => AnswersCurrent'
      BY <2>1, <3>1 DEF AnswersCurrent, Done, Asking, Whoami
    <3>3. Asking("whoami")'
      BY <3>1 DEF Asking
    <3>4. StoresAnswered'
      BY <3>3 DEF StoresAnswered
    <3> QED
      BY <2>1, <3>2, <3>4 DEF StoresFollow
  <2> QED
    BY <2>1, <2>2, <2>3
<1>20. ASSUME NEW p \in {"list", "detail"}, NEW u, NEW n, NEW i PROVE ~ Tells(Ask(p, u, n, i))
  BY <1>20 DEF Ask, New, Tells, Whoami
<1>21. CASE Mount
  <2>1. place \in AppPages
    BY <1>21 DEF Mount, Awaited, ViewsTyped
  <2>2. Asks(place) => place \in {"list", "detail"}
    BY <2>1 DEF Asks, AppPages
  <2> QED
    BY <1>15, <1>20, <1>21, <2>2 DEF Mount, stores
<1>22. ASSUME NEW p \in AppPages, TryAgain(p) PROVE StoresFollow'
  BY <1>22, QuietStep DEF TryAgain, stores, ViewsTyped
<1>28. Unlisted \subseteq calls /\ \A c \in calls \ Unlisted : ~ Tells(c)
  BY DEF Unlisted, Tells, Whoami
<1>23. CASE LoadMore
  <2>1. ~ Tells([New("list", Free(Unlisted, "list")) EXCEPT !.got = pages, !.goal = Len(pages) + 1, !.more = "yes"])
    BY DEF New, Tells, Whoami
  <2> QED
    BY <1>15, <1>23, <1>28, <2>1 DEF LoadMore, stores, views
<1>24. CASE Retry
  BY <1>15, <1>20, <1>24, <1>28 DEF Retry, stores, views
<1>25. CASE PickCompany
  <2> DEFINE C == {c \in calls : ~(c.kind = mounted /\ (mounted = "detail" => c.who = viewed))}
  <2>1. UNCHANGED <<session, auth, user, csrf, company, tenant, place, crossed>>
    BY <1>25 DEF PickCompany, views
  <2>2. CASE calls' = calls
    BY <2>1, <2>2, QuietStep
  <2>3. CASE mounted \notin {"none", "home"} /\ calls' = C \cup {Ask(mounted, viewed, Len(pages), Free(C, mounted))}
    <3>1. mounted \in {"list", "detail"}
      BY <2>3 DEF ViewsTyped, AppPages
    <3>2. C \subseteq calls /\ \A c \in calls \ C : ~ Tells(c)
      BY <3>1 DEF Tells, Whoami
    <3> QED
      BY <1>15, <1>20, <2>1, <2>3, <3>1, <3>2
  <2> QED
    BY <1>25, <2>2, <2>3 DEF PickCompany
<1>26. CASE Reload
  <2>1. /\ auth' = "loading" /\ place' = place
        /\ calls' = IF place = "login" THEN {} ELSE FrameOpens({})
    BY <1>26 DEF Reload, Fresh
  <2>2. CallsTyped({})
    BY FewerCalls
  <2>3. /\ \A d \in calls' : d.kind = "whoami" /\ d.stage = "sent"
        /\ place # "login" => \E d \in calls' : d.kind = "whoami"
    BY <2>1, <2>2, AddTyped DEF FrameOpens, Whoami
  <2>4. AnswersCurrent'
    BY <2>3 DEF AnswersCurrent, Done, Asking
  <2>5. ~ Asking("whoamiLogin")' /\ (place # "login" => Asking("whoami")')
    BY <2>3 DEF Asking
  <2>6. StoresAnswered'
    BY <2>1, <2>5 DEF StoresAnswered
  <2> QED
    BY <2>4, <2>6 DEF StoresFollow
<1>27. CASE UNCHANGED sessionVars
  BY <1>27, QuietStep DEF sessionVars, stores, views
<1> QED
  BY <1>2, <1>3, <1>4, <1>6, <1>7, <1>8, <1>9, <1>10, <1>11, <1>12, <1>14, <1>16, <1>17, <1>18, <1>19, <1>21, <1>22,
     <1>23, <1>24, <1>25, <1>26, <1>27 DEF SessionNext, Calls, People

-----------------------------------------------------------------------------
(***************************************************************************)
(* The audit trail.                                                        *)
(***************************************************************************)
Fetched(c) == c.kind = "list" /\ c.stage # "refused" /\ Len(c.got) = c.goal

LEMMA FetchedStep ==
    ASSUME CallsTyped(calls), ViewsTyped, PagesTyped, FetchedCurrent, [SessionNext]_sessionVars
    PROVE  FetchedCurrent'
<1>1. \A c \in calls : c \in Call
  BY DEF CallsTyped
<1>2. ASSUME UNCHANGED session, crossed \subseteq crossed', \A c \in calls' : Fetched(c) => c \in calls
      PROVE  FetchedCurrent'
  BY <1>2 DEF FetchedCurrent, Fetched
<1>3. ASSUME "list" \in crossed' \/ \A c \in calls' : ~ Fetched(c) PROVE FetchedCurrent'
  BY <1>3 DEF FetchedCurrent, Fetched
<1>4. ASSUME UNCHANGED session, crossed \subseteq crossed', calls' \subseteq calls PROVE FetchedCurrent'
  BY <1>2, <1>4
<1>5. ASSUME UNCHANGED session, crossed \subseteq crossed', NEW C, C \subseteq calls, NEW n, ~ Fetched(n),
             calls' = C \cup {n}
      PROVE  FetchedCurrent'
  BY <1>2, <1>5
<1>6. \A c \in calls : CallsTyped(calls \ {c})
  BY FewerCalls
<1>7. ASSUME NEW C, CallsTyped(C), NEW kind \in Whoami \cup {"token"}
      PROVE  \A d \in Add(C, kind) : d \in C \/ ~ Fetched(d)
  BY <1>7, AddTyped DEF Fetched, Whoami
<1>8. ASSUME NEW c \in calls, ArriveWhoami(c) \/ CallFails(c) PROVE FetchedCurrent'
  <2>1. \A d \in ThenToken(calls \ {c}) : d \in calls \ {c} \/ ~ Fetched(d)
    BY <1>6, <1>7 DEF ThenToken
  <2>2. \A d \in calls' : d \in calls \/ ~ Fetched(d)
    BY <1>8, <2>1 DEF ArriveWhoami, CallFails
  <2> QED
    BY <1>2, <1>8, <2>2 DEF ArriveWhoami, CallFails
<1>9. ASSUME NEW c \in calls, ArriveWhoamiLogin(c) \/ ArriveToken(c) \/ ArriveLogout(c) \/ Refused(c) \/ ArriveDetail(c)
      PROVE  FetchedCurrent'
  BY <1>4, <1>9 DEF ArriveWhoamiLogin, ArriveToken, ArriveLogout, Refused, ArriveDetail
<1>10. ASSUME NEW c \in calls, AnswerWho(c) PROVE FetchedCurrent'
  <2>1. [c EXCEPT !.stage = "done", !.who = session].kind # "list"
    BY <1>1, <1>10 DEF Call, AnswerWho, Whoami
  <2> QED
    BY <1>5, <1>10, <2>1 DEF AnswerWho, Fetched
<1>11. ASSUME NEW c \in calls, c.kind # "list", NEW s, Change(c, s) PROVE "list" \in crossed' \/ \A d \in calls : d.kind # "list"
  <2>1. SUFFICES ASSUME NEW d \in calls, d.kind = "list" PROVE "list" \in crossed'
    OBVIOUS
  <2>2. "list" \in {IF b.kind = "list" THEN "list" ELSE "stores" : b \in {b \in calls \ {c} : b.kind # "detail"}}
    BY <1>11, <2>1
  <2> QED
    BY <1>11, <2>2 DEF Change
<1>12. ASSUME NEW c \in calls, AnswerLogin(c) \/ AnswerLogout(c) \/ AnswerDetail(c) PROVE FetchedCurrent'
  <2>1. PICK st : calls' = (calls \ {c}) \cup {[c EXCEPT !.stage = st]}
    BY <1>12 DEF AnswerLogin, AnswerLogout, AnswerDetail
  <2>2. c.kind # "list" /\ [c EXCEPT !.stage = st].kind = c.kind
    BY <1>1, <1>12 DEF Call, AnswerLogin, AnswerLogout, AnswerDetail
  <2>3. CASE UNCHANGED <<session, crossed>>
    BY <1>5, <2>1, <2>2, <2>3 DEF Fetched
  <2>4. ASSUME NEW s, Change(c, s) PROVE FetchedCurrent'
    BY <1>3, <1>11, <2>1, <2>2, <2>4 DEF Fetched
  <2> QED
    BY <1>12, <2>3, <2>4 DEF AnswerLogin, AnswerLogout, AnswerDetail
<1>13. ASSUME NEW c \in calls, ArriveLogin(c) PROVE FetchedCurrent'
  <2> DEFINE C == Add(calls \ {c}, "whoamiLogin")
  <2>1. CallsTyped(C) /\ \A d \in C : d \in calls \ {c} \/ ~ Fetched(d)
    BY <1>6, <1>7, AddTyped DEF Whoami
  <2>2. calls' = C \/ calls' = Add(C, "whoami")
    BY <1>13 DEF ArriveLogin, FrameOpens
  <2> HIDE DEF C
  <2>3. \A d \in calls' : d \in calls \/ ~ Fetched(d)
    BY <1>7, <2>1, <2>2 DEF Whoami
  <2> QED
    BY <1>2, <1>13, <2>3 DEF ArriveLogin
<1>14. ASSUME NEW u, Login(u) PROVE FetchedCurrent'
  <2>1. ~ Fetched([New("login", Free(calls, "login")) EXCEPT !.who = u])
    BY DEF New, Fetched
  <2> QED
    BY <1>5, <1>14, <2>1 DEF Login
<1>15. CASE Logout
  <2>1. ~ Fetched([New("logout", Free(calls, "logout")) EXCEPT !.csrf = csrf])
    BY DEF New, Fetched
  <2> QED
    BY <1>5, <1>15, <2>1 DEF Logout
<1>16. ASSUME NEW s, Elsewhere(s) PROVE FetchedCurrent'
  BY <1>3, <1>16 DEF Elsewhere
<1>17. ASSUME NEW p, NEW u, Open(p, u) PROVE FetchedCurrent'
  <2>1. \A d \in FrameOpens(calls) : d \in calls \/ ~ Fetched(d)
    BY <1>7 DEF FrameOpens, Whoami
  <2> QED
    BY <1>2, <1>17, <2>1 DEF Open
<1>18. ASSUME NEW p \in {"list", "detail"}, NEW u \in Users \cup {Nobody}, NEW n \in 0 .. MaxPages, NEW i \in Ids
       PROVE  ~ Fetched(Ask(p, u, n, i))
  <2>1. /\ Ask(p, u, n, i).kind = p /\ Ask(p, u, n, i).got = <<>>
        /\ p = "list" => Ask(p, u, n, i).goal # 0
    BY AskTyped
  <2> QED
    BY <2>1, EmptySeq DEF Fetched
<1>19. CASE Mount
  <2>1. place \in AppPages /\ viewed \in Users \cup {Nobody}
    BY <1>19 DEF Mount, Awaited, ViewsTyped
  <2>2. Len(pages') \in 0 .. MaxPages
    BY <1>19, LenProperties, EmptySeq, BoundsAssumption DEF Mount, PagesTyped
  <2>3. Free(calls, place) \in Ids
    BY FreeNumber DEF CallsTyped
  <2>4. Asks(place) => ~ Fetched(Ask(place, viewed, Len(pages'), Free(calls, place)))
    BY <1>18, <2>1, <2>2, <2>3 DEF Asks, AppPages
  <2> QED
    BY <1>4, <1>5, <1>19, <2>4 DEF Mount
<1>20. ASSUME NEW p, TryAgain(p) PROVE FetchedCurrent'
  BY <1>4, <1>20 DEF TryAgain
<1>21. CASE LoadMore
  <2> DEFINE n == [New("list", Free(Unlisted, "list")) EXCEPT !.got = pages, !.goal = Len(pages) + 1, !.more = "yes"]
  <2>1. n.got = pages /\ n.goal = Len(pages) + 1
    BY DEF New
  <2>2. Len(pages) \in Nat
    BY LenProperties DEF PagesTyped
  <2>3. ~ Fetched(n)
    BY <2>1, <2>2 DEF Fetched
  <2> QED
    BY <1>5, <1>21, <2>3 DEF LoadMore, Unlisted
<1>22. CASE Retry
  <2>1. Len(pages) \in 0 .. MaxPages
    BY LenProperties, BoundsAssumption DEF PagesTyped
  <2>2. ~ Fetched(Ask("list", Nobody, Len(pages), 1))
    BY <1>18, <2>1 DEF Ids
  <2> QED
    BY <1>5, <1>22, <2>2 DEF Retry, Unlisted
<1>23. ASSUME NEW c \in calls, AnswerList(c) PROVE FetchedCurrent'
  <2>1. /\ c.kind = "list" /\ Len(c.got) < c.goal /\ c.got \in Seq(Users) /\ OneOwner(c.got)
        /\ UNCHANGED <<session, crossed>> /\ c.goal \in Nat
    BY <1>1, <1>23, BoundsAssumption DEF AnswerList, Call, CallsTyped, stores
  <2>2. CASE Gives(c)
    <3> DEFINE d == [c EXCEPT !.got = Append(@, session)]
    <3>1. session \in Users /\ (c.got = <<>> \/ c.got[Len(c.got)] = session)
      BY <2>2 DEF Gives, ViewsTyped
    <3>2. d.goal = c.goal /\ d.got = Append(c.got, session)
      BY <1>1 DEF Call
    <3>3. Append(c.got, session)[1] = session
      <4>1. Len(c.got) \in Nat /\ DOMAIN c.got = 1 .. Len(c.got) /\ (c.got # <<>> => Len(c.got) # 0)
        BY <2>1, LenProperties, EmptySeq
      <4>2. /\ \A i \in 1 .. Len(c.got) : Append(c.got, session)[i] = c.got[i]
            /\ Append(c.got, session)[Len(c.got) + 1] = session
        BY <2>1, <3>1, AppendProperties
      <4>3. CASE c.got = <<>>
        BY <4>2, <4>3, EmptySeq
      <4>4. CASE c.got # <<>>
        <5>1. 1 \in DOMAIN c.got /\ Len(c.got) \in DOMAIN c.got
          BY <4>1, <4>4
        <5>2. c.got[1] = session
          BY <2>1, <3>1, <4>4, <5>1 DEF OneOwner
        <5> QED
          BY <4>1, <4>2, <5>1, <5>2
      <4> QED
        BY <4>3, <4>4
    <3>4. c.goal # 0
      BY <2>1, LenProperties
    <3>5. calls' = (calls \ {c}) \cup {d}
      BY <1>23, <2>2 DEF AnswerList
    <3> HIDE DEF d
    <3> QED
      BY <2>1, <3>2, <3>3, <3>4, <3>5 DEF FetchedCurrent
  <2>3. CASE ~ Gives(c)
    <3>1. [c EXCEPT !.stage = "refused", !.who = session].stage = "refused"
      BY <1>1 DEF Call
    <3> QED
      BY <1>5, <1>23, <2>1, <2>3, <3>1 DEF AnswerList, Fetched
  <2> QED
    BY <2>2, <2>3
<1>24. ASSUME NEW c \in calls, ArriveList(c) PROVE FetchedCurrent'
  <2>1. UNCHANGED <<session, crossed>> /\ c.id \in Ids /\ 0 \in 0 .. MaxPages
    BY <1>1, <1>24, BoundsAssumption DEF ArriveList, Call
  <2>2. ~ Fetched(Ask("list", Nobody, 0, c.id))
    BY <1>18, <2>1
  <2> QED
    BY <1>4, <1>5, <1>24, <2>1, <2>2 DEF ArriveList
<1>25. CASE PickCompany
  <2> DEFINE C == {c \in calls : ~(c.kind = mounted /\ (mounted = "detail" => c.who = viewed))}
  <2>1. UNCHANGED <<session, crossed>>
    BY <1>25 DEF PickCompany
  <2>2. CASE calls' = calls
    BY <1>4, <2>1, <2>2
  <2>3. CASE mounted \notin {"none", "home"} /\ calls' = C \cup {Ask(mounted, viewed, Len(pages), Free(C, mounted))}
    <3>1. mounted \in {"list", "detail"} /\ viewed \in Users \cup {Nobody}
      BY <2>3 DEF ViewsTyped, AppPages
    <3>2. Len(pages) \in 0 .. MaxPages
      BY LenProperties, BoundsAssumption DEF PagesTyped
    <3>3. Free(C, mounted) \in Ids
      BY FewerCalls, FreeNumber DEF CallsTyped
    <3>4. ~ Fetched(Ask(mounted, viewed, Len(pages), Free(C, mounted)))
      BY <1>18, <3>1, <3>2, <3>3
    <3> QED
      BY <1>5, <2>1, <2>3, <3>4
  <2> QED
    BY <1>25, <2>2, <2>3 DEF PickCompany
<1>26. CASE Reload
  <2>1. CallsTyped({})
    BY FewerCalls
  <2>2. \A d \in FrameOpens({}) : ~ Fetched(d)
    BY <1>7, <2>1 DEF FrameOpens, Whoami
  <2> QED
    BY <1>3, <1>26, <2>2 DEF Reload
<1>27. CASE UNCHANGED sessionVars
  BY <1>4, <1>27 DEF sessionVars
<1> QED
  BY <1>8, <1>9, <1>10, <1>12, <1>13, <1>14, <1>15, <1>16, <1>17, <1>19, <1>20, <1>21, <1>22, <1>23, <1>24, <1>25,
     <1>26, <1>27 DEF SessionNext, Calls, People

\* The audit trail that comes on the screen is asked for, and what arrives is of the session.
LEMMA ScreenStep ==
    ASSUME CallsTyped(calls), ViewsTyped, PagesTyped, FetchedCurrent, ScreenCurrent, [SessionNext]_sessionVars
    PROVE  ScreenCurrent'
<1>1. \A c \in calls : c \in Call /\ c.id # 0
  BY DEF CallsTyped, Call, Ids
<1>2. ASSUME UNCHANGED <<session, pages, failed>>, crossed \subseteq crossed',
             mounted' = mounted \/ mounted' # "list",
             \A c \in calls : c.kind = "list" \/ (c.kind \in {"login", "logout"} /\ c.stage = "done") => c \in calls'
      PROVE  ScreenCurrent'
  <2>1. Asking("list") => Asking("list")'
    BY <1>2 DEF Asking
  <2>2. Changed => Changed'
    BY <1>2 DEF Changed, Done
  <2>3. crossed' = {} => crossed = {}
    BY <1>2
  <2> QED
    BY <1>2, <2>1, <2>2, <2>3 DEF ScreenCurrent
<1>3. ASSUME crossed' # {} \/ mounted' # "list" \/ Asking("list")' \/ Changed' PROVE ScreenCurrent'
  BY <1>3 DEF ScreenCurrent
<1>4. ASSUME NEW c \in calls, ArriveWhoami(c) PROVE ScreenCurrent'
  <2>1. calls \ {c} \subseteq calls'
    BY <1>4 DEF ArriveWhoami, ThenToken, Add
  <2>2. mounted' = mounted \/ mounted' = "none"
    BY <1>4 DEF ArriveWhoami, LeaveFrame
  <2> QED
    BY <1>2, <1>4, <2>1, <2>2 DEF ArriveWhoami, cache
<1>5. ASSUME NEW c \in calls, ArriveWhoamiLogin(c) \/ ArriveToken(c) \/ Refused(c) PROVE ScreenCurrent'
  BY <1>2, <1>5 DEF ArriveWhoamiLogin, ArriveToken, Refused, views, cache
<1>6. ASSUME NEW c \in calls, AnswerWho(c) PROVE ScreenCurrent'
  BY <1>2, <1>6 DEF AnswerWho, Whoami, views, cache
<1>7. ASSUME NEW c \in calls, CallFails(c) PROVE ScreenCurrent'
  BY <1>3, <1>7 DEF CallFails
<1>8. ASSUME NEW c \in calls, c.kind \in {"login", "logout"}, calls' = (calls \ {c}) \cup {[c EXCEPT !.stage = "done"]}
      PROVE  ScreenCurrent'
  <2>1. [c EXCEPT !.stage = "done"].kind = c.kind /\ [c EXCEPT !.stage = "done"].stage = "done"
    BY <1>1 DEF Call
  <2>2. Changed'
    BY <1>8, <2>1 DEF Changed, Done
  <2> QED
    BY <1>3, <2>2
<1>9. ASSUME NEW c \in calls, AnswerLogin(c) PROVE ScreenCurrent'
  <2>1. CASE UNCHANGED <<session, crossed>>
    BY <1>2, <1>9, <2>1 DEF AnswerLogin, views, cache
  <2> QED
    BY <1>8, <1>9, <2>1 DEF AnswerLogin
<1>10. ASSUME NEW c \in calls, AnswerLogout(c) PROVE ScreenCurrent'
  <2>1. CASE c.csrf # session
    BY <1>2, <1>10, <2>1 DEF AnswerLogout, views, cache
  <2>2. CASE c.csrf = session
    BY <1>8, <1>10, <2>2 DEF AnswerLogout
  <2> QED
    BY <2>1, <2>2
<1>11. ASSUME NEW c \in calls, ArriveLogin(c) PROVE ScreenCurrent'
  <2>1. CASE signingIn = c.id
    <3>1. mounted' # "list"
      BY <1>1, <1>11, <2>1 DEF ArriveLogin, ViewsTyped, AppPages
    <3> QED
      BY <1>3, <3>1
  <2>2. CASE signingIn # c.id
    BY <1>3, <1>11, <2>2 DEF ArriveLogin
  <2> QED
    BY <2>1, <2>2
<1>12. ASSUME NEW c \in calls, ArriveLogout(c) PROVE ScreenCurrent'
  BY <1>3, <1>12 DEF ArriveLogout, LeaveFrame
<1>13. ASSUME NEW u, Login(u) PROVE ScreenCurrent'
  BY <1>2, <1>13 DEF Login, cache
<1>14. CASE Logout
  BY <1>2, <1>14 DEF Logout, cache
<1>15. ASSUME NEW s, Elsewhere(s) PROVE ScreenCurrent'
  BY <1>3, <1>15 DEF Elsewhere
<1>16. ASSUME NEW p, NEW u, Open(p, u) \/ TryAgain(p) PROVE ScreenCurrent'
  BY <1>3, <1>16 DEF Open, TryAgain
<1>17. \A u, n, i : Ask("list", u, n, i).kind = "list"
  BY DEF Ask, New
<1>18. CASE Mount
  <2>1. CASE mounted' = "list"
    <3>1. place = "list"
      BY <1>18, <2>1 DEF Mount
    <3>2. CASE Asks(place)
      BY <1>3, <1>17, <1>18, <3>1, <3>2 DEF Mount, Asking
    <3>3. CASE ~ Asks(place)
      BY <1>3, <1>18, <3>1, <3>3 DEF Mount, Asks, Asked, Asking
    <3> QED
      BY <3>2, <3>3
  <2>2. CASE mounted' # "list"
    BY <1>3, <2>2
  <2> QED
    BY <2>1, <2>2
<1>19. CASE LoadMore
  <2>1. [New("list", Free(Unlisted, "list")) EXCEPT !.got = pages, !.goal = Len(pages) + 1, !.more = "yes"].kind = "list"
    BY DEF New
  <2>2. Asking("list")'
    BY <1>19, <2>1 DEF LoadMore, Asking
  <2> QED
    BY <1>3, <2>2
<1>20. CASE Retry
  <2>1. Asking("list")'
    BY <1>17, <1>20 DEF Retry, Asking
  <2> QED
    BY <1>3, <2>1
<1>21. ASSUME NEW c \in calls, AnswerList(c) PROVE ScreenCurrent'
  <2>1. /\ [c EXCEPT !.got = Append(@, session)].kind = c.kind
        /\ [c EXCEPT !.stage = "refused", !.who = session].kind = c.kind
    BY <1>1 DEF Call
  <2>2. Asking("list")'
    BY <1>21, <2>1 DEF AnswerList, Asking
  <2> QED
    BY <1>3, <2>2
<1>22. ASSUME NEW c \in calls, ArriveList(c) PROVE ScreenCurrent'
  <2>1. CASE c.stage # "refused"
    <3>1. Fetched(c) /\ pages' = c.got /\ UNCHANGED <<session, crossed>>
      BY <1>22, <2>1 DEF ArriveList, Fetched
    <3>2. crossed' = {} => pages'[1] = session'
      BY <3>1 DEF FetchedCurrent, Fetched
    <3> QED
      BY <3>2 DEF ScreenCurrent
  <2>2. CASE c.stage = "refused" /\ failed' # "no"
    BY <2>2 DEF ScreenCurrent
  <2>3. CASE c.stage = "refused" /\ failed' = "no"
    <3>1. pages' = <<>>
      BY <1>22, <2>3 DEF ArriveList
    <3> QED
      BY <3>1 DEF ScreenCurrent
  <2> QED
    BY <2>1, <2>2, <2>3
<1>23. ASSUME NEW c \in calls, AnswerDetail(c) \/ ArriveDetail(c) PROVE ScreenCurrent'
  BY <1>2, <1>23 DEF AnswerDetail, ArriveDetail, views, cache
<1>24. CASE PickCompany
  <2> DEFINE C == {c \in calls : ~(c.kind = mounted /\ (mounted = "detail" => c.who = viewed))}
  <2>1. UNCHANGED <<session, pages, failed, crossed, mounted>>
    BY <1>24 DEF PickCompany, cache, views
  <2>2. CASE calls' = calls
    BY <1>2, <2>1, <2>2
  <2>3. CASE mounted \notin {"none", "home"} /\ calls' = C \cup {Ask(mounted, viewed, Len(pages), Free(C, mounted))}
    <3>1. CASE mounted = "list"
      <4>1. Asking("list")'
        BY <1>17, <2>3, <3>1 DEF Asking
      <4> QED
        BY <1>3, <4>1
    <3>2. CASE mounted # "list"
      BY <1>3, <2>1, <3>2
    <3> QED
      BY <3>1, <3>2
  <2> QED
    BY <1>24, <2>2, <2>3 DEF PickCompany
<1>25. CASE Reload
  BY <1>3, <1>25 DEF Reload, Fresh
<1>26. CASE UNCHANGED sessionVars
  BY <1>2, <1>26 DEF sessionVars, views, cache
<1> QED
  BY <1>4, <1>5, <1>6, <1>7, <1>9, <1>10, <1>11, <1>12, <1>13, <1>14, <1>15, <1>16, <1>18, <1>19, <1>20, <1>21, <1>22,
     <1>23, <1>24, <1>25, <1>26 DEF SessionNext, Calls, People

\* Whenever the event on the screen, or the tenant, changes the page looks again whether it may show it.
LEMMA BoundaryStep ==
    ASSUME BoundaryHolds, [SessionNext]_sessionVars
    PROVE  BoundaryHolds'
<1>1. ASSUME UNCHANGED <<mounted, viewed, details, erred, broken>>, tenant' \in {tenant, Nobody} PROVE BoundaryHolds'
  BY <1>1 DEF BoundaryHolds, Throws
<1>2. ASSUME mounted' = "none" PROVE BoundaryHolds'
  BY <1>2 DEF BoundaryHolds, Throws
<1>3. ASSUME Boundary PROVE BoundaryHolds'
  BY <1>3 DEF BoundaryHolds, Boundary, Throws
<1>4. ASSUME NEW c \in calls, ArriveWhoami(c) \/ ArriveLogout(c) PROVE BoundaryHolds'
  BY <1>2, <1>3, <1>4 DEF ArriveWhoami, ArriveLogout, LeaveFrame
<1>5. ASSUME NEW c \in calls, ArriveWhoamiLogin(c) \/ ArriveToken(c) \/ CallFails(c) \/ AnswerWho(c) \/ AnswerLogin(c)
                              \/ ArriveLogin(c) \/ AnswerLogout(c) \/ Refused(c) \/ AnswerList(c) \/ ArriveList(c)
                              \/ AnswerDetail(c)
      PROVE  BoundaryHolds'
  BY <1>1, <1>5 DEF ArriveWhoamiLogin, ArriveToken, CallFails, AnswerWho, AnswerLogin, ArriveLogin, AnswerLogout,
                    Refused, AnswerList, ArriveList, AnswerDetail, views, cache, stores
<1>6. ASSUME NEW c \in calls, ArriveDetail(c) PROVE BoundaryHolds'
  BY <1>3, <1>6 DEF ArriveDetail
<1>7. ASSUME NEW u, Login(u) \/ Elsewhere(u) PROVE BoundaryHolds'
  BY <1>1, <1>7 DEF Login, Elsewhere, views, cache, stores
<1>8. CASE Logout \/ LoadMore \/ Retry \/ PickCompany \/ UNCHANGED sessionVars
  BY <1>1, <1>8 DEF Logout, LoadMore, Retry, PickCompany, sessionVars, views, cache, stores
<1>9. ASSUME NEW p, NEW u, Open(p, u) \/ TryAgain(p) PROVE BoundaryHolds'
  BY <1>2, <1>9 DEF Open, TryAgain
<1>10. CASE Mount
  BY <1>3, <1>10 DEF Mount
<1>11. CASE Reload
  BY <1>2, <1>11 DEF Reload, Fresh
<1> QED
  BY <1>4, <1>5, <1>6, <1>7, <1>8, <1>9, <1>10, <1>11 DEF SessionNext, Calls, People

-----------------------------------------------------------------------------
LEMMA InitSession == SessionInit => SessionIInv
<1> SUFFICES ASSUME SessionInit PROVE SessionIInv
  OBVIOUS
<1>1. CallsTyped({})
  BY FS_EmptySet DEF CallsTyped
<1>2. "whoami" \in Whoami \cup {"token"}
  BY DEF Whoami
<1>3. /\ CallsTyped(calls)
      /\ \A d \in calls : d.kind = "whoami" /\ d.stage = "sent"
      /\ place # "login" => \E d \in calls : d.kind = "whoami"
  <2>1. /\ CallsTyped(Add({}, "whoami"))
        /\ \A d \in Add({}, "whoami") : d.kind = "whoami" /\ d.stage = "sent"
        /\ \E d \in Add({}, "whoami") : d.kind = "whoami"
    BY <1>1, <1>2, AddTyped
  <2> QED
    BY <1>1, <2>1 DEF SessionInit, FrameOpens
<1>4. ViewsTyped /\ place \in AppPages \cup {"login"}
  BY DEF SessionInit, ViewsTyped
<1>5. PagesTyped
  BY EmptySeq, BoundsAssumption DEF SessionInit, PagesTyped, OneOwner
<1>6. StoresFollow
  <2>1. AnswersCurrent
    BY <1>3 DEF AnswersCurrent, Done, Asking
  <2>2. ~ Asking("whoamiLogin") /\ (place # "login" => Asking("whoami")) /\ auth = "loading"
    BY <1>3 DEF Asking, SessionInit
  <2> QED
    BY <2>1, <2>2 DEF StoresFollow, StoresAnswered
<1>7. FetchedCurrent /\ ScreenCurrent /\ BoundaryHolds
  BY <1>3 DEF SessionInit, FetchedCurrent, ScreenCurrent, BoundaryHolds, Throws
<1> QED
  BY <1>3, <1>4, <1>5, <1>6, <1>7, SessionParts DEF SessionIInv

LEMMA NextSession == SessionIInv /\ [SessionNext]_sessionVars => SessionIInv'
<1> SUFFICES ASSUME SessionIInv, [SessionNext]_sessionVars PROVE SessionIInv'
  OBVIOUS
<1>1. CallsTyped(calls) /\ ViewsTyped /\ PagesTyped
  BY SessionParts DEF SessionIInv
<1>2. StoresFollow /\ FetchedCurrent /\ ScreenCurrent /\ BoundaryHolds
  BY DEF SessionIInv
<1>3. CallsTyped(calls)' /\ ViewsTyped' /\ PagesTyped'
  <2>1. CallsTyped(calls') /\ ViewsTyped' /\ PagesTyped'
    BY <1>1, CallsStep, ViewsStep, PagesStep
  <2> QED
    BY <2>1 DEF CallsTyped
<1>4. (SessionTypeOK /\ Named /\ PagesOneTenant /\ CallsOneTenant)'
  BY <1>3, SessionParts, PTL
<1>5. StoresFollow' /\ FetchedCurrent' /\ ScreenCurrent' /\ BoundaryHolds'
  BY <1>1, <1>2, StoresStep, FetchedStep, ScreenStep, BoundaryStep
<1> QED
  BY <1>4, <1>5 DEF SessionIInv

LEMMA SpecSession == SessionSpec => []SessionIInv
  BY InitSession, NextSession, PTL DEF SessionSpec

(***************************************************************************)
(* The stores, the views, the cache and the calls keep their types: no two *)
(* calls of a kind have a number, none asks for what another asks for, and *)
(* a page is on the screen only of a user who is signed in (app.tsx,       *)
(* stores/, hooks/useAuth.ts).                                             *)
(***************************************************************************)
THEOREM SessionTypeCorrect == SessionSpec => []SessionTypeOK
<1>1. SessionIInv => SessionTypeOK
  BY DEF SessionIInv
<1> QED
  BY SpecSession, <1>1, PTL

LEMMA SettledStores ==
    ASSUME SessionIInv
    PROVE  StoresOfSession
<1> SUFFICES ASSUME Settled PROVE StoresOfSession
  BY DEF StoresOfSession, StoreFollowsSession, CanSignOut, CompanyOfUser
<1>1. StoresAnswered
  BY DEF SessionIInv, StoresFollow, Settled
<1>2. ~ Asking("whoami") /\ ~ Asking("whoamiLogin") /\ ~ Asking("token") /\ ~ Done("login") /\ ~ Changed
  BY DEF Settled, UnderWay, Whoami, Asking, Changed, Done
<1>3. auth \in {"in", "out"}
  BY DEF SessionIInv, SessionTypeOK, Settled
<1> QED
  BY <1>1, <1>2, <1>3 DEF StoresAnswered, StoresOfSession, StoreFollowsSession, CanSignOut, CompanyOfUser

(***************************************************************************)
(* When the questions about the session are answered the stores of user,   *)
(* tenant, antiforgery token and companies say what the Bridge says, in    *)
(* whichever order the answers came.                                       *)
(***************************************************************************)
THEOREM StoresSayWhatBridgeSays == SessionSpec => []StoresOfSession
  BY SpecSession, SettledStores, PTL

(***************************************************************************)
(* The cache never mixes the audit trails of two tenants, and the trail on *)
(* the screen is that of the session once its request is answered.         *)
(***************************************************************************)
THEOREM TrailIsOfSession == SessionSpec => []TrailOfSession
<1>1. SessionIInv => TrailOfSession
  <2>1. SessionIInv => PagesOneTenant
    BY DEF SessionIInv
  <2>2. ASSUME SessionIInv PROVE ListOfSession
    <3> SUFFICES ASSUME Settled, "list" \notin crossed, Shown("list"), failed = "no", ~ Asked("list", Nobody),
                        pages # <<>>
                 PROVE  pages[1] = session
      BY DEF ListOfSession
    <3>1. crossed = {} /\ mounted = "list" /\ ScreenCurrent
      BY <2>2 DEF SessionIInv, SessionTypeOK, Settled, Shown
    <3>2. ~ Asking("list") /\ ~ Changed
      BY DEF Asked, Asking, Settled, Changed, Done
    <3> QED
      BY <3>1, <3>2 DEF ScreenCurrent
  <2> QED
    BY <2>1, <2>2 DEF TrailOfSession
<1> QED
  BY SpecSession, <1>1, PTL

(***************************************************************************)
(* No event of another tenant is on the screen when the session is known,  *)
(* though it is in the cache: the page throws, and the boundary catches.   *)
(***************************************************************************)
THEOREM DetailIsOfSession == SessionSpec => []DetailOfSession
<1>1. ASSUME SessionIInv PROVE DetailOfSession
  <2> SUFFICES ASSUME Settled, Shown("detail"), viewed \in details \ erred PROVE viewed = session
    BY DEF DetailOfSession
  <2>1. mounted = "detail" /\ broken = "no" /\ auth = "in" /\ place = "detail"
    BY <1>1 DEF Shown, SessionIInv, SessionTypeOK
  <2>2. tenant \in {Nobody, viewed}
    BY <1>1, <2>1 DEF SessionIInv, BoundaryHolds, Throws
  <2>3. user = session /\ tenant = session
    BY <1>1, <2>1, SettledStores DEF StoresOfSession, StoreFollowsSession
  <2>4. session # Nobody
    BY <1>1, <2>3, NobodyAssumption DEF SessionIInv, SessionTypeOK, Nobody, DevUser, Unnamed
  <2> QED
    BY <2>2, <2>3, <2>4
<1> QED
  BY SpecSession, <1>1, PTL
=============================================================================
