--------------------------- MODULE HubCommsProofs ---------------------------
(***************************************************************************)
(* Proofs about HubComms, for all threads and texts, any number of lost    *)
(* connections and switches, and any number of invocations under way.      *)
(***************************************************************************)
EXTENDS HubComms, SequenceTheorems, TLAPS

(***************************************************************************)
(* Whether a connection that has joined J is in the thread t once the      *)
(* Bridge has handled the first n invocations of w.                        *)
(***************************************************************************)
After(J, w, n, t) ==
    \/ t \in J /\ \A k \in 1 .. n : w[k] # Leave(t)
    \/ \E j \in 1 .. n : w[j] = Join(t) /\ \A k \in j + 1 .. n : w[k] # Leave(t)

\* After everything under way.
Ends(J, t) == After(J, wire, Len(wire), t)

\* The threads the connection is in whatever was denied, and those it is in but for what was.
Low == joined \ denied
High == joined \cup denied

(***************************************************************************)
(* What the page has been told of its connection.                          *)
(***************************************************************************)
Told ==
    /\ page = "left" => link = "disconnected"
    /\ page = "open" =>
         /\ app = "web" => hub = link
         /\ app = "desktop" /\ link \in {"connected", "reconnecting"} => hub = "connected"
         /\ app = "web" /\ link = "connecting" => shown = "connecting"
         /\ app = "desktop" /\ link = "connecting" /\ strayed = "no" => active = First

\* Which threads the connection is in once what is under way has been handled.
Membership ==
    link = "connected" =>
        /\ app = "web" => \A t \in Threads \ {prev} : ~Ends(Low, t)
        /\ app = "web" /\ shown = "connected" => prev = active /\ Ends(High, active)
        /\ app = "desktop" /\ strayed = "no" => Ends(High, active)

\* A message is handled by a connection that is in its thread by then, or was denied it.
SendsHeard ==
    \A i \in 1 .. Len(wire) :
        wire[i].op = "send" => wire[i].text \in unheard \/ After(High, wire, i - 1, wire[i].thread)

\* One that was handled is on its way back, in front of its answer.
Heard ==
    \A s \in sentOn :
        \/ s[2] \in unheard \/ s \in messages
        \/ \E i \in 1 .. Len(stream) :
              stream[i].kind = "message" /\ stream[i].thread = s[1] /\ stream[i].text = s[2]

\* What is being sent is what was written last, or what was written last may be cleared by it.
Drafts ==
    /\ draft \in {Empty, last}
    /\ DraftsKept
    /\ \A i \in 1 .. Len(wire) : wire[i].op = "send" => wire[i].text = last \/ last \in excused
    /\ \A i \in 1 .. Len(stream) :
         stream[i].kind = "done" =>
             /\ stream[i].text = last \/ last \in excused
             /\ <<stream[i].thread, stream[i].text>> \in sentOn

IInv == TypeOK /\ Told /\ Membership /\ SendsHeard /\ Heard /\ Drafts

-----------------------------------------------------------------------------
\* What one more invocation does.
LEMMA AfterNext ==
  ASSUME NEW J, NEW w, NEW n \in Nat, NEW t
  PROVE  After(J, w, n + 1, t) <=> w[n + 1] # Leave(t) /\ (w[n + 1] = Join(t) \/ After(J, w, n, t))
<1>1. 1 .. n + 1 = (1 .. n) \cup {n + 1} /\ n + 1 \notin 1 .. n
  OBVIOUS
<1>2. CASE w[n + 1] = Leave(t)
  <2>1. Leave(t) # Join(t)
    BY DEF Leave, Join
  <2>2. \A j \in 1 .. n : n + 1 \in j + 1 .. n + 1
    OBVIOUS
  <2>3. QED
    BY <1>1, <1>2, <2>1, <2>2 DEF After
<1>3. CASE w[n + 1] # Leave(t) /\ w[n + 1] = Join(t)
  <2>1. (n + 1) + 1 .. n + 1 = {}
    OBVIOUS
  <2>2. QED
    BY <1>1, <1>3, <2>1 DEF After
<1>4. CASE w[n + 1] # Leave(t) /\ w[n + 1] # Join(t)
  <2>1. \A j \in 1 .. n : j + 1 .. n + 1 = (j + 1 .. n) \cup {n + 1}
    OBVIOUS
  <2>2. QED
    BY <1>1, <1>4, <2>1 DEF After
<1>5. QED
  BY <1>2, <1>3, <1>4

\* What is put in behind changes nothing before it.
LEMMA AfterPrefix ==
  ASSUME NEW J, NEW v, NEW w, NEW n \in Nat, NEW t, \A k \in 1 .. n : v[k] = w[k]
  PROVE  After(J, v, n, t) <=> After(J, w, n, t)
<1>1. \A j \in 1 .. n : \A k \in j + 1 .. n : k \in 1 .. n
  OBVIOUS
<1>2. QED
  BY <1>1 DEF After

\* Who has joined more is in more threads.
LEMMA AfterMore ==
  ASSUME NEW J, NEW K, J \subseteq K, NEW w, NEW n, NEW t, After(J, w, n, t)
  PROVE  After(K, w, n, t)
  BY DEF After

\* The Bridge handles the first one.
Joins(J, i) == CASE i.op = "leave" -> J \ {i.thread} [] i.op = "join" -> J \cup {i.thread} [] OTHER -> J

LEMMA AfterHandled ==
  ASSUME NEW J, NEW w \in Seq(Invocations), w # <<>>, NEW n \in 0 .. Len(w) - 1, NEW t \in Threads,
         \A k \in 1 .. Len(w) : w[k].op = "send" <=> w[k].text # Empty
  PROVE  After(Joins(J, w[1]), Tail(w), n, t) <=> After(J, w, n + 1, t)
<1> DEFINE v == Tail(w)
<1>1. \A k \in 1 .. n : v[k] = w[k + 1]
  OBVIOUS
<1>2. w[1] \in Invocations /\ (w[1].op = "send" <=> w[1].text # Empty)
  OBVIOUS
<1>3. /\ w[1] = Leave(t) <=> w[1].op = "leave" /\ w[1].thread = t
      /\ w[1] = Join(t) <=> w[1].op = "join" /\ w[1].thread = t
  BY <1>2 DEF Invocations, Leave, Join
<1>4. t \in Joins(J, w[1]) <=> w[1] = Join(t) \/ (t \in J /\ w[1] # Leave(t))
  BY <1>2, <1>3 DEF Joins, Invocations
<1>5. (\A k \in 1 .. n : v[k] # Leave(t)) <=> \A k \in 2 .. n + 1 : w[k] # Leave(t)
  <2>1. \A k \in 2 .. n + 1 : k - 1 \in 1 .. n /\ w[(k - 1) + 1] = w[k]
    OBVIOUS
  <2>2. \A k \in 1 .. n : k + 1 \in 2 .. n + 1
    OBVIOUS
  <2>3. QED
    BY <1>1, <2>1, <2>2
<1>6. (\E j \in 1 .. n : v[j] = Join(t) /\ \A k \in j + 1 .. n : v[k] # Leave(t))
      <=> \E j \in 2 .. n + 1 : w[j] = Join(t) /\ \A k \in j + 1 .. n + 1 : w[k] # Leave(t)
  <2>1. \A j \in 1 .. n : (\A k \in j + 1 .. n : v[k] # Leave(t))
                          <=> \A k \in (j + 1) + 1 .. n + 1 : w[k] # Leave(t)
    <3>1. TAKE j \in 1 .. n
    <3>2. \A k \in (j + 1) + 1 .. n + 1 : k - 1 \in j + 1 .. n /\ w[(k - 1) + 1] = w[k]
      OBVIOUS
    <3>3. \A k \in j + 1 .. n : k + 1 \in (j + 1) + 1 .. n + 1 /\ v[k] = w[k + 1]
      BY <1>1
    <3>4. QED
      BY <3>2, <3>3
  <2>2. \A j \in 2 .. n + 1 : j - 1 \in 1 .. n /\ w[(j - 1) + 1] = w[j] /\ (j - 1) + 1 = j
    OBVIOUS
  <2>3. \A j \in 1 .. n : j + 1 \in 2 .. n + 1 /\ v[j] = w[j + 1]
    BY <1>1
  <2>4. ASSUME NEW j \in 1 .. n, v[j] = Join(t), \A k \in j + 1 .. n : v[k] # Leave(t)
        PROVE  \E i \in 2 .. n + 1 : w[i] = Join(t) /\ \A k \in i + 1 .. n + 1 : w[k] # Leave(t)
    BY <2>1, <2>3, <2>4
  <2>5. ASSUME NEW i \in 2 .. n + 1, w[i] = Join(t), \A k \in i + 1 .. n + 1 : w[k] # Leave(t)
        PROVE  \E j \in 1 .. n : v[j] = Join(t) /\ \A k \in j + 1 .. n : v[k] # Leave(t)
    <3>1. i - 1 \in 1 .. n /\ (i - 1) + 1 = i
      OBVIOUS
    <3>2. v[i - 1] = Join(t) /\ \A k \in (i - 1) + 1 .. n : v[k] # Leave(t)
      BY <1>1, <2>1, <2>5, <3>1
    <3>3. QED
      BY <3>1, <3>2
  <2>6. QED
    BY <2>4, <2>5
<1>7. /\ (\A k \in 1 .. n + 1 : w[k] # Leave(t)) <=> w[1] # Leave(t) /\ \A k \in 2 .. n + 1 : w[k] # Leave(t)
      /\ (\E j \in 1 .. n + 1 : w[j] = Join(t) /\ \A k \in j + 1 .. n + 1 : w[k] # Leave(t))
         <=> \/ w[1] = Join(t) /\ \A k \in 2 .. n + 1 : w[k] # Leave(t)
             \/ \E j \in 2 .. n + 1 : w[j] = Join(t) /\ \A k \in j + 1 .. n + 1 : w[k] # Leave(t)
  <2>1. 1 .. n + 1 = {1} \cup (2 .. n + 1) /\ 1 + 1 = 2
    OBVIOUS
  <2>2. QED
    BY <2>1
<1>8. After(Joins(J, w[1]), v, n, t) <=> After(J, w, n + 1, t)
  <2>1. After(J, w, n + 1, t) <=> \/ t \in J /\ \A k \in 1 .. n + 1 : w[k] # Leave(t)
                                 \/ \E j \in 1 .. n + 1 : w[j] = Join(t) /\ \A k \in j + 1 .. n + 1 : w[k] # Leave(t)
    BY DEF After
  <2>2. After(Joins(J, w[1]), v, n, t) <=>
          \/ t \in Joins(J, w[1]) /\ \A k \in 1 .. n : v[k] # Leave(t)
          \/ \E j \in 1 .. n : v[j] = Join(t) /\ \A k \in j + 1 .. n : v[k] # Leave(t)
    BY DEF After
  <2> HIDE DEF v
  <2>3. QED
    BY <1>4, <1>5, <1>6, <1>7, <2>1, <2>2
<1>9. QED
  BY <1>8

-----------------------------------------------------------------------------
LEMMA Concatenated ==
  ASSUME NEW S, NEW v \in Seq(S), NEW c \in Seq(S)
  PROVE  /\ v \o c \in Seq(S) /\ Len(v \o c) = Len(v) + Len(c)
         /\ \A k \in 1 .. Len(v) : (v \o c)[k] = v[k]
         /\ \A k \in 1 .. Len(c) : (v \o c)[Len(v) + k] = c[k]
  BY ConcatProperties

LEMMA OneMore ==
  ASSUME NEW S, NEW v \in Seq(S), NEW a \in S
  PROVE  /\ v \o <<a>> \in Seq(S) /\ Len(v \o <<a>>) = Len(v) + 1 /\ (v \o <<a>>)[Len(v) + 1] = a
         /\ \A k \in 1 .. Len(v) : (v \o <<a>>)[k] = v[k]
<1>1. <<a>> \in Seq(S) /\ Len(<<a>>) = 1 /\ 1 \in 1 .. 1 /\ <<a>>[1] = a
  OBVIOUS
<1>2. QED
  BY <1>1, Concatenated

LEMMA TwoMore ==
  ASSUME NEW S, NEW v \in Seq(S), NEW a \in S, NEW b \in S
  PROVE  /\ v \o <<a, b>> \in Seq(S) /\ Len(v \o <<a, b>>) = Len(v) + 2
         /\ (v \o <<a, b>>)[Len(v) + 1] = a /\ (v \o <<a, b>>)[Len(v) + 2] = b
         /\ \A k \in 1 .. Len(v) : (v \o <<a, b>>)[k] = v[k]
<1>1. <<a, b>> \in Seq(S) /\ Len(<<a, b>>) = 2 /\ 1 \in 1 .. 2 /\ 2 \in 1 .. 2
      /\ <<a, b>>[1] = a /\ <<a, b>>[2] = b
  OBVIOUS
<1>2. QED
  BY <1>1, Concatenated

LEMMA Pair ==
  ASSUME NEW S, NEW a \in S, NEW b \in S
  PROVE  <<a>> \o <<b>> = <<a, b>>
<1>1. ASSUME NEW v \in Seq(S), Len(v) = 1, v[1] = a, NEW w \in Seq(S), Len(w) = 2, w[1] = a, w[2] = b
      PROVE  v \o <<b>> = w
  <2>1. v \o <<b>> \in Seq(S) /\ Len(v \o <<b>>) = 2 /\ (v \o <<b>>)[1] = a /\ (v \o <<b>>)[2] = b
    <3>1. 1 + 1 = 2 /\ 1 \in 1 .. 1
      OBVIOUS
    <3>2. v \o <<b>> \in Seq(S) /\ Len(v \o <<b>>) = Len(v) + 1
      BY <1>1, OneMore
    <3>3. (v \o <<b>>)[Len(v) + 1] = b
      BY <1>1, OneMore
    <3>4. (v \o <<b>>)[1] = v[1]
      BY <1>1, <3>1, OneMore
    <3>5. QED
      BY <1>1, <3>1, <3>2, <3>3, <3>4
  <2>2. \A i \in 1 .. 2 : i = 1 \/ i = 2
    OBVIOUS
  <2>3. QED
    BY <1>1, <2>1, <2>2, SeqEqual
<1>2. <<a>> \in Seq(S) /\ Len(<<a>>) = 1 /\ <<a>>[1] = a
  OBVIOUS
<1>3. <<a, b>> \in Seq(S) /\ Len(<<a, b>>) = 2 /\ <<a, b>>[1] = a /\ <<a, b>>[2] = b
  OBVIOUS
<1>4. QED
  BY <1>1, <1>2, <1>3

\* What the page invokes when it opens a thread or joins it again.
Moves(c, p, t) == c = <<Join(t)>> \/ c = <<Leave(p), Join(t)>>

LEMMA MovesType ==
  ASSUME NEW p \in Threads, NEW t \in Threads
  PROVE  /\ Join(t) \in Invocations /\ Leave(p) \in Invocations
         /\ <<Join(t)>> \in Seq(Invocations) /\ <<Leave(p), Join(t)>> \in Seq(Invocations)
         /\ (IF p # t THEN <<Leave(p)>> ELSE <<>>) \o <<Join(t)>>
              = IF p # t THEN <<Leave(p), Join(t)>> ELSE <<Join(t)>>
<1>1. Join(t) \in Invocations /\ Leave(p) \in Invocations
  BY DEF Join, Leave, Invocations
<1>2. <<Join(t)>> \in Seq(Invocations) /\ <<Leave(p), Join(t)>> \in Seq(Invocations)
  BY <1>1
<1>3. <<>> \o <<Join(t)>> = <<Join(t)>>
  BY <1>2, ConcatEmptySeq
<1>4. <<Leave(p)>> \o <<Join(t)>> = <<Leave(p), Join(t)>>
  BY <1>1, Pair
<1>5. QED
  BY <1>1, <1>2, <1>3, <1>4

\* As Ends, of the invocations the step leads to.
EndsNext(J, t) == After(J, wire', Len(wire'), t)

LEMMA Moved ==
  ASSUME wire \in Seq(Invocations), NEW J, NEW c, NEW p \in Threads, NEW t \in Threads, Moves(c, p, t),
         wire' = wire \o c
  PROVE  /\ wire' \in Seq(Invocations)
         /\ \A k \in 1 .. Len(wire) : k \in 1 .. Len(wire') /\ wire'[k] = wire[k]
         /\ \A k \in 1 .. Len(wire') :
              k \notin 1 .. Len(wire) => wire'[k].op # "send" /\ wire'[k].text = Empty
         /\ EndsNext(J, t)
         /\ \A u \in Threads \ {t} : EndsNext(J, u) => Ends(J, u)
         /\ c = <<Leave(p), Join(t)>> /\ p # t => ~EndsNext(J, p)
<1> DEFINE n == Len(wire)
<1>1. n \in Nat
  OBVIOUS
<1>2. \A u \in Threads : After(J, wire', n, u) <=> After(J, wire, n, u)
  <2>1. \A k \in 1 .. n : wire'[k] = wire[k]
    <3>1. c \in Seq(Invocations)
      BY MovesType DEF Moves
    <3>2. QED
      BY <3>1, Concatenated
  <2>2. QED
    BY <1>1, <2>1, AfterPrefix
<1>3. CASE c = <<Join(t)>>
  <2>1. /\ wire' \in Seq(Invocations) /\ Len(wire') = n + 1 /\ wire'[n + 1] = Join(t)
        /\ \A k \in 1 .. n : wire'[k] = wire[k]
    <3>1. Join(t) \in Invocations /\ wire' = wire \o <<Join(t)>>
      BY <1>3, MovesType
    <3>2. QED
      BY <3>1, OneMore
  <2>2. \A u \in Threads : EndsNext(J, u) <=> After(J, wire', n + 1, u)
    BY <2>1 DEF Ends, EndsNext
  <2>3. \A u \in Threads : EndsNext(J, u) <=> u = t \/ Ends(J, u)
    <3>1. TAKE u \in Threads
    <3>2. wire'[n + 1] # Leave(u) /\ (wire'[n + 1] = Join(u) <=> u = t)
      BY <2>1 DEF Join, Leave
    <3>3. QED
      BY <1>1, <1>2, <2>2, <3>2, AfterNext DEF Ends, EndsNext
  <2>4. \A k \in 1 .. n + 1 : k \in 1 .. n \/ k = n + 1
    BY <1>1
  <2>5. 1 .. n \subseteq 1 .. n + 1 /\ c # <<Leave(p), Join(t)>>
    BY <1>1, <1>3
  <2>6. QED
    BY <2>1, <2>3, <2>4, <2>5 DEF Join
<1>4. CASE c = <<Leave(p), Join(t)>>
  <2>1. /\ wire' \in Seq(Invocations) /\ Len(wire') = n + 2 /\ wire'[n + 1] = Leave(p) /\ wire'[n + 2] = Join(t)
        /\ \A k \in 1 .. n : wire'[k] = wire[k]
    <3>1. Join(t) \in Invocations /\ Leave(p) \in Invocations /\ wire' = wire \o <<Leave(p), Join(t)>>
      BY <1>4, MovesType
    <3>2. QED
      BY <3>1, TwoMore
  <2>2. (n + 1) + 1 = n + 2 /\ n + 1 \in Nat
    BY <1>1
  <2>3. \A u \in Threads : EndsNext(J, u) <=> After(J, wire', (n + 1) + 1, u)
    BY <2>1, <2>2 DEF Ends, EndsNext
  <2>4. \A u \in Threads : EndsNext(J, u) <=> u = t \/ (u # p /\ Ends(J, u))
    <3>1. TAKE u \in Threads
    <3>2. /\ wire'[n + 1] = Leave(u) <=> u = p
          /\ wire'[n + 1] # Join(u) /\ wire'[(n + 1) + 1] # Leave(u)
          /\ wire'[(n + 1) + 1] = Join(u) <=> u = t
      BY <2>1, <2>2 DEF Join, Leave
    <3>3. After(J, wire', n + 1, u) <=> u # p /\ After(J, wire', n, u)
      BY <1>1, <3>2, AfterNext
    <3>4. After(J, wire', (n + 1) + 1, u) <=> u = t \/ After(J, wire', n + 1, u)
      BY <2>2, <3>2, AfterNext
    <3>5. QED
      BY <1>2, <2>3, <3>3, <3>4 DEF Ends, EndsNext
  <2>5. \A k \in 1 .. n + 2 : k \in 1 .. n \/ k = n + 1 \/ k = n + 2
    BY <1>1
  <2>6. 1 .. n \subseteq 1 .. n + 2
    BY <1>1
  <2>7. QED
    BY <2>1, <2>4, <2>5, <2>6 DEF Join, Leave
<1>5. QED
  BY <1>3, <1>4 DEF Moves

-----------------------------------------------------------------------------
LEMMA Typed ==
  ASSUME TypeOK
  PROVE  /\ wire \in Seq(Invocations) /\ Len(wire) \in Nat /\ DOMAIN wire = 1 .. Len(wire)
         /\ stream \in Seq(Events) /\ Len(stream) \in Nat /\ DOMAIN stream = 1 .. Len(stream)
         /\ \A k \in 1 .. Len(wire) :
              wire[k] \in Invocations /\ (wire[k].op = "send" <=> wire[k].text # Empty)
         /\ \A k \in 1 .. Len(stream) : stream[k] \in Events
         /\ {MaxFaults, MaxSwitches, MaxWire} \subseteq Nat /\ First \in Threads /\ Empty \notin Texts
<1>1. wire \in Seq(Invocations) /\ stream \in Seq(Events)
  BY DEF TypeOK
<1>2. Len(wire) \in Nat /\ DOMAIN wire = 1 .. Len(wire) /\ Len(stream) \in Nat /\ DOMAIN stream = 1 .. Len(stream)
  BY <1>1, LenProperties
<1>3. (\A k \in 1 .. Len(wire) : wire[k] \in Invocations) /\ \A k \in 1 .. Len(stream) : stream[k] \in Events
  BY <1>1, ElementOfSeq
<1>4. QED
  BY <1>1, <1>2, <1>3, FirstAssumption, BoundsAssumption, EmptyAssumption DEF TypeOK

\* A sequence without its first element.
LEMMA Rest ==
  ASSUME NEW S, NEW v \in Seq(S), v # <<>>
  PROVE  /\ v[1] \in S /\ Head(v) = v[1] /\ 1 \in 1 .. Len(v)
         /\ Tail(v) \in Seq(S) /\ Len(Tail(v)) = Len(v) - 1
         /\ \A i \in 1 .. Len(Tail(v)) : Tail(v)[i] = v[i + 1] /\ i + 1 \in 1 .. Len(v)
  BY HeadTailProperties, EmptySeq

\* Nothing is under way at a connection that has joined nothing.
Bare == joined = {} /\ denied = {} /\ wire = <<>> /\ stream = <<>>

LEMMA BareFacts ==
  ASSUME Bare
  PROVE  /\ \A t \in Threads : ~Ends(Low, t)
         /\ SendsHeard
         /\ 1 .. Len(wire) = {} /\ 1 .. Len(stream) = {} /\ DOMAIN wire = {}
         /\ wire \in Seq(Invocations) /\ stream \in Seq(Events)
  BY DEF Bare, Ends, Low, After, SendsHeard

LEMMA InitIInv == Init => IInv
<1> SUFFICES ASSUME Init PROVE IInv
  OBVIOUS
<1>1. Bare
  BY DEF Init, Bare
<1>2. TypeOK
  BY <1>1, BareFacts, FirstAssumption, BoundsAssumption DEF Init, TypeOK, HubStates
<1>3. Told /\ Membership /\ SendsHeard
  BY <1>1, BareFacts DEF Init, Told, Membership
<1>4. Heard /\ Drafts
  BY <1>1, BareFacts DEF Init, Heard, Drafts, DraftsKept
<1>5. QED
  BY <1>2, <1>3, <1>4 DEF IInv

(***************************************************************************)
(* The connection.  Whatever changes it without making it leaves nothing   *)
(* under way.                                                              *)
(***************************************************************************)
LEMMA BareStep ==
  ASSUME IInv, Bare', TypeOK', Told',
         UNCHANGED <<app, active, prev, draft, messages, last, sentOn, excused>>,
         unheard' = unheard \cup {stream[i].text : i \in DOMAIN stream},
         link' = "connected" => (app = "web" => shown' # "connected") /\ (app = "desktop" => strayed' = "yes")
  PROVE  IInv'
<1> USE Typed DEF IInv
<1>1. /\ \A t \in Threads : ~Ends(Low, t)'
      /\ SendsHeard' /\ 1 .. Len(wire') = {} /\ 1 .. Len(stream') = {}
  BY DEF Bare, Ends, Low, After, SendsHeard
<1>2. Membership'
  BY <1>1 DEF Membership, TypeOK
<1>3. Heard'
  BY DEF Heard
<1>4. Drafts'
  BY <1>1 DEF Drafts, DraftsKept
<1>5. QED
  BY <1>1, <1>2, <1>3, <1>4

LEMMA StartedIInv == IInv /\ Started => IInv'
<1> SUFFICES ASSUME IInv, Started PROVE IInv'
  OBVIOUS
<1> USE Typed DEF IInv
<1>1. /\ page = "open" /\ page' = "open" /\ link = "connecting" /\ link' = "connected" /\ hub' = "connected"
      /\ joined = {} /\ stream = <<>> /\ wire = <<>>
      /\ UNCHANGED <<app, joined, stream, shown, active, prev, draft, messages>>
      /\ UNCHANGED <<last, sentOn, excused, denied, unheard, strayed, faults, switches>>
      /\ denied = {}
  BY DEF Started, ghosts, bounds, TypeOK
<1>2. CASE app = "desktop"
  <2>1. wire' = <<Join(First)>>
    BY <1>1, <1>2 DEF Started
  <2>2. /\ wire' \in Seq(Invocations) /\ Len(wire') = 1 /\ wire'[1] = Join(First)
        /\ 1 .. 1 = {1} /\ DOMAIN wire' = {1}
    <3>1. Join(First) \in Invocations
      BY MovesType
    <3>2. <<Join(First)>> \in Seq(Invocations) /\ Len(<<Join(First)>>) = 1 /\ <<Join(First)>>[1] = Join(First)
          /\ DOMAIN <<Join(First)>> = {1}
      BY <3>1
    <3>3. QED
      BY <2>1, <3>2
  <2>3. Join(First).op = "join" /\ Join(First).text = Empty
    BY DEF Join
  <2>4. Ends(High, First)'
    <3>1. 1 + 1 .. 1 = {}
      OBVIOUS
    <3>2. QED
      BY <2>2, <3>1 DEF Ends, After
  <2>5. TypeOK'
    BY <1>1, <1>2, <2>2, <2>3 DEF TypeOK, HubStates
  <2>6. (Told /\ Membership)'
    BY <1>1, <1>2, <2>4 DEF Told, Membership
  <2>7. (SendsHeard /\ Heard /\ Drafts)'
    BY <1>1, <2>2, <2>3 DEF SendsHeard, High, Heard, Drafts, DraftsKept
  <2>8. QED
    BY <2>5, <2>6, <2>7
<1>3. CASE app = "web"
  <2>1. wire' = <<>> /\ shown = "connecting"
    BY <1>1, <1>3 DEF Started, Told
  <2>2. Bare'
    BY <1>1, <2>1 DEF Bare
  <2>3. \A t \in Threads : ~Ends(Low, t)'
    BY <2>2 DEF Bare, Ends, Low, After
  <2>4. TypeOK' /\ Told'
    BY <1>1, <1>3, <2>1 DEF TypeOK, HubStates, Told
  <2>5. Membership'
    BY <1>1, <1>3, <2>1, <2>3 DEF Membership
  <2>6. (SendsHeard /\ Heard /\ Drafts)'
    BY <1>1, <2>1 DEF SendsHeard, High, Heard, Drafts, DraftsKept
  <2>7. QED
    BY <2>4, <2>5, <2>6
<1>4. QED
  BY <1>2, <1>3 DEF TypeOK

LEMMA LinkIInv == IInv /\ (StartFails \/ Lost \/ Reconnected \/ GivesUp \/ LeavePage) => IInv'
<1> SUFFICES ASSUME IInv, StartFails \/ Lost \/ Reconnected \/ GivesUp \/ LeavePage PROVE IInv'
  OBVIOUS
<1> USE Typed DEF IInv
<1>1. \A i \in DOMAIN stream : stream[i].text \in Texts
  BY DEF Events
<1>2. link \notin {"connected"} => Bare /\ DOMAIN stream = {}
  BY DEF TypeOK, Bare
<1>3. CASE StartFails \/ GivesUp
  <2>1. /\ Bare' /\ link' = "disconnected" /\ faults' \in 0 .. MaxFaults
        /\ UNCHANGED <<app, page, shown, active, prev, draft, messages, last, sentOn, excused, denied, unheard, strayed, switches>>
        /\ page = "open" => hub' = IF app = "web" THEN link' ELSE hub
        /\ unheard' = unheard \cup {stream[i].text : i \in DOMAIN stream}
    BY <1>2, <1>3 DEF StartFails, GivesUp, Bare, Fault, Tell, ghosts, TypeOK
  <2>2. TypeOK'
    BY <1>3, <2>1 DEF StartFails, GivesUp, Tell, TypeOK, HubStates, Bare
  <2>3. Told'
    BY <1>3, <2>1 DEF StartFails, GivesUp, Told
  <2>4. QED
    BY <2>1, <2>2, <2>3, BareStep
<1>4. CASE Lost
  <2>1. /\ Bare' /\ link = "connected" /\ link' = "reconnecting" /\ faults' \in 0 .. MaxFaults
        /\ UNCHANGED <<app, page, shown, active, prev, draft, messages, last, sentOn, excused, strayed, switches>>
        /\ hub' = IF app = "web" THEN link' ELSE hub
        /\ unheard' = unheard \cup {stream[i].text : i \in DOMAIN stream}
    BY <1>4 DEF Lost, Bare, Drop, Fault, Tell, TypeOK
  <2>2. TypeOK'
    BY <1>1, <2>1 DEF TypeOK, HubStates, Bare
  <2>3. Told'
    BY <2>1 DEF Told
  <2>4. QED
    BY <2>1, <2>2, <2>3, BareStep
<1>5. CASE Reconnected
  <2>1. /\ Bare' /\ link = "reconnecting" /\ link' = "connected" /\ page' = page /\ page = "open"
        /\ UNCHANGED <<app, shown, active, prev, draft, messages, last, sentOn, excused, denied, unheard, faults, switches>>
        /\ hub' = (IF app = "web" THEN link' ELSE hub) /\ shown = hub
        /\ strayed' = (IF app = "desktop" THEN "yes" ELSE strayed)
        /\ unheard' = unheard \cup {stream[i].text : i \in DOMAIN stream}
    BY <1>2, <1>5 DEF Reconnected, Bare, Tell, bounds, Told, TypeOK
  <2>2. TypeOK'
    BY <2>1 DEF TypeOK, HubStates, Bare
  <2>3. Told'
    BY <2>1 DEF Told, TypeOK
  <2>4. app = "web" => shown' # "connected"
    BY <2>1 DEF Told
  <2>5. QED
    BY <2>1, <2>2, <2>3, <2>4, BareStep
<1>6. CASE LeavePage
  <2>1. /\ Bare' /\ link' = "disconnected" /\ page' = "left"
        /\ UNCHANGED <<app, hub, shown, active, prev, draft, messages, last, sentOn, excused, strayed, faults, switches>>
        /\ unheard' = unheard \cup {stream[i].text : i \in DOMAIN stream}
    BY <1>6 DEF LeavePage, Bare, Drop, view, bounds
  <2>2. TypeOK'
    BY <1>1, <2>1 DEF TypeOK, HubStates, Bare
  <2>3. Told'
    BY <2>1 DEF Told
  <2>4. QED
    BY <2>1, <2>2, <2>3, BareStep
<1>7. QED
  BY <1>3, <1>4, <1>5, <1>6

-----------------------------------------------------------------------------
(***************************************************************************)
(* The Bridge.  A message it handles follows what is on its way back, in   *)
(* front of its answer.                                                    *)
(***************************************************************************)
Event(k, w) == [kind |-> k, thread |-> w.thread, text |-> w.text]

LEMMA OneAnswered ==
  ASSUME stream \in Seq(Events), NEW d \in Events, stream' = stream \o <<d>>
  PROVE  /\ stream' \in Seq(Events)
         /\ \A k \in 1 .. Len(stream) : k \in 1 .. Len(stream') /\ stream'[k] = stream[k]
         /\ \A k \in 1 .. Len(stream') : k \in 1 .. Len(stream) \/ stream'[k] = d
<1>1. /\ stream' \in Seq(Events) /\ Len(stream') = Len(stream) + 1 /\ stream'[Len(stream) + 1] = d
      /\ \A k \in 1 .. Len(stream) : stream'[k] = stream[k]
  BY OneMore
<1>2. Len(stream) \in Nat
  BY LenProperties
<1>3. \A k \in 1 .. Len(stream) : k \in 1 .. Len(stream) + 1
  BY <1>2
<1>4. \A k \in 1 .. Len(stream) + 1 : k \in 1 .. Len(stream) \/ k = Len(stream) + 1
  BY <1>2
<1>5. QED
  BY <1>1, <1>3, <1>4

LEMMA Answered ==
  ASSUME stream \in Seq(Events), NEW m \in Events, NEW d \in Events,
         stream' = (stream \o <<m>>) \o <<d>>
  PROVE  /\ stream' \in Seq(Events)
         /\ \A k \in 1 .. Len(stream) : k \in 1 .. Len(stream') /\ stream'[k] = stream[k]
         /\ \A k \in 1 .. Len(stream') : k \in 1 .. Len(stream) \/ stream'[k] \in {m, d}
         /\ \E k \in 1 .. Len(stream') : stream'[k] = m
<1> DEFINE y == stream \o <<m>>
<1>1. /\ y \in Seq(Events) /\ Len(y) = Len(stream) + 1 /\ y[Len(stream) + 1] = m
      /\ \A k \in 1 .. Len(stream) : y[k] = stream[k]
  BY OneMore
<1> HIDE DEF y
<1>2. /\ stream' \in Seq(Events) /\ Len(stream') = Len(y) + 1 /\ stream'[Len(y) + 1] = d
      /\ \A k \in 1 .. Len(y) : stream'[k] = y[k]
  BY <1>1, OneMore DEF y
<1>3. Len(stream) \in Nat
  BY LenProperties
<1>4. \A k \in 1 .. Len(stream) : k \in 1 .. Len(stream) + 1 /\ k \in 1 .. Len(stream) + 2
  BY <1>3
<1>5. Len(stream) + 1 \in 1 .. Len(stream) + 1 /\ Len(stream) + 1 \in 1 .. Len(stream) + 2
      /\ (Len(stream) + 1) + 1 = Len(stream) + 2
  BY <1>3
<1>6. \A k \in 1 .. Len(stream) + 2 : k \in 1 .. Len(stream) \/ k = Len(stream) + 1 \/ k = Len(stream) + 2
  BY <1>3
<1>7. stream'[Len(stream) + 1] = m /\ stream'[Len(stream) + 2] = d /\ Len(stream') = Len(stream) + 2
  BY <1>1, <1>2, <1>5
<1>8. \A k \in 1 .. Len(stream) : stream'[k] = stream[k]
  BY <1>1, <1>2, <1>4
<1>9. QED
  BY <1>2, <1>4, <1>5, <1>6, <1>7, <1>8

\* The first invocation leaves the wire, handled.
LEMMA Shifted ==
  ASSUME TypeOK, wire # <<>>, wire' = Tail(wire), unheard \subseteq unheard',
         Low' \subseteq Joins(Low, wire[1]), Joins(High, wire[1]) \subseteq High'
  PROVE  /\ wire' \in Seq(Invocations) /\ Len(wire') = Len(wire) - 1 /\ DOMAIN wire' = 1 .. Len(wire')
         /\ \A i \in 1 .. Len(wire') : wire'[i] = wire[i + 1] /\ i + 1 \in 1 .. Len(wire)
         /\ \A t \in Threads : (Ends(Low, t)' => Ends(Low, t)) /\ (Ends(High, t) => Ends(High, t)')
         /\ SendsHeard => SendsHeard'
<1> USE Typed
<1>1. 1 \in 1 .. Len(wire)
  BY Rest
<1>2. /\ wire' \in Seq(Invocations) /\ Len(wire') = Len(wire) - 1
      /\ \A i \in 1 .. Len(wire') : wire'[i] = wire[i + 1] /\ i + 1 \in 1 .. Len(wire)
  BY Rest
<1>3. DOMAIN wire' = 1 .. Len(wire')
  BY <1>2, LenProperties
<1>4. ASSUME NEW n \in 0 .. Len(wire) - 1, NEW t \in Threads
      PROVE  /\ After(Low', wire', n, t) => After(Low, wire, n + 1, t)
             /\ After(High, wire, n + 1, t) => After(High', wire', n, t)
  <2>1. /\ After(Joins(Low, wire[1]), wire', n, t) <=> After(Low, wire, n + 1, t)
        /\ After(Joins(High, wire[1]), wire', n, t) <=> After(High, wire, n + 1, t)
    BY AfterHandled
  <2>2. After(Low', wire', n, t) => After(Joins(Low, wire[1]), wire', n, t)
    BY AfterMore
  <2>3. After(Joins(High, wire[1]), wire', n, t) => After(High', wire', n, t)
    BY AfterMore
  <2>4. QED
    BY <2>1, <2>2, <2>3
<1>5. \A t \in Threads : (Ends(Low, t)' => Ends(Low, t)) /\ (Ends(High, t) => Ends(High, t)')
  <2>1. Len(wire) - 1 \in 0 .. Len(wire) - 1 /\ (Len(wire) - 1) + 1 = Len(wire)
    BY <1>1
  <2>2. QED
    BY <1>2, <1>4, <2>1 DEF Ends
<1>6. ASSUME SendsHeard, NEW i \in 1 .. Len(wire'), wire'[i].op = "send", wire'[i].text \notin unheard'
      PROVE  After(High', wire', i - 1, wire'[i].thread)
  <2>1. wire'[i] = wire[i + 1] /\ i + 1 \in 1 .. Len(wire) /\ (i + 1) - 1 = i /\ (i - 1) + 1 = i
        /\ i - 1 \in 0 .. Len(wire) - 1
    BY <1>2
  <2>2. After(High, wire, i, wire[i + 1].thread) /\ wire[i + 1].thread \in Threads
    BY <1>6, <2>1 DEF SendsHeard, Invocations
  <2>3. QED
    BY <1>4, <2>1, <2>2
<1>7. SendsHeard => SendsHeard'
  BY <1>6 DEF SendsHeard
<1>8. QED
  BY <1>2, <1>3, <1>5, <1>7

LEMMA HandleIInv == IInv /\ Handle => IInv'
<1> SUFFICES ASSUME IInv, Handle PROVE IInv'
  OBVIOUS
<1> USE Typed DEF IInv
<1> DEFINE w == wire[1]
<1>1. /\ wire # <<>> /\ wire' = Tail(wire) /\ Head(wire) = w
      /\ w \in Invocations /\ (w.op = "send" <=> w.text # Empty) /\ 1 \in 1 .. Len(wire)
      /\ joined' = Joins(joined, w)
      /\ denied' = IF w.op = "send" THEN denied ELSE denied \ {w.thread}
      /\ unheard' = IF w.op = "send" /\ w.thread \in denied THEN unheard \cup {w.text} ELSE unheard
      /\ UNCHANGED <<app, page, link, hub, shown, active, prev, draft, messages>>
      /\ UNCHANGED <<last, excused, strayed, faults, switches>>
  BY Rest DEF Handle, view, bounds, Joins
<1>2. /\ wire' \in Seq(Invocations) /\ Len(wire') = Len(wire) - 1 /\ DOMAIN wire' = 1 .. Len(wire')
      /\ \A i \in 1 .. Len(wire') : wire'[i] = wire[i + 1] /\ i + 1 \in 1 .. Len(wire)
      /\ \A t \in Threads : (Ends(Low, t)' => Ends(Low, t)) /\ (Ends(High, t) => Ends(High, t)')
      /\ SendsHeard'
  <2>1. Low' = Joins(Low, w) /\ High' = Joins(High, w)
    BY <1>1 DEF Low, High, Joins, Invocations
  <2>2. QED
    BY <1>1, <2>1, Shifted
<1>3. /\ stream' \in Seq(Events) /\ DOMAIN stream' = 1 .. Len(stream')
      /\ \A k \in 1 .. Len(stream) : k \in 1 .. Len(stream') /\ stream'[k] = stream[k]
      /\ \A k \in 1 .. Len(stream') :
           k \in 1 .. Len(stream) \/ (w.op = "send" /\ stream'[k] \in {Event("message", w), Event("done", w)})
      /\ w.op = "send" /\ w.thread \in joined => \E k \in 1 .. Len(stream') : stream'[k] = Event("message", w)
      /\ sentOn' = IF w.op = "send" THEN sentOn \cup {<<w.thread, w.text>>} ELSE sentOn
  <2>1. CASE w.op = "send"
    <3>1. w.text \in Texts /\ w.thread \in Threads
      BY <1>1, <2>1 DEF Invocations
    <3>2. Event("message", w) \in Events /\ Event("done", w) \in Events
      BY <3>1 DEF Event, Events
    <3>3. /\ stream' = (stream \o (IF w.thread \in joined THEN <<Event("message", w)>> ELSE <<>>)) \o <<Event("done", w)>>
          /\ sentOn' = sentOn \cup {<<w.thread, w.text>>}
      BY <1>1, <2>1 DEF Handle, Event
    <3>4. /\ stream' \in Seq(Events)
          /\ \A k \in 1 .. Len(stream) : k \in 1 .. Len(stream') /\ stream'[k] = stream[k]
          /\ \A k \in 1 .. Len(stream') :
               k \in 1 .. Len(stream) \/ stream'[k] \in {Event("message", w), Event("done", w)}
          /\ (w.thread \in joined) => \E k \in 1 .. Len(stream') : stream'[k] = Event("message", w)
      <4>1. stream \in Seq(Events) /\ Event("message", w) \in Events /\ Event("done", w) \in Events
        BY <3>2
      <4>2. CASE w.thread \in joined
        <5>1. stream' = (stream \o <<Event("message", w)>>) \o <<Event("done", w)>>
          BY <3>3, <4>2
        <5>2. QED
          BY <4>1, <4>2, <5>1, Answered
      <4>3. CASE w.thread \notin joined
        <5>1. stream' = stream \o <<Event("done", w)>>
          BY <3>3, <4>1, <4>3, ConcatEmptySeq
        <5>2. QED
          BY <4>1, <4>3, <5>1, OneAnswered
      <4>4. QED
        BY <4>2, <4>3
    <3>5. DOMAIN stream' = 1 .. Len(stream')
      BY <3>4, LenProperties
    <3>6. QED
      BY <2>1, <3>3, <3>4, <3>5
  <2>2. CASE w.op # "send"
    <3>1. stream' = stream /\ sentOn' = sentOn
      BY <1>1, <2>2 DEF Handle
    <3>2. QED
      BY <2>2, <3>1
  <2>3. QED
    BY <2>1, <2>2
<1>4. link = "connected"
  BY <1>1 DEF TypeOK
<1>5. TypeOK'
  <2>1. joined' \subseteq Threads /\ denied' \subseteq Threads /\ unheard' \subseteq Texts
    BY <1>1 DEF TypeOK, Joins, Invocations
  <2>2. sentOn' \subseteq Threads \X Texts
    BY <1>1, <1>3 DEF TypeOK, Invocations
  <2>3. \A i \in DOMAIN wire' : wire'[i].op = "send" <=> wire'[i].text # Empty
    BY <1>2
  <2>4. QED
    BY <1>1, <1>2, <1>3, <1>4, <2>1, <2>2, <2>3 DEF TypeOK
<1>6. (Told /\ Membership)'
  <2>1. prev' \in Threads /\ active' \in Threads
    BY <1>1 DEF TypeOK
  <2>2. QED
    BY <1>1, <1>2, <2>1 DEF Told, Membership
<1>7. Heard'
  <2>1. SUFFICES ASSUME NEW s \in sentOn', s[2] \notin unheard', s \notin messages'
                 PROVE  \E k \in 1 .. Len(stream') :
                          stream'[k].kind = "message" /\ stream'[k].thread = s[1] /\ stream'[k].text = s[2]
    BY DEF Heard
  <2>2. CASE s \in sentOn
    BY <1>1, <1>3, <2>1, <2>2 DEF Heard
  <2>3. CASE s \notin sentOn
    <3>1. w.op = "send" /\ s = <<w.thread, w.text>>
      BY <1>3, <2>3
    <3>2. After(High, wire, 0, w.thread)
      <4>1. 1 - 1 = 0
        OBVIOUS
      <4>2. QED
        BY <1>1, <2>1, <3>1, <4>1 DEF SendsHeard
    <3>3. w.thread \in joined
      <4>1. w.thread \in High
        BY <3>2 DEF After
      <4>2. w.thread \notin denied
        BY <1>1, <2>1, <3>1
      <4>3. QED
        BY <4>1, <4>2 DEF High
    <3>4. PICK k \in 1 .. Len(stream') : stream'[k] = Event("message", w)
      BY <1>3, <3>1, <3>3
    <3>5. QED
      BY <3>1, <3>4 DEF Event
  <2>4. QED
    BY <2>2, <2>3
<1>8. Drafts'
  <2>1. DraftsKept'
    BY <1>1, <1>3 DEF Drafts, DraftsKept
  <2>2. \A i \in 1 .. Len(wire') : wire'[i].op = "send" => wire'[i].text = last' \/ last' \in excused'
    BY <1>1, <1>2 DEF Drafts
  <2>3. ASSUME NEW i \in 1 .. Len(stream'), stream'[i].kind = "done"
        PROVE  /\ stream'[i].text = last' \/ last' \in excused'
               /\ <<stream'[i].thread, stream'[i].text>> \in sentOn'
    <3>1. CASE i \in 1 .. Len(stream)
      BY <1>1, <1>3, <2>3, <3>1 DEF Drafts
    <3>2. CASE w.op = "send" /\ stream'[i] \in {Event("message", w), Event("done", w)}
      BY <1>1, <1>3, <2>3, <3>2 DEF Drafts, Event
    <3>3. QED
      BY <1>3, <3>1, <3>2
  <2>4. QED
    BY <1>1, <2>1, <2>2, <2>3 DEF Drafts
<1>9. QED
  BY <1>2, <1>5, <1>6, <1>7, <1>8

LEMMA RefuseIInv == IInv /\ Refuse => IInv'
<1> SUFFICES ASSUME IInv, Refuse PROVE IInv'
  OBVIOUS
<1> USE Typed DEF IInv
<1>1. /\ wire # <<>> /\ wire' = Tail(wire) /\ wire[1] \in Invocations /\ faults' \in 0 .. MaxFaults
      /\ denied' = IF wire[1].op = "send" THEN denied ELSE denied \cup {wire[1].thread}
      /\ UNCHANGED <<app, page, link, joined, stream, hub, shown, active, prev, draft, messages>>
      /\ UNCHANGED <<last, sentOn, excused, unheard, strayed, switches>>
  <2>1. wire # <<>>
    BY DEF Refuse
  <2>2. wire[1] \in Invocations /\ Head(wire) = wire[1]
    BY <2>1, Rest
  <2>3. QED
    <3>1. /\ wire' = Tail(wire) /\ faults' \in 0 .. MaxFaults
          /\ UNCHANGED <<app, page, link, joined, stream, hub, shown, active, prev, draft, messages>>
          /\ UNCHANGED <<last, sentOn, excused, unheard, strayed, switches>>
      BY DEF Refuse, Fault, view, TypeOK
    <3>2. denied' = IF wire[1].op = "send" THEN denied ELSE denied \cup {wire[1].thread}
      BY <2>2 DEF Refuse
    <3>3. QED
      BY <2>1, <2>2, <3>1, <3>2
<1>2. /\ wire' \in Seq(Invocations) /\ Len(wire') = Len(wire) - 1 /\ DOMAIN wire' = 1 .. Len(wire')
      /\ \A i \in 1 .. Len(wire') : wire'[i] = wire[i + 1] /\ i + 1 \in 1 .. Len(wire)
      /\ \A t \in Threads : (Ends(Low, t)' => Ends(Low, t)) /\ (Ends(High, t) => Ends(High, t)')
      /\ SendsHeard'
  <2>1. Low' \subseteq Joins(Low, wire[1]) /\ Joins(High, wire[1]) \subseteq High'
    BY <1>1 DEF Low, High, Joins, Invocations
  <2>2. QED
    BY <1>1, <2>1, Shifted
<1>3. link = "connected"
  BY <1>1 DEF TypeOK
<1>4. TypeOK'
  <2>1. denied' \subseteq Threads
    BY <1>1 DEF TypeOK, Invocations
  <2>2. QED
    BY <1>1, <1>2, <1>3, <2>1 DEF TypeOK
<1>5. (Told /\ Membership)'
  <2>1. prev' \in Threads /\ active' \in Threads
    BY <1>1 DEF TypeOK
  <2>2. QED
    BY <1>1, <1>2, <2>1 DEF Told, Membership
<1>6. Heard'
  BY <1>1 DEF Heard
<1>7. Drafts'
  <2>1. \A i \in 1 .. Len(wire') : wire'[i].op = "send" => wire'[i].text = last' \/ last' \in excused'
    BY <1>1, <1>2 DEF Drafts
  <2>2. QED
    BY <1>1, <2>1 DEF Drafts, DraftsKept
<1>8. QED
  BY <1>2, <1>4, <1>5, <1>6, <1>7

-----------------------------------------------------------------------------
(***************************************************************************)
(* The page.  Joining and leaving puts no message on its way.              *)
(***************************************************************************)
Rests == UNCHANGED <<joined, denied, stream, messages, draft, last, sentOn, excused, unheard>>

LEMMA StillWire ==
  ASSUME IInv, Rests, wire' = wire
  PROVE  /\ SendsHeard' /\ Heard' /\ Drafts'
         /\ \A t \in Threads : (Ends(Low, t)' <=> Ends(Low, t)) /\ (Ends(High, t)' <=> Ends(High, t))
<1>1. SendsHeard'
  BY DEF IInv, Rests, SendsHeard, High
<1>2. Heard'
  BY DEF IInv, Rests, Heard
<1>3. Drafts'
  BY DEF IInv, Rests, Drafts, DraftsKept
<1>4. \A t \in Threads : (Ends(Low, t)' <=> Ends(Low, t)) /\ (Ends(High, t)' <=> Ends(High, t))
  BY DEF Rests, Ends, Low, High
<1>5. QED
  BY <1>1, <1>2, <1>3, <1>4

LEMMA MovedWire ==
  ASSUME IInv, Rests, NEW c, NEW p \in Threads, NEW t \in Threads, Moves(c, p, t), wire' = wire \o c
  PROVE  /\ wire' \in Seq(Invocations)
         /\ \A i \in DOMAIN wire' : wire'[i].op = "send" <=> wire'[i].text # Empty
         /\ EndsNext(High, t)
         /\ \A u \in Threads \ {t} : EndsNext(Low, u) => Ends(Low, u)
         /\ c = <<Leave(p), Join(t)>> /\ p # t => ~EndsNext(Low, p)
         /\ SendsHeard' /\ Heard' /\ Drafts'
<1> USE Typed DEF IInv
<1>1. /\ wire' \in Seq(Invocations)
      /\ \A k \in 1 .. Len(wire) : k \in 1 .. Len(wire') /\ wire'[k] = wire[k]
      /\ \A k \in 1 .. Len(wire') :
           k \notin 1 .. Len(wire) => wire'[k].op # "send" /\ wire'[k].text = Empty
      /\ EndsNext(High, t)
      /\ \A u \in Threads \ {t} : EndsNext(Low, u) => Ends(Low, u)
      /\ c = <<Leave(p), Join(t)>> /\ p # t => ~EndsNext(Low, p)
  <2>1. /\ wire' \in Seq(Invocations)
        /\ \A k \in 1 .. Len(wire) : k \in 1 .. Len(wire') /\ wire'[k] = wire[k]
        /\ \A k \in 1 .. Len(wire') :
             k \notin 1 .. Len(wire) => wire'[k].op # "send" /\ wire'[k].text = Empty
        /\ EndsNext(High, t)
    BY Moved
  <2>2. ASSUME NEW u \in Threads \ {t}, EndsNext(Low, u) PROVE Ends(Low, u)
    BY <2>2, Moved
  <2>3. ASSUME c = <<Leave(p), Join(t)>>, p # t PROVE ~EndsNext(Low, p)
    BY <2>3, Moved
  <2>4. QED
    BY <2>1, <2>2, <2>3
<1>2. DOMAIN wire' = 1 .. Len(wire')
  BY <1>1, LenProperties
<1>3. \A i \in DOMAIN wire' : wire'[i].op = "send" <=> wire'[i].text # Empty
  BY <1>1, <1>2
<1>4. SendsHeard'
  <2>1. SUFFICES ASSUME NEW i \in 1 .. Len(wire'), wire'[i].op = "send", wire'[i].text \notin unheard'
                 PROVE  After(High', wire', i - 1, wire'[i].thread)
    BY DEF SendsHeard
  <2>2. i \in 1 .. Len(wire) /\ wire'[i] = wire[i]
    BY <1>1, <2>1
  <2>3. After(High, wire, i - 1, wire[i].thread)
    BY <2>1, <2>2 DEF SendsHeard, Rests
  <2>4. i - 1 \in Nat /\ \A k \in 1 .. i - 1 : k \in 1 .. Len(wire)
    BY <2>2
  <2>5. \A k \in 1 .. i - 1 : wire'[k] = wire[k]
    BY <1>1, <2>4
  <2>6. After(High, wire', i - 1, wire[i].thread)
    BY <2>3, <2>4, <2>5, AfterPrefix
  <2>7. QED
    BY <2>2, <2>6 DEF Rests, High
<1>5. Heard'
  BY DEF Rests, Heard
<1>6. Drafts'
  <2>1. \A i \in 1 .. Len(wire') : wire'[i].op = "send" => wire'[i].text = last' \/ last' \in excused'
    BY <1>1 DEF Drafts, Rests
  <2>2. QED
    BY <2>1 DEF Drafts, DraftsKept, Rests
<1>7. QED
  BY <1>1, <1>3, <1>4, <1>5, <1>6

LEMMA RenderIInv == IInv /\ Render => IInv'
<1> SUFFICES ASSUME IInv, Render PROVE IInv'
  OBVIOUS
<1> USE Typed DEF IInv
<1>1. /\ page = "open" /\ shown' = hub /\ Rests
      /\ UNCHANGED <<app, page, link, hub, active, strayed, faults, switches>>
      /\ app \in {"web", "desktop"} /\ prev \in Threads /\ active \in Threads
  BY DEF Render, ghosts, bounds, Rests, TypeOK
<1>2. CASE app = "web" /\ hub = "connected"
  <2> DEFINE c == IF prev # active THEN <<Leave(prev), Join(active)>> ELSE <<Join(active)>>
  <2>1. link = "connected"
    BY <1>1, <1>2 DEF Told
  <2>2. prev' = active /\ wire' = wire \o c /\ Moves(c, prev, active)
    BY <1>1, <1>2, <2>1, MovesType DEF Render, Rejoin, Invoke, Moves
  <2>3. prev # active => c = <<Leave(prev), Join(active)>>
    OBVIOUS
  <2> HIDE DEF c
  <2>4. /\ wire' \in Seq(Invocations)
        /\ \A i \in DOMAIN wire' : wire'[i].op = "send" <=> wire'[i].text # Empty
        /\ EndsNext(High, active)
        /\ \A u \in Threads \ {active} : EndsNext(Low, u) => Ends(Low, u)
        /\ c = <<Leave(prev), Join(active)>> /\ prev # active => ~EndsNext(Low, prev)
        /\ SendsHeard' /\ Heard' /\ Drafts'
    BY <1>1, <2>2, MovedWire
  <2>5. \A u \in Threads \ {active} : ~EndsNext(Low, u)
    BY <1>1, <1>2, <2>1, <2>3, <2>4 DEF Membership
  <2>6. TypeOK'
    BY <1>1, <1>2, <2>1, <2>2, <2>4 DEF TypeOK, Rests
  <2>7. Told'
    BY <1>1, <1>2, <2>1 DEF Told
  <2>8. Membership'
    <3>1. EndsNext(High, active) /\ active' = active /\ prev' = active /\ app' = "web"
      BY <1>1, <1>2, <2>2, <2>4
    <3>2. QED
      BY <1>1, <2>5, <3>1 DEF Membership, Ends, EndsNext, Low, High, Rests
  <2>9. QED
    BY <2>4, <2>6, <2>7, <2>8
<1>3. CASE ~(app = "web" /\ hub = "connected")
  <2>1. prev' = prev /\ wire' = wire
    BY <1>3 DEF Render
  <2>2. SendsHeard' /\ Heard' /\ Drafts' /\ \A t \in Threads : (Ends(Low, t)' <=> Ends(Low, t)) /\ (Ends(High, t)' <=> Ends(High, t))
    BY <1>1, <2>1, StillWire
  <2>3. TypeOK'
    BY <1>1, <2>1 DEF TypeOK, Rests
  <2>4. Told'
    BY <1>1 DEF Told
  <2>5. Membership'
    <3>1. link = "connected" => app = "desktop"
      BY <1>1, <1>3 DEF Told
    <3>2. QED
      BY <1>1, <2>1, <2>2, <3>1 DEF Membership, Ends, EndsNext, Low, High, Rests
  <2>6. QED
    BY <2>2, <2>3, <2>4, <2>5
<1>4. QED
  BY <1>2, <1>3

LEMMA SwitchIInv == ASSUME NEW t \in Threads, IInv, Switch(t) PROVE IInv'
<1> USE Typed DEF IInv
<1>1. /\ page = "open" /\ active' = t /\ Rests /\ switches' \in 0 .. MaxSwitches
      /\ UNCHANGED <<app, page, link, hub, shown, faults>>
      /\ strayed' = IF app = "desktop" /\ link # "connected" THEN "yes" ELSE strayed
      /\ app \in {"web", "desktop"} /\ prev \in Threads /\ active \in Threads
  BY DEF Switch, Rests, TypeOK
<1>2. CASE app = "web" /\ shown = "connected" /\ link = "connected"
  <2> DEFINE c == IF prev # t THEN <<Leave(prev), Join(t)>> ELSE <<Join(t)>>
  <2>1. prev' = t /\ wire' = wire \o c /\ Moves(c, prev, t)
    BY <1>1, <1>2, MovesType DEF Switch, Rejoin, Invoke, Moves
  <2>2. prev # t => c = <<Leave(prev), Join(t)>>
    OBVIOUS
  <2> HIDE DEF c
  <2>3. /\ wire' \in Seq(Invocations)
        /\ \A i \in DOMAIN wire' : wire'[i].op = "send" <=> wire'[i].text # Empty
        /\ EndsNext(High, t)
        /\ \A u \in Threads \ {t} : EndsNext(Low, u) => Ends(Low, u)
        /\ c = <<Leave(prev), Join(t)>> /\ prev # t => ~EndsNext(Low, prev)
        /\ SendsHeard' /\ Heard' /\ Drafts'
    BY <1>1, <2>1, MovedWire
  <2>4. \A u \in Threads \ {t} : ~EndsNext(Low, u)
    BY <1>1, <1>2, <2>2, <2>3 DEF Membership
  <2>5. TypeOK'
    BY <1>1, <1>2, <2>1, <2>3 DEF TypeOK, Rests
  <2>6. Told'
    BY <1>1, <1>2 DEF Told
  <2>7. Membership'
    BY <1>1, <1>2, <2>1, <2>3, <2>4 DEF Membership, Ends, EndsNext, Low, High, Rests
  <2>8. QED
    BY <2>3, <2>5, <2>6, <2>7
<1>3. CASE app = "web" /\ ~(shown = "connected" /\ link = "connected")
  <2>1. wire' = wire /\ prev' \in Threads /\ (shown # "connected" => prev' = prev)
    BY <1>1, <1>3 DEF Switch, Rejoin, Invoke
  <2>2. SendsHeard' /\ Heard' /\ Drafts' /\ \A u \in Threads : (Ends(Low, u)' <=> Ends(Low, u)) /\ (Ends(High, u)' <=> Ends(High, u))
    BY <1>1, <2>1, StillWire
  <2>3. TypeOK'
    BY <1>1, <1>3, <2>1 DEF TypeOK, Rests
  <2>4. Told'
    BY <1>1, <1>3 DEF Told
  <2>5. Membership'
    BY <1>1, <1>3, <2>1, <2>2 DEF Membership
  <2>6. QED
    BY <2>2, <2>3, <2>4, <2>5
<1>4. CASE app = "desktop" /\ link = "connected"
  <2> DEFINE c == <<Leave(t), Join(t)>>
  <2>1. prev' = prev /\ wire' = wire \o c /\ Moves(c, t, t)
    BY <1>4 DEF Switch, Invoke, Moves
  <2> HIDE DEF c
  <2>2. /\ wire' \in Seq(Invocations)
        /\ \A i \in DOMAIN wire' : wire'[i].op = "send" <=> wire'[i].text # Empty
        /\ EndsNext(High, t)
        /\ SendsHeard' /\ Heard' /\ Drafts'
    BY <1>1, <2>1, MovedWire
  <2>3. TypeOK'
    BY <1>1, <1>4, <2>1, <2>2 DEF TypeOK, Rests
  <2>4. Told' /\ Membership'
    BY <1>1, <1>4, <2>2 DEF Told, Membership, Ends, EndsNext, Low, High, Rests
  <2>5. QED
    BY <2>2, <2>3, <2>4
<1>5. CASE app = "desktop" /\ link # "connected"
  <2>1. wire' = wire /\ prev' = prev /\ strayed' = "yes"
    BY <1>1, <1>5 DEF Switch, Invoke
  <2>2. SendsHeard' /\ Heard' /\ Drafts'
    BY <1>1, <2>1, StillWire
  <2>3. TypeOK'
    BY <1>1, <1>5, <2>1 DEF TypeOK, Rests
  <2>4. Told' /\ Membership'
    BY <1>1, <1>5, <2>1 DEF Told, Membership
  <2>5. QED
    BY <2>2, <2>3, <2>4
<1>6. QED
  BY <1>1, <1>2, <1>3, <1>4, <1>5

LEMMA TypeIInv == ASSUME NEW m \in Texts, IInv, Type(m) PROVE IInv'
<1> USE Typed DEF IInv
<1>1. /\ draft' = m /\ last' = m /\ m # Empty
      /\ excused' = IF SendUnderWay THEN excused \cup {m} ELSE excused
      /\ UNCHANGED <<app, page, link, joined, wire, stream, hub, shown, active, prev, messages>>
      /\ UNCHANGED <<sentOn, denied, unheard, strayed, faults, switches>>
  BY DEF Type, network, bounds
<1>2. TypeOK'
  BY <1>1 DEF TypeOK
<1>3. Told'
  BY <1>1 DEF Told
<1>4. Membership'
  BY <1>1 DEF Membership, Ends, Low, High
<1>5. SendsHeard'
  BY <1>1 DEF SendsHeard, High
<1>6. Heard'
  BY <1>1 DEF Heard
<1>7. Drafts'
  <2>1. (\E i \in 1 .. Len(wire) : wire[i].op = "send") => SendUnderWay
    BY DEF SendUnderWay, Sends
  <2>2. (\E i \in 1 .. Len(stream) : stream[i].kind = "done") => SendUnderWay
    BY DEF SendUnderWay
  <2>3. QED
    BY <1>1, <2>1, <2>2 DEF Drafts, DraftsKept
<1>8. QED
  BY <1>2, <1>3, <1>4, <1>5, <1>6, <1>7

LEMMA ReceiveIInv == IInv /\ Receive => IInv'
<1> SUFFICES ASSUME IInv, Receive PROVE IInv'
  OBVIOUS
<1> USE Typed DEF IInv
<1> DEFINE e == stream[1]
<1>1. /\ stream # <<>> /\ stream' = Tail(stream) /\ Head(stream) = e /\ e \in Events
      /\ UNCHANGED <<app, page, link, joined, wire, hub, shown, active, prev>>
      /\ UNCHANGED <<last, sentOn, excused, denied, unheard, strayed, faults, switches>>
  BY Rest DEF Receive, ghosts, bounds
<1>2. /\ e.kind = "message" => messages' = messages \cup {<<e.thread, e.text>>} /\ draft' = draft
      /\ e.kind # "message" => draft' = Empty /\ messages' = messages /\ e.kind = "done"
  BY <1>1 DEF Receive, Events
<1>3. /\ stream' \in Seq(Events) /\ Len(stream') = Len(stream) - 1 /\ 1 \in 1 .. Len(stream)
      /\ \A i \in 1 .. Len(stream') : stream'[i] = stream[i + 1] /\ i + 1 \in 1 .. Len(stream)
  BY <1>1, Rest
<1>4. \A i \in 1 .. Len(stream) : i = 1 \/ (i - 1 \in 1 .. Len(stream') /\ stream'[i - 1] = stream[i])
  <2>1. \A i \in 1 .. Len(stream) : i = 1 \/ (i - 1 \in 1 .. Len(stream) - 1 /\ (i - 1) + 1 = i)
    OBVIOUS
  <2>2. QED
    BY <1>3, <2>1
<1>5. TypeOK'
  <2>1. messages' \subseteq Threads \X Texts /\ draft' \in Texts \cup {Empty}
    BY <1>1, <1>2 DEF TypeOK, Events
  <2>2. link = "connected"
    BY <1>1 DEF TypeOK
  <2>3. QED
    BY <1>1, <1>3, <2>1, <2>2 DEF TypeOK
<1>6. Told'
  BY <1>1 DEF Told
<1>7. Membership'
  BY <1>1 DEF Membership, Ends, Low, High
<1>8. SendsHeard'
  BY <1>1 DEF SendsHeard, High
<1>9. Heard'
  <2>1. SUFFICES ASSUME NEW s \in sentOn, s[2] \notin unheard, s \notin messages'
                 PROVE  \E i \in 1 .. Len(stream') :
                          stream'[i].kind = "message" /\ stream'[i].thread = s[1] /\ stream'[i].text = s[2]
    BY <1>1 DEF Heard
  <2>2. s \notin messages
    BY <1>2, <2>1
  <2>3. PICK i \in 1 .. Len(stream) :
               stream[i].kind = "message" /\ stream[i].thread = s[1] /\ stream[i].text = s[2]
    BY <2>1, <2>2 DEF Heard
  <2>4. s = <<s[1], s[2]>>
    BY DEF TypeOK
  <2>5. i # 1
    BY <1>2, <2>1, <2>3, <2>4
  <2>6. QED
    BY <1>4, <2>3, <2>5
<1>10. Drafts'
  <2>1. \A i \in 1 .. Len(stream') :
          stream'[i].kind = "done" =>
             /\ stream'[i].text = last \/ last \in excused
             /\ <<stream'[i].thread, stream'[i].text>> \in sentOn
    BY <1>3 DEF Drafts
  <2>2. DraftsKept'
    <3>1. CASE e.kind = "message"
      BY <1>1, <1>2, <3>1 DEF Drafts, DraftsKept
    <3>2. CASE e.kind # "message"
      <4>1. /\ e.text = last \/ last \in excused
            /\ <<e.thread, e.text>> \in sentOn /\ e.thread \in Threads
        BY <1>1, <1>2, <1>3, <3>2 DEF Drafts, Events
      <4>2. QED
        BY <1>1, <4>1 DEF DraftsKept
    <3>3. QED
      BY <3>1, <3>2
  <2>3. QED
    BY <1>1, <1>2, <2>1, <2>2 DEF Drafts
<1>11. QED
  BY <1>5, <1>6, <1>7, <1>8, <1>9, <1>10

LEMMA SendIInv == IInv /\ Send => IInv'
<1> SUFFICES ASSUME IInv, Send PROVE IInv'
  OBVIOUS
<1> USE Typed DEF IInv
<1>1. /\ page = "open" /\ draft # Empty /\ draft \in Texts /\ last = draft
      /\ UNCHANGED <<app, page, link, joined, stream, hub, shown, active, prev, messages>>
      /\ UNCHANGED <<last, sentOn, denied, strayed, faults, switches>> /\ Low' = Low /\ High' = High
  BY DEF Send, bounds, TypeOK, Drafts, Low, High
<1>2. CASE link = "connected"
  <2> DEFINE s == [op |-> "send", thread |-> active, text |-> draft]
             n == Len(wire)
  <2>1. /\ wire' = Append(wire, s) /\ draft' = draft /\ excused' = excused
        /\ unheard' = IF (app = "web" /\ shown # "connected") \/ strayed = "yes"
                      THEN unheard \cup {draft} ELSE unheard
    BY <1>2 DEF Send
  <2>2. s \in Invocations /\ s.op = "send" /\ s.text = draft /\ s.thread = active /\ active \in Threads
    BY <1>1 DEF Invocations, TypeOK
  <2>3. \A t : s # Leave(t) /\ s # Join(t)
    BY DEF Leave, Join
  <2> HIDE DEF s
  <2>4. /\ wire' \in Seq(Invocations) /\ Len(wire') = n + 1 /\ wire'[n + 1] = s
        /\ \A k \in 1 .. n : wire'[k] = wire[k]
    BY <2>1, <2>2, AppendProperties
  <2>5. n \in Nat /\ DOMAIN wire' = 1 .. n + 1
    BY <2>4, LenProperties
  <2>6. \A k \in 1 .. n + 1 : k \in 1 .. n \/ k = n + 1
    BY <2>5
  <2>7. \A J : \A k \in 0 .. n, t \in Threads : After(J, wire', k, t) <=> After(J, wire, k, t)
    <3>1. \A k \in 0 .. n : k \in Nat /\ \A i \in 1 .. k : wire'[i] = wire[i]
      BY <2>4, <2>5
    <3>2. QED
      BY <1>1, <3>1, AfterPrefix
  <2>8. ASSUME NEW J, NEW t \in Threads PROVE EndsNext(J, t) <=> Ends(J, t)
    <3>1. After(J, wire', n + 1, t) <=> After(J, wire', n, t)
      BY <2>3, <2>4, <2>5, AfterNext
    <3>2. n \in 0 .. n
      BY <2>5
    <3>3. QED
      BY <2>4, <2>7, <3>1, <3>2 DEF Ends, EndsNext
  <2>9. TypeOK'
    <3>1. \A i \in DOMAIN wire' : wire'[i].op = "send" <=> wire'[i].text # Empty
      BY <1>1, <2>2, <2>4, <2>5, <2>6
    <3>2. unheard' \subseteq Texts
      BY <1>1, <2>1 DEF TypeOK
    <3>3. QED
      BY <1>1, <1>2, <2>1, <2>4, <3>1, <3>2 DEF TypeOK
  <2>10. Told'
    BY <1>1 DEF Told
  <2>11. Membership'
    <3>1. active' \in Threads /\ prev' \in Threads
      BY <1>1 DEF TypeOK
    <3>2. QED
      BY <1>1, <2>8, <3>1 DEF Membership, Ends, EndsNext
  <2>12. SendsHeard'
    <3>1. SUFFICES ASSUME NEW i \in 1 .. n + 1, wire'[i].op = "send", wire'[i].text \notin unheard'
                   PROVE  After(High', wire', i - 1, wire'[i].thread)
      BY <2>4 DEF SendsHeard
    <3>2. CASE i \in 1 .. n
      <4>1. i - 1 \in 0 .. n /\ wire'[i] = wire[i] /\ wire[i].thread \in Threads
        BY <2>4, <2>5, <3>2 DEF Invocations
      <4>2. After(High, wire, i - 1, wire[i].thread)
        BY <2>1, <3>1, <3>2, <4>1 DEF SendsHeard
      <4>3. QED
        BY <1>1, <2>7, <4>1, <4>2
    <3>3. CASE i = n + 1
      <4>1. draft \notin unheard'
        BY <2>2, <2>4, <3>1, <3>3
      <4>2. ~((app = "web" /\ shown # "connected") \/ strayed = "yes")
        BY <2>1, <4>1
      <4>3. After(High, wire, n, active)
        BY <1>2, <4>2 DEF Membership, Ends, TypeOK
      <4>4. (n + 1) - 1 = n /\ n \in 0 .. n
        BY <2>5
      <4>5. QED
        BY <1>1, <2>2, <2>4, <2>7, <3>3, <4>3, <4>4
    <3>4. QED
      BY <2>6, <3>2, <3>3
  <2>13. Heard'
    BY <1>1, <2>1 DEF Heard
  <2>14. Drafts'
    <3>1. \A i \in 1 .. Len(wire') : wire'[i].op = "send" => wire'[i].text = last' \/ last' \in excused'
      BY <1>1, <2>1, <2>2, <2>4, <2>6 DEF Drafts
    <3>2. QED
      BY <1>1, <2>1, <3>1 DEF Drafts, DraftsKept
  <2>15. QED
    BY <2>9, <2>10, <2>11, <2>12, <2>13, <2>14
<1>3. CASE link # "connected"
  <2>1. wire' = wire /\ unheard' = unheard /\ draft' = Empty /\ excused' = excused \cup {draft}
    BY <1>3 DEF Send
  <2>2. TypeOK'
    BY <1>1, <1>3, <2>1 DEF TypeOK
  <2>3. Told' /\ Membership'
    BY <1>1, <1>3 DEF Told, Membership
  <2>4. SendsHeard' /\ Heard'
    BY <1>1, <2>1 DEF SendsHeard, Heard
  <2>5. Drafts'
    BY <1>1, <2>1 DEF Drafts, DraftsKept
  <2>6. QED
    BY <2>2, <2>3, <2>4, <2>5
<1>4. QED
  BY <1>2, <1>3

LEMMA NextIInv == IInv /\ [Next]_vars => IInv'
<1> SUFFICES ASSUME IInv, [Next]_vars PROVE IInv'
  OBVIOUS
<1>1. CASE Next
  BY <1>1, StartedIInv, LinkIInv, HandleIInv, RefuseIInv, RenderIInv, SendIInv, ReceiveIInv,
     SwitchIInv, TypeIInv DEF Next
<1>2. CASE UNCHANGED vars
  <2>1. /\ UNCHANGED <<app, page, link, joined, wire, stream, hub, shown, active, prev, draft, messages>>
        /\ UNCHANGED <<last, sentOn, excused, denied, unheard, strayed, faults, switches>>
    BY <1>2 DEF vars, network, view, ghosts, bounds
  <2>2. TypeOK'
    BY <2>1 DEF IInv, TypeOK
  <2>3. Told' /\ Membership'
    BY <2>1 DEF IInv, Told, Membership, Ends, Low, High
  <2>4. SendsHeard' /\ Heard' /\ Drafts'
    BY <2>1 DEF IInv, SendsHeard, High, Heard, Drafts, DraftsKept
  <2>5. QED
    BY <2>2, <2>3, <2>4 DEF IInv
<1>3. QED
  BY <1>1, <1>2

LEMMA SpecIInv == Spec => []IInv
  BY InitIInv, NextIInv, PTL DEF Spec

-----------------------------------------------------------------------------
\* Every variable of the page, its connection and the Bridge has its type.
THEOREM TypeCorrect == Spec => []TypeOK
<1>1. IInv => TypeOK
  BY DEF IInv
<1>2. QED
  BY <1>1, SpecIInv, PTL

\* A page with a connection and nothing under way says that it is connected, and is in the
\* thread it shows: the web page in no other, the desktop page unless it went astray, and both
\* but for the threads whose last join or leave was refused on this connection.
THEOREM ShownThreadJoined == Spec => []JoinedShown
<1>1. IInv => JoinedShown
  <2> SUFFICES ASSUME IInv, Settled PROVE
        /\ shown = "connected"
        /\ app = "web" => InThread
        /\ app = "desktop" /\ strayed = "no" => active \in joined \cup denied
    BY DEF JoinedShown
  <2>1. Len(wire) = 0 /\ 1 .. 0 = {}
    BY DEF Settled
  <2>2. \A J, t : Ends(J, t) <=> t \in J
    BY <2>1 DEF Ends, After
  <2>3. page = "open" /\ link = "connected" /\ shown = "connected"
    BY DEF IInv, Settled, Told, TypeOK
  <2>4. joined \subseteq Threads /\ active \in Threads
    BY DEF IInv, TypeOK
  <2>5. QED
    BY <2>2, <2>3, <2>4 DEF IInv, Membership, Low, High, InThread
<1>2. QED
  BY <1>1, SpecIInv, PTL

\* Once nothing is on its way back, each message the Bridge has from this page is in the
\* page's list, but for those sent outside their thread, or in one that was denied, or lost with
\* the connection.
THEOREM SentIsHeard == Spec => []SenderHears
<1>1. IInv => SenderHears
  <2>1. stream = <<>> => 1 .. Len(stream) = {}
    OBVIOUS
  <2>2. QED
    BY <2>1 DEF IInv, Heard, SenderHears
<1>2. QED
  BY <1>1, SpecIInv, PTL

\* A draft that is gone is at the Bridge, or was written over a send, or sent without a
\* connection by the key of the web page.
THEOREM NoDraftLost == Spec => []DraftsKept
<1>1. IInv => DraftsKept
  BY DEF IInv, Drafts
<1>2. QED
  BY <1>1, SpecIInv, PTL
=============================================================================
