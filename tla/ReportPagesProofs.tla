------------------------- MODULE ReportPagesProofs -------------------------
(***************************************************************************)
(* Proofs about ReportPages, for all charts and filters, and any number of *)
(* runs, exports and changes of the charts.                                *)
(***************************************************************************)
EXTENDS ReportPages, FiniteSetTheorems, TLAPS

(***************************************************************************)
(* The mutation a page follows, and what the page keeps besides.           *)
(***************************************************************************)
Followed ==
    /\ mutation.status = "idle" <=> mutation = Idle
    /\ mutation.status # "idle" => mutation.params \in Params
    /\ mutation.status = "success" => mutation.of = mutation.params /\ mutation.rows \in {"some", "empty"}
    /\ page = "none" => mutation = Idle

Kept ==
    /\ kept # NoParams => Pending \/ (Succeeded /\ kept = mutation.params)
    /\ flag = "error" => page = "trial-balance" /\ (Pending \/ mutation.status = "error")
    /\ KeepsSubmitted /\ mutation.status # "idle" => sent = mutation.params
    /\ page = "trial-balance" /\ Succeeded /\ kept = NoParams => edited = "after"

\* No two runs have a number in common, and the one that is followed is under way.
Numbered ==
    /\ mutation.id <= ran
    /\ \A r \in runs : r.id <= ran
    /\ \A r, q \in runs : r.id = q.id => r = q
    /\ \A r \in runs : r.id = mutation.id => Pending /\ r.params = mutation.params

\* What is asked, answered or failed is what the filters say, with the exceptions of ResultOfFilters.
Asked ==
    mutation.status # "idle" =>
        \/ mutation.params = form
        \/ page = "profit-and-loss" /\ edited = "running"
        \/ page = "trial-balance" /\ edited # "no"

\* An export under way is shown to be, unless a timer has ended it.
Exporting ==
    /\ overtook = "no" => exports <= 1 /\ (exports = 1 => button.status = "exporting")
    /\ exports + button.orphans + (IF button.held = "yes" THEN 1 ELSE 0) <= exported
    /\ page = "none" => exports = 0

Offered ==
    /\ query.charts \subseteq charts \cup dropped
    /\ ChartOffered

IInv == TypeOK /\ Followed /\ Kept /\ Numbered /\ Asked /\ Exporting /\ Offered

-----------------------------------------------------------------------------
LEMMA Constants ==
  /\ Blank \in Filters /\ None \notin Charts /\ {MaxRuns, MaxExports, MaxChanges} \subseteq Nat
  /\ Pages \subseteq {"rent-roll", "trial-balance", "profit-and-loss", "ar-aging", "ap-aging"}
  /\ NoParams \notin Params /\ NoParams \in Forms
  /\ Ready \in Forms /\ Ready.chart = None
  /\ Params \subseteq Forms /\ \A f \in Forms : f.chart # None => f \in Params
<1>1. \A f \in Forms : f.chart # None => f \in Params
  BY DEF Forms, Params
<1>2. Ready \in Forms /\ Ready.chart = None
  <2>1. \E f \in Filters : f # Blank
    BY ValuesAssumption
  <2>2. (CHOOSE f \in Filters : f # Blank) \in Filters
    BY <2>1
  <2>3. QED
    BY <2>2 DEF Ready, Forms
<1>3. QED
  BY <1>1, <1>2, PagesAssumption, ValuesAssumption, BoundsAssumption DEF NoParams, Params, Forms

LEMMA IdleFacts ==
  /\ Idle.id = 0 /\ Idle.status = "idle" /\ Idle.params = NoParams /\ Idle.of = NoParams /\ Idle.rows = "none"
  /\ Idle \in [id : 0 .. MaxRuns, status : {"idle", "pending", "success", "error"},
               params : Params \cup {NoParams}, of : Params \cup {NoParams}, rows : {"none", "some", "empty"}]
  BY Constants DEF Idle

(***************************************************************************)
(* What a page displays depends on its mutation alone.                     *)
(***************************************************************************)
PhaseOf(status) ==
    CASE status = "idle" -> "idle" [] status = "pending" -> "loading"
      [] status = "success" -> "shown" [] status = "error" -> "failed"

LEMMA ViewFacts ==
  IInv => /\ Phase = PhaseOf(mutation.status)
          /\ View.of = mutation.params
          /\ Showing <=> Succeeded
          /\ View.phase = "failed" <=> mutation.status = "error"
          /\ View.export => Succeeded
          /\ Succeeded /\ page \in {"rent-roll", "ar-aging", "ap-aging"} =>
               View.label = [mutation.params EXCEPT !.filter = form.filter]
          /\ Succeeded /\ page \notin {"rent-roll", "ar-aging", "ap-aging"} => View.label = mutation.params
<1> SUFFICES ASSUME IInv
             PROVE  /\ Phase = PhaseOf(mutation.status)
                    /\ View.of = mutation.params
                    /\ Showing <=> Succeeded
                    /\ View.phase = "failed" <=> mutation.status = "error"
                    /\ View.export => Succeeded
                    /\ Succeeded /\ page \in {"rent-roll", "ar-aging", "ap-aging"} =>
                         View.label = [mutation.params EXCEPT !.filter = form.filter]
                    /\ Succeeded /\ page \notin {"rent-roll", "ar-aging", "ap-aging"} =>
                         View.label = mutation.params
  OBVIOUS
<1> USE Constants, IdleFacts
<1>1. /\ mutation.status \in {"idle", "pending", "success", "error"}
      /\ page \in {"rent-roll", "trial-balance", "profit-and-loss", "ar-aging", "ap-aging", "none"}
      /\ mutation.status = "idle" => mutation.params = NoParams
      /\ mutation.status # "idle" => mutation.params \in Params
      /\ mutation.status = "success" => mutation.of = mutation.params /\ mutation.rows \in {"some", "empty"}
      /\ page = "none" => mutation.status = "idle"
      /\ page # "trial-balance" => kept = NoParams
      /\ kept # NoParams => Pending \/ (Succeeded /\ kept = mutation.params)
      /\ flag = "error" => page = "trial-balance" /\ (Pending \/ mutation.status = "error")
  BY DEF IInv, TypeOK, Followed, Kept
<1>2. CASE page = "rent-roll"
  BY <1>1, <1>2 DEF Phase, PhaseOf, Showing, View, RentRollView, Pending, Succeeded, Loading, Failed,
                    Waiting, RentRollTable
<1>3. CASE page = "trial-balance"
  BY <1>1, <1>3 DEF Phase, PhaseOf, Showing, View, TrialBalanceView, Pending, Succeeded, Loading, Failed,
                    Waiting, TrialBalanceTable, TrialBalanceResult
<1>4. CASE page = "profit-and-loss"
  BY <1>1, <1>4 DEF Phase, PhaseOf, Showing, View, ProfitLossView, Pending, Succeeded, Loading, Failed,
                    Waiting, ProfitLossTable
<1>5. CASE page = "ar-aging"
  BY <1>1, <1>5 DEF Phase, PhaseOf, Showing, View, ArAgingView, Pending, Succeeded, Loading, Failed,
                    Waiting, ArAgingTable
<1>6. CASE page = "ap-aging"
  BY <1>1, <1>6 DEF Phase, PhaseOf, Showing, View, ApAgingView, Pending, Succeeded, Loading, Failed,
                    Waiting, ApAgingTable
<1>7. CASE page = "none"
  BY <1>1, <1>7 DEF Phase, PhaseOf, Showing, View, Pending, Succeeded, Waiting
<1>8. QED
  BY <1>1, <1>2, <1>3, <1>4, <1>5, <1>6, <1>7

LEMMA ViewFactsNext == IInv' => Phase' = PhaseOf(mutation.status') /\ View.of' = mutation.params'
<1>1. IInv => Phase = PhaseOf(mutation.status) /\ View.of = mutation.params
  BY ViewFacts
<1>2. IInv' => (Phase = PhaseOf(mutation.status) /\ View.of = mutation.params)'
  BY <1>1, PTL
<1>3. QED
  BY <1>2

-----------------------------------------------------------------------------
LEMMA InitIInv == Init => IInv
<1> SUFFICES ASSUME Init PROVE IInv
  OBVIOUS
<1> USE Constants, IdleFacts
<1>1. TypeOK
  <2>1. button \in [status : {"idle", "exporting", "error"}, held : {"yes", "no"}, orphans : 0 .. MaxExports]
    BY DEF Init, NewButton
  <2>2. query \in [status : {"pending", "success", "error"}, charts : SUBSET Charts]
    BY DEF Init
  <2>3. QED
    BY <2>1, <2>2 DEF Init, TypeOK
<1>2. Followed /\ Kept /\ Numbered /\ Asked
  BY DEF Init, Followed, Kept, Numbered, Asked
<1>3. Exporting /\ Offered
  BY DEF Init, Exporting, Offered, ChartOffered, Ready, NewButton
<1>4. QED
  BY <1>1, <1>2, <1>3 DEF IInv

(***************************************************************************)
(* The part of the invariant that is about the page and its runs, and the  *)
(* part that is about its export button and the charts.                    *)
(***************************************************************************)
LocalOK ==
    /\ page \in Pages \cup {"none"}
    /\ form \in Forms
    /\ mutation \in [id : 0 .. MaxRuns, status : {"idle", "pending", "success", "error"},
                     params : Params \cup {NoParams}, of : Params \cup {NoParams},
                     rows : {"none", "some", "empty"}]
    /\ mutation.id = 0 <=> mutation.status = "idle"
    /\ sent \in Params \cup {NoParams} /\ kept \in Params \cup {NoParams}
    /\ flag \in {"none", "result", "error"}
    /\ kept # NoParams => page = "trial-balance" /\ flag = "result"
    /\ edited \in {"no", "running", "after"}
    /\ runs \subseteq [id : 1 .. MaxRuns, params : Params]
    /\ ran \in 0 .. MaxRuns

OthersOK ==
    /\ button \in [status : {"idle", "exporting", "error"}, held : {"yes", "no"},
                   orphans : 0 .. MaxExports]
    /\ query \in [status : {"pending", "success", "error"}, charts : SUBSET Charts]
    /\ charts \subseteq Charts
    /\ exports \in 0 .. MaxExports
    /\ overtook \in {"yes", "no"} /\ dropped \subseteq Charts
    /\ exported \in 0 .. MaxExports /\ changes \in 0 .. MaxChanges

Local == LocalOK /\ Followed /\ Kept /\ Numbered /\ Asked
Others == OthersOK /\ Exporting /\ Offered

LEMMA Parts == IInv <=> Local /\ Others
<1>1. TypeOK <=> LocalOK /\ OthersOK
  BY DEF TypeOK, LocalOK, OthersOK
<1>2. QED
  BY <1>1 DEF IInv, Local, Others

LEMMA PartsNext == IInv' <=> Local' /\ Others'
  BY Parts, PTL

LEMMA LocalStill == Local /\ UNCHANGED <<page, local, runs, ran>> => Local'
<1> SUFFICES ASSUME Local, UNCHANGED <<page, local, runs, ran>> PROVE Local'
  OBVIOUS
<1>1. UNCHANGED <<page, form, mutation, sent, kept, flag, edited, runs, ran>>
  BY DEF local
<1>2. LocalOK'
  BY <1>1 DEF Local, LocalOK
<1>3. (Followed /\ Kept)'
  BY <1>1 DEF Local, Followed, Kept, Pending, Succeeded, KeepsSubmitted
<1>4. (Numbered /\ Asked)'
  BY <1>1 DEF Local, Numbered, Asked, Pending
<1>5. QED
  BY <1>2, <1>3, <1>4 DEF Local

\* A page whose mutation is reset.
LEMMA LocalIdle ==
  ASSUME Local, page' \in Pages \cup {"none"}, form' \in Forms, mutation' = Idle, kept' = NoParams,
         sent' \in Params \cup {NoParams}, flag' \in {"none", "result"}, edited' \in {"no", "running", "after"},
         UNCHANGED <<runs, ran>>
  PROVE  Local'
<1> USE Constants, IdleFacts DEF Local
<1>1. LocalOK'
  BY DEF LocalOK
<1>2. Followed' /\ Kept' /\ Asked'
  BY DEF Followed, Kept, Asked, LocalOK, Succeeded
<1>3. Numbered'
  BY DEF Numbered, LocalOK
<1>4. QED
  BY <1>1, <1>2, <1>3

LEMMA EditLocal ==
  ASSUME NEW f \in Forms, Local, Edit(f), UNCHANGED <<page, runs, ran>>
  PROVE  Local' /\ mutation' \in {mutation, Idle}
<1> USE Constants, IdleFacts
<1>1. /\ form' = f /\ edited' = IF Pending THEN "running" ELSE "after"
      /\ page' = page /\ page \in Pages \cup {"none"} /\ edited' \in {"running", "after"}
      /\ sent \in Params \cup {NoParams} /\ flag \in {"none", "result", "error"}
      /\ page # "trial-balance" => kept = NoParams /\ flag # "error"
  BY DEF Edit, Local, LocalOK, Kept
<1>2. CASE mutation' = Idle /\ sent' \in {NoParams, sent} /\ UNCHANGED <<kept, flag>> /\ page # "trial-balance"
  BY <1>1, <1>2, LocalIdle
<1>3. CASE EditTrialBalance
  <2>1. page = "trial-balance" /\ kept' = NoParams /\ flag' = "none" /\ UNCHANGED <<mutation, sent>>
    BY <1>3 DEF EditTrialBalance
  <2>2. LocalOK'
    BY <1>1, <2>1 DEF Local, LocalOK
  <2>3. (Followed /\ Kept)'
    BY <1>1, <2>1 DEF Local, Followed, Kept, KeepsSubmitted, Pending, Succeeded
  <2>4. (Numbered /\ Asked)'
    BY <1>1, <2>1 DEF Local, Numbered, Asked, Pending
  <2>5. QED
    BY <2>1, <2>2, <2>3, <2>4 DEF Local
<1>4. CASE EditProfitLoss /\ mutation.status \notin {"success", "error"}
  <2>1. page = "profit-and-loss" /\ UNCHANGED <<mutation, sent, kept, flag>>
    BY <1>4 DEF EditProfitLoss
  <2>2. LocalOK'
    BY <1>1, <2>1 DEF Local, LocalOK
  <2>3. (Followed /\ Kept)'
    BY <1>1, <2>1 DEF Local, Followed, Kept, KeepsSubmitted, Pending, Succeeded
  <2>4. Asked'
    BY <1>1, <1>4, <2>1 DEF Local, LocalOK, Asked, Pending
  <2>5. Numbered'
    BY <1>1, <2>1 DEF Local, Numbered, Pending
  <2>6. QED
    BY <2>1, <2>2, <2>3, <2>4, <2>5 DEF Local
<1>5. QED
  BY <1>2, <1>3, <1>4 DEF Edit, EditRentRoll, EditProfitLoss, EditArAging, EditApAging

LEMMA MutateLocal ==
  ASSUME NEW p \in Params, Local, Mutate(p), page # "none", UNCHANGED <<page, form, kept>>,
         flag' \in {flag, "none"}, kept # NoParams => flag' = flag, sent' \in Params \cup {NoParams}, KeepsSubmitted => sent' = p,
         edited' \in {"no", "running", "after"},
         \/ p = form
         \/ page = "profit-and-loss" /\ edited' = "running"
         \/ page = "trial-balance" /\ edited' # "no"
  PROVE  Local' /\ mutation'.status = "pending"
<1> USE Constants, IdleFacts
<1>1. /\ ran \in Nat /\ ran < MaxRuns /\ ran' = ran + 1 /\ ran + 1 \in 1 .. MaxRuns
      /\ mutation' = [id |-> ran + 1, status |-> "pending", params |-> p, of |-> NoParams, rows |-> "none"]
      /\ runs' = runs \cup {[id |-> ran + 1, params |-> p]}
  BY DEF Mutate, Local, LocalOK
<1>2. /\ mutation'.id = ran + 1 /\ mutation'.status = "pending" /\ mutation'.params = p
      /\ mutation' # Idle
      /\ mutation' \in [id : 0 .. MaxRuns, status : {"idle", "pending", "success", "error"},
                        params : Params \cup {NoParams}, of : Params \cup {NoParams},
                        rows : {"none", "some", "empty"}]
  BY <1>1
<1>3. LocalOK'
  BY <1>1, <1>2 DEF Local, LocalOK
<1>4. (Followed /\ Kept /\ Asked)'
  BY <1>2 DEF Local, Followed, Kept, KeepsSubmitted, Pending, Succeeded, Asked, LocalOK
<1>5. Numbered'
  <2>1. \A r \in runs : r.id \in Nat /\ r.id <= ran
    BY DEF Local, LocalOK, Numbered
  <2>2. \A r \in runs : r.id # ran + 1 /\ r.id <= ran + 1
    BY <1>1, <2>1
  <2>3. \A r \in runs' : r \in runs \/ (r.id = ran + 1 /\ r.params = p)
    BY <1>1
  <2>4. \A r, q \in runs' : r.id = q.id => r = q
    BY <1>1, <2>2, <2>3 DEF Local, Numbered
  <2>5. QED
    BY <1>1, <1>2, <2>2, <2>3, <2>4 DEF Numbered, Pending
<1>6. QED
  BY <1>2, <1>3, <1>4, <1>5 DEF Local

(***************************************************************************)
(* What a step may do to the mutation that is followed.                    *)
(***************************************************************************)
Moves ==
    \/ mutation' \in {mutation, Idle}
    \/ ~Pending /\ mutation'.status = "pending"
    \/ Pending /\ mutation'.status \in {"success", "error"} /\ mutation'.params = mutation.params

LEMMA RunLocal == Local /\ Run => Local' /\ Moves
<1> SUFFICES ASSUME Local, Run PROVE Local' /\ Moves
  OBVIOUS
<1> USE Constants
<1>1. form \in Params
  BY DEF Run, CanRun, TrialBalanceCanRun, Local, LocalOK
<1>2. sent' \in Params \cup {NoParams} /\ (KeepsSubmitted => sent' = form)
  BY <1>1 DEF Run, Local, LocalOK
<1>3. Local' /\ mutation'.status = "pending"
  BY <1>1, <1>2, MutateLocal DEF Run
<1>4. QED
  BY <1>3 DEF Run, Moves

LEMMA RetryLocal == IInv /\ Retry => Local' /\ Moves
<1> SUFFICES ASSUME IInv, Retry PROVE Local' /\ Moves
  OBVIOUS
<1> USE Constants, IdleFacts
<1>1. Local /\ mutation.status = "error" /\ page # "none" /\ UNCHANGED <<page, form, kept>>
  BY Parts, ViewFacts DEF Retry, Local, Followed
<1>2. kept = NoParams /\ ~Pending /\ mutation.params \in Params /\ (flag = "error" => page = "trial-balance")
  BY <1>1 DEF Local, Kept, Followed, Pending, Succeeded
<1>3. CASE page = "trial-balance" /\ TrialBalanceCanRun
  <2>1. Mutate(form) /\ sent' = form /\ edited' = "no" /\ flag' = "none"
    BY <1>3 DEF Retry, RetryTrialBalance
  <2>2. form \in Params
    BY <1>1, <1>3 DEF TrialBalanceCanRun, Local, LocalOK
  <2>3. Local' /\ mutation'.status = "pending"
    BY <1>1, <1>2, <2>1, <2>2, MutateLocal
  <2>4. QED
    BY <1>2, <2>3 DEF Moves
<1>4. CASE page = "trial-balance" /\ ~TrialBalanceCanRun
  <2>1. flag' = "none" /\ UNCHANGED <<mutation, runs, ran, sent, edited>>
    BY <1>4 DEF Retry, RetryTrialBalance
  <2>2. LocalOK'
    BY <1>1, <1>2, <2>1 DEF Local, LocalOK
  <2>3. (Followed /\ Kept)'
    BY <1>1, <1>2, <2>1 DEF Local, Followed, Kept, KeepsSubmitted, Pending, Succeeded
  <2>4. (Numbered /\ Asked)'
    BY <1>1, <2>1 DEF Local, Numbered, Asked, Pending
  <2>5. QED
    BY <2>1, <2>2, <2>3, <2>4 DEF Local, Moves
<1>5. CASE page # "trial-balance"
  <2> DEFINE p == mutation.params
  <2>1. Mutate(p) /\ UNCHANGED <<sent, flag, edited>>
    BY <1>1, <1>5 DEF Retry, Local, Kept
  <2>2. KeepsSubmitted => sent' = p
    BY <1>1, <2>1 DEF Local, Kept
  <2>3. /\ sent' \in Params \cup {NoParams} /\ edited' \in {"no", "running", "after"}
        /\ \/ p = form
           \/ page = "profit-and-loss" /\ edited' = "running"
           \/ page = "trial-balance" /\ edited' # "no"
    BY <1>1, <2>1 DEF Local, LocalOK, Asked
  <2>4. p \in Params /\ flag' \in {flag, "none"} /\ (kept # NoParams => flag' = flag)
    BY <1>2, <2>1
  <2> HIDE DEF p
  <2>5. Local' /\ mutation'.status = "pending"
    BY <1>1, <2>1, <2>2, <2>3, <2>4, MutateLocal
  <2>6. QED
    BY <1>2, <2>5 DEF Moves
<1>6. QED
  BY <1>3, <1>4, <1>5

LEMMA AnswerLocal ==
  ASSUME NEW r \in runs, NEW rows \in {"some", "empty", "none"}, Local, Answer(r, rows)
  PROVE  Local' /\ Moves
<1> USE Constants, IdleFacts
<1>1. /\ runs' = runs \ {r} /\ UNCHANGED <<page, form, sent, edited, ran>>
      /\ mutation.status \in {"idle", "pending", "success", "error"}
  BY DEF Answer, Local, LocalOK
<1>2. CASE r.id = mutation.id
  <2> DEFINE status == IF rows = "none" THEN "error" ELSE "success"
  <2>1. Pending /\ r.params = mutation.params /\ mutation.params \in Params /\ mutation.id # 0
    BY <1>1, <1>2 DEF Local, LocalOK, Numbered, Followed, Pending
  <2>2. mutation' = IF rows = "none" THEN [mutation EXCEPT !.status = "error"]
                    ELSE [mutation EXCEPT !.status = "success", !.of = r.params, !.rows = rows]
    BY <1>2 DEF Answer
  <2>3. /\ mutation'.id = mutation.id /\ mutation'.params = mutation.params /\ mutation'.status = status
        /\ rows # "none" => mutation'.of = mutation.params /\ mutation'.rows \in {"some", "empty"}
        /\ mutation' \in [id : 0 .. MaxRuns, status : {"idle", "pending", "success", "error"},
                          params : Params \cup {NoParams}, of : Params \cup {NoParams},
                          rows : {"none", "some", "empty"}]
    BY <2>1, <2>2 DEF Local, LocalOK
  <2>4. IF page = "trial-balance"
        THEN /\ kept' = IF rows = "none" THEN NoParams ELSE mutation.params
             /\ flag' = IF rows = "none" THEN "error" ELSE "result"
        ELSE UNCHANGED <<kept, flag>>
    BY <1>2, <2>1 DEF Answer
  <2>5. LocalOK'
    BY <1>1, <2>1, <2>3, <2>4 DEF Local, LocalOK
  <2>6. Followed'
    BY <1>1, <2>1, <2>3 DEF Local, Followed, Pending
  <2>7. Kept'
    <3>1. CASE page = "trial-balance"
      BY <1>1, <2>1, <2>3, <2>4, <3>1 DEF Local, Kept, Pending, Succeeded, KeepsSubmitted
    <3>2. CASE page # "trial-balance"
      <4>1. kept' = NoParams /\ flag' # "error"
        BY <2>4, <3>2 DEF Local, LocalOK, Kept
      <4>2. KeepsSubmitted' => sent' = mutation'.params
        BY <1>1, <2>1, <2>3 DEF Local, Kept, KeepsSubmitted, Pending
      <4>3. page' # "trial-balance"
        BY <1>1, <3>2
      <4>4. QED
        BY <4>1, <4>2, <4>3 DEF Kept
    <3>3. QED
      BY <3>1, <3>2
  <2>8. Numbered'
    BY <1>1, <1>2, <2>3 DEF Local, Numbered
  <2>9. Asked'
    BY <1>1, <2>1, <2>3 DEF Local, Asked, Pending
  <2>10. QED
    BY <2>1, <2>3, <2>5, <2>6, <2>7, <2>8, <2>9 DEF Local, Moves
<1>3. CASE r.id # mutation.id
  <2>1. UNCHANGED <<mutation, kept, flag>>
    BY <1>3 DEF Answer
  <2>2. LocalOK'
    BY <1>1, <2>1 DEF Local, LocalOK
  <2>3. (Followed /\ Kept)'
    BY <1>1, <2>1 DEF Local, Followed, Kept, KeepsSubmitted, Pending, Succeeded
  <2>4. (Numbered /\ Asked)'
    BY <1>1, <2>1 DEF Local, Numbered, Asked, Pending
  <2>5. QED
    BY <2>1, <2>2, <2>3, <2>4 DEF Local, Moves
<1>4. QED
  BY <1>2, <1>3

-----------------------------------------------------------------------------
LEMMA AutoSelectedFacts ==
  ASSUME NEW f \in Forms, NEW offered \in SUBSET Charts
  PROVE  /\ AutoSelected(f, offered) \in Forms
         /\ AutoSelected(f, offered).chart \in {f.chart} \cup offered
<1>1. CASE f.chart = None /\ Cardinality(offered) = 1
  <2>1. offered # {}
    BY <1>1, FS_EmptySet
  <2>2. (CHOOSE c \in offered : TRUE) \in offered
    BY <2>1
  <2> DEFINE c == CHOOSE c \in offered : TRUE
  <2>3. AutoSelected(f, offered) = [f EXCEPT !.chart = c]
    BY <1>1 DEF AutoSelected
  <2> HIDE DEF c
  <2>4. c \in offered
    BY <2>2 DEF c
  <2>5. QED
    BY <2>3, <2>4 DEF Forms
<1>2. CASE ~(f.chart = None /\ Cardinality(offered) = 1)
  BY <1>2 DEF AutoSelected
<1>3. QED
  BY <1>1, <1>2

LEMMA OthersStill ==
  Others /\ UNCHANGED <<page, form, button, query, charts, exports, overtook, dropped, exported, changes>>
    => Others'
<1> SUFFICES ASSUME Others,
                    UNCHANGED <<page, form, button, query, charts, exports, overtook, dropped, exported, changes>>
             PROVE  Others'
  OBVIOUS
<1>1. OthersOK'
  BY DEF Others, OthersOK
<1>2. Exporting'
  BY DEF Others, Exporting
<1>3. Offered'
  BY DEF Others, Offered, ChartOffered
<1>4. QED
  BY <1>1, <1>2, <1>3 DEF Others

LEMMA ButtonOthers ==
  ASSUME Others, Export \/ DismissToast \/ ToastTimer \/ \E outcome \in {"saved", "failed"} : ExportEnds(outcome)
  PROVE  Others' /\ UNCHANGED <<page, local, runs, ran>>
<1> USE Constants
<1>1. UNCHANGED <<page, local, query, charts, runs, dropped, ran, changes>> /\ form' = form
  BY DEF Export, DismissToast, ToastTimer, ExportEnds, local
<1>2. Offered'
  BY <1>1 DEF Others, Offered, ChartOffered
<1>3. /\ button \in [status : {"idle", "exporting", "error"}, held : {"yes", "no"}, orphans : 0 .. MaxExports]
      /\ exports \in 0 .. MaxExports /\ exported \in 0 .. MaxExports /\ overtook \in {"yes", "no"}
      /\ overtook = "no" => exports <= 1 /\ (exports = 1 => button.status = "exporting")
      /\ exports + button.orphans + (IF button.held = "yes" THEN 1 ELSE 0) <= exported
      /\ page = "none" => exports = 0
  BY DEF Others, OthersOK, Exporting
<1>4. SUFFICES
        /\ button' \in [status : {"idle", "exporting", "error"}, held : {"yes", "no"}, orphans : 0 .. MaxExports]
        /\ exports' \in 0 .. MaxExports /\ exported' \in 0 .. MaxExports /\ overtook' \in {"yes", "no"}
        /\ overtook' = "no" => exports' <= 1 /\ (exports' = 1 => button'.status = "exporting")
        /\ exports' + button'.orphans + (IF button'.held = "yes" THEN 1 ELSE 0) <= exported'
        /\ page' = "none" => exports' = 0
  BY <1>1, <1>2 DEF Others, OthersOK, Exporting
<1>5. CASE Export
  <2>1. /\ button' = [button EXCEPT !.status = "exporting"] /\ button.status # "exporting" /\ overtook' = overtook
        /\ exports' = exports + 1 /\ exported < MaxExports /\ exported' = exported + 1
        /\ page # "none" /\ page' = page
    BY <1>1, <1>5 DEF Export, ExportParams
  <2>2. /\ button'.status = "exporting" /\ UNCHANGED <<button.held, button.orphans>>
        /\ button' \in [status : {"idle", "exporting", "error"}, held : {"yes", "no"}, orphans : 0 .. MaxExports]
    BY <1>3, <2>1
  <2>3. exports + 1 \in 0 .. MaxExports /\ exported + 1 \in 0 .. MaxExports
        /\ button.orphans \in Nat /\ exports \in Nat
    BY <1>3, <2>1
  <2>4. overtook = "no" => exports = 0
    BY <1>3, <2>1
  <2> DEFINE one == IF button.held = "yes" THEN 1 ELSE 0
  <2>5. one \in {0, 1} /\ exports + button.orphans + one <= exported
        /\ (IF button'.held = "yes" THEN 1 ELSE 0) = one
    BY <1>3, <2>2
  <2> HIDE DEF one
  <2>6. (exports + 1) + button.orphans + one <= exported + 1
    BY <1>3, <2>3, <2>5
  <2>7. QED
    BY <1>3, <2>1, <2>2, <2>3, <2>4, <2>5, <2>6
<1>6. CASE DismissToast
  <2>1. /\ button' = [button EXCEPT !.status = "idle", !.held = "no"] /\ button.status = "error"
        /\ UNCHANGED <<exports, exported, overtook, page>>
    BY <1>6 DEF DismissToast
  <2>2. /\ button'.status = "idle" /\ button'.held = "no" /\ button'.orphans = button.orphans
        /\ button' \in [status : {"idle", "exporting", "error"}, held : {"yes", "no"}, orphans : 0 .. MaxExports]
    BY <1>3, <2>1
  <2>3. exports + button.orphans + 0 <= exported
    BY <1>3
  <2>4. (IF button'.held = "yes" THEN 1 ELSE 0) = 0
    BY <2>2
  <2>5. overtook = "no" => exports <= 1 /\ exports # 1
    BY <1>3, <2>1
  <2>6. exports' + button'.orphans + (IF button'.held = "yes" THEN 1 ELSE 0) <= exported'
    BY <2>1, <2>2, <2>3, <2>4
  <2>7. QED
    BY <1>3, <2>1, <2>2, <2>5, <2>6
<1>7. CASE ToastTimer
  <2>1. /\ \/ button.held = "yes" /\ button' = [button EXCEPT !.status = "idle", !.held = "no"]
           \/ button.orphans > 0 /\ button' = [button EXCEPT !.status = "idle", !.orphans = button.orphans - 1]
        /\ overtook' = IF button.status = "exporting" THEN "yes" ELSE overtook
        /\ UNCHANGED <<exports, exported, page>>
    BY <1>7 DEF ToastTimer
  <2>2. CASE button' = [button EXCEPT !.status = "idle", !.held = "no"]
    <3>1. button \in [status : {"idle", "exporting", "error"}, held : {"yes", "no"}, orphans : 0 .. MaxExports]
      BY <1>3
    <3>2. /\ button'.status = "idle" /\ button'.held = "no" /\ button'.orphans = button.orphans
          /\ button' \in [status : {"idle", "exporting", "error"}, held : {"yes", "no"}, orphans : 0 .. MaxExports]
      BY <2>2, <3>1
    <3>3. exports + button.orphans + 0 <= exported /\ exports \in Nat
      BY <1>3
    <3>4. (IF button'.held = "yes" THEN 1 ELSE 0) = 0
      BY <3>2
    <3>5. UNCHANGED <<exports, exported, page>>
          /\ overtook' = IF button.status = "exporting" THEN "yes" ELSE overtook
      BY <2>1
    <3>6. exports' + button'.orphans + (IF button'.held = "yes" THEN 1 ELSE 0) <= exported'
      BY <3>2, <3>3, <3>4, <3>5
    <3>7. overtook' = "no" => exports <= 1 /\ exports # 1
      BY <1>3, <3>5
    <3>8. QED
      BY <1>3, <3>2, <3>5, <3>6, <3>7
  <2>3. CASE button.orphans > 0 /\ button' = [button EXCEPT !.status = "idle", !.orphans = button.orphans - 1]
    <3>1. button'.orphans = button.orphans - 1 /\ button'.status = "idle" /\ button'.held = button.held
          /\ button'.orphans \in 0 .. MaxExports
      BY <1>3, <2>3
    <3>2. button' \in [status : {"idle", "exporting", "error"}, held : {"yes", "no"}, orphans : 0 .. MaxExports]
      BY <1>3, <2>3, <3>1
    <3>3. QED
      BY <1>3, <2>1, <3>1, <3>2
  <2>4. QED
    BY <2>1, <2>2, <2>3
<1>8. ASSUME NEW outcome \in {"saved", "failed"}, ExportEnds(outcome)
      PROVE  /\ button' \in [status : {"idle", "exporting", "error"}, held : {"yes", "no"}, orphans : 0 .. MaxExports]
             /\ exports' \in 0 .. MaxExports /\ exported' \in 0 .. MaxExports /\ overtook' \in {"yes", "no"}
             /\ overtook' = "no" => exports' <= 1 /\ (exports' = 1 => button'.status = "exporting")
             /\ exports' + button'.orphans + (IF button'.held = "yes" THEN 1 ELSE 0) <= exported'
             /\ page' = "none" => exports' = 0
  <2>1. exports > 0 /\ exports' = exports - 1 /\ UNCHANGED <<overtook, exported, page>>
    BY <1>8 DEF ExportEnds
  <2>2. CASE outcome = "saved"
    <3>1. button' = [button EXCEPT !.status = "idle"]
      BY <1>8, <2>2 DEF ExportEnds
    <3>2. QED
      BY <1>3, <2>1, <3>1
  <2>3. CASE outcome = "failed"
    <3>1. button' = [status |-> "error", held |-> "yes",
                     orphans |-> button.orphans + (IF button.held = "yes" THEN 1 ELSE 0)]
      BY <1>8, <2>3 DEF ExportEnds
    <3>2. button'.orphans \in 0 .. MaxExports
      BY <1>3, <2>1, <3>1
    <3>3. QED
      BY <1>3, <2>1, <3>1, <3>2
  <2>4. QED
    BY <2>2, <2>3
<1>9. QED
  BY <1>5, <1>6, <1>7, <1>8

LEMMA MountIInv ==
  ASSUME IInv, Unmount \/ \E p \in Pages : Mount(p)
  PROVE  IInv' /\ Moves
<1> USE Constants, IdleFacts
<1>1. Local /\ Others /\ query.charts \subseteq Charts
  BY Parts DEF Others, OthersOK
<1>2. /\ page' \in Pages \cup {"none"} /\ form' \in {AutoSelected(Ready, query.charts), Ready}
      /\ Fresh(form') /\ exports' = 0
      /\ UNCHANGED <<query, charts, runs, dropped, ran, exported, changes>>
  BY <1>1 DEF Unmount, Mount, Fresh, Others, Exporting
<1>3. form' \in Forms /\ form'.chart \in {None} \cup query.charts
  BY <1>1, <1>2, AutoSelectedFacts
<1>4. Local'
  BY <1>1, <1>2, <1>3, LocalIdle DEF Fresh
<1>5. OthersOK'
  BY <1>1, <1>2 DEF Others, OthersOK, Fresh, NewButton
<1>6. Exporting'
  BY <1>1, <1>2 DEF Others, OthersOK, Exporting, Fresh, NewButton
<1>7. Offered'
  BY <1>1, <1>2, <1>3 DEF Others, Offered, ChartOffered
<1>8. Moves
  BY <1>2 DEF Fresh, Moves
<1>9. QED
  BY <1>4, <1>5, <1>6, <1>7, <1>8, PartsNext DEF Others

LEMMA ChangeFilterIInv == IInv /\ ChangeFilter => IInv' /\ Moves
<1> SUFFICES ASSUME IInv, ChangeFilter PROVE IInv' /\ Moves
  OBVIOUS
<1>1. Local /\ Others /\ query.charts \subseteq Charts /\ form.chart \in Charts \cup {None}
  BY Parts DEF Others, OthersOK, Local, LocalOK, Forms
<1>2. PICK c \in Selectable, v \in Filters : Edit([chart |-> c, filter |-> v])
  BY DEF ChangeFilter
<1>3. c \in Charts \cup {None} /\ c \in query.charts \cup {None, form.chart}
  BY <1>1, <1>2 DEF Selectable
<1>4. /\ [chart |-> c, filter |-> v] \in Forms /\ form' = [chart |-> c, filter |-> v]
      /\ UNCHANGED <<page, button, query, charts, runs, exports, overtook, dropped, ran, exported, changes>>
  BY <1>2, <1>3 DEF Forms, Edit, ChangeFilter
<1>5. Local' /\ mutation' \in {mutation, Idle}
  BY <1>1, <1>2, <1>4, EditLocal
<1>6. OthersOK' /\ Exporting'
  BY <1>1, <1>4 DEF Others, OthersOK, Exporting
<1>7. Offered'
  BY <1>1, <1>3, <1>4 DEF Others, Offered, ChartOffered
<1>8. QED
  BY <1>5, <1>6, <1>7, PartsNext DEF Others, Moves

LEMMA FetchedIInv ==
  ASSUME NEW outcome \in {"fetched", "failed"}, IInv, ChartsFetched(outcome)
  PROVE  IInv' /\ Moves
<1>1. Local /\ Others /\ charts \subseteq Charts /\ form \in Forms
      /\ query \in [status : {"pending", "success", "error"}, charts : SUBSET Charts]
  BY Parts DEF Others, OthersOK, Local, LocalOK
<1>2. /\ query' = IF outcome = "failed" THEN [query EXCEPT !.status = "error"]
                  ELSE [status |-> "success", charts |-> charts]
      /\ UNCHANGED <<page, button, charts, runs, exports, overtook, dropped, ran, exported, changes>>
  BY DEF ChartsFetched
<1>3. /\ query' \in [status : {"pending", "success", "error"}, charts : SUBSET Charts]
      /\ query'.charts \in {query.charts, charts} /\ query'.charts \in SUBSET Charts
  BY <1>1, <1>2
<1> DEFINE f == AutoSelected(form, query'.charts)
<1>4. f \in Forms /\ f.chart \in {form.chart} \cup query'.charts
  BY <1>1, <1>3, AutoSelectedFacts
<1>5. (f = form /\ UNCHANGED local) \/ Edit(f)
  BY DEF ChartsFetched
<1> HIDE DEF f
<1>6. Local' /\ mutation' \in {mutation, Idle} /\ form' = f
  <2>1. CASE f = form /\ UNCHANGED local
    BY <1>1, <1>2, <2>1, LocalStill DEF local
  <2>2. CASE Edit(f)
    <3>1. Local' /\ mutation' \in {mutation, Idle}
      BY <1>1, <1>2, <1>4, <2>2, EditLocal
    <3>2. QED
      BY <2>2, <3>1 DEF Edit
  <2>3. QED
    BY <1>5, <2>1, <2>2
<1>7. OthersOK' /\ Exporting'
  BY <1>1, <1>2, <1>3 DEF Others, OthersOK, Exporting
<1>8. query.charts \subseteq charts \cup dropped /\ (form.chart # None => form.chart \in query.charts \cup dropped)
  BY <1>1 DEF Others, Offered, ChartOffered
<1>9. Offered'
  <2>1. CASE query'.charts = query.charts
    BY <1>2, <1>4, <1>6, <1>8, <2>1 DEF Offered, ChartOffered
  <2>2. CASE query'.charts = charts
    BY <1>2, <1>4, <1>6, <1>8, <2>2 DEF Offered, ChartOffered
  <2>3. QED
    BY <1>3, <2>1, <2>2
<1>10. QED
  BY <1>6, <1>7, <1>9, PartsNext DEF Others, Moves

LEMMA ChangeIInv ==
  ASSUME NEW C \in SUBSET Charts, IInv, ChartsChange(C)
  PROVE  IInv' /\ Moves
<1> USE Constants
<1>1. Local /\ Others
  BY Parts
<1>2. /\ changes < MaxChanges /\ changes' = changes + 1 /\ charts' = C /\ dropped' = dropped \cup (charts \ C)
      /\ UNCHANGED <<page, local, button, query, runs, exports, overtook, ran, exported>>
  BY DEF ChartsChange
<1>3. Local' /\ UNCHANGED <<form, mutation>>
  BY <1>1, <1>2, LocalStill DEF local
<1>4. OthersOK' /\ Exporting'
  BY <1>1, <1>2 DEF Others, OthersOK, Exporting
<1>5. Offered'
  BY <1>1, <1>2, <1>3 DEF Others, Offered, ChartOffered
<1>6. QED
  BY <1>3, <1>4, <1>5, PartsNext DEF Others, Moves

LEMMA NextIInv == IInv /\ [Next]_vars => IInv' /\ Moves
<1> SUFFICES ASSUME IInv, [Next]_vars PROVE IInv' /\ Moves
  OBVIOUS
<1>1. Local /\ Others
  BY Parts
<1>2. CASE Run
  <2>1. UNCHANGED <<page, form, button, query, charts, exports, overtook, dropped, exported, changes>>
    BY <1>2 DEF Run
  <2>2. QED
    BY <1>1, <1>2, <2>1, RunLocal, OthersStill, PartsNext
<1>3. CASE Retry
  <2>1. UNCHANGED <<page, form, button, query, charts, exports, overtook, dropped, exported, changes>>
    BY <1>3 DEF Retry
  <2>2. QED
    BY <1>1, <1>3, <2>1, RetryLocal, OthersStill, PartsNext
<1>4. ASSUME NEW r \in runs, NEW rows \in {"some", "empty", "none"}, Answer(r, rows)
      PROVE  IInv' /\ Moves
  <2>1. UNCHANGED <<page, form, button, query, charts, exports, overtook, dropped, exported, changes>>
    BY <1>4 DEF Answer
  <2>2. Local' /\ Moves
    BY <1>1, <1>4, AnswerLocal
  <2>3. QED
    BY <1>1, <2>1, <2>2, OthersStill, PartsNext
<1>5. CASE Export \/ DismissToast \/ ToastTimer \/ \E outcome \in {"saved", "failed"} : ExportEnds(outcome)
  <2>1. Others' /\ UNCHANGED <<page, local, runs, ran>>
    BY <1>1, <1>5, ButtonOthers
  <2>2. Local' /\ Moves
    BY <1>1, <2>1, LocalStill DEF local, Moves
  <2>3. QED
    BY <2>1, <2>2, PartsNext
<1>6. CASE UNCHANGED vars
  <2>1. UNCHANGED <<page, local, button, query, charts, runs, exports, overtook, dropped, ran, exported, changes>>
    BY <1>6 DEF vars
  <2>2. Local' /\ Others' /\ Moves
    BY <1>1, <2>1, LocalStill, OthersStill DEF local, Moves
  <2>3. QED
    BY <2>2, PartsNext
<1>7. QED
  BY <1>2, <1>3, <1>4, <1>5, <1>6, ChangeFilterIInv, MountIInv, FetchedIInv, ChangeIInv DEF Next

LEMMA SpecIInv == Spec => []IInv
<1>1. IInv /\ [Next]_vars => IInv'
  BY NextIInv
<1>2. QED
  BY InitIInv, <1>1, PTL DEF Spec

-----------------------------------------------------------------------------
\* Every variable of a page, its button, the charts and the requests has its type.
THEOREM TypeCorrect == Spec => []TypeOK
<1>1. IInv => TypeOK
  BY DEF IInv
<1>2. QED
  BY <1>1, SpecIInv, PTL

\* A result or an error is displayed under the filters it was asked with, with the exceptions
\* of two pages.
THEOREM ResultMatchesFilters == Spec => []ResultOfFilters
<1>1. IInv => ResultOfFilters
  <2> SUFFICES ASSUME IInv PROVE ResultOfFilters
    OBVIOUS
  <2>1. Showing \/ View.phase = "failed" => mutation.status # "idle"
    BY ViewFacts DEF Succeeded
  <2>2. QED
    BY <2>1, ViewFacts DEF IInv, Asked, ResultOfFilters
<1>2. QED
  BY <1>1, SpecIInv, PTL

\* What the labels of a result say of it, though they are taken from the form, is true of it.
THEOREM LabelsTellTheTruth == Spec => []LabelsTrue
<1>1. IInv => LabelsTrue
  <2> SUFFICES ASSUME IInv, Showing PROVE View.label = View.of
    BY DEF LabelsTrue
  <2>1. Succeeded /\ View.of = mutation.params
    BY ViewFacts
  <2>2. CASE page \in {"rent-roll", "ar-aging", "ap-aging"}
    <3>1. mutation.params = form /\ form \in Forms
      BY <2>1, <2>2 DEF IInv, TypeOK, Asked, Succeeded
    <3>2. [form EXCEPT !.filter = form.filter] = form
      BY <3>1 DEF Forms
    <3>3. QED
      BY <2>1, <2>2, <3>1, <3>2, ViewFacts
  <2>3. CASE page \notin {"rent-roll", "ar-aging", "ap-aging"}
    BY <2>1, <2>3, ViewFacts
  <2>4. QED
    BY <2>2, <2>3
<1>2. QED
  BY <1>1, SpecIInv, PTL

\* An export fetches the report that is displayed, though its parameters come from elsewhere.
THEOREM ExportIsShown == Spec => []ExportsShown
<1>1. IInv => ExportsShown
  <2> SUFFICES ASSUME IInv, View.export, ExportParams # NoParams PROVE ExportParams = mutation.params
    BY ViewFacts DEF ExportsShown
  <2>1. Succeeded
    BY ViewFacts
  <2>2. page \in {"rent-roll", "trial-balance", "profit-and-loss", "ar-aging", "ap-aging", "none"}
    BY Constants DEF IInv, TypeOK
  <2>3. KeepsSubmitted => sent = mutation.params
    BY <2>1 DEF IInv, Kept, Succeeded
  <2>4. QED
    BY <2>2, <2>3 DEF ExportParams, KeepsSubmitted
<1>2. QED
  BY <1>1, SpecIInv, PTL

\* The click on an export that is offered exports, but for a trial balance whose filters have
\* dropped the result it still displays.
THEOREM OfferedExportWorks == Spec => []ExportWorks
<1>1. IInv => ExportWorks
  <2> SUFFICES ASSUME IInv, View.export, ~(page = "trial-balance" /\ edited = "after")
               PROVE  ExportParams # NoParams
    BY DEF ExportWorks
  <2>1. Succeeded /\ mutation.params \in Params /\ page # "none"
    BY ViewFacts, IdleFacts DEF IInv, Followed, Succeeded
  <2>2. page \in {"rent-roll", "trial-balance", "profit-and-loss", "ar-aging", "ap-aging"}
    BY <2>1, Constants DEF IInv, TypeOK
  <2>3. (KeepsSubmitted => sent = mutation.params) /\ (page = "trial-balance" => kept # NoParams)
    BY <2>1 DEF IInv, Kept, Succeeded
  <2>4. ExportParams = mutation.params
    BY <2>2, <2>3 DEF ExportParams, KeepsSubmitted
  <2>5. QED
    BY <2>1, <2>4, Constants
<1>2. QED
  BY <1>1, SpecIInv, PTL

\* No two exports of a page are under way, unless the timer of a toast has ended the first.
THEOREM OneAtATime == Spec => []OneExport
<1>1. IInv => OneExport
  BY DEF IInv, TypeOK, Exporting, OneExport
<1>2. QED
  BY <1>1, SpecIInv, PTL

\* The export offered on any page, with however many filters, charts, runs and exports, is that of
\* the report on the screen, but for a trial balance that was forgotten; and no two exports of a
\* page are under way, unless the timer of a toast has ended the first.
THEOREM ExportIsTrue == Spec => []ExportTrue
<1>1. ExportsShown /\ ExportWorks /\ OneExport => ExportTrue
  BY DEF ExportTrue
<1>2. QED
  BY <1>1, ExportIsShown, OfferedExportWorks, OneAtATime, PTL

\* The chart a report will be run for is offered, or has been dropped since it was picked.
THEOREM ChartIsOffered == Spec => []ChartOffered
<1>1. IInv => ChartOffered
  BY DEF IInv, Offered
<1>2. QED
  BY <1>1, SpecIInv, PTL

\* The pages implement RunOnDemand, but for its fairness: the answer displayed, and the error,
\* are those of the last question asked.
THEOREM Implements == Spec => OnDemand!Init /\ [][OnDemand!Next]_<<Phase, View.of>>
<1>1. Init => OnDemand!Init
  <2> SUFFICES ASSUME Init PROVE Phase = "idle" /\ View.of = NoParams
    BY DEF OnDemand!Init
  <2>1. mutation = Idle
    BY DEF Init
  <2>2. QED
    BY <2>1, InitIInv, ViewFacts, IdleFacts DEF PhaseOf
<1>2. IInv /\ IInv' /\ [Next]_vars => [OnDemand!Next]_<<Phase, View.of>>
  <2> SUFFICES ASSUME IInv, IInv', [Next]_vars PROVE [OnDemand!Next]_<<Phase, View.of>>
    OBVIOUS
  <2>1. /\ Phase = PhaseOf(mutation.status) /\ View.of = mutation.params
        /\ Phase' = PhaseOf(mutation.status') /\ View.of' = mutation.params'
    BY ViewFacts, ViewFactsNext
  <2>2. /\ mutation.status \in {"idle", "pending", "success", "error"}
        /\ mutation'.status # "idle" => mutation'.params \in Params
        /\ mutation.status = "idle" => mutation = Idle
    BY DEF IInv, TypeOK, Followed
  <2>3. Moves
    BY NextIInv
  <2>4. CASE mutation' = mutation
    BY <2>1, <2>4
  <2>5. CASE mutation' = Idle /\ mutation # Idle
    <3>1. Phase # "idle" /\ Phase' = "idle" /\ View.of' = NoParams
      BY <2>1, <2>2, <2>5, IdleFacts DEF PhaseOf
    <3>2. QED
      BY <3>1 DEF OnDemand!Next, OnDemand!Forget
  <2>6. CASE ~Pending /\ mutation'.status = "pending"
    <3>1. Phase # "loading" /\ Phase' = "loading" /\ View.of' \in Params
      BY <2>1, <2>2, <2>6 DEF PhaseOf, Pending
    <3>2. QED
      BY <3>1 DEF OnDemand!Next, OnDemand!Ask
  <2>7. CASE Pending /\ mutation'.status \in {"success", "error"} /\ mutation'.params = mutation.params
    <3>1. Phase = "loading" /\ Phase' \in {"shown", "failed"} /\ View.of' = View.of
      BY <2>1, <2>7 DEF PhaseOf, Pending
    <3>2. QED
      BY <3>1 DEF OnDemand!Next, OnDemand!Answer
  <2>8. QED
    BY <2>3, <2>4, <2>5, <2>6, <2>7 DEF Moves
<1>3. QED
  BY <1>1, <1>2, SpecIInv, PTL DEF Spec
=============================================================================
