---------------------------- MODULE ReportPages ----------------------------
(***************************************************************************)
(* The five reports of the web application that are run on demand          *)
(* (pages/RentRollPage, TrialBalancePage, ProfitAndLossByPropertyPage,     *)
(* ArAgingPage, ApAgingPage) with the filter bar, chart selector and       *)
(* export button they share and the requests of api/reports.ts.            *)
(*                                                                         *)
(* The pages do the same job in three ways.  Rent roll and the aging pages *)
(* reset the mutation whenever a filter changes; profit and loss only once *)
(* it has settled; trial balance keeps flags of its own and never resets   *)
(* it.  A mutation that is reset, or replaced by the next one, goes on,    *)
(* and nobody is told what becomes of it.                                  *)
(***************************************************************************)
EXTENDS Naturals, FiniteSets

CONSTANTS
    Pages,      \* the report pages; their names are those of the routes
    Charts,     \* the charts of accounts there may be
    Filters,    \* the values of all other filters of a page
    Blank,      \* that of them in which a trial balance has no date and no period
    None,       \* no chart, no parameters
    MaxRuns,    \* bound on the reports run
    MaxExports, \* bound on the exports requested
    MaxChanges  \* bound on the changes of the tenant's charts

ASSUME PagesAssumption ==
    Pages \subseteq {"rent-roll", "trial-balance", "profit-and-loss", "ar-aging", "ap-aging"}
ASSUME ValuesAssumption == Blank \in Filters /\ Filters # {Blank} /\ None \notin Charts
ASSUME BoundsAssumption == MaxRuns \in Nat /\ MaxExports \in Nat /\ MaxChanges \in Nat

Forms == [chart : Charts \cup {None}, filter : Filters]
Params == [chart : Charts, filter : Filters]
NoParams == [chart |-> None, filter |-> Blank]

VARIABLES
    page,     \* the page that is mounted, or "none"
    \* its state
    form,     \* the filters as they are displayed
    mutation, \* what the page's mutation observer reports
    sent,     \* submittedParams, lastSubmittedParams, or NoParams
    kept,     \* trial balance: parameters of its submittedResult, or NoParams
    flag,     \* trial balance: "result" (hasResult), "error" (hasError) or "none"
    button,   \* ExportCsvButton: its status, and the timers of its toast
    \* the query ['reports', 'charts'], which outlives the pages
    query,    \* [status, charts]
    \* the server and the requests under way
    charts,   \* the tenant's charts
    runs,
    exports,  \* how many exports of the page that is mounted are under way
    \* history and bounds
    edited,   \* the last change of a filter since the form was submitted: "no",
              \* "running" (before its answer) or "after"
    overtook, \* "yes" once a timer has ended a toast that was gone
    dropped,  \* the charts the tenant had and has dropped
    ran, exported, changes

local == <<form, mutation, sent, kept, flag, edited>>
vars == <<page, local, button, query, charts, runs, exports, overtook, dropped,
          ran, exported, changes>>

Idle == [id |-> 0, status |-> "idle", params |-> NoParams, of |-> NoParams, rows |-> "none"]
NewButton == [status |-> "idle", held |-> "no", orphans |-> 0]
Ready == [chart |-> None, filter |-> CHOOSE f \in Filters : f # Blank]

TypeOK ==
    /\ page \in Pages \cup {"none"}
    /\ form \in Forms
    /\ mutation \in [id : 0 .. MaxRuns, status : {"idle", "pending", "success", "error"},
                     params : Params \cup {NoParams}, of : Params \cup {NoParams},
                     rows : {"none", "some", "empty"}]
    /\ mutation.id = 0 <=> mutation.status = "idle"
    /\ sent \in Params \cup {NoParams} /\ kept \in Params \cup {NoParams}
    /\ flag \in {"none", "result", "error"}
    /\ kept # NoParams => page = "trial-balance" /\ flag = "result"
    /\ button \in [status : {"idle", "exporting", "error"}, held : {"yes", "no"},
                   orphans : 0 .. MaxExports]
    /\ query \in [status : {"pending", "success", "error"}, charts : SUBSET Charts]
    /\ charts \subseteq Charts
    /\ runs \subseteq [id : 1 .. MaxRuns, params : Params]
    /\ exports \in 0 .. MaxExports
    /\ edited \in {"no", "running", "after"}
    /\ overtook \in {"yes", "no"} /\ dropped \subseteq Charts
    /\ ran \in 0 .. MaxRuns /\ exported \in 0 .. MaxExports /\ changes \in 0 .. MaxChanges

-----------------------------------------------------------------------------
(***************************************************************************)
(* What a page displays: its phase, the parameters of the result it shows, *)
(* what its labels say of that result though they are taken from the form, *)
(* and whether it offers the export.                                       *)
(***************************************************************************)
Pending == mutation.status = "pending"
Succeeded == mutation.status = "success"

\* Nothing but the filters: "ready" once the report can be run.
Waiting(able) ==
    [phase |-> IF able THEN "ready" ELSE "idle", of |-> NoParams, label |-> NoParams, export |-> FALSE]
Loading == [phase |-> "loading", of |-> mutation.params, label |-> mutation.params, export |-> FALSE]
Failed == [phase |-> "failed", of |-> mutation.params, label |-> mutation.params, export |-> FALSE]

\* The property blocks name the window of the form: "Expiring within N days".
RentRollTable(of) == [of EXCEPT !.filter = form.filter]

RentRollView ==
    CASE Pending -> Loading
      [] mutation.status = "error" -> Failed
      [] Succeeded -> [phase |-> IF mutation.rows = "empty" THEN "empty" ELSE "shown",
                       of |-> mutation.of, label |-> RentRollTable(mutation.of), export |-> TRUE]
      [] OTHER -> Waiting(form.chart # None)

\* Everything in the table and its badge comes with the result.
TrialBalanceTable(of) == of
TrialBalanceCanRun == form.chart # None /\ form.filter # Blank
TrialBalanceResult == IF kept # NoParams THEN kept ELSE IF Succeeded THEN mutation.of ELSE NoParams

TrialBalanceView ==
    CASE Pending -> Loading
      [] ~Pending /\ TrialBalanceResult # NoParams ->
            [phase |-> IF mutation.rows = "empty" THEN "empty" ELSE "shown",
             of |-> TrialBalanceResult, label |-> TrialBalanceTable(TrialBalanceResult),
             export |-> mutation.rows # "empty"]
      [] ~Pending /\ TrialBalanceResult = NoParams ->
            IF flag = "error" \/ mutation.status = "error" THEN Failed ELSE Waiting(TrialBalanceCanRun)

\* Tiles and accordion print the period and the figures of the result.
ProfitLossTable(of) == of

ProfitLossView ==
    CASE Pending -> Loading
      [] mutation.status = "error" -> Failed
      [] Succeeded -> [phase |-> IF mutation.rows = "empty" THEN "empty" ELSE "shown",
                       of |-> mutation.of, label |-> ProfitLossTable(mutation.of),
                       export |-> mutation.rows # "empty"]
      [] OTHER -> Waiting(form.chart # None)

\* The tables are those of the result; the list of the worst debtors is headed by the N of the
\* form, and hidden when it is 0.
ArAgingTable(of) == [of EXCEPT !.filter = form.filter]

ArAgingView ==
    CASE Pending -> Loading
      [] mutation.status = "error" -> Failed
      [] Succeeded -> [phase |-> IF mutation.rows = "empty" THEN "empty" ELSE "shown",
                       of |-> mutation.of, label |-> ArAgingTable(mutation.of), export |-> TRUE]
      [] OTHER -> Waiting(form.chart # None)

ApAgingTable(of) == [of EXCEPT !.filter = form.filter]

ApAgingView ==
    CASE Pending -> Loading
      [] mutation.status = "error" -> Failed
      [] Succeeded -> [phase |-> IF mutation.rows = "empty" THEN "empty" ELSE "shown",
                       of |-> mutation.of, label |-> ApAgingTable(mutation.of), export |-> TRUE]
      [] OTHER -> Waiting(form.chart # None)

View ==
    CASE page = "rent-roll" -> RentRollView
      [] page = "trial-balance" -> TrialBalanceView
      [] page = "profit-and-loss" -> ProfitLossView
      [] page = "ar-aging" -> ArAgingView
      [] page = "ap-aging" -> ApAgingView
      [] page = "none" -> Waiting(FALSE)

Showing == View.phase \in {"shown", "empty"}

-----------------------------------------------------------------------------
(***************************************************************************)
(* Changing a filter: the change handler of each page.                     *)
(***************************************************************************)
\* A wrong handler of the rent roll, that forgets to reset the mutation.
EditRentRollSent ==
    /\ page = "rent-roll"
    /\ sent' = NoParams
    /\ UNCHANGED <<mutation, kept, flag>>

EditRentRoll ==
    /\ page = "rent-roll"
    /\ mutation' = Idle /\ sent' = NoParams
    /\ UNCHANGED <<kept, flag>>

EditTrialBalance ==
    /\ page = "trial-balance"
    /\ kept' = NoParams /\ flag' = "none"
    /\ UNCHANGED <<mutation, sent>>

EditProfitLoss ==
    /\ page = "profit-and-loss"
    /\ IF mutation.status \in {"success", "error"}
       THEN mutation' = Idle /\ sent' = NoParams
       ELSE UNCHANGED <<mutation, sent>>
    /\ UNCHANGED <<kept, flag>>

\* A wrong handler of the AR aging, that resets nothing.
EditArAgingNothing ==
    /\ page = "ar-aging"
    /\ UNCHANGED <<mutation, sent, kept, flag>>

EditArAging ==
    /\ page = "ar-aging"
    /\ mutation' = Idle
    /\ UNCHANGED <<sent, kept, flag>>

EditApAging ==
    /\ page = "ap-aging"
    /\ mutation' = Idle
    /\ UNCHANGED <<sent, kept, flag>>

Edit(f) ==
    /\ form' = f
    /\ edited' = IF Pending THEN "running" ELSE "after"
    /\ \/ EditRentRoll \/ EditTrialBalance \/ EditProfitLoss \/ EditArAging \/ EditApAging

\* A chart can be picked only where the selector offers several.
Selectable == IF query.status = "success" /\ Cardinality(query.charts) > 1
              THEN query.charts \cup {None} ELSE {form.chart}

ChangeFilter ==
    /\ page # "none"
    /\ \E c \in Selectable, v \in Filters :
           /\ [chart |-> c, filter |-> v] # form
           /\ Edit([chart |-> c, filter |-> v])
    /\ UNCHANGED <<page, button, query, charts, runs, exports, overtook, dropped,
                   ran, exported, changes>>

\* The effect of the chart selector: the only chart there is becomes the form's.
AutoSelected(f, offered) ==
    IF f.chart = None /\ Cardinality(offered) = 1
    THEN [f EXCEPT !.chart = CHOOSE c \in offered : TRUE] ELSE f

-----------------------------------------------------------------------------
(***************************************************************************)
(* Running a report.                                                       *)
(***************************************************************************)
CanRun == IF page = "trial-balance" THEN TrialBalanceCanRun ELSE form.chart # None

\* mutation.mutate(p): a new mutation, which the observer follows from now on.
Mutate(p) ==
    /\ ran < MaxRuns
    /\ ran' = ran + 1
    /\ mutation' = [id |-> ran + 1, status |-> "pending", params |-> p, of |-> NoParams, rows |-> "none"]
    /\ runs' = runs \cup {[id |-> ran + 1, params |-> p]}

KeepsSubmitted == page \in {"rent-roll", "trial-balance", "profit-and-loss"}

Run ==
    /\ page # "none"
    /\ CanRun /\ ~Pending
    /\ Mutate(form)
    /\ sent' = IF KeepsSubmitted THEN form ELSE sent
    /\ edited' = "no"
    /\ UNCHANGED <<page, form, kept, flag, button, query, charts, exports, overtook,
                   dropped, exported, changes>>

\* "Try again": the parameters that failed; on the trial balance those of the form.
RetryTrialBalance ==
    /\ flag' = "none"
    /\ IF TrialBalanceCanRun
       THEN Mutate(form) /\ sent' = form /\ edited' = "no"
       ELSE UNCHANGED <<mutation, runs, ran, sent, edited>>

Retry ==
    /\ View.phase = "failed"
    /\ IF page = "trial-balance" THEN RetryTrialBalance
       ELSE Mutate(IF KeepsSubmitted THEN sent ELSE mutation.params) /\ UNCHANGED <<sent, flag, edited>>
    /\ UNCHANGED <<page, form, kept, button, query, charts, exports, overtook, dropped,
                   exported, changes>>

\* A wrong answer, that is taken for that of the last run whatever run it is of.
AnswerAny(r, rows) ==
    /\ r \in runs
    /\ runs' = runs \ {r}
    /\ mutation' = IF rows = "none" THEN [mutation EXCEPT !.status = "error"]
                   ELSE [mutation EXCEPT !.status = "success", !.of = r.params, !.rows = rows]
    /\ UNCHANGED <<page, form, sent, kept, flag, edited, button, query, charts, exports,
                   overtook, dropped, ran, exported, changes>>

\* The answer to run r, which the page hears of if its observer still follows it.
Answer(r, rows) ==
    /\ r \in runs
    /\ runs' = runs \ {r}
    /\ IF r.id = mutation.id
       THEN /\ mutation' = IF rows = "none" THEN [mutation EXCEPT !.status = "error"]
                           ELSE [mutation EXCEPT !.status = "success", !.of = r.params, !.rows = rows]
            /\ IF page = "trial-balance"
               THEN /\ kept' = IF rows = "none" THEN NoParams ELSE r.params
                    /\ flag' = IF rows = "none" THEN "error" ELSE "result"
               ELSE UNCHANGED <<kept, flag>>
       ELSE UNCHANGED <<mutation, kept, flag>>
    /\ UNCHANGED <<page, form, sent, edited, button, query, charts, exports, overtook,
                   dropped, ran, exported, changes>>

-----------------------------------------------------------------------------
(***************************************************************************)
(* Exporting what is shown, and the toast of an export that failed: it     *)
(* goes after three seconds.  The timer is not cleared when the next       *)
(* export starts, and the button forgets it when another one fails.        *)
(***************************************************************************)
\* A wrong export, that takes the parameters from the form.
ExportForm == IF form.chart # None THEN form ELSE NoParams

ExportParams ==
    CASE page \in {"rent-roll", "profit-and-loss"} -> sent
      [] page = "trial-balance" -> IF kept # NoParams THEN sent ELSE NoParams
      [] page \in {"ar-aging", "ap-aging"} -> mutation.params
      [] page = "none" -> NoParams

\* A wrong button, that can be clicked again while it exports.
ExportAgain ==
    /\ View.export /\ ExportParams # NoParams /\ exported < MaxExports
    /\ exported' = exported + 1 /\ exports' = exports + 1
    /\ button' = [button EXCEPT !.status = "exporting"]
    /\ UNCHANGED <<page, local, query, charts, runs, overtook, dropped, ran, changes>>

Export ==
    /\ View.export /\ button.status # "exporting"
    /\ ExportParams # NoParams           \* else the click does nothing
    /\ exported < MaxExports
    /\ exported' = exported + 1
    /\ exports' = exports + 1
    /\ button' = [button EXCEPT !.status = "exporting"]
    /\ UNCHANGED <<page, local, query, charts, runs, overtook, dropped, ran, changes>>

ExportEnds(outcome) ==
    /\ exports > 0
    /\ exports' = exports - 1
    /\ button' = IF outcome = "saved" THEN [button EXCEPT !.status = "idle"]
                 ELSE [status |-> "error", held |-> "yes",
                       orphans |-> button.orphans + (IF button.held = "yes" THEN 1 ELSE 0)]
    /\ UNCHANGED <<page, local, query, charts, runs, overtook, dropped, ran, exported, changes>>

DismissToast ==
    /\ button.status = "error"
    /\ button' = [button EXCEPT !.status = "idle", !.held = "no"]
    /\ UNCHANGED <<page, local, query, charts, runs, exports, overtook, dropped, ran,
                   exported, changes>>

ToastTimer ==
    /\ \/ button.held = "yes" /\ button' = [button EXCEPT !.status = "idle", !.held = "no"]
       \/ button.orphans > 0 /\ button' = [button EXCEPT !.status = "idle", !.orphans = @ - 1]
    /\ overtook' = IF button.status = "exporting" THEN "yes" ELSE overtook
    /\ UNCHANGED <<page, local, query, charts, runs, exports, dropped, ran, exported, changes>>

-----------------------------------------------------------------------------
(***************************************************************************)
(* Coming to a page and leaving it, and the query for the charts: a page   *)
(* that is mounted, or the window that gets the focus, fetches it anew     *)
(* once it is stale.  A refetch that fails keeps the charts it had.        *)
(***************************************************************************)
Fresh(f) ==
    /\ form' = f /\ mutation' = Idle /\ sent' = NoParams /\ kept' = NoParams
    /\ flag' = "none" /\ edited' = "no"
    /\ button' = NewButton /\ overtook' = "no"

Mount(p) ==
    /\ page = "none"
    /\ page' = p
    /\ Fresh(AutoSelected(Ready, query.charts))
    /\ UNCHANGED <<query, charts, runs, exports, dropped, ran, exported, changes>>

Unmount ==
    /\ page # "none"
    /\ page' = "none"
    /\ Fresh(Ready)
    /\ exports' = 0
    /\ UNCHANGED <<query, charts, runs, dropped, ran, exported, changes>>

ChartsFetched(outcome) ==
    /\ page # "none"
    /\ query' = IF outcome = "failed" THEN [query EXCEPT !.status = "error"]
                ELSE [status |-> "success", charts |-> charts]
    /\ IF AutoSelected(form, query'.charts) = form
       THEN UNCHANGED local
       ELSE Edit(AutoSelected(form, query'.charts))
    /\ UNCHANGED <<page, button, charts, runs, exports, overtook, dropped, ran, exported, changes>>

ChartsChange(C) ==
    /\ changes < MaxChanges
    /\ changes' = changes + 1
    /\ C # charts /\ charts' = C
    /\ dropped' = dropped \cup (charts \ C)
    /\ UNCHANGED <<page, local, button, query, runs, exports, overtook, ran, exported>>

Init ==
    /\ page = "none"
    /\ form = Ready /\ mutation = Idle /\ sent = NoParams /\ kept = NoParams
    /\ flag = "none" /\ edited = "no" /\ button = NewButton
    /\ query = [status |-> "pending", charts |-> {}]
    /\ charts \in SUBSET Charts
    /\ runs = {} /\ exports = 0 /\ overtook = "no" /\ dropped = {}
    /\ ran = 0 /\ exported = 0 /\ changes = 0

Next ==
    \/ ChangeFilter
    \/ Run \/ Retry
    \/ \E r \in runs, rows \in {"some", "empty", "none"} : Answer(r, rows)
    \/ Export \/ DismissToast \/ ToastTimer
    \/ \E outcome \in {"saved", "failed"} : ExportEnds(outcome)
    \/ \E p \in Pages : Mount(p)
    \/ Unmount
    \/ \E outcome \in {"fetched", "failed"} : ChartsFetched(outcome)
    \/ \E C \in SUBSET Charts : ChartsChange(C)

\* A request is answered or fails; nothing is assumed of the user.
Answered(i) == \E r \in runs, rows \in {"some", "empty", "none"} : r.id = i /\ Answer(r, rows)

Spec == Init /\ [][Next]_vars /\ \A i \in 1 .. MaxRuns : WF_vars(Answered(i))
-----------------------------------------------------------------------------
(***************************************************************************)
(* What should hold.                                                       *)
(***************************************************************************)
\* The page that is mounted answers the last question it was asked, with the answer
\* to that question: the answer to a run that was reset, replaced or left behind
\* does not come up later, and a run does not stay "loading" (RunOnDemand).
Phase == CASE View.phase \in {"idle", "ready"} -> "idle"
           [] Showing -> "shown"
           [] OTHER -> View.phase
OnDemand == INSTANCE RunOnDemand
    WITH Questions <- Params, Nothing <- NoParams, phase <- Phase, asked <- View.of
RunsOnDemand == OnDemand!Spec

\* A result, or an error, is displayed under the filters it was asked with.  The two
\* exceptions are what the code does: profit and loss does not reset a report that is
\* still running, and trial balance never resets it.
ResultOfFilters ==
    (Showing \/ View.phase = "failed") =>
        \/ View.of = form
        \/ page = "profit-and-loss" /\ edited = "running"
        \/ page = "trial-balance" /\ edited # "no"

\* What the labels say of a result (its window, its N) is true of the result.
LabelsTrue == Showing => View.label = View.of

\* An export fetches the very report that is on the screen when it is requested, though
\* the page takes its parameters from elsewhere.
ExportsShown == View.export /\ ExportParams # NoParams => ExportParams = View.of

\* Where the page offers the export, the click exports: except for a trial balance
\* whose filters have dropped, which is still displayed though the page has
\* forgotten it.
ExportWorks ==
    View.export =>
        \/ ExportParams # NoParams
        \/ page = "trial-balance" /\ edited = "after"

\* One export at a time, unless the timer of a toast has ended the "Exporting…" of
\* the export that came after it.
OneExport == exports > 1 => overtook = "yes"

\* The export offered is that of the report on the screen, and is not offered a second time.
ExportTrue == ExportsShown /\ ExportWorks /\ OneExport

\* The chart a report will be run for is one of those offered, unless the tenant
\* has dropped it since it was picked.
ChartOffered == form.chart # None => form.chart \in query.charts \cup dropped

\* "Filter changes after a result reset back to IDLE" (TrialBalancePage.tsx:11).
FilterChangeResets == page = "trial-balance" /\ edited = "after" => ~Showing

=============================================================================
