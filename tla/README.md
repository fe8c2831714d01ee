# Sunfish: TLA+ models, checks and proofs

TLA+ specifications of the parts of Sunfish whose correctness depends on the order of events: what survives a crash,
what happens across an `await`, which of two answers comes first, what stays on the screen or in a cache after the world
has changed. TLC checks each on a small instance; TLAPS proves every safety property of the runs for every value
of the constants.

The repository holds three programs:

- **Anchor**, a .NET MAUI shell (`src/src/`), over the kernel and foundation packages of another repository;
- the **desktop** shell (`src/apps/desktop/`), Tauri: Rust with a SQLite file, and a React web view;
- the **web** application (`src/apps/web/`), React over the Bridge's HTTP API and its SignalR hub.

Paths below start at the directory that holds `src/`. The kernel and foundation packages, the Bridge, the operating
system and the browser are not in the repository; where a model needs them they are modelled from how the code uses
them, and their definitions are marked external in `PROJECT.json`.

- [Inventory](#inventory)
- [The modules](#the-modules)
- [What the runs check](#what-the-runs-check)
- [Bounds](#bounds)
- [Fairness](#fairness)
- [What is proved](#what-is-proved)
- [Disagreements between code and documentation](#disagreements-between-code-and-documentation)
- [What is only model-checked, and what is not modelled](#what-is-only-model-checked-and-what-is-not-modelled)
- [Plan](#plan)

## Inventory

A component is *modelled* when every operation of it that changes state is an action of a module; those are in bold, with
their module.

### Anchor (MAUI)

| Component | State | Operations | Talks to | What makes it hard | Correct means |
|---|---|---|---|---|---|
| **v1-to-v2 data migration** (`AnchorV1MigrationService`, `AnchorBootstrapHostedService`) - `V1Migration` | the data directory: originals, `legacy-backup/`, `teams/<id>/`, `.migration-v2` | `MigrateIfNeeded`: detect, copy to backup, copy to team root, write marker, delete originals; then `StartAsync` of the bootstrap | the hosted-service pump; the team factory | a crash or an I/O error between or within copies; the next launch decides by what exists | no v1 item without a complete copy; the marker never early; the migration completes |
| **Social recovery host** (three pages, `TrusteeSetupService`, `RecoveryAttestationSubmitter`, `RecoveryGracePollingService`, `AnchorRecoveryCompletionHandler`) - `RecoveryHost` | one ephemeral key slot, the root seed, the key of each team's store; the coordinator's request in memory | initiate, designate, distribute, attest, poll, complete (read key, decide, restore, rotate, remove key) | coordinator, keystore, encrypted store, team factory | a click while a request is pending; rogue trustees; an exception or the end of the process between restore and rotate | a minority never chooses the seed; the store never ahead of the keystore; the key single-use |
| **Field-capture pairing tokens** (`HmacPairingService`) - `PairingTokens` | records by tenant and token, revocations | issue, consume, revoke | the tenant key provider | consume checks before an `await` and writes after it | single use; bound to one tenant and device; a spent token refused |
| Hosted-service lifetime (`MauiHostedServiceLifetime`, `App`, `AnchorSyncHostedService`) | the started services, a cancellation source per window | `StartAllAsync`, `StopAllAsync`, window created and destroyed | every hosted service | the window goes while services are still being started; one service of several fails | what was started is stopped, in reverse, once |
| Additional-team join and onboarding (`QrOnboardingService`, `AnchorSessionService`) | the pending invitation, the materialized team, the session | create invitation, accept bundle, import founder bundle | team factory, store activator | the team is materialized before anybody answers | one issuer per join; no half-joined team |
| Crew comms listener (`CrewCommsListenerHostedService`, `CrewCommsInvitationBus`, `TeamMembershipCrewRoster`) | the listening task, the observers | start, stop, listen, publish, subscribe | transport, active team | the active team changes while an `await` is under way | an invitation reaches the observers of its team, once |
| System-requirements regression observer | the last baseline | evaluate a change | evaluator | specification read before the `await`, baseline after it | a regression reported once |
| Backup and CRDT delta bridge | a snapshot file; a version vector | export, import, produce and apply a delta | CRDT engine, gossip daemon | import while deltas arrive | nothing older replaces anything newer |
| Identity atlas and integration surfaces | none of their own | - | other packages | - | - |
| Composition root (`MauiProgram`) | the registration order, the bindings | - | everything | the order the pump relies on; the in-memory recovery store | in `V1Migration` and `RecoveryHost` |
| Other pages | fields of a page | - | services of other packages | - | - |

### Desktop (Tauri)

| Component | State | Operations | Talks to | What makes it hard | Correct means |
|---|---|---|---|---|---|
| **Write queue** (`commands/write_queue.rs`, `sync/push.rs`, `lib.rs`) - `WriteQueue` | rows with `created_at`, `synced_at`, `error`; the shared token | `enqueue_write`, `drain_write_queue` once per start, `set_bridge_token`, `clear_bridge_token` | the Bridge, the web view | the drain races the hand-over of the token; the process ends between request and update; a lost response | applied if synced, at most once, in order; nothing stuck |
| Pull sync and cache (`sync/pull.rs`, `commands/cache.rs`, query hooks) | cached rows, `last_pull`, the hooks' sync state | pull at start, read the cache, fall back to it | the Bridge | the pull reads a token that may not be set yet; it expects a JSON array where the web view's requests read an object | the cache mirrors one state of the Bridge |
| **Bridge token and credential store** (`commands/auth.rs`, `credentialStore.ts`, `app.tsx`, `ConnectBridgePage.tsx`) - `BridgeAuth` | the token in the Stronghold snapshot, in the vault in memory, in the process and in the web view | restore at start, connect, disconnect: each a chain of asynchronous calls | Stronghold, the Bridge, the write queue | the chains may run over one another; a save may fail; the process may end anywhere | the places agree once nothing is under way; what the user did last stands |
| **Stronghold master key** (`lib.rs`) - `BridgeAuth` | the secret in the OS keychain, the key derived from it | derive at start | keychain, the vault | any error is taken for a first launch | the key is never replaced while a snapshot needs it; nothing is encrypted with the sentinel |
| Maintenance notes (`useMaintenanceNoteOffline.ts`, `loro.ts`) | the document, the queue | add a note; the hook that queues it is used by no page | the write queue | inserted before it is queued | once in the document, once in the queue |
| Pages and report templates | fields of a page | - | Bridge | - | - |

### Web

| Component | State | Operations | Talks to | What makes it hard | Correct means |
|---|---|---|---|---|---|
| **Offline rent payments** (`offlineQueue.ts`, `RentCollectionPage.tsx`, `recordPayment`) - `PaymentQueue` | the queue in `localStorage`; each tab's form, mutation and notice | submit, enqueue, drain on `online`, try again | the Bridge, the browser, the other tabs | tabs share the queue without a lock; a lost response invites a second attempt | a payment promised is recorded, and once |
| **Hub connection and crew chat** (`useHubConnection.ts`, `CrewCommsPage.tsx`, both shells) - `HubComms` | connection state as set and as rendered, joined threads, draft, messages | connect, lose, reconnect, give up, join, leave, send | the hub | a connection that is back has joined nothing; the key sends where the button would not | the thread shown is the thread joined; no draft lost |
| **Session** (`app.tsx`, `useAuth.ts`, `authStore`, `companyStore`) - `WebSession` | user, companies, tenant, antiforgery token, query cache | whoami of the frame and of a sign-in, log in, log out, switch company | the Bridge, the cookie, other tabs | answers in any order; a whoami that fails signs somebody in | the stores speak of the session there is; one user's data is never another's |
| Audit trail (`AuditEventsPage`, `AuditEventDetailPage`) - partly, in `WebSession` | the loaded pages, the event shown | load, load more, reset, open an event | the Bridge, the session | the cache outlives the session | one tenant's events at a time, and of the one signed in |
| **Onboarding** (`onboarding.ts`, `SignupPage`, `VerifyEmailPage` and the pages around them) - `Onboarding` | form, captcha token, the pages' mutation | sign up, verify, resend, in one tab | the Bridge, the mails | an input edited while a request is under way; a page left; a lost answer | what the pages say of an e-mail or a name is true; no page waits for ever |
| **Projects cockpit** (`useProjects.ts`, `cockpit/projects/`) - `Projects` | cached queries, the open forms, the mutations observed | list, create, transition, budget line, milestone, time entry: open, stop, submit, approve, reject | the Bridge, other users | which queries a mutation invalidates, and which fetches outlive that | nothing older than the user's own change passes for fresh; no input lost or doubled unasked |
| **Reports and export** (`useReports.ts`, five report pages, `ExportCsvButton.tsx`) - `ReportPages` | edited and submitted parameters, the mutation, the export button | change a filter, run, run again, retry, export | the Bridge | five pages, three ways to reset; timers left by an earlier export | the result is of the filters shown, the export of the result shown |
| List and detail pages, shell services | fields of a page, one assignment each | - | Bridge | - | - |

How they interact: Anchor's pump starts the migration, the bootstrap, the recovery polling and the listeners in
registration order and stops at the first failure, so what one leaves undone decides whether the next runs. The desktop's
web view sets the token that its drain and its pull read, and its hooks decide whether a note is posted or queued. In the
web application the session decides under whose key the other components' queries are cached, and the query cache outlives
both the pages and the session.

`PROJECT.json` lists the hazards at their lines with the properties that are about them. Those no property covers are in
the [plan](#plan).

## The modules

Each component has a specification and an `MC` module that gives its constants values for TLC. The proofs about the three
components of Anchor are in one module, `AnchorProofs`, those about the web session and the onboarding in `AccountProofs`;
every other component has a `Proofs` module of its own. In a specification, a definition whose comment begins with "A wrong ..." is not used by the next-state relation:
it is a plausible slip of the code, kept to show that the properties would notice it. Each model of a page has the calls
of the page and the answers to them as separate actions; a page that is left does not cut the calls it has made.

**`V1Migration`** - `src/src/Services/AnchorV1MigrationService.cs`, `AnchorBootstrapHostedService.cs`,
`MauiHostedServiceLifetime.cs`, `src/src/App.xaml.cs`. `orig`, `backup`, `team`, `teamRoots` and `marker` are the data
directory and survive; `pc`, `at` and `stage` are the program counter of the thread in `StartAsync`: the phase, the item,
and whether the item's copy is half done. A copy leaves its destination `"partial"` first, a marker `"torn"`. `Crash`
may strike anywhere; `StartFails` is an exception that `StartAllAsync` rethrows and `OnWindowCreated` swallows, so the
application runs on without the later services. The three ways `MigrateIfNeeded` returns early are in `LayoutDetected`.

**`RecoveryHost`** - the recovery pages, `TrusteeSetupService`, `RecoveryAttestationSubmitter`,
`RecoveryGracePollingService`, `AnchorRecoveryCompletionHandler`, and as much of `QrOnboardingService` as materializes a
joined team. One action per `await` of the page (`StoreKey`, `Submit`, `DiscardKey`), of the poll (`Evaluate`) and of the
handler (`GetKey`, `Decide`, `Restore`, `Rotate`, `RemoveKey`); each call may throw, and once `StopAsync` has cancelled the
token a call given it may throw for nothing. An `OperationCanceledException`, whoever throws it, ends the polling loop
(`mode` *canceled*); any other does not. Keys are named by the click that made them, store keys by the root seed they
are derived from. The coordinator is external and, as `MauiProgram` binds it, forgets its request with the process; the
key slot, the seed and the stores survive.

**`PairingTokens`** - `src/src/Services/Pairing/HmacPairingService.cs`. `Look` is a consume call up to its `await`, and
`Consume` or `DeriveFails` what follows; `call[c].stored` is the record it carries across. An HMAC is genuine or forged.

**`WriteQueue`**, which implements **`Outbox`** - `commands/write_queue.rs`, `sync/push.rs`, `lib.rs`. Rows outlive the process. The drain fetches,
which may fail and end it (*unread*), takes the oldest, sends with the token as it is at that moment and marks the row; the web view may set or clear the token and
queue more at any time. Rows of one second may be taken in either order, as `ORDER BY created_at` leaves it.
`Outbox` is what each write may expect for itself: it is tried, tried again only if it was forgotten how a try went, settled
once, and called synced only if it was applied. `State`, which calls the row in hand *tried* until it is marked, is the
refinement mapping: a drain that dies in between forgets.

**`PaymentQueue`** - `apps/web/src/lib/offlineQueue.ts`, `RentCollectionPage.tsx`, `api/financial.ts`. Reading the queue
and writing it back are two steps (`ReadQueue`, then `Enqueue` or `Drain`) that no other step of the same tab may come
between; those of another tab may. A request is sent, then recorded, then answered, and may fail at either point. Leaving
the page resets its state but not its requests; reloading the tab cuts them.

**`BridgeAuth`** - `lib.rs`, `commands/auth.rs`, `services/credentialStore.ts`, `ConnectBridgePage.tsx`, `app.tsx` of the
desktop. `Derive` is `derive_stronghold_master_key`, errors included. Three flows go through the same chain of calls from
where they enter it: `Probe` (ask the Bridge), `Load` (open the vault), `Read`, `Write` and `Save` (the vault in memory,
then its file), `Set` (the process), `Show` (the web view). Each of these calls may fail, and the flow does with the failure
what its code does: connecting ends, disconnecting goes on, a removal or a hand-over that failed is swallowed. Any step may be
followed by a step of another flow, or by the end of the process. `slips`, `rekeyed`, `wish` and `sure` record what happened and what the user did last. The whoami of
the desktop's `AppLayout` is not in it.

**`HubComms`** - `hooks/useHubConnection.ts` and the two `CrewCommsPage.tsx`. `app` says which shell it is; the pages share
all but what they do when the connection changes and when they send without one. Invocations travel on `wire` and messages
and answers on `stream`, each in order; a lost connection takes both with it and comes back having joined nothing. The hub may
refuse an invocation: a refused message stays in the draft, a refused join or leave is noticed by nobody (`denied`). `hub` is
the state as set and `shown` the state as rendered. Messages of others are left out: `joined` says which would be heard.

**`ReportPages`**, which implements **`RunOnDemand`** - the five report pages, `ReportFilterBar`, `ChartSelector`,
`RunButton`, `ExportCsvButton`, `useReports.ts`, `api/reports.ts`. One page is mounted at a time. Rent roll and the two
aging pages reset the mutation on every change of a filter, profit and loss only once it has settled, trial balance never:
one action each (`EditRentRoll`, ...), and one view each of what is then on the screen (`RentRollView`, ...).
`RunOnDemand` is what a user may expect of any of them: it answers the last question asked, with the answer to that very
question, or none. `Phase` and `View.of` are the refinement mapping.

**`Projects`** - `cockpit/projects/`, `hooks/useProjects.ts`, `api/projects.ts`. A query's data is the number of the
server's version it shows, so "stale" is a comparison. `Invalidate` is what React Query does with a key: mark, refetch what
is on the screen, leave alone what is being fetched without data. Forms, their drafts, and the mutation each button
observes are state; another user may change the project and its time entries at any time. The Bridge refuses a request
whose time has passed (`Refuses`) and may deny any for what the views do not know: who recorded an entry, who may decide about
it (`Deny`). The budget is displayed with Actuals the Bridge makes up from time entries: `Budgets` lets them move with one, and
no mutation of a time entry invalidates them (`LeftToAge`). `useAddMilestone` is used by no page.

**`WebSession`** - the stores, `app.tsx`, `useAuth.ts`, `CompanySwitcher.tsx`, `RouteErrorBoundary`, the audit trail and
its detail page. A call is *sent*, answered by whoever is signed in then, and arrives whenever it does. `crossed` says which of
the stores and the trail's list had a call under way when the session was changed by another tab or a call failed. A page
whose code has been loaded is mounted before anything else happens, and asks for its data again; `LoadMore` and `Retry` give
that request up for their own, as React Query does.

**`Onboarding`** - `pages/auth/`, `api/onboarding.ts`, `CaptchaWidget.tsx`. One tab walks between the form, the page that
says to look for the mail, the page that asks for another and the page a link opens. `orphans` are the requests of pages
that were left: they may still reach the Bridge. Answers may be lost; links expire.

## What the runs check

| Run | Properties | Distinct states | Shows |
|---|---|---|---|
| `v1migration` | `TwoCopiesBeforeDelete`, `MarkerMeansMigrated`, `BootstrapNeverPreempts`, `EventuallyMigrated` | 1,784 | Through three interrupted launches every v1 item is whole in place or whole twice elsewhere; the marker, even torn, follows both copies; the bootstrap never makes `teams/` ahead of a migration that is owed; the migration completes unless an interruption strikes in its second step |
| `recovery` | `NoRogueSeed`, `StoreNeverAheadOfSeed`, `HandledKeyGone`, `ElapsedIsHandled` | 202,573 | With two clicks, a rogue trustee, one failing call and one restart: no rogue seed is restored, the store is never keyed ahead of the keystore, a handled key is gone, the loop outlives exceptions, but for a cancellation |
| `pairing_safety` | `SpentIsRefused`, `OneTenantOneDevice` | 362,181 | Of three concurrent calls, one that begins after a revocation or after another returned is refused; those accepted are of one tenant and device |
| `writequeue` | `DuplicateNeedsCut`, `AppliedInOrder`, `PendingIsSettled`, `IsOutbox` | 148,032 | Only a drain cut between request and update applies a row twice; first applications follow the seconds; a bad row does not hold up the others, a query that fails does; the queue implements `Outbox` |
| `writequeue_restart` | `SyncsAfterRestart` | *violated* | The drain of a start comes before the token ([below](#disagreements-between-code-and-documentation)) |
| `paymentqueue` | `LossNeedsCause`, `DuplicateNeedsCause` | 761,841 | With two tabs, an outage and a fault, a promised payment is lost only if a request for it failed or was cut or two tabs met in the queue; it is recorded twice only if submitted again or drained by two tabs |
| `bridgeauth` | `VaultSound`, `Agreed`, `WishKept`, `Restored` | 688,945 | With flows that overlap, calls and keychains that fail, and three starts: the vault opens for every process that has a key, unless a key was replaced; file, process and web view agree unless two flows overlapped, the vault failed or the process did not take the token over; what the user did last stands if the vault did not fail; a stored token is shown in the end |
| `hubcomms` | `JoinedShown`, `SenderHears`, `DraftsKept`, `EndsUpJoined` | 1,785,129 | Connections fail, drop and come back, and the hub refuses: the web page is in the thread it shows and no other, unless it was refused a join or leave; who sends hears it, with the exceptions named; a draft that is gone is at the Bridge, was written over a send, or was sent by the key without a connection |
| `reports` | `ResultOfFilters`, `ExportTrue`, `RunsOnDemand` | 769,540 | On each of five pages, with answers that come late: a result stands under the filters it was asked with, with two exceptions; the export offered is of the report displayed, one at a time; the pages implement `RunOnDemand`, liveness included |
| `projects` | `CacheCurrent`, `WipedNeedsOverlap`, `OnceEach`, `RefusedNeedsChange`, `AsksWhatIsOffered` | 3,541,972 | Across views, tabs, refetches and another user: nothing older than an own change passes for fresh, but for a fetch that could not be abandoned and the Actuals of a budget; only what is typed while a request of the same form and view is pending is dropped; an input is doubled only after a lost response; a refusal that is not a denial means that something changed |
| `websession` | `StoresOfSession`, `TrailOfSession`, `DetailOfSession` | 1,016,533 | With answers in any order and failing calls: once answered, the stores speak of the session; the audit trail is of one tenant, and of the one signed in; so is the event displayed |
| `onboarding` | `PagesTrue`, `AnswersFit`, `CaptchaSolved`, `Settles` | 319,862 | A page that says an address has signed up or is verified is right; answers stand next to the input that was sent, unless it was typed over; no sign-up is sent on a captcha that failed; no page waits for ever |

Where the code does not keep what one would wish, the property names exactly which events may break it
(`DuplicateNeedsCut`, `LossNeedsCause`, `WipedNeedsOverlap`, `DraftsKept`, the exceptions of `ResultOfFilters`): TLC finds no
other. A property named above may be a conjunction of properties that are stated and commented one by one in its module
(`ExportTrue`, `VaultSound`, `StoresOfSession`, `TrailOfSession`, `PagesTrue`, `AnswersFit`).

The type invariants (`TypeOK`, `MigrationTypeOK`, `PairingTypeOK`, `RecoveryTypeOK`, `OnboardingTypeOK`, `SessionTypeOK`),
and of the other properties `SyncedWasApplied`, `LabelsTrue`, `ChartOffered` and `OnlyAccepted`, are in no configuration: they
are proved. So are the inductive invariants of the proofs, each of which TLC found to hold on the instance of its component's
run before it was proved.

`PROJECT.json` gives for every property of a passing run a wrong definition (a dropped guard, a missing reset, two steps
swapped) under which TLC finds that property violated; for a conjunction, one for each part that a slip in the code breaks.

To repeat one, with the name, module and configuration of a run:

    tlc -workers 2 -config V1Migration.cfg MCV1Migration.tla
    tlapm AnchorProofs.tla

## Bounds

Every bound is a constant and limits a step of the environment (a fault, a click, a tick), never one of the program,
except `MaxRequests`, which is large enough never to disable `Drain`.

| Module | Values | Why they are enough |
|---|---|---|
| `V1Migration` | `Parts` 3, `MaxFaults` 3 | The code's own items: `sunfish.db`, `events/`, `buckets/`. Three faults interrupt the launch that repeats an interrupted launch, with one to spare |
| `RecoveryHost` | trustees: one honest, one rogue, `Quorum` 2, two teams, two clicks, one fault, one restart | Two clicks are needed for one to overwrite the other's key; one rogue is the largest minority of a quorum of two. More trustees than the quorum, and every other number, are covered by the theorem |
| `PairingTokens` | two tenants, two devices, one token, three calls, `Ttl` 1, `MaxTime` 2 | Two calls overlap and a third is late; a token can be fresh, expire, and be looked at after that. Tokens do not interact, since a key is written by calls for it alone. Tenants, devices and calls are symmetric |
| `WriteQueue` | two good writes and a bad one, two seconds, two faults, one crash | Two rows of one second or of different ones, with one in the way; a fault on each side of a restart |
| `PaymentQueue` | two tabs, two payments, six requests, one outage, one fault | One payment queued and one in flight, or both in the queue that two tabs drain; tabs are symmetric |
| `BridgeAuth` | two accepted tokens and a bad one, `BRIDGE_TOKEN` bad or absent, two submissions at once, `MaxSubmits` 2, `MaxKeys` 2, `MaxFaults` 2, `MaxStarts` 3 | A submission over another, over restoring and over disconnecting; a replaced key and a process after it; a failure before and after a restart |
| `HubComms` | two threads, two texts, `MaxFaults` 2, `MaxSwitches` 3, `MaxWire` 3 | A thread opened, left and opened again around a reconnection; one message under way while the next is written. The two shells do not interact |
| `ReportPages` | five pages, two charts, two filter values of which one is blank, `MaxRuns` 2, `MaxExports` 3, `MaxChanges` 1 | A run overtaken by the next; a toast whose timer ends the next export, and an export over that; a chart dropped while it is selected. A page forgets everything when it is left, so two runs are two runs of each page |
| `Projects` | one time entry, two statuses, a worker or an approver, `MaxActs` 3, `MaxSends` 2, `MaxVisits` 3, `MaxUpsets` 1 | Typing, sending and typing again; away from a view and back to it while its fetch is under way; one change by another user or one lost response. Entries do not interact |
| `WebSession` | two accounts of which one has companies, `MaxMoves` 3, `MaxPages` 2 | In, out and in again as another; a cursor of one tenant used after the other has come. Every failing call counts as a move |
| `Onboarding` | two e-mails, two names of which one is reserved, `MaxSteps` 4, `MaxLinks` 2 | Sign up, lose the answer, sign up again and follow a link; an old link and a new one |

Deadlock is checked in `V1Migration`, where the user can always start or quit, and in `ReportPages`, where a page can always
be opened or left. It is off elsewhere: with its clicks, tokens, moves or payments used up a model may stop, and so may the
program.

## Fairness

Liveness assumes no more than this; `Projects` and `WebSession` assume nothing and state no liveness.

- `V1Migration`: `WF(Step)`, `WF(Launch)`. A thread in `StartAsync` goes on; a user whose application is down starts it
  again. Faults are bounded and nobody has to quit.
- `RecoveryHost`: `WF(Poll)`, `WF(LaunchAgain)`, `WF(stopping = "yes" /\ ProcessEnds)`. The polling loop is a background task
  with a timer; a host that was told to stop ends. Nobody has to click or attest, and a grace window may never elapse.
- `WriteQueue`: `WF(Drain)`, `WF(SetToken)`, `WF(GoOnline)`, `WF(Start)`. The spawned task runs, the web view loads the
  token from Stronghold, the network comes back, the application is started again. Even so `SyncsAfterRestart` fails.
- `PaymentQueue`: the run uses none. `FairSpec`, for `QueuedIsSent`, has `WF(GoOnline)`, `WF` of recording or answering a
  request, and for each tab `WF` of the steps of its event loop. Nobody has to stay on the page or come back to it.
- `BridgeAuth`: `WF` of the next step of each flow: a promise of the web view goes on once it is begun.
- `HubComms`: `WF(Render)`, `WF(Handle)`: React renders the state that was set, and the Bridge handles what it has received.
  The connection need never come back.
- `ReportPages`: `WF` of each run being answered, by success or failure, for `RunOnDemand` promises that a page does not
  load for ever.
- `Onboarding`: `WF(Serve \/ Answered)`: the page's request is answered, or fails, and the page hears of it.

## What is proved

For each specification an inductive invariant (`...IInv`) is shown to hold at first, to be kept by every step, from one lemma
per action or per group of actions, and to imply the properties; the theorems follow by temporal logic. The
assumptions are the named `ASSUME`s of the specifications, which TLC evaluates in the passing runs. The bounds are
assumed to be natural numbers and nothing else.

| Module | Of | Theorems | Assumes | Why the invariant says more than the properties |
|---|---|---|---|---|
| `AnchorProofs` | `V1Migration` | `MigrationTypeCorrect`, `NoItemLost`, `MarkerSound`, `BootstrapOrder` | `Parts` at least 1 | That two copies exist when an original is deleted follows from where the thread is: originals are whole until the marker (`OriginalsUntilMarker`), the items before `at` are copied (`BackupProgress`, `TeamProgress`), the marker is written in front of the deletion (`MarkerPhase`), and the bootstrap follows a migration that is done, skipped or not owed (`BootstrapPhase`) |
| | `PairingTokens` | `PairingTypeCorrect`, `SpentTokensRefused`, `BoundToTenantAndDevice` | a positive time to live | What a call holds across its `await` differs from the store in the consumption stamp alone (`HeldIsCurrent`), an accepted token is stamped whoever wrote last (`AcceptedIsStamped`), and an identifier belongs to one tenant (`OneTenant`) |
| | `RecoveryHost` | `RecoveryTypeCorrect`, `RogueSeedNeverRestored`, `HandledKeysGone`, `RotationAfterRestore` | finitely many trustees, fewer rogues than the quorum | The attestations of the request and those in the handler must be sound: one for each trustee, rogue seeds from rogues alone. If the quorum agreed on a rogue seed, mapping each attestation to its trustee would inject the quorum into the rogues (`QuorumBeatsRogues`). `KeyInv`: only the click that made a key puts it in the slot, and that click is past by the time its request is completed |
| `WriteQueueProofs` | `WriteQueue` | `TypeCorrect`, `SyncedSound`, `OnceUnlessCut`, `OrderPreserved`, `ImplementsOutbox` | good writes are writes | `Counts`: a pending row has been applied at most as often as it was cut, one being marked once more. `Ages`: what was applied is no younger than what is in hand, and that no younger than what was queued since the fetch |
| `PaymentQueueProofs` | `PaymentQueue` | `TypeCorrect`, `PromisesKept`, `RecordedOnce` | - | `Undisturbed`: until two tabs meet, a tab that reads the queue is alone and what it read is what is there. `Once`: a payment not submitted again is in one place only: a form, the queue, a request, or the server's books. That a number for the next request exists is itself proved (`LeastNumber`, `LastIdType`) |
| `BridgeAuthProofs` | `BridgeAuth` | `TypeCorrect`, `VaultIsSound`, `AcceptedOnly`, `TokensAgree`, `WishStands` | accepted tokens are tokens; submissions are not the other two flows | What each flow holds at each step of its chain must be tied to the vault, the file and the process: with no overlap one flow is under way (`OneFlow`), and what it has still to write is what it carries (`Progressing`), as long as the vault has not failed or the wish is sure all the same (`Ideal`); and a sure wish is in the file or on its way there (`Wished`) |
| `HubCommsProofs` | `HubComms` | `TypeCorrect`, `ShownThreadJoined`, `SentIsHeard`, `NoDraftLost` | the first thread is a thread; no text is the empty one | What is true once nothing is under way must be foreseen while something is: `Membership` says what `joined` will be after the invocations on `wire` have been handled one by one (`After...` lemmas, by position since a recursive definition cannot be unfolded by the provers), `SendsHeard` that it holds the thread of each send when that comes up, both up to the threads the hub has refused (`Low`, `High`) |
| `ReportPagesProofs` | `ReportPages` | `TypeCorrect`, `ResultMatchesFilters`, `LabelsTellTheTruth`, `ExportIsTrue`, `OneAtATime`, `ChartIsOffered`, `Implements` | there is a filter that is not blank; no chart is `None` | `Followed` ties mutation, form and submitted parameters while no filter was changed, `Kept` what trial balance keeps beside the mutation, `Numbered` and `Asked` which answer belongs to which run, `Exporting` the button to the exports under way |
| `ProjectsProofs` | `Projects` | `ProjectsTypeCorrect`, `OwnChangesFetched`, `NothingElseWiped`, `InputsRecordedOnce`, `RefusalsAreNews`, `TransitionsAskForWhatIsShown` | at least two statuses, all different, *Planned* among them; no entry is `None` | `FetchCurrent`: a fetch under way will bring what this user has changed, since invalidating a query either starts it again or marks it crossed, and no key is missing (`KeysCover`). `SentOnce`: what a form still holds of a request that may be recorded is watched by its button, so it is not sent again; `OverTyped`: what it holds besides was typed over. `EntrySeen` and `PickedOther` keep what was displayed when a request was made and when a status was picked, and the server's values are never taken back (`ServerGrows`) |
| `AccountProofs` | `WebSession` | `SessionTypeCorrect`, `StoresSayWhatBridgeSays`, `TrailIsOfSession`, `DetailIsOfSession` | users bound to a company are users; nobody is not one; a page of the trail at least | What is right once every call is answered must be owed while some are not: each store says what the session is, or a call that puts it right is under way (`StoresAnswered`), and an answer on its way is about the session there is (`AnswersCurrent`), unless it crossed a change. `CallsOneTenant` and `FetchedCurrent` say the same of the pages a list is collecting, `ScreenCurrent` of those on the screen. That a call gets a number no other has is proved from the finiteness of the calls (`FreeNumber`) |
| | `Onboarding` | `OnboardingTypeCorrect`, `PagesTellTheTruth`, `AnswersStandWhereAsked`, `SentWithSolvedCaptcha` | reserved names are names; the blank input is neither a name nor an e-mail | A page is right because of what the Bridge will never take back: an answer under way is true and stays so (`AnswerTrue`), mails went to those who signed up (`LinksOwned`), also for requests of pages that were left (`RequestsProper`). `FormSent`: a form being sent holds what was sent or was typed over. `TokenSolved`: a token belongs to a box that was ticked |

They hold for every number of items, trustees, teams, tokens, calls, rows, tabs, payments, threads, messages, filters, runs,
entries, statuses, users and accounts, and for every bound. `SentWithSolvedCaptcha` is about
steps. `Implements` shows that the initial states of `ReportPages` are initial states of `RunOnDemand` and that every step is
a step of it or a stutter; its fairness is TLC's. `ImplementsOutbox` is the whole of `Outbox`, which has no fairness.

## Disagreements between code and documentation

1. **A `teams/` directory is taken for a finished migration** (`AnchorV1MigrationService.cs:168`). The comment says that it
   means a migrated or fresh install. The second step creates it before it copies anything, so an interruption there leaves
   an install that every later launch skips. No data is lost - `NoItemLost` - but the v2 layout stays incomplete.
2. **A second click on Initiate ends the first request's chance** (`InitiateRecoveryPage.razor:105`). The page stores
   its key in the only slot before it submits, and clears the slot when the coordinator refuses.
3. **A failed rotation is not retried** (`AnchorRecoveryCompletionHandler.cs:248`), although the comment calls the state
   recoverable by the next launch: that launch cannot open the store and never gets to the polling service.
4. **"Multi-team" means "several teams materialized now"** (`AnchorRecoveryCompletionHandler.cs:213`). A restart
   materializes the default team only, so the refusal to rekey an install with several teams does not happen.
5. **A pairing token can be returned to two calls** (`HmacPairingService.cs:103`), though documented as single-use: the
   check is before the `await` and the write after it is unconditional.
6. **The startup drain runs before the token is set** (`push.rs:34`), and the Bridge's refusal becomes the row's final
   error, although `lib.rs:186` says the entries of previous sessions are drained.
7. **A queued payment is sent only if the page is open when the network comes back** (`RentCollectionPage.tsx:43`), while
   the page and the banner say that it will be sent and is being synced.
8. **A changed filter leaves the trial balance on the screen** (`TrialBalancePage.tsx:396`), though the comment at line 11 says
   that filter changes reset the page: the handler clears the page's own copy and flags but not the mutation, whose data
   is displayed instead, with an Export button whose click does nothing.
9. **Signing in may lead back to the login page** (`app.tsx:199`), where `e2e/auth-login.spec.ts:37` expects the application.
   Whoever was sent to the login page is still known as signed out when the frame decides where he belongs.
10. **A sign-up that is sent again is another one** (`api/onboarding.ts:113`): the key by which the Bridge is to recognise a
    resubmission (comment at line 107) is made anew by each attempt, so after a lost answer the user's own organization is in
    the way of its name.

`writequeue_restart` shows the sixth. The others are stated in the modules, and TLC finds each violated when it is added to the
configuration of its run: `TeamsDirMeansMigratedOrFresh` (1), `PendingRequestKeepsKey` (2), `RotationRetried` (3),
`MultiTeamRekeyRefused` (4, with `MCTrustees` for the trustees), `SingleUse` (5), `QueuedIsSent` (7, with `FairSpec` and
without symmetry), `FilterChangeResets` (8), `SignInOpensApp` (9), `SafeResubmit` (10).

What else modelling showed, where no document says otherwise:

- a request for the audit trail that is under way when the user changes is shared by the page of the next user;
- the companies of the former user stay on offer for one who has none;
- leaving the login page while the sign-in is under way leaves the tenant of the user before;
- a whoami that fails for any reason but a 401 signs `dev-user` in;
- an `OperationCanceledException` out of a poll, a timeout's for example, ends the recovery loop without a word, where any other
  exception is logged and retried (`RecoveryGracePollingService.cs:69`);
- a removal of the stored token that fails is taken for the token having been absent (`credentialStore.ts:83`): the user sees
  himself disconnected, and the next start restores the token;
- a join the hub refuses is not made again while the connection stays up, and the page shows itself connected to the thread;
- a form that is cancelled while it is being sent and shown again in the same view is closed by the answer, with what was typed
  into it;
- the Actuals of a budget stay as they were when a time entry is decided about, until their data is old;
- the page that says to look for the mail says that one was sent also when it is opened without an address;
- the transition form of a project offers every status but the current one and holds *Planned* until one is picked: for a
  planned project it displays one status and asks for another.

## What is only model-checked, and what is not modelled

Only TLC checks the liveness properties (`EventuallyMigrated`, `ElapsedIsHandled`, `PendingIsSettled`, `Restored`,
`EndsUpJoined`, `Settles`, the fairness of `RunOnDemand`), since the prover does not do fairness or `ENABLED`. The violation is
by its nature TLC's.

Abstracted in the modelled parts: signatures, HMAC, base32 and encryption (genuine or not, opens or not); the contents of
files, notes and payments; logging and wording; what the
confirmation card and the lists display; in `WebSession` the filters of the audit trail, each a key of the cache of its own. The clock counts seconds
in `WriteQueue` and nothing elsewhere but expiry in `PairingTokens`; the length of the grace window is left open.

Not modelled:

- **Desktop pull and cache.** `pull.rs` reads a JSON array from endpoints whose answers the web view (`api/erpnext.ts`) takes
  for an object with a `data` field; what the pull finds is not to be told from this repository.
- **Desktop maintenance notes.** `useMaintenanceNoteSubmit` and `useMaintenanceTickets` are used by no page.
- **Backup and delta bridge, identity atlas, integration surfaces.** The state is the CRDT's or another package's; what is here
  are adapters without state of their own.
- **Hosted-service lifetime, additional-team join, crew comms listener, regression observer.** Next in the plan;
  `V1Migration` and `RecoveryHost` have of the first two what they depend on.
- **Composition root**, apart from the orders and bindings the models rely on.
- **Other pages and shell services** (lists, theme, flags, locale, error reports): a query or one assignment each.
- Tests, mocks and build files were read for the intended behaviour.

## Plan

Next, the behaviour whose failure costs a user most first:

| Module | Of | Composes with |
|---|---|---|
| `HostLifetime` | the pump over the window's events | the start-up of `V1Migration` and the polling of `RecoveryHost` |
| `BridgeAuth` with `WriteQueue` | the flows in place of the arbitrary `SetToken` and `ClearToken` | - |
| `AdditionalTeamJoin` | invitation, bundle, session | the teams of `RecoveryHost` |
| `CrewComms` | listening loop, bus, roster | the active team of `AdditionalTeamJoin` |
| `RegressionObserver` | evaluation against a baseline | - |
| `PullSync` | pull, cache, hooks' sync state | `BridgeAuth` |

Abstract specifications to state, each a `PROPERTY` of the run of the specification that implements it, with the refinement
step proved after, as `RunOnDemand` and `Outbox` are:

- a *single-use register*: issue, take, revoke. `PairingTokens` implements it when calls do not overlap, which makes
  precise what a compare-and-swap at `HmacPairingService.cs:121` would buy;
- an *at-least-once queue*: accept, deliver, settle. `WriteQueue` implements `Outbox`; `PaymentQueue` implements the like only
  while none of the causes in `LossNeedsCause` arises.

Theorems to come: these refinements, and that composing `BridgeAuth` with `WriteQueue` keeps what
`WriteQueueProofs` proves.

Hazards no property covers yet:

| Module | Line | What can go wrong |
|---|---|---|
| `HostLifetime` | `src/src/App.xaml.cs:52` | The window is destroyed while the services are still being started: the cancellation source is disposed and never cancelled, and services are started after all have been stopped. |
| `HostLifetime` | `src/src/Services/AnchorSyncHostedService.cs:142` | Stopping the daemon throws: the subscriptions are not disposed and both discoveries keep running. |
| `HostLifetime` | `src/src/Services/MauiHostedServiceLifetime.cs:75` | One service fails to start: those behind it never start, those before it run on until the window goes. |
| `CrewComms` | `src/src/Services/CrewCommsListenerHostedService.cs:128` | The active team changes while listening: invitations of the former team go on being published. |
| `CrewComms` | `src/src/Services/CrewCommsListenerHostedService.cs:64` | A listener that was stopped keeps its completed task, so a later start does nothing. |
| `CrewComms` | `src/src/Services/CrewCommsInvitationBus.cs:108` | An observer disposes of its subscription between the snapshot and the delivery and is called after that. |
| `AdditionalTeamJoin` | `src/src/Services/QrOnboardingService.cs:369` | A team is materialized before anybody answers the invitation; one that expires leaves it behind. |
| `AdditionalTeamJoin` | `src/src/Services/QrOnboardingService.cs:473` | A second bundle, signed by another issuer, replaces the one the team was joined with. |
| `RegressionObserver` | `src/src/Services/SystemRequirementsRegressionObserver.cs:65` | The specification is read before the await and the baseline after it, and a regression does not move the baseline: one is reported again for every later change. |
| `PullSync` | `src/apps/desktop/src-tauri/src/sync/pull.rs:35` | The pull of a start reads the token before the web view has set it, fails on the first table, and does not try the others. |
| `PullSync` | `src/apps/desktop/src-tauri/src/sync/pull.rs:57` | Rows are replaced one by one and never deleted; a pull that fails half-way leaves old and new rows together. |
| `PullSync` | `src/apps/desktop/src/hooks/useLeases.ts:19` | Only the properties query ever leaves the state `offline`: a lease query that failed once keeps notes going to the queue after the Bridge is back. |
| `PullSync` | `src/apps/desktop/src/hooks/useMaintenanceNoteOffline.ts:13` | The note is inserted into the document before it is queued; the retry of a failed enqueue inserts it twice. |
| `RecoveryHost` | `src/src/Components/Pages/Recovery/InitiateRecoveryPage.razor:87` | A second click stores its key in the one slot while another request is in flight (disagreement 2). |
| `RecoveryHost` | `src/src/Services/AnchorRecoveryCompletionHandler.cs:213` | The set of materialized teams stands for the teams of the install (disagreement 4). |
| `RecoveryHost` | `src/src/MauiProgram.cs:249` | The coordinator's state is in memory: a restart between quorum and poll forgets the request. |
| `RecoveryHost` | `src/src/MauiProgram.cs:141` | The store activator keeps the root seed it was composed with: a team joined after a recovery gets a store keyed with the old one. |
| `WriteQueue` | `src/apps/desktop/src-tauri/src/lib.rs:186` | The queue is drained once per process: a write queued offline waits for the next start. |
| `WriteQueue` | `src/apps/desktop/src-tauri/src/commands/write_queue.rs:28` | `created_at` counts seconds: a create and its update within one second may be sent in either order. |
| `PaymentQueue` | `src/apps/web/src/pages/RentCollectionPage.tsx:43` | The queue is drained only by an event that finds the page mounted (disagreement 7). |
| `PaymentQueue` | `src/apps/web/src/pages/RentCollectionPage.tsx:31` | The success of a drained payment puts up the card with the amount and lease that are in the form. |
| `Onboarding` | `src/apps/web/src/api/onboarding.ts:113` | The idempotency key is new for each attempt (disagreement 10). |
| `WebSession` | `src/apps/web/src/app.tsx:198` | The frame decides where a user who has just signed in belongs before its whoami is answered (disagreement 9). |
| `HubComms` | `src/apps/web/src/hooks/useHubConnection.ts:33` | A first start that fails is not retried, and after four failed attempts a lost connection is not either. |
