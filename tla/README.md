# Verification of NeuroCheckout Community

NeuroCheckout Community is the self-hosted half of a cart-recovery service. A Node server next to a
merchant's shop pulls catalogue, cart and order records from the shop's connector into an encrypted
SQLite *vault*, announces changes to the *Cloud* as signals without content, answers the Cloud's
requests for single records and live facts, keeps copies of the emails that are sent, and shows a
dashboard through an OAuth session. A native launcher keeps that server running and installs updates.

This directory holds TLA+ modules of the parts where order, failure and time decide whether the
program is right, TLC configurations that check them on small instances, and TLAPS proofs for every
value of the constants. `PROJECT.json` maps each definition to the lines it models, lists the hazards
the properties were written for, and a mutation of the code's logic that breaks each property.

Check a run with `tlc -config MCSourceSync.cfg MCSourceSync`, a proof with `tlapm SourceSyncProofs.tla`.

## 1. Inventory

| Component | State it keeps | Operations | What is hard |
| --- | --- | --- | --- |
| Local vault (`scripts/local-data-store.mjs`) | tables records, watermarks, outbox, nonces, meta | put, read, signals, acknowledgeSignals, cleanup, requireSourceFresh, backup | rows expire while their watermark and signals go on; vaults from before watermarks |
| Connector pull (`local-source-sync.mjs`, `source-pull-client.mjs`, `lib/server-source-pull.ts`) | the source_sync row: stream, cursor, ready, last complete pass, lease | configure, claim, apply, failed, pauseSourceReads, pullSourceOnce | several pullers, leases that expire, pages that answer late, a snapshot over many transactions |
| Data relay (`server-data-relay.mjs`, `lib/server-data-relay.ts`) | active relays in memory, credential file | offer signals, acknowledge, poll, execute, reply | every await may fail; batches that arrive after their caller gave up; restarts |
| Signed local calls (`local-data-handler.mjs`) | table nonces | handleLocalData | clocks that differ, copies of a call, a nonce that is swept, a slow body |
| Private state (`private-state-store.mjs`) | table private_state | get, put | compare-and-set whose replies are lost |
| Live native reads (`local-catalog-reader.mjs`, `customer-*-reader.mjs`, platform modules) | a signed cursor | catalogue pages, prices, carts, histories | a source that changes across the await; a catalogue that changes between pages |
| Heartbeat (`server-availability.mjs`) | attempts in memory, credential file | heartbeatOnce, saveAvailabilityCredential | one attempt at a time, back-off, a credential replaced meanwhile |
| Workspace (`lib/server-workspace.ts`, `workspace-store.mjs`, `lib/workspace.ts`) | timers per shop, file of links | scan, the loops of a shop, grants | a shop that leaves and returns |
| Source setup (`api/local-data/setup`, `automatic-source-setup.mjs`) | vault directories, credentials, source | the setup the dashboard asks for | slugs used again, overlapping requests, a death between two steps |
| Email archive (`email-archive.mjs`, `lib/email-history-archive.ts`) | email_archive, email_archive_conversions | prepare, confirm, markConverted, clean, get | lost replies, late confirmations, three limits at once |
| Order history copy (`local-order-history.mjs`, `customer-history-index.mjs`) | order_history_sync, order_history_accounts | claim, finish, failed, completionReport | a pass of thousands of leases; rebinding in the middle |
| Installation tools (`setup-community.mjs`, `env-file.mjs`, …) | `.env.local` | setup, doctor, readiness | the secret that seals the credentials is rewritten in place |
| Session, login and logout (`lib/authenticated-cloud-fetch.ts`, `lib/cloud-client.ts`, `api/auth`) | refresh flights in memory, the browser's cookies | authenticatedCloudFetch, start, callback, logout | single-use tokens under overlapping requests, responses in any order |
| Update launcher and queue (`start-standalone.mjs`, `update-switch.mjs`, `api/local-update`) | current.json, request.json, status.json, queue.lock, builds | startup with fall back, take, prepare, activate, roll back, queue | a crash between any two writes, a child that exits, two writers of the queue |
| Release preparation, backup (`verified-update.mjs`, `update-backup.mjs`) | staging directories, backups | prepareRelease, createUpdateBackup, restoreUpdateBackup | a release published again between two downloads |
| Dashboard views (`components/*.tsx`, `lib/use-evidence-refresh.ts`, …) | React state, browser storage | loads, polls, selections, actions | answers of superseded requests, timers, several tabs |
| Partner and agent pages, Cloud proxies, tests and packaging | – | – | presentation, forwarding of one request; not modelled |

How they interact. The pull, the ingestion endpoint and the relay meet in one vault: the pull and `put`
write records, watermarks and outbox in one transaction, and the relay reads the outbox, deletes what
the Cloud took, and reads records. The source_sync row decides whether any read is served, live reads
and histories included. The relay carries the Cloud's commands to the archive, the private states, the
catalogue and the live readers. A worker of a linked shop asks for a heartbeat before each pull, and a
refused heartbeat pauses the reads. The heartbeat reports the completion of the order history. The
browser reaches all of it through API routes that carry the session. The launcher stops the server, and
with it all loops, to back the vaults up. What makes these hard is always the same: an `await` between
what was read and what is written, a process that may end there, and an answer that may come late or twice.

## 2. Modules

Server, data:

| Module | Models | Abstracts |
| --- | --- | --- |
| `LocalVault` | the vault: one action per transaction | payloads, byte limits, the history table (written, never read) |
| `SourceSync` (extends `LocalVault`) | the pull with its lease, and when reads are served | a page is a range of the connector's log |
| `SignalDelivery` | abstract: what the outbox promises the Cloud | – |
| `OutboxRelay` (extends `LocalVault`) | relay runs of several callers, failures, restarts; the read command | the credential; the other commands, which are in the modules of what they reach |
| `SignedRequests` | time check, body wait, nonce and rate limit | a message is its nonce |
| `PrivateState`, abstract `OnceRegister` | compare-and-set with repeated and lost commands | a write stands for its revision and value |
| `CatalogPages` | pages with a signed cursor over a changing catalogue | the manifest is the set of readable products |
| `LiveReads` | a live read across its one await | each platform's validators are one verdict, `Flaws`; the check of the installation, which never changes once bound |
| `LocalCalls` | the four above in one specification | each behaviour exercises one |
| `EmailArchive` | the archive as relay and history page use it | encryption; a copy is one of a few values |
| `OrderHistory` | passes over the index, leases, rebinding, the report | accounts are numbers in index order; validation is one failure |
| `InstallationFiles` | the secret in `.env.local`, what is sealed by it, backups and restores | a secret is the number of its creation |
| `ServerCopies` | the three above in one specification | each behaviour exercises one |
| `Heartbeat` | callers, attempt states, cool-downs | a call without a stored credential, which returns at once |
| `ServerLoops` | the relay, pull and heartbeat loops | a run is its begin and its end |
| `ShopWorkers` | scans, generations of workers, their source turns | relay and history loops of a worker, of the same form |
| `ServerRuntime` | the three above with `OutboxRelay` | each behaviour exercises one |

Launcher and browser:

| Module | Models | Abstracts |
| --- | --- | --- |
| `UpdateLauncher` | launcher, queue, server child, the files that survive, a request that cannot be read | a build is named by its request |
| `VerifiedRelease` (extends it) | the downloads and comparisons of a preparation, publications meanwhile | an edition is the content of one publication; a wrong version or a full disk is `PrepareFails` |
| `UpdatePage` (extends it) | the update area of the dashboard, polls and posts | polls that are ignored are left out; only in a violation run |
| `SessionRefresh` | overlapping requests over rotating tokens | token pairs are numbered in order of issue |
| `LoginFlow` | start, callback, logout in several tabs | state, verifier and grant are the number of the login |
| `WorkspaceSetup` | the setup of a shop's vault, step by step | workspaces enabled and offered by the Cloud |
| `EntitlementView`, `FirstSteps` | `Dashboard.tsx`: entitlements, refreshes, retries, logout; the steps after login | billing notices, navigation |
| `EmailReview`, `MemberInbox`, `EvidencePages` | queue of emails, messages, audit and orders | rendering; a mail is its id and the copy shown |
| `AgentReport`, `ShopSettings`, `ConnectorConsent`, `SyncHealthView` | report and recommendations, shop settings, keys and agreement, synchronization health | formats, locales |
| `PlanChange`, `FundingOffer` | reviews and purchases in several tabs, offers and their links | one review at a time; expiry of an offer is an event without a clock |
| `DashboardViews` | all views, login, setup and session in one specification | each behaviour exercises one |

`MC*` modules only hold symmetry and legacy rows for TLC, `*Proofs` theorems and their proofs.

**Why sums.** `LocalCalls`, `ServerCopies`, `ServerRuntime` and `DashboardViews` choose at the start
the part a behaviour exercises, and the others keep still. The parts they join share no state any property
speaks of, so a product of them would only multiply the states; as a sum they share a run, and theorems are
about the specification that is checked. Where components do interact they are one state machine:
`SourceSync` and `OutboxRelay` over `LocalVault`, `VerifiedRelease` and `UpdatePage` over `UpdateLauncher`,
`AgentReport` (report and panel), `LoginFlow` (tabs and cookies), `InstallationFiles` (setup, server,
backup).

**How state and actions correspond.** Tables are variables, a transaction is an action, and a function with
awaits is cut at each of them, with what it holds between them in a variable of its own (`turns`, `pc`,
`asking`, …). `LocalVault`: `records`, `watermarks`, `outbox`, `nextId` (its AUTOINCREMENT), `bound`;
`PutPage` is a sequence of `putInTransaction` with `cleanup()` inside; `VaultInit` the back-fill of the
constructor over `Legacy` rows. `SourceSync`: random tokens are the number of their claim, `Answer` is
any page the connector may sign for the cursor it was asked for, `Crash` leaves the lease, `NewStream` is a
reinstalled connector. `OutboxRelay`: `Fail(c)` is an exception at any await, a batch on its way may still
arrive (`late`), `Restart` forgets memory. `UpdateLauncher`: `pc` names the place between two awaits, `Die`
loses memory, `Load` rebuilds it; the POST route is `Reserve`, `Publish`, `CannotPublish`.
`EmailArchive`: opening cleans, so every action starts from the cleaned state `o`, and `Replied` loses any
answer. `OrderHistory`: `Claim`, `ReadIndex`, `ReadHistory`/`FinishEmpty` are one turn cut at its awaits; an
index answer is any set that includes `steady`. `Heartbeat`: a caller reads the credential, finds the
attempt state, checks the server, asks the Cloud. `ShopWorkers`: a worker is a shop and a generation. In
the views, a request is what it was asked for plus its sequence number; the Cloud's answers are any the code
accepts, and an answer the code drops is left out.

## 3. Properties

`PROJECT.json` lists 40 hazards with the properties that are about them. To know first:

- `VaultMatchesCursor`, `OpenReadsSeeSnapshots`, `BoundedStaleness`, `LastClaimWins`: rows and cursor move
  together, readers see complete passes only, never stale by more than the deadline and a lease.
- `NeverResurrected`, `RowIsTheWatermark`: no revision that was left behind returns, also after its row expired.
- `InvitedReadIsServed`, `DeliversSignals`, `OutboxDrains`: every change reaches the Cloud or expires, and what it reads because of a signal is there.
- `ExecutedOnce`, `WritesOnce`: a signed call or a repeated write takes effect once.
- `ChainIsOneCatalog`, `ServedIsCurrent`: what is handed out across pages or awaits is of one state.
- `OneTurnAhead`, `OneAttemptPerState`, `RevokedReadsClose`, `RequestedRunPulls`: the loops neither double nor stop, a shop
  that is not granted is not read, and a run that is asked for gets a turn of its own, which pulls unless its heartbeat is refused.
- `SelectedBuildIsProven`, `SnapshotIsComplete`, `BuiltIsReleased`, `TakenOnce`, `RequestEnds`: an update can stop anywhere, and a request comes to an end unless a launcher that starts cannot read it.
- `ShowsWhatWasSent`, `CopiesAreKept`, `ReportIsWhole`, `SealedStaysReadable`: copies, reports and sealed credentials.
- `CodeMeetsItsVerifier`, `SessionGoesForward`, `VaultIsOfItsShop`: login, tokens, setup.
- `ApprovedWasPreviewed`, `ConsentIsToWhatWasShown`, `ShownIsOfTheChoice`, `PurchasesAreMadeOnce`, `GreenIsRecent`, `ShownIsNewest`: what the user sees and agrees to is what is acted on.
- `StepsAreReal`: a setup that threw is tried again while connected (one that returned counts as settled, observation 14), and
  beside the alert of the checklist nothing of source and synchronization is shown as verified, no email as reviewed that
  the browser does not remember. The steps of account and shop are not part of it (`SetupChecklist.tsx:65-66`).

## 4. Runs

| Run | Module | Instance | Shows |
| --- | --- | --- | --- |
| `source` | MCSourceSync | 2 pullers, 2 references, 2 streams, 2 claims, legacy rows | snapshot, staleness, lease (2.0 M states) |
| `relay` | MCOutboxRelay | 2 callers, 2 references of 2 revisions, batch of 1 | safety of delivery, refinement of `SignalDelivery` (0.55 M) |
| `local_calls` | LocalCalls | 3 messages and 2 handlers; 3 writes, 2 keys, room for 1; 3 products in pages of 2; 2 secrets and accounts | replay, compare-and-set refining `OnceRegister`, pages, live reads (0.79 M) |
| `server` | ServerRuntime | 1 shop in 2 generations, 3 loops, 3 callers of 2 directories with 2 credentials and room for one state, 2 signals | loops, heartbeats, liveness of workers and relay (0.18 M) |
| `copies` | ServerCopies | 3 deliveries with one place each; 3 accounts in pages of 2, 2 workers, 4 turns; 2 setups, 2 directories | archive, order history, sealed credentials (2.4 M) |
| `updates` | VerifiedRelease | 2 requests, 3 editions of which 2 genuine | selection, backup, queue, contents of builds, end of requests |
| `dashboard` | DashboardViews | two of each: plans, shops, emails, copies, messages, logins, tabs; 3 requests over 2 rotations | the thirteen properties of views, login, setup, session (1.0 M) |
| `update_server`, `update_retry`, `update_stuck`, `session_late`, `session_stored` | | one or two requests | findings, section 7 |

Bounds, and why they are enough. A clock goes past one retention and one more step, so that what expired
can come back; leases, windows and deadlines are one or two ticks, so "alive", "at the limit" and "over" all
occur and a late answer can outlive its lease and its successor. Two references are needed for a page that
is partly refused and for a signal behind another; a page of two over three accounts or products for a
second page. Two pullers, workers, tabs, setups or requests are enough for one late answer: a third could only
repeat what a second does with a token or sequence number of its own; three heartbeat callers let one wait while
two states of one directory exist. The source run has two claims: reopening after an abandoned lease is left to
the theorem `OnlyACompletePassOpens`, which has no bound. Four turns of the history are a pass of three
accounts and a turn that begins the next. Three editions are one built, one not genuine and
one published meanwhile; two requests give a current, a previous and a candidate build. Two rotations give
a cookie two steps behind. Two editions of an agreement, two pages, two lists are one shown and one that has
replaced it. `IntentLife = 0` stands for an intent that has expired by the next hour. Limits on rows and
watermarks are as large as the references, so they are not what the runs are about. All counters
(`MaxClaims`, `MaxTime`, `MaxRev`, `MaxRequests`, `MaxPair`, `MaxGen`, …) appear in guards.
`CHECK_DEADLOCK FALSE` is set where a bounded clock or counter stops; the launcher runs check deadlock.
The clock of browser and server is one in `SyncHealthView`, and timers fire on time there: a browser may hold back those of
a tab it suspends. Four restarts are what it takes to reach the bound of `GreenIsRecent` exactly. A request is spoiled
only where the launcher has died.

Symmetry is used for references, callers, messages, workers, bindings and copies, in runs of safety
only; deliveries and accounts are ordered, so they are not symmetric.

**Fairness.**
- `RuntimeFairness`: `lib/server-data-relay.ts:63-66` schedules the next run after each, and every await has
  a timeout, so beginning and ending a run are weakly fair, as are the scan of `server-workspace.ts` and a loop's own
  steps. Strong fairness of collecting, accepting a whole batch and hearing of it is what is assumed of the
  Cloud and the network: of the batches offered for ever, now and then one gets through. Nothing is assumed of
  requests, grants or the end of a back-off, so `RequestedRunPulls` holds even if a back-off never ends.
- `ReleaseSpec`, `FairLauncherSpec`: the launcher goes on (weak), the service manager starts it again
  (`docs/INSTALLATION.md:198`), a POST ends, and the launcher does not die each time before it has looked
  for an interrupted request (strong fairness of `DropRequest`, which is enabled only for a request that can be read: one
  that was spoiled by a death is never dropped, `CannotLoad`). The findings' runs have no spoiled request (`Spoils = FALSE`).
- `ViewFairness`: timers fire, and a hidden page is looked at again.

## 5. Proofs

TLAPS proves these for all values of the constants that satisfy the named assumptions.

- **LocalVaultProofs.** `VaultInv` adds to the types and `RowIsTheWatermark`: `SignalsBehindMarks` (a signal is never ahead of the
  watermark of its reference) and `RowsLeaveByExpiry` (a watermark whose time is within the retention has its
  row). That a live signal has its row depends on the watermark, which is older than the signal's own time only by
  the order of revisions, so `SignalsAreReadable` is not inductive without the two.
- **SourceSyncProofs.** `SyncInv` has the vault's invariant and `CursorInLog`, `LeaseIsLast` (the lease in the
  row is of the last claim), `UnboundIsUntouched`, `PagesAreAnswers` (a page in hand is part of the stream it
  names, from the cursor that was leased), `ReadyCovers` and `VaultMatchesCursor`. That a late page cannot be
  applied twice is `LeaseIsLast` with the cursor check; `BoundedStaleness` follows from `ReadyCovers`.
- **OutboxRelayProofs.** `RelayInv`: an id names one signal for ever, the watermark is not behind any signal
  the Cloud knows, an answer names signals that were taken. `RelayDelivers` is the refinement: `RelaySpec`
  implements `SignalDelivery` under *pending* = outbox, *offered* = batches on their way, *known* = taken,
  *dead* = expired. Each action maps to a step or a stutter.
- **LocalCallsProofs.** Four invariants over `CallsSpec`. Signed requests: a handler that waits has checked the
  time, and what was carried out keeps its nonce until its window is over: `Keep >= 2 * Window + Body` (360 s,
  120 s and 5 s in the code); the rate needs `RateSpan <= Keep`. Private states: a write is stored once, for its
  base was stored before it (`BasesWereStored`) and a stored write that may still be repeated is either current or
  superseded (`Patience <= KeepState`: how long the Cloud repeats is an assumption). Catalogue: what a reader holds
  is the part of its cursor's manifest up to the last product it got. Live reads: what is served was checked against the source after the answer had come.
- **ServerRuntimeProofs.** `LoopOK` and its form for generations: turns under way plus timers armed are one while a loop
  lives, and at most one once it was left; a caller that owns an attempt state is past the reading of its credential,
  and a state is running exactly when somebody owns it.
- **UpdateProofs.** `LauncherInv`: pointer and memory name the same builds at every stage but one, the child is the build
  the stage says or none, the queue's lock keeps one request from its publication to its end. A candidate is
  therefore never a build that is there already, which is what `SnapshotIsComplete` needs. `StagedInv`: an
  archive that was fetched was released, a tree that was unpacked is genuine, and what is built is what was unpacked.
- **CopiesProofs.** `CopyInv`: while a copy is archived, the last answer about it named that copy. `HistoryInv`: the
  steady accounts up to the cursor are stored under the pass's cycle since it began (`Behind`), those ahead that
  its page reaches are pending (`Ahead`), and the turn that holds the lease speaks of the row's pass; that
  `NextIn` skips no account is `PageIsWhole`. `FilesInv`: while nothing is lost there is one secret.
  `CopiesAreKept` is about what cleaning takes: who is not among the first n of a table has n before it that are
  (`TopCovers`, by one of those left out with the fewest before it), so a copy goes for enough later ones
  (`CleanedTakes`). A confirmation cleans twice, and what the second takes of those goes for ones later still
  (`TwiceCleanedTakes`). `KeepInv`: a noted conversion is the Cloud's, and what was sent was sent at some time.
- **DashboardProofs.** Twelve of the thirteen properties of the `dashboard` run, about `DashboardSpec`. `DashboardInv`
  is an inductive invariant for each view; `OfOneView` says that a step of the dashboard is a step or a stutter of every
  view, which lifts the lemma for a view's step to the specification. None of the properties is inductive alone:
  - A superseded answer is harmless because of what is known of the request in force. `EntitlementInv`: it was sent
    after every logout and after what is shown was answered. `EvidenceInv`, `PagesInv`: it is for what is chosen.
    `FundingInv`: a link that was not aborted was asked for under the offer held. `InboxInv`: no list under way is older
    than an acknowledgement that was answered. `ReportInv`: a panel stands only inside the report of the shop selected,
    and all it holds is of that shop. `SettingsInv`: what is written is for the active shop unless it was left uncovered.
  - `ReviewInv`: while an email was acted on and no page read since, either the action is under way, an error is
    shown, or the page asked for after it is on its way; `ConsentInv`: whatever replaces the document has cleared the box.
  - `IntentsInv`: all that was sent goes back to an intent that was generated once, for one purchase, and the one that
    is stored for a purchase is the last one used there; an older one is over (`Usable`).
  - `LoginInv`: the cookies of state and verifier are always of one login. `SetupInv`: a grant and what a request was
    told name an installation made for the shop, and a request writes to a vault bound to the installation it carries.
  - `HealthInv`: what is shown as verified was good (60 s) when the page was last drawn, and nothing keeps the check of the
    interval from an answer for long (`NextCheckSoon`): whatever replaces a check draws the page, except the delayed check of
    a retry, which begins `RetryDelay` after the drawing at the latest (`StillGood`), and the interval's own. An answer, a
    change of shop and a failure draw the page anew. So restarts need not be counted.
  - `SessionInv`: a pair that was replaced was due for a refresh then; a request that holds a replacement was given it
    within `Reuse` of its issue and answers within `Patience`. So what a response puts into the browser is not yet due,
    hence the newest pair, when `Life >= Skew + Reuse + Patience` (900 s, and 30, 10 and 60 s in the code). The module assumed
    `Life > Skew + 2 * Patience` before, which leaves out the sharing and asks for a call too many.

The constants' assumptions are evaluated by TLC in the runs. Most say that a value for "none" (`NoOffer`, `NoHealth`,
`Unset`, …) is none of the records it stands beside, which the code has by `null`.

Only model-checked: liveness (`OutboxDrains`, `RequestEnds`, `RevokedReadsClose`, `RequestedRunPulls`,
`ErrorsAreRetried`), which with fairness and ENABLED is out of the prover's reach.

## 6. Not modelled

- Clocks that step back: all modules take the clock of the installation as monotone; the code has a
  tolerance of 5 s in `requireSourceFresh`.
- Signatures, encryption, field validation: an answer that is not accepted is a failure.
- SQLite itself: a transaction is atomic and durable.
- The race for `launcher.lock` (two launchers that start together), the temporary files of status.json, and
  a staging directory left by a death, which is never used.
- The order of prerelease versions: editions are numbers (observation 16).
- The credentials' `cloudUrl` and `clientId` in `InstallationFiles`, and a session secret from anywhere but `.env.local`.
- A second tab that stores an intent between the reading and the storing of one (`PlanAndData.tsx:222-236`): `CheckOut` is one step.
- The expiry of a cookie by itself; the prompt to connect again after a refused plan change.
- Partner and agent pages, Cloud proxies, doctor and readiness tools, packaging and smoke runs: forwarding,
  presentation or sequential checks that keep nothing between calls.

The body wait (`local-data-handler.mjs:23`) arms its timer again for each chunk, at least 1 ms; `Body` is an
assumption on how long that goes on. The Cloud, the connector and the browser's user are external and modelled
from how the code uses them.

## 7. Findings

- `update_server` (`WaitsWithServer`): an exit of the server while `switching` is set is ignored
  (`start-standalone.mjs:54`), and after a failed activation whose old build is not healthy the launcher waits
  with no server.
- `update_stuck` (`WorkIsReported`): an exit of the server during preparation leaves the loop before any final
  status (line 138); the request is removed, and the page shows work for ever.
- `update_retry` (`OutcomeIsOfThisAttempt`): the first poll after a retry may take the status of the failed
  attempt for the outcome of the new one (`LocalUpdate.tsx:34`).
- `session_late` (`SharedReplacement`): a rotation is shared for 10 s, but its cookie travels with a call that
  may take 60 s; a request in between uses the old token again, and the session ends.
- `session_stored` (`BrowserHasReplacement`): when a credential that came with a rotation cannot be stored, the
  response keeps the old cookie.

## 8. Observations

Behaviours met while modelling that no document, comment or test speaks about, that the models allow
without a property against them, or (20) that no run shows.

1. A load of the dashboard that is superseded by a silent one that fails leaves "loading" with no retry.
2. A 429 answered to an action of the plan page during an error consumes the retry timer (why `ErrorsAreRetried` excepts it).
3. A load sent after the Disconnect click but before the answer of the logout can show "connected" again.
4. `EmailApprovals` takes the list of shops as constant; so does `EmailReview`.
5. Writes of `CloudConfiguration` are not guarded by the active shop: only the busy flag keeps them apart, and it
   is cleared by whichever operation ends first; a list of shops may withdraw the active one.
6. Two tabs may select different plans between the selection and the checkout (`PlanAndData.tsx:205-237`).
7. Two login tabs: the first callback deletes the cookies of the second, which then has to start again.
8. A late logout response deletes a session obtained meanwhile, and a late response of a call may set the cookie after a logout.
9. A failing list of shops in `JourneyAudit` and `ConvertedOrders` clears the loading state of a load under way; the
   note about emails is not guarded by the context it was asked under.
10. Two overlapping setups may save the older credential or secret last; the heartbeat token at the root may be
    of another installation than the vault there.
11. The check after a retry in `SynchronizationHealth` uses the shop of the click and supersedes the current load;
    restarts postpone the verification each time.
12. A background refresh of the funding aborts a support request under way, whose tail then shows the error "unavailable".
13. `PartnerProgram` loads without a sequence guard.
14. `FirstSteps`: a bootstrap that returns early is not tried again until the next connection.
15. `setup-community` rewrites `.env.local` in place: an interrupted write loses the session secret, or leaves
    32 characters or more of it that are taken for whole; two first setups at once create two secrets; a backup in
    between may hold an empty file. `lost` in `InstallationFiles` is exactly this, and `SealedStaysReadable` holds without it.
16. `isNewerVersion`: of the prerelease parts "01" and "1" each is newer than the other.
17. `startSubscription` of `PlanAndData` goes on after the page is left, and redirects.
18. In the waiting loop an unreadable request.json leaves `queue.lock` (`start-standalone.mjs:121`) until a start that gets past it (19).
19. A launcher that finds a request.json it cannot read throws before it has removed it (`start-standalone.mjs:96-100`):
    it ends, and so does each that the service manager starts after it, until someone removes the file. `RequestEnds`
    says a request ends unless this happens (`DiesAtStart`).
20. A list of shops that cannot be read, or a retry that is refused, clears nothing in `SynchronizationHealth`
    (lines 121, 142): the last state stays beside the error until a check ends or the page is drawn after the 60 s, while
    `docs/USER_GUIDE.md:150-151` and `166-167` say that a failed refresh clears the previous green state. No run is about
    it; `GreenIsRecent` bounds how old such a state may be and says that none stands beside a check that failed.

## 9. Plan

Done: the modules of section 2, in the order vault, pull, relay, launcher, session, signed calls, archive,
history, then private state, live reads, loops, workers, heartbeat, release, setup, files, and the views; the
eight proof modules. Every invariant and every action property of the runs is a theorem; liveness is model-checked.

What would come next: the relay and history loops of a worker's generation in `ShopWorkers`; two launchers over
`launcher.lock`; the order of versions as a checked algorithm.
