# PocketLedger: specifications, model checking and proofs

This directory specifies the parts of PocketLedger whose correctness depends on
the order in which things happen: requests that overlap, a background worker that
repeats itself, services that tell each other about a change over HTTP, a cache in
front of the database, and pages that go on while their requests are under way. Each
part is a TLA+ module translated from the C# or JavaScript code.
TLC checks the modules on small instances; TLAPS proves the safety results that
matter most for every number of users, requests, sessions and changes.

Contents: [1 Inventory](#1-inventory) ·
[2 Modules](#2-modules-and-how-they-correspond-to-the-code) ·
[3 Runs](#3-runs) · [4 Proofs](#4-proofs) ·
[5 What the work found](#5-what-the-work-found) ·
[6 Not modelled](#6-not-modelled) · [7 Order of work](#7-order-of-work) ·
[8 How to run](#8-how-to-run)

Paths below are relative to the repository root; `Infrastructure/...` is short for
`src/PocketLedger.Infrastructure/...`, and so on.

## 1 Inventory

PocketLedger is five ASP.NET services and five libraries.

| Service | Role | State it keeps |
|---|---|---|
| Web (`src/PocketLedger.Web`) | MVC pages, the browser's only counterpart (backend for frontend) | `bff_sessions` rows with encrypted tickets, in-process refresh locks |
| Api (`src/PocketLedger.Api`) | finance data over HTTP, hosts the recurring worker | PostgreSQL finance tables, `blocked_users`, Redis/Valkey cache |
| Identity (`src/PocketLedger.Identity`) | OpenIddict server, accounts, administration, data keys | users, tokens, key hand-over tickets |
| Landing, Docs | static pages, contact form | none that matters here |

`Domain`, `Application`, `Contracts`, `Infrastructure` and `Security` are libraries;
the finance logic is in `Infrastructure/Services`.

Interactions: the browser talks to Web; Web calls Api with the session's access token
and redeems refresh tokens at Identity; Identity pushes blocks, unblocks and deletions
to Api and Web over internal endpoints and repeats the whole list every 30 seconds; Api
reads the revision in PostgreSQL and the results in Redis; the worker in each Api
process writes to the same tables as the requests. The scripts of the pages
(`wwwroot/js`) send requests of their own and put the answers into the page the user is
working on.

| Component | State and operations | What is hard | What makes it correct |
|---|---|---|---|
| Financial cache | revision row per user, changed by triggers; entries keyed by revision; `GetOrCreateAsync` | a fill races a commit; cached reads nest; Redis fails | a caller cannot tell the cached read from the plain one |
| Debts | debts, operations, automatic payment, account's `InitialBalance`; create, edit, operations, close, reopen, delete | some operations lock, others do not; the worker pays as well | never overpaid, closed means repaid, deletion keeps balances |
| Recurring transactions | templates, occurrences; create, edit, delete, worker pass | several workers, crash, retry, edits while a pass runs | each date once, none for deleted or switched-off templates, none forgotten |
| Session refresh lock | dictionary of reference-counted semaphores; acquire, cancel, release | retirement races a lookup, cancelled waits | one lock per session, no leak, nobody left waiting |
| BFF sessions | rows, tickets, refresh tokens; sign-in, authenticate, refresh, sign-out, revoke | read-then-save against removal and revocation | an ended session stays ended, a refresh token is used once |
| Access blocking, account deletion | flag in Identity, row in Api, sessions in Web; block, unblock, delete, synchronize | lost, late and reordered calls; stale lists; failures between steps | a block holds, the decision arrives, deletion continues only behind a block |
| Request activity (administration page) | filters, list of addresses, details with ban forms; load, inspect, ban | overlapping loads and details, early returns, late answers | a ban is for the address above its form; results, details and list belong together |
| Planner page | switch, opening balance, pause, notes; each saves by itself | an answer replaces forms whose own save is under way; lost answers; typing during a save | the page shows what is stored, its forms stay alive, the status is true |
| Planned item form, amount fields | two lists, selects, hidden amounts; a text that is reformatted | one choice changes the others; formatted text is parsed again | what is posted is what is shown, and keeps the rules of plans |
| Currency settings page | list, editors, two selects | keys after additions and removals, four places to keep in step | each format is posted once |
| Accounts, categories, goals | CRUD, balance correction, two-level tree, contributions | read-modify-write without locks | see section 6 |
| Planner | a record and a snapshot per month, plan items; show a month, edit it, and a refresh in every finance write | no job closes a month; dates read before the lock or twice; time zones; missed months | a closed month stays as it was saved, a refresh never undoes an edit |
| Transactions, statistics, calendar | CRUD and sums | mostly arithmetic | covered only through debts and the cache |
| Import, export, backup | file formats, restore, validator | an export spans many reads | see section 6 |
| Session keys and hand-over | one-time tickets between Identity and Web | take is read-then-delete | see section 6 |
| Registration and sign-in, telemetry, CrowdSec, key rings, menus, charts | forms, aggregates, external calls | mostly I/O | see section 6 |

`PROJECT.json` lists every component with its status, and under `hazards` each place in
the code that is hard to test, with the properties that cover it.

## 2 Modules and how they correspond to the code

`PROJECT.json` maps each definition to its lines. A module per component comes with a
`...Proofs` module and, where constants need definitions, an `MC...` module.

### FreshReads, FinancialCache

`FreshReads` is what a caller is promised: a read answers with the database as it was
at one or several moments (queries run one by one) between the request's begin and its
answer. `FinancialCache` is `FinancialCache.GetOrCreateAsync`
(`Infrastructure/Services/Caching/FinancialCache.cs`) with the statement triggers of the
migrations, for one user (the user id is in each key).

* `commits` names the database state; the value of a query is the commit it saw.
  `revision` is the user's row, `store[r][op]` the Redis entry, `call[c][level]` the
  progress of a call; `"inner"` is the cached read another cached read uses.
* `Commit` is a finance transaction with its trigger (a fresh uuid). `ReadRevision` /
  `ReadNoRevision`, `Hit`, `Miss`, `LookupFails`, `Query`, `Use`, `Used`, `Fill` and
  `ReturnUnstored` are the steps of the code between its awaits; `Expire` is the
  time-to-live or an eviction; `Leave` is a request that is cancelled.

`CacheIsInvisible` is the refinement: the cache implements `FreshReads`.

### DebtLedger

`DebtService` and the debt half of `RecurringTransactionWorker`. A request is two steps,
`Read` (its reads, with the advisory lock if the operation takes it) and the save named
after the operation. `Saved` is Entity Framework's `SaveChanges`: only columns
that differ from what was read are written, and the save fails as a whole when a row it
changes is gone. `StartPass`, `ReadOccurrence`, `PostOccurrence`, `FailOccurrence` and
`EndPass` are the worker; `tracked` holds the entities that stay in its context for
the whole pass and hide what others saved meanwhile.

Simplifications: the reads of one request are one step; all operations on an account
use the same account; names, dates, notes and funding warnings are left out. `Alone` and
`Outside` bound what requests may overlap (section 3). The recurring payments of debts are
created and edited with the debt: the Api's own endpoints for recurring transactions would also
edit one of a debt, but Web redirects such requests to the debt, and nothing else calls them.
`DeleteTemplate` is the one of them that is modelled.

### RecurringWorker

`RecurringTransactionService` and `RecurringTransactionWorker`. `StartPass` reads the
enabled templates, `Evaluate` computes one template's due dates and reads its processed
ones, `Post` is the database transaction that inserts a transaction with its
occurrence, `Fail` an exception or the unique index, `Crash` the end of the process.
`off` and `posted` are history: the days a template was not automatic, and how often
it was posted for a date. Dates are day numbers and a schedule is "every so many days".

### SessionLock, SessionRefreshCoordinator

`SessionLock` is a lock per session in three stages. `SessionRefreshCoordinator` is
`Web/Authentication/SessionRefreshCoordinator.cs`: `Get` and `Add` are the two halves of
`GetOrAdd`, `Enter` and `Retry` the block under the entry's monitor, `Wait`, `Cancel`,
`Release` the semaphore, `Drop` `ReleaseReference`. Entries are objects whose identity
matters: a retired object may be found by a request that looked it up earlier.
`IsSessionLock` is the refinement.

### BffSessions

`DatabaseTicketStore`, `AccessTokenHandler`, `BffSessionExpiredMiddleware` and the
sign-in and sign-out of Web; Identity's token endpoint is external (it redeems a refresh
token and issues the next one). The refresh lock is an instance of `SessionLock`, which
the coordinator implements, so the two modules compose. A ticket is a number: an
access token, its refresh token, and (`origin`) the sign-in it descends from.
`RenewRead`/`RenewSave` and `RevokeRead`/`RevokeSave` are the two halves of `RenewAsync`
and `RevokeUserSessionsAsync`; `Fail` is a request that ends in an error at any of its
awaits, and puts the successor it had in `lost`.

### AccessBlocking

`UserAccessPropagation`, `UserAccessBlockSynchronizer`, `UserAccountDeletionService`
(Identity), `BlockedUserService` and the block check (Api), the revocation endpoint
(Web). Each HTTP call is a record in `calls`; it is `awaited` until its caller gives
up, and may still be handled afterwards. `SyncRead`, `SyncSave` and `SyncRetry` are
`BlockedUserService.SynchronizeAsync` with its conflict and second attempt. `Change`,
`After`, `Answer` and `Fail` are the order in which block, unblock and deletion make
their calls; `Remove` is the last step of a deletion and leaves the tombstone. `row[u]`
is the age of the Api's row, up to `Grace`.

Simplifications: a revocation that arrives late is the same as a sign-out; a process
that stops is a call that is given up; the data of a user is one set. The deletion's data
call has a longer timeout than the pushes (100 s against 10 s); both are shorter than the
grace period of two minutes, which is all `MaxDelay < Grace` says.

### PlannerMonths

`PlannerService`, `PlannerHistory.RefreshAsync` and the part of
`PocketLedgerDbContext.SaveChangesAsync` that keeps the plans, for one user. `plan` is
what is committed. `Refresh` is `RefreshAsync`: `Created` the months it adds, `SettingsAfter`
and `ItemsAfter` what they take over, `Kept` the months whose snapshot is final, `RowAfter`
the record it writes. `Ask` and `Visit` are `GetMonthAsync` before and after it gets the
advisory lock; `Write` is any other finance write of the user, with `CatchUp` for the months
that ended unseen; `Post` is the worker, which skips the plans. An edit is `Begin` (lock,
`RequireEditableAsync`, the change; `draft` is its transaction) and `Save` or `Fail`, with the
clock running in between. `Tick` and `SetZone` move the date, also backwards.

Simplifications: a snapshot is what it was computed from (`Figures`), not the amounts; the
items of a month are distinct; a request spans the end of at most one month (`InTime`);
ten years ahead are `Horizon` months; restoring or deleting all data is left out.

### Pages, and a module for each page with scripts

JavaScript runs one handler at a time, so a step is a handler up to its next `await`, or
what follows one when its answer arrives; the interleavings are those of answers with the
user and with each other. A request can be refused or lost wherever the code has a
`catch`.

* `RequestActivity` is `Identity/wwwroot/js/request-activity.js`. `LoadActivity` and
  `LoadClientDetails` are the two functions up to their `await`; `Reject`, `FailLoad`,
  `Unavailable` and `Answer` are what `loadActivity` does with an answer, `AnswerDetails`,
  `DropDetails` and `FailDetails` the same for the details. `loads` and `inspections` are the
  requests under way. A ban reloads the page, which loads at once (`Reload`).
* `PlannerEditing` is the forms of `Web/wwwroot/js/planner-opening.js` for one account and
  one item. `Send` begins a save, `Commit` and `Render` are the server (what a section shows
  is the settings it was rendered from), `Apply` is `update()` with `initialize()`, `ShowError`
  the `catch` and `finally`. `instance` counts the replacements of a section: a handler whose
  form was replaced (`InPage`) changes elements nobody sees. `doubt` is history: the sections
  of which a page without push messages cannot be expected to be current.
* `PlannerNotes` is the notes of the same script.
* `PlannerForm` is `planner-form.js` with `planner-select.js`: `Sync` is `sync()` after
  `update()`, `OpenList`, `Highlight` and `Choose` are the lists, `Submit` the browser's
  validation and what it posts. Amounts are half units.
* `MoneyInput` is `money-input.js` on sequences of characters: `Parse`, `Render`,
  `FormatInput` and `RenderCanonical` are its functions.
* `CurrencySettings` is `settings.js`: `AddNew`, `Remove`, `ChangeDefault`, `RefreshDefault`.
* `Pages` composes them: `tab` is the page that is open, the variables of the others are
  `Off`. They share no state, which is why one run and one proof module serve all.

Simplifications: figures, charts, wording, the caret, categories, dates and previews are
left out; an amount field is never disabled while it is typed in; options that the page
gives for good (negative amounts, fixed decimals) are chosen at the start, in the
combinations the views use. A save of the planner page that failed for the page before the server
carried it out is taken to be over there too; rendering an answer is taken not to throw; in
`PlannerForm` an empty amount and 0 are the same.

## 3 Runs

| Run | Module | What it shows |
|---|---|---|
| FinancialCache | MCFinancialCache | two callers of a nested cached read race a commit: an entry under the current revision is current, and `FreshReads` is implemented (so an answer is no older than its request) |
| Debts | MCDebtLedger | two users and a worker with two payments in a pass, every operation: only a deleted operation leaves a debt overpaid, closed means repaid and not automatic, one recurring payment, deletion keeps the balance (there is one debt; two deletions are DebtDeleteRace) |
| DebtDeleteRace, DebtOverpaid | MCDebtLedger | violations, see section 5 |
| SessionRefresh | SessionRefreshCoordinator | three requests, two sessions, four entry objects: no leak, `SessionLock` implemented (so one holder at a time), waiters proceed |
| Recurring | MCRecurringWorker | two workers, edits, deletion, a crash: a date is posted once, never for a deleted template, never for days off; and although a template's first date always fails, every other due date is processed in the end |
| BffSessions | MCBffSessions | two requests and a revocation over three generations of tickets: ended stays ended, a refresh token is used twice only if its successor was lost |
| AccessBlocking | AccessBlocking | one user, two administrators: a block holds, deletion is behind a block, block and unblock arrive |
| AccessDeletedWrites | AccessBlocking | violation, see section 5 |
| PlannerMonths | PlannerMonths | a visit, an edit, a finance write and the worker over three months: closed months are frozen, months close as they were last saved, a refresh undoes no edit, plans follow each other without a gap and show the figures of the month before |
| Pages | MCPages | one property or two for each page, see the table of section 1 |
| MoneySubmit | MCMoneyInput | violation, see section 5 |

Each property of a passing run has a mutant in `PROJECT.json`: a plausible mistake in one
definition (a dropped guard, a missing reset, a swapped order) with which the same run
finds the property violated.

### Bounds, and why they are enough to be interesting

* `MaxCommits = 1`, two revisions: a fill that began under no revision or an old one,
  a commit in the middle and a lookup under the new one all happen. A second commit
  only repeats the first: an old revision never returns. The proof has no bound.
* `MaxOperations = 3` operations, amounts 1 and 2 on debts of 1 or 2: a debt can be
  paid in full, reopened by an increase and paid again; `MaxPerPass = 2` are two
  automatic payments in one pass, each racing two requests. `Alone` has the requests that
  take no lock and the deletion of a recurring payment: they are made, in any order, while
  no other request and no payment is under way. `Outside` has the requests whose effect on
  a debt the pass has already paid it does not see: they are made before the first payment
  of a pass or after it. Section 5 says what happens otherwise. The requests that lock overlap freely with each other and the worker.
* `MaxDay = 2` with an interval of one day: a template can be switched off for a day
  and on again, and a broken date can come before a good one. `MaxCrashes = 1`.
* Four entry objects for three requests: a retired object can still be held while its
  key has a new one. Two sessions show that entries are not shared.
* `MaxTickets = 3`: sign-in, refresh, and a sign-in again or a second refresh.
* `MaxChanges = 2`, `MaxCalls = 2`, `Grace = 2`, `MaxDelay = 1`: a block followed by an
  unblock or a deletion, with a list of the synchronizer and a push under way at once,
  one of them stale. Two users are independent but for sharing a list; the invariant was
  also checked for two.

* `MaxTime = 5` half months from the second, three months (`MaxMonth`), one of them ahead
  (`Horizon`): a month can be missed altogether, planned ahead, and be the current one
  again after a change of time zone. `MaxWrites = 1` finance write or worker post,
  `MaxEdits = 2` edits (plan an item, then delete or move its copy), one visitor and one
  editor: with two of each, which the lock orders, only the numbers grew.

* `MaxLoads = 3` loads of the list, so that two can be overtaken, and two addresses, one of
  them also spelled differently. `MaxSaves = 3`: two forms save and a third is replaced.
  Three accounts, two of one currency; amounts of 2 and 3 half units, one of which a
  currency without decimals shows shortened. Texts of up to `MaxLength = 6` characters of
  five keys in three formats. Three currencies and six keys (`MaxKey`), so that a key
  could come again after a removal.

`CHECK_DEADLOCK FALSE` is used where a run can stop: bounds are reached, or no user does
anything. `SessionRefresh` has no bound and is checked for deadlock. Symmetry is used in
safety runs only.

### Fairness

* Coordinator: threads run (`WF` on each request's steps), the refresh under the lock
  ends because the HTTP client has a timeout, and `SemaphoreSlim` hands its permit to
  waiters, hence `SF` on `Wait`. No fairness on asking or on cancelling.
* Worker: `BackgroundService` loops as long as its process lives (`WF` on its steps). `SF`
  on `Post` says that an error which is not in the data does not come back at every
  attempt; dates in `Unreliable` are exempt from it because `Post` is never enabled for them.
  There is no fairness on crashing or failing, and none on the user.
* Access blocking: the synchronizer's timer fires, its calls are handled or time out
  within `MaxDelay`, they are not all lost for ever, and a sign-in that began ends. No
  push by an administrator is assumed to arrive.

## 4 Proofs

All are for arbitrary values of the constants under the modules' named assumptions.
Those about amounts in `DebtLedger` have one hypothesis more, `Bounded`: the requests that take
no lock (`DeleteOperation`, `Close`, `Reopen`, `Update`) are made while nothing else is under
way, and those whose effect a tracked debt does not show (the same and `UpdateOperation`) not
between two payments of a pass. The code ensures neither; section 5 says what goes wrong without.
It leaves free how many debts, requests, workers, recurring payments, operations and payments in
a pass there are, and how `AddOperation`, `UpdateOperation`, `Delete`, `Create`,
`DeleteTemplate` and the worker overlap. `DebtAssumption` has finitely many debts, so that
balances are sums over finite sets.

Each proof module shows `Init => Inv`, one lemma per action for `Inv /\ [Next]_vars =>
Inv'`, and derives the properties from `Inv`.

| Theorem | States |
|---|---|
| FinancialCacheProofs: `Invariance`, `NoPoisonedEntry`, `FreshAnswers`, `CacheImplementsReads` | the properties of the run, that an answer includes every commit from before its request, and that each step of the cache is a step of `FreshReads` or a stutter |
| SessionRefreshProofs: `Invariance`, `OneRefreshAtATime`, `NothingLeaks`, `CoordinatorIsLock` | `Inv` of `SessionRefresh`, mutual exclusion, no leak, refinement of `SessionLock` |
| RecurringWorkerProofs: `Invariance`, `NeverPostedTwice`, `DeletedStaysSilent`, `OffDaysStayEmpty` | the safety properties of `Recurring` |
| BffSessionsProofs: `Invariance`, `TokensUsedOnce`, `EndedSessionsStayEnded` | the safety properties of `BffSessions` |
| AccessBlockingProofs: `Invariance`, `BlocksStay`, `DeletedStaysRejected` | the safety properties of `AccessBlocking` |
| PlannerMonthsProofs: `Invariance`, `ClosedStaysFrozen`, `RefreshKeepsEdits`, `NoMonthIsMissing`, `MonthsCloseAsSaved` | the five properties of `PlannerMonths`: `Inv`, `ClosedIsFrozen`, `EditsAreKept`, `PlansAreChained`, `ClosesAsSaved` |
| DebtLedgerProofs: `AtMostOneTemplate` | `OneTemplate` of `Debts`, provided that edits of debts (`UpdateAsync`) are made beside nothing else (`UpdateIsAlone`); every other request and any number of worker passes may overlap |
| DebtLedgerProofs: `ClosedIsRepaid`, `ClosedPaysNoMore`, `DeletionOnlyOverpays`, `BalanceKept` | the other four properties of `Debts`, within `Bounded`; `BalanceKept` also within `OneDeletion` (deletions of two debts do not overlap), without which DebtDeleteRace finds it violated |
| DebtLedgerProofs: `NothingOverpaid` | within `Bounded` and without deletions of operations no debt is ever overpaid; with them DebtOverpaid finds `NeverOverpaid` violated |
| PagesProofs: `ListsStayCurrent`, `ResultsBelongTogether`, `BansNameTheirAddress`, `LoadingEnds`, `FormsAlwaysLive`, `SettledShowsStored`, `NotesStatusIsTrue`, `SettingsAlwaysAgree`, `PostedPlansAgree` | nine of the ten properties of `Pages` |

Why the invariants are needed:

* *FinancialCache.* "The current entry is current" says nothing of a fill under way.
  The strengthening attaches to every revision the commit that made it (`RevisionBorn`)
  and says that all an entry (`EntriesFresh`) or a call (`CallsFresh`) knows under a
  revision was read at or after that commit. When the revision is the current one,
  that commit is the last one. For the nested read, the inner call began after the
  outer one read its revision (`InnerInOuter`).
* *Coordinator.* Two holders of one session must use one object: an object in use is the
  one in the dictionary (`Placed`), because its reference count is exact (`Counted`), it
  serves one key (`OneKey`), and its permit is out exactly while somebody holds it
  (`OnePermit`).
* *Worker.* What was posted has its occurrence as long as the template exists
  (`Remembered`); automation started after each day off, in the row and in what a pass
  has read (`StartedAfterOff`).
* *BffSessions.* Who presents a token holds its session's lock (`LockHeld`), a ticket is
  in one session only (`OneSession`), a successor not saved yet is known to its request
  alone (`NextFresh`), and a stored ticket is unused unless the holder of the lock is
  replacing it (`StoredUnused`).
* *AccessBlocking.* A list without a blocked user was taken before the block, so it is
  older than the row and cannot remove it (`OlderThanRow`, from `MaxDelay < Grace`); no call
  mentions a user before the first change (`NothingEarly`); a caller waits for one
  call (`OneAwaited`); past its first call a deletion has its row (`DeletionBlocked`).
  The statements are about users who were never unblocked: see section 5.

* *PlannerMonths.* An edit commits its own transaction over the plan, so "a closed month is
  frozen" needs that the transaction has lost nothing that is committed and is about open
  months (`DraftKeeps`). `KeepsBut` is what a refresh, a catch-up and an edit each
  keep; it is transitive, so a save is a chain of four of them (`SaveKeeps`).
  That no month is missing needs the dates (`Chain`): `Reach` are the months that may have
  been today's for any request under way, which are at most one apart and only grow with time
  (`Dates`, `ReachGrows`). A plan begins with one of them (`Begins`), and so is the month after
  a closed one, which has a plan (`Followed`); the months a refresh creates therefore leave no gap
  (`NoGap`), and it leaves every month with what the one before it shows
  (`RefreshCompares`). That a month closes with the figures of the last save is then said of
  the write that closes it (`WriteCloses`).

* *Pages.* A late answer must not be taken for the one waited for: the number of every
  request is at most the last (`Numbered`) and the details asked for last name the address
  of the heading (`HeadingAgrees`). A save of the notes has stored what it
  was sent with until it is answered (`NotesInv`). The keys of editors are below the next
  key (`SettingsInv`). In the form, what is displayed of an amount is displayed of it again
  (`ShownTwice`), so that reading the displays once more changes nothing. In the planner's
  forms a save in the page is the only one of its form, because the form it came from is
  disabled and an answer that replaces the form leaves the save behind (`LiveInv`); a
  section in no doubt shows the stored settings or waits for the answer of a save that has
  committed, and the switch is ahead of them exactly while its own request is under way
  (`PageFollows`). At most one of the form's lists is open, so a choice that changes what the
  others offer finds them closed (`ListsInv`); the arrow keys move between options
  (`NeighboursAreOptions`, from the well-founded order of the numbers).
* *DebtLedger.* All saves but an edit switch recurring payments off at most (`OnlyOff`), and
  fail when one that they switch off is gone, also when a worker computed them from what
  it still tracked (`SavedBringsNothing`). An edit adds one only where it read none, and what
  it read is what there is, since it is alone (`EditIsCurrent`).
  The amounts need `Book`. What a request read is exact, because it holds the lock of its
  debt or is alone (`UserReads`). What a pass tracks is not: it is at most what there is, and exact
  as long as the debt is active (`Sees`, `Tracks`). That is enough, because a closed debt has
  nothing remaining, so that a payment computed from an old view of it fails. The amounts
  are sums over sets of operations; that a sum can be taken apart in any order is proved from
  a smallest set for which it fails (`Smallest`, `SumRemove`, `SumSame`), and what an operation
  does to the remainder from that (`RemainingAdd`, `RemainingShift`). For the balance, a
  deletion has read the initial balance as it is (`InitialSeen`), and what it takes away with the
  operations it adds to that (`BalanceStays`).

Only model-checked: the liveness properties `WaitersProceed`, `DueIsPosted`, `BlockArrives`
and `UnblockArrives` (the prover does not do liveness under fairness), and `PostsWhatIsShown`
(what a text becomes is computed character by character, with folds over sequences). Outside
`Bounded` the theorems about amounts are not true (section 5).

## 5 What the work found

Each of these is a run that TLC finds violated, and a finding in `PROJECT.json`.

* **DebtDeleteRace.** `DeleteAsync` locks its own debt only. Two deletions of debts
  paid from one account read the same `InitialBalance`, and the second save overwrites the
  first adjustment; the delete page promises that balances stay as they are.
* **DebtOverpaid.** `DeleteOperationAsync` may delete an increase that was repaid since:
  the debt is overpaid, and the backup validator refuses such a debt on restore.
* **AccessDeletedWrites.** The Api checks the block once, at the start of a request. A
  request that passed it can write after the user's data was deleted.
* **MoneySubmit.** Submitting a form parses the text of its amount fields, which shows at
  most the decimals of the currency's format. An amount of 7.5 in a currency that is
  formatted without decimals is saved as 7 by a form in which it was not touched,
  though the guide says that formatting changes presentation only.

Behaviour met while modelling that no run is kept for:

* The operations of a debt that take no lock (`Alone`) can overlap each other and the
  others: a debt can be closed while an operation is deleted, so that a closed debt is not
  repaid; two concurrent `UpdateAsync` can each create a recurring payment.
* A worker pass uses one context, and a debt that it paid once stays tracked: when a second
  payment is due in the same pass (the worker was down, or the schedule starts in the past),
  the query returns the debt as it was, with the operations recorded since but with the old
  original amount and status, and with operations that were replaced. An original amount raised
  in between is not seen: the worker closes the debt with an amount remaining, though the service
  says that only a fully repaid debt can be closed, and the advisory lock, taken for each
  payment, does not help. The bound `Outside` keeps such requests out of `Debts`; with
  `Outside = {}`, `Alone = {"Update"}`, `Kinds = {"Create", "Update"}`, `Originals = {2, 3}`
  and `MaxPerPass = 3`, TLC finds `ClosedMeansRepaid` violated. Operations recorded between
  two payments, deletions of the debt and of its recurring payment are safe, and in the run.
* A template that is switched off or edited during a pass is still posted as the pass
  read it. `NoBackfill` is about days before that day, which the code does protect.
* After an unblock, a second block can be undone until the next synchronization: a late
  unblock call deletes the row, or the old row keeps its old `BlockedAtUtc` and a stale list
  removes it. `BlockHolds` and `DeletedIsRejected` are about users who were never
  unblocked; `BlockArrives` is about all.
* An unblock during a deletion leaves an active account without data: the last step of the
  deletion fails on the concurrency stamp.

* A refresh of a session that read its row before a revocation saves its new ticket into
  the revoked row (`DatabaseTicketStore.RenewAsync`). The session stays unusable
  (`EndedStaysEnded` holds), but the tokens that were to be destroyed are there.
* An edit that begins before midnight at the end of a month and is saved after it is saved
  into the month that the same save closes: its item is in the closed month, but not in
  the month's snapshot, and was not copied to the next.
* A finance write merges the rows it read before the lock into the refresh, so a snapshot
  can show a column another request has just changed with its old value, until the next
  refresh. The model's figures are those of committed writes.
* A late answer of the request activity writes its address into the filter although an
  owner was chosen meanwhile, so that both filters are set and the next load is answered
  400. `request-activity.js:268` says that choosing one replaces the other, which is true of
  the user's choices.
* Two saves of the planner page can be answered in the other order than they were carried
  out, and the page then shows the older settings until its next save; `SettledIsShown` is about
  saves that did not overlap and answers that were not lost. An answer also discards what was
  typed into a form it replaces, and the error of a save whose form is gone is not seen.
* Decimal and thousands separators are free one-character inputs that only have to differ.
  With a blank or a digit as decimal separator a text is not read as it was rendered;
  `PostsWhatIsShown` is checked for ordinary separators. It is an invariant, about the form that
  is submitted next, because a submit after typing changes nothing.

## 6 Not modelled

* Cryptography (tickets, data keys, key rings), HTML, localisation, mail, external
  sign-in providers, CrowdSec's decisions, static sites: no state of their own
  that an order of events could damage.
* The halves of a user's data key in a session: a sign-in again can overwrite one half
  while a refresh saves the other. Taking a handed-over key is a read and a delete. What
  follows from either is a matter of cryptography, which is not modelled.
* Accounts, categories, goals: single writes with validation. Their overlaps are plain
  read-modify-write: the correction of an initial balance is the difference to a value read
  earlier, two contributions to a goal can lose one, two edits of the category tree that are
  valid alone can make a third level. `DebtLedger` shows the same pattern where the
  application promises something about it.
* Import, export and backup: formats, encryption, and a restore that replaces
  everything in one transaction. An export reads table by table while writes commit.
* Month lengths and time zones of recurring schedules: a schedule is every so many days.
* Menus, theme, charts, deletion dialogs and the landing page's scripts: they show a state
  and keep none that an order of events could damage. (The login link of the landing page
  follows whichever of two overlapping status requests is answered last.)
* Statistics and the calendar: sums over what they read; that they read
  consistently is `FinancialCache`.

## 7 Order of work

The most important behaviour came first: `FreshReads` and `FinancialCache` (abstract read,
cache, refinement), `DebtLedger`, `SessionLock` and `SessionRefreshCoordinator` (abstract
lock, implementation), `RecurringWorker`, `BffSessions` composed with `SessionLock`,
`AccessBlocking`, `PlannerMonths`, and then the pages, composed in `Pages`.

What would add most next: a proof of `PostsWhatIsShown`, and theorems about `DebtLedger` in
which operations that take no lock overlap, as far as anything holds of them.

## 8 How to run

    tlasany FinancialCache.tla
    tlc -workers 2 -config FinancialCache.cfg MCFinancialCache
    tlapm FinancialCacheProofs.tla

Each passing run ends within five minutes; the largest, `Pages`, has 670,000 distinct
states, and `FinancialCache` and `AccessBlocking` 300,000 to 420,000; each takes about a
minute.
