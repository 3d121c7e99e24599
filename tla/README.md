# finance.sh in TLA+

finance.sh is a multi-tenant finance application: a Go API over PostgreSQL
(`backend/`), an in-process job scheduler, and a React client (`frontend/`).
Its rows belong to organizations, its handlers read rows in one statement,
decide, and write in another, and what can go wrong in the server happens
between those two. In the client it happens between a question and its answer:
by then the dialog may be closed, the filter changed, the organization switched
or the user gone. These modules model both: who may be between which step and
which, and what must be true whatever the order.

Paths below are relative to `src/`; `internal/` stands for `backend/internal/`.

- [The system](#the-system): parts, state, operations, interactions
- [The modules](#the-modules): what each models and how it maps to the code
- [Runs and bounds](#runs-and-bounds)
- [Fairness](#fairness)
- [Proofs](#proofs)
- [Where code and documents part](#where-code-and-documents-part)
- [Not modelled](#not-modelled) and [Plan](#plan)

To check: `tlc -config MCLedger.cfg MCLedger`, and so on for each row of the
runs table; `tlapm LedgerProofs.tla`, and so on for each `*Proofs` module and
`Sums`.

## The system

| Part | State it keeps | Operations | What makes it correct |
|---|---|---|---|
| Ledger: `services/transaction_service.go`, `account_service.go` | `transactions`, `accounts` (both soft-deletable) | create, instalment purchase, update, settle, unsettle, bulk settle/unsettle/delete, delete a group, open/edit/delete an account | money is neither created nor lost in the balances read, an entry's accounts exist and are of its organization, a deleted entry stays deleted, a purchase's parcels add up |
| Cards: `services/credit_card_service.go`, `internal/cards/cycle.go` | `credit_cards`; invoices are computed, never stored | list and view invoices, pay, unpay, edit the card | each purchase is on one invoice, a closed bill does not grow, status only ages |
| Recurrence: `services/recurrence_service.go`, `recurrence/schedule.go`, `jobs/jobs.go` | `recurrence_rules` with a cursor (`next_run_date`, `occurrences_count`) | create, edit, delete, run now, the worker's `GenerateDue` | every due day is generated, once, within the rule's bounds |
| Sessions: `services/auth_service.go`, `repositories/user_repo.go` | `refresh_tokens`, `users.disabled`, two-factor challenges | sign in (with and without second factor), refresh, sign out, revoke, change and reset password, disable | one usable token per session, an absolute deadline, an ended session stays ended |
| Browser tabs: `frontend/src/lib/axios.ts`, `stores/authStore.ts` | tokens in localStorage and in each tab's memory | refresh under a Web Lock, rehydrate, sign out, forced sign-out | no tab is thrown out of a session that is not over; every refresh finishes |
| Members: `services/member_service.go`, `organization_service.go`, `lgpd_service.go` | `organizations`, `memberships`, `invitations` | found, change role, remove, invite, revoke, accept, erase an account | an organization has an owner, an invitation admits one user, erasure spares others |
| Retention purge: `jobs/jobs.go` | - | hard-deletes rows soft-deleted long ago | no foreign key is left dangling |
| Platform: `services/setup_service.go`, `admin_service.go`, `database/bootstrap.go` | `users.is_super_admin`, first-run state | initialize, bootstrap, register, disable, delete accounts | the first run happens once; an administrator remains |
| Second factor, lockout: `services/auth_service.go`, `pkg/totp`, `pkg/lockout` | secrets, recovery codes, counters with a time to live | enrol, verify, spend a recovery code | a code is used once; the limit holds |
| Statement import: `services/import_service.go`, `components/forms/ImportStatementModal.tsx` | transactions with external ids; the dialog's step, lines and ticks | choose a file, preview, review, commit | nothing is imported twice, an answer belongs to the visit that asked |
| Data import: `services/data_import_service.go` | - | restores an exported document into a new organization | all or nothing |
| Categorization, budgets, goals, contacts, tags, categories | their own tables | create, read, update, delete | tenant isolation |
| Dashboard and cache: `services/dashboard_service.go`, `pkg/cache` | a cached summary per organization | read through, invalidate | what is shown is not older than the last write |
| Attachments: `services/attachment_service.go`, `pkg/storage` | a row and a blob | upload, download, delete | no row without its bytes |
| Transaction drawer: `components/forms/TransactionFormModal.tsx` | the form, the debounced text, the suggestion filled in | open, type, choose, save; suggestions and account lists that answer late | what the user did not choose is announced |
| Catalog pages: `pages/*Page.tsx`, `components/bills`, `components/forms`, `hooks/*` | a cached list, a dialog that stays mounted | open, edit, save, row buttons, refetch, poll | a dialog saves once; what was written is seen |
| Filtered lists: `pages/TransactionsPage.tsx` and six more | filters, page, previous answer, selection | filter, turn, tick, bulk operations | bulk operations reach what the filters show |
| Navigation: `routes/*`, `pages/LoginPage.tsx` to `SetupPage.tsx`, `contexts/AuthProvider.tsx` | the location, the probe of the first run, the stored user and flag | sign in, second step, register, reset, verify, change password, wizard, redirects; an administrator's reset | redirects end; a forced change of password is made |
| Organization in a tab: `stores/authStore.ts`, `hooks/useOrganization.ts`, `lib/currency.ts`, `components/settings/*` | the stored session, the query cache, the active currency | switch, create, edit, import, `/me`, other tabs | what is shown is the organization's and the user's |
| Notifications, audit, reports, forecast, search | rows appended by the worker or a middleware; reads | - | - |

How they interact:

- **Through the database.** Handlers run concurrently, one goroutine per
  request. A few operations are one database transaction (generation of a rule,
  accepting an invitation, erasing an account, creating parcels, changing and
  resetting a password); the others are a sequence of statements, and nothing
  locks the rows read first. Only `generateForRule` takes a row lock.
- **Soft deletion.** A delete sets `deleted_at`. Foreign keys and the unique
  index on memberships still see the row; GORM's queries do not; and GORM's
  `Save` is an UPDATE that turns into an upsert, so that it can bring the row
  back. The purge removes it for good, later.
- **Calls.** Paying an invoice is `BulkSettle` of the rows the billing cycle
  selects. Erasing an account purges organizations. Deleting an account deletes
  its recurrence rules. The worker calls the recurrence engine, notifications
  and the purge in turn.
- **Inside a tab.** Pages share the query cache, whose keys carry the
  organization, and the stored session; a mutation names the families of
  queries to fetch again. Forms stay mounted while they are closed and are
  filled by effects, so that what an earlier visit started may still answer.
- **Between tabs.** Tokens and the session are in localStorage; a storage event
  makes the other tabs take them over whole, and keep their caches.
- **Between client and server.** A refresh may be repeated, raced by another
  tab, or answered to nobody; the server treats a rotated token that comes
  again as a copy, apart from a short grace.

The hard behaviours are therefore: a row that changed between its read and its
write; two requests that both passed a check only one should pass; work repeated
or skipped when the worker is restarted or overtaken; a lost answer; a month
that is too short; an answer that finds another dialog, filter, organization or
user than the one that asked. `PROJECT.json` lists each at the line where it
bites.

## The modules

| Module | Models | Used by |
|---|---|---|
| `Ledger` | accounts, transactions, the retention purge over them | `LedgerRefines`, `Balances` |
| `Balances` | the three queries that read the balances of accounts, over `Ledger` | `MCBalances`, `LedgerProofs` |
| `LedgerPromise` | the abstract ledger: open, record, amend, erase, close | `LedgerRefines` |
| `LedgerRefines` | the mapping from the one to the other (`KeepsPromise`) | `MCLedger`, `LedgerProofs` |
| `Recurrence` | rules, worker, run-now, edits, locks, restarts | `MCRecurrence`, `RecurrenceProofs` |
| `Calendar` | dates, month clamping, the four frequencies | `Schedule`, `Invoices` |
| `Schedule` | the dates one rule's cursor goes through | `MCBilling`, `InvoicesProofs` |
| `Invoices` | the billing cycle of a card over the days | `MCBilling`, `InvoicesProofs` |
| `Sessions` | refresh-token families and everything that ends them | `SessionTabs`, `MCSessions` |
| `SessionTabs` | a browser's tabs on top of `Sessions` | `MCSessionTabs.cfg`, `SessionsProofs` |
| `Members` | organizations, memberships, invitations, erasure | `MCMembers`, `MembersProofs` |
| `Frontend`, `DataHooks` | what the browser modules share; which families of queries each mutation invalidates | the six below |
| `TransactionForm` | the drawer that creates and edits a transaction | `MCScreens`, `PagesProofs` |
| `CatalogPages` | the pages with a list and dialogs, as one machine with a table | `MCScreens`, `PagesProofs` |
| `FilteredLists` | the lists read by filter and page, and their selection | `MCScreens`, `PagesProofs` |
| `StatementImport` | the import dialog and the import service behind it | `MCScreens`, `PagesProofs` |
| `Navigation` | routes, guards, the pages outside the application | `MCScreens`, `ScreensProofs` |
| `ClientData` | the stored session, the query cache, the active currency | `MCScreens`, `PagesProofs` |

A definition named `X` with a comment "Mutant" beside it is a plausible mistake
in `X`. No specification uses it; it serves to see that the properties notice.

### Ledger

A request is two steps: one that reads, checks and remembers in `requests[w]`
what it will write, and one that writes it. `Workers` bounds how many are
between the two. `txState` and `acctState` distinguish live, soft-deleted and
purged, because queries, foreign keys and upserts see different sets
(`LiveTx`, `Stored`, `SaveRow`).

| Action | Code |
|---|---|
| `Create`, `CreateInstallmentGroup` then `InsertRows` | `Create`, `createInstallmentGroup`, `buildEntity`; `TransactionRepository.Create`, `CreateMany` |
| `Update`, `Settle`, `Unsettle` then `SaveRow` | the handlers of those names; `repositories/transaction_repo.go` `Update`, which is GORM's `Save` |
| `BulkSettle`, `PayInvoice` then `SettleRows` | `BulkSettle`, `CreditCardService.PayInvoice` |
| `BulkUnsettle`, `UnpayInvoice` then `UnsettleRows` | `BulkUnsettle`, `UnpayInvoice` |
| `Delete`, `DeleteScoped` then `DeleteRows`, `DeleteInstallmentGroup` | `Delete`, `BulkDelete`, `DeleteScoped` |
| `OpenAccount`, `EditAccount`, `DeleteAccount` then `InsertAccount`, `SaveAccount`, `SoftDeleteAccount` | `AccountService` |
| `PurgeTransactions`, `PurgeAccounts` | `PurgeSoftDeleted` in `jobs/jobs.go` |
| `Fail` | any error at the write, or the process going down |

`Balances` adds `AccountRepository.Balances`, three queries without a
transaction: `ListAccounts`, `SumBooked` (what is booked on each account) and
`SumInbound` (what reaches each by transfer), with any step of the ledger
between them (`Meanwhile`) and `FailRead` for a query that fails. `net` and
`torn` are history: what the organization had earned when its rows were summed,
and whether one of its settled transfers changed between the two sums.

Which invoice a row belongs to is a month index in the row (`cycle`); `Invoices`
has the rule that computes it, and a parcel whose day was clamped may be one
invoice early (`ParcelCycle`).

`LedgerPromise` knows no requests, no soft deletion and no purge: accounts are
opened and closed, entries recorded on open accounts, amended, and erased for
good. `LedgerRefines` maps `live` rows to it. The purge and the reading steps
are stutters. The mapping holds for requests one at a time; with two, the races
listed [below](#where-code-and-documents-part) break it, which is what those
races are.

### Recurrence, Calendar, Schedule

`Recurrence` has who moves a rule's cursor and when; days are numbers and the
step is a number of days. `Lock` is the `SELECT ... FOR UPDATE` and re-read,
`Occur` one round of the catch-up loop, `Commit` the end of the transaction, so
that a restart, another process or an edit may come between any two. The
scheduler lists the due rules once per pass (`GenerateDue`) and visits them
later (`VisitRule`). `CreateRead` and `CreateInsert` are the two halves of a
creation, whose account is looked up in one statement and named in another, and
`UpdateRead` and `UpdateSave` those of an edit; `UpdateSave` waits for a lock
and then writes the whole row.

Two details of GORM are in the model: a rule is created active whatever was
asked (`Fresh`), and a saved row may get its old account back from the
preloaded association (`Apply`), which is left open as a choice.

`overtaken` is a history variable. It becomes TRUE when a row that an editor has
read (or the account it names) changes before the editor writes. The properties
about single generation hold until then; the run `recurrence_replay` shows what
happens afterwards. `deserted` holds the rules that a creation or an edit was
about to write when their account was deleted: they end up live on a deleted
account. `DueRules` joins the live accounts, which keeps the worker from them;
run-now looks at the rule alone and generates.

`Calendar` translates `recurrence/schedule.go` (`AddMonthsClamped`, `Nth`,
`Following`), and `Schedule` drives one rule's dates through occurrences and
edits in all four frequencies, on real dates.

### Invoices

The state is today, the card's two days and the purchases. `Reference`,
`Period` and `DueDate` are the functions of `cards/cycle.go`; `Status` and
`OnInvoice` what the invoice pages compute. `EditCard` regroups every purchase,
as in the code, because nothing about an invoice is stored, and `Redate` is an
edit of a purchase's date. `seen` is history: a closed bill somebody has looked
at (`ViewInvoice`) with the purchases on it. It is forgotten when the card's
days are edited or a purchase is dated back onto it, which is when a closed bill
does grow.

### Sessions and SessionTabs

A refresh is find, check the user, claim (`UPDATE ... WHERE NOT revoked`), and
insert the successor: four actions, with failure after the claim
(`RefreshFails`). `RefreshReuse` revokes the family. `ended` is a history
variable with the families somebody ended while no rotation was between its
claim and its insertion: such a rotation does not see the ending and stores its
token all the same. `passed` holds the users who were disabled while a sign-in,
a refresh or a two-factor challenge of theirs was past the check. Both leave
out exactly the window the code leaves open, and properties say what holds
outside of it.

`SessionTabs` composes the same server actions with the tabs of one browser:
`Arrive` and `Deliver` are a request's two journeys, `Lose` a lost one,
`Rehydrate` a storage event. `Persist` is the middleware that writes all five
fields of the store on every `set`, tokens included: `setUser`, a switch of the
organization or a change of the password in a tab that has not read the tokens
another rotated puts the old ones back (when the tab has read them the write
changes no token). `queue` is the Web Lock. `lost` records that the answer to a
rotation never arrived, `restored` that a tab stored such tokens, `out` that a
user signed out.

### Members

`Tenant` is the middleware that reads the caller's role once; the check and the
write of `UpdateRole` and `RemoveMember` are further steps, so that a role may
be stale by then. `AcceptInvitation` is the transaction that claims the
invitation and inserts the membership, undone when the unique index refuses it;
the index also sees soft-deleted rows (`Indexed`). `EraseRead`, `EraseCheck`,
`EraseCommit` are `LGPDService.DeleteAccount`, whose listing of memberships
precedes its transaction.

`joins` records who joined by which invitation. `overlapped` becomes TRUE when
two requests have been in progress at once; the guards of the last owner count
without a lock and are only claimed for requests that did not overlap.

### The browser application

React keeps state in components and effects. A definition here is a component's
render (what it offers), a handler, or an effect; an action is what a user, the
server, a timer or another tab does, with every effect that follows. Effects run
with the values of the render that scheduled them, and callbacks of a mutation
with those of the render that started it; where that matters, a request carries
what it captured. Fields nothing depends on are left out or are one field.

`TransactionForm`: `Ask`, `Suggested` and `ApplySuggestion` are the debounced
effect and its promise; `FillForm` the effect that fills the form and
`AccountsReload` its third dependency; `Saved` and `SaveFails` the mutations.
`picked` records whether the category in the form is the user's choice.

`CatalogPages`: `Page` is a table of seventeen pages: the list each reads, the
buttons its rows offer by role (`AccountCard`, `MemberRow`, ...), its dialogs
with the fields they require and what refills them, and its mutations. A request
is two steps, `ApplyWrite` at the server and `WriteSucceeds` or `WriteFails` in
the browser; `Invalidate` refetches what `DataHooks` lists and, as the query
library does, lets a refetch under way go when the list was loaded once.
`unseen` records that an answer was lost or came during the first fetch.

`FilteredLists`: `ListPage` is a table of seven pages. `answers` is the cache by
choice of filters and page, `previous` what `keepPreviousData` shows meanwhile.
`ClearSelection` is the effect that empties the selection when the filters or
the page change; it does not run when the answer comes and the rows shown
change. `seen` holds the rows the present filters have answered with since they
were chosen, `early` those ticked before their first answer.

`StatementImport`: the dialog's steps (`OpenImport` to the result), and the two
calls at the server, a preview and a commit that looks up the external ids of
the account and inserts afterwards. `heard` says whether a request's answer
still has somebody to go to: `Reset` drops it when the dialog opens again.

`Navigation`: `Public`, `PublicOnly` and `Protected` are the route table, and a
redirect is a step of its own; `local` is what the page itself keeps. `hops`
counts redirects since the location last settled or was chosen. The stored
session is whose tokens it holds (`visitor`) and the record of a user (`profile`,
with its flag `must`), which `setUser` replaces: a change of password writes to
whoever is signed in when it is answered (`UseChangePassword`), the confirmation
of an e-mail writes back the record of its page's last render
(`UseVerifyEmail`). `StorePassword` is the server's half of a change, whose
answer may be lost. `AdminResetPassword` sets the flag of anybody, signed in or
not, and `RequirePasswordChange` is the refusal by which a tab learns of it.
`crossed` and `stale` are history: a write to another user's record, a record
from before a reset. Simplified: other answers are computed when they arrive, an
administrator resets the password of each user of `Resettable` once, another
tab's record is its own user's, and a refusal comes to pages of the application
only.

`ClientData`: a request carries its header and, as `values.id`, the organization
whose key or form it came from. `Resend` is the interceptor that sends a request
again and takes the header anew. `Logout` forgets queries under way and keeps
changes, whose `onSuccess` still runs, in whatever session the tab has by then.
`moved`, `followed` and `late` are history variables for the three windows the
code leaves open: a request sent again after a switch, a user changed by another
tab, an answer after a switch or the end of the session.

## Runs and bounds

| Run | Configuration | What it shows | States |
|---|---|---|---|
| `ledger_race` | `MCBalances` | two tenants with overlapping requests, each naming any id, and the purge: foreign keys hold, no write crosses tenants; and the three queries of a balance read with writes between them: money is conserved unless a settled transfer changes between the sums | 321 k |
| `ledger_serial` | `MCLedger` | requests one at a time with a card, parcels and bulk operations: the refinement, whole groups, exact sums, no orphans | 722 k |
| `recurrence_edits` | `MCRecurrenceEdits` | worker, run-now, creations, edits, account deletion and a restart in any order: no day twice, exact count, live accounts | 1.8 M |
| `recurrence_live` | `MCRecurrenceLive` | fair processes with a restart: all due days are generated, no gap | 69 k |
| `recurrence_replay` | `MCRecurrenceReplay` | violated: an edit replays the schedule | - |
| `billing` | `MCBilling` | month ends, leap day, all frequencies, edits in between; closing days that fall beyond short months, purchases dated back, edits, payments, time | 841 k |
| `sessions` | `MCSessions` | two requests interleaved statement by statement, failures, the clock | 1.4 M |
| `sessions_second_factor` | `MCSessionsSecondFactor` | violated: disabled between password and second factor | - |
| `tabs` | `MCSessionTabs` (module `SessionTabs`) | two tabs, lost answers, sign-outs, stores of a tab's memory: no tab loses a session that is not over; under fairness every refresh ends, the lock is always released | 112 k |
| `members` | `MCMembers` | two overlapping requests on roles, invitations, erasure, and the purge | 841 k |
| `members_last_owner` | `MCMembersLastOwner` | violated: two owners remove each other | - |
| `screens` | `MCScreens` | six machines of the browser with late, lost and reordered answers, sign-outs, resets, refusals and other tabs | 1.2 M |

Two instances put machines that share no state side by side (`MCBilling`,
`MCScreens`): the first state chooses which of them moves, and the others rest
in a state they may begin in. What is checked is the union of what each machine
does alone; the product of their states, which no property relates, is left out.

Why the bounds are enough:

- *Ledger, overlapping.* A race needs two requests and one contested row. Three
  accounts are a transfer's source and destination in one tenant and an account
  of the other. Amounts are units, since the properties only add them. Cards and
  parcels are in the other run, as parcels race like any other rows.
- *Balances*, in the same run. A transfer between the two accounts of the first
  tenant, or an entry of another type, before the other tenant has an account.
  One request at a time is under way, since the read is what it interleaves with,
  and after a read comes at most another: what requests do then, they also do
  before it. With several entries and overlapping requests the property is
  proved. The initial balance differs from the amounts, so that neither stands
  for the other.
- *Ledger, one at a time.* Two accounts, two transactions, a purchase of three
  cents in two parcels so that the division leaves a remainder; two initial
  balances so that an edit is visible.
- *Recurrence.* One rule: rules do not touch each other's state, only the
  worker's order of visits. One user and the worker contend for it, one editor
  interferes. `Horizon` of 3 or 4 days and two occurrences per transaction make
  the worker come back for a rule it could not finish (`MaxCatchUp`).
  `MaxEdits` and `MaxRestarts` are one each: the properties speak of the state
  one stale write leaves behind.
- *Schedule.* Starts on January 28, 30 and 31, December 31 and a leap day,
  intervals of one and two, five occurrences: every passage of a monthly rule
  through February occurs, and yearly ones leave the leap day.
- *Invoices.* 29 January to 1 March 2028 crosses a leap February; of the
  closing days, the 5th is inside every month and the 30th beyond every
  February; a due day of 31 is beyond five months of the year. Two purchases:
  one on the bill that is looked at and one that comes later. Fourteen parcels
  meet each of those months, and a common February.
- *Sessions.* One user, since all queries are by user or family; three tokens
  let a session rotate twice, or two sessions exist; two requests. With
  `Grace = 0` and a deadline of one tick, a token is inside and outside both
  within `MaxTime = 2`.
- *Tabs.* Two tabs and three tokens: each tab may rotate after the other did.
  `Room` stops a refresh that could not be given a token, so that the bound
  never looks like a hang.
- *Transaction drawer.* Three categories: two of one kind, so that a suggestion
  and a choice differ, and one of the other, so that a change of type matters.
  One text besides the empty one: questions differ in type and category already.
  One stored row, one account list still to come.
- *Catalog pages.* Two rows, one of them treated apart, and two writes: a dialog
  is opened for one row after the other, and an older fetch meets a newer write.
  All pages and roles are initial states.
- *Filtered lists.* Two rows, one row per page, so that there are two pages of
  the wider filter and one of the narrower; two changes of filter or page, so
  that an answer can come for a key that was left; two requests, so that a
  change can be answered after another.
- *Statement import.* A file that has one id twice and one with a line without
  an id; two accounts; three requests, so that a preview, a commit and a retry
  or an overlapping commit fit; two visits.
- *Navigation.* A super-admin with a second factor, and a manager whose password
  was given and may be reset once; two requests under way; three redirects, one
  more than are claimed. The run goes no further once an answer has written to
  another user's record: the forced change is not claimed there, and redirects
  go by values that are reached without it (both are proved beyond).
- *Organization data.* Two organizations of which one is created, two
  currencies, two users; one request at a time, since two requests touch each
  other only through the session, which other tabs change as well. The run goes
  no further once two of the three windows have been open: each of the
  properties is looked at behind each window it does not except.
- *Members.* Two users and one organization, two invitations so that a member
  can be removed and invited again. Expiry of an invitation has no state:
  nobody has to accept one.

`CHECK_DEADLOCK FALSE` is in every configuration: each model ends where its
ids, days or edits run out.

Symmetry is used in `ledger_*`, `recurrence_edits`, `sessions*` and `members*`,
over sets whose elements are told apart by nothing but their rows; never in the
two runs with a liveness property.

The type invariants of `Ledger`, `Recurrence`, `Sessions` and `Members` are not
in their runs: they are proved for every instance (below).

## Fairness

- `Recurrence`: the scheduler's ticker fires for as long as the process runs
  (`runScheduler` in `backend/cmd/api/main.go`), so `GenerateDue` and
  `VisitRule` are weakly fair; a started transaction goes on, so `Occur` and
  `Commit` are; PostgreSQL queues lockers of a row in order, so the worker's
  `Lock` is strongly fair: a user who runs the rule over and over does not
  starve it. Nothing is assumed of users, edits, restarts or the clock.
- `SessionTabs`: per tab, weak fairness of what a browser and a server do with
  a request that exists (`Serving`): the server proceeds, the answer comes or
  the connection breaks. Users owe nothing: `SignOut`, `Unauthorized` and the
  two steps of a sign-out are not fair.
- The other modules state no fairness: nothing in them is claimed to happen.

## Proofs

TLC checks the small instances above; the theorems hold for all values of the
constants, under the `ASSUME`s of the modules. These say that the absent value
is no id or row, that each account id has one organization, that the bodies are
well formed and positive amounts of cents (what the request validation lets
through), that bounds are natural numbers, that card days are in 1..31, that
`Ledger` has finitely many transaction and account ids and `Members` finitely
many users, that a filtered list has a row, and for the browser modules that
tables are functions of the right kind (the lines of a file, the organizations
of a user, the form a stored row fills).

| Theorem | States | Argument |
|---|---|---|
| `LedgerTypes` | `TypeOK` | `LedgerInv` |
| `StoredReferencesHold` | `ReferencesStored` | `LedgerInv` |
| `AccountsStayInOrg` | `AccountsOfSameOrg` | `LedgerInv` |
| `TransfersHaveDestinations`, `PaidRowsAreDated` | `TransferHasDestination`, `PaidIffDated` | `LedgerInv` |
| `MoneyIsNeitherMadeNorLost` | `MoneyIsConserved` of `BalancesSpec` | `ReportInv`, on top of `LedgerInv`, and `Sums` |
| `TenantsAreIsolated` | `TenantIsolation` | `PlacesKept`, on top of `LedgerInv` |
| `PurchasesStayWhole` | `GroupIsWhole` | `PlacesKept` |
| `NoEntryIsOrphaned` | `NoOrphans`, if `OneAtATime` | `SerialInv` |
| `HandlersKeepThePromise` | `KeepsPromise`, if `OneAtATime` | `SerialInv`, step by step |
| `ParcelsAddUp` | `ParcelsSumToPurchase`, if `OneAtATime` | `InsertsAddUp`, `PlacesKept` and `Sums` |
| `RecurrenceTypes` | `TypeOK` | by itself |
| `NoDayTwice` | `OncePerDay` | `IInv` of `RecurrenceProofs` |
| `NothingIntoDeletedAccounts` | `OnlyIntoLiveAccounts` | `AccountsInv` and `Drafts` |
| `CountsAreExact` | `CountIsExact` | `Counted`, on top of `IInv` |
| `NoDayMissed` | `NoGaps`, while `edits = 0` | `OnSchedule` |
| `EveryMonthIsMet` | `NoMonthSkipped` | `Anchored` and calendar lemmas |
| `OnOneInvoice`, `ParcelsOnInvoicesInARow` | `InOnePeriod`, `ParcelsSpread` | calendar lemmas |
| `SeenBillsStay`, `BillsOnlyAge` | `ClosedBillsDoNotGrow`, `StatusOnlyAges` | `SeenInv` and calendar lemmas |
| `SessionsTypes`, `OneTokenPerSession`, `SessionsEnd` | `TypeOK`, `OneActivePerSession`, `DeadlineHolds` | `IInv` of `SessionsProofs` |
| `EndedSessionsStayEnded` | `EndedStaysEnded` | `EInv`, on top of `IInv` |
| `DisabledAccountsGetNoTokens` | `DisabledGetNoTokens` | `DisabledAreStopped` |
| `TabsTypes`, `TabsLeaveTheServerItsSteps` | `TabsTypeOK`; a step of the tabs is one of `Sessions` or leaves it alone | `TabsInv` |
| `TabsStaySignedIn` | `SignedInUntilOver`, if `Locks` | `StoreInv`, on top of `TabsInv` |
| `MembersTypes`, `InvitationsAdmitOne` | `TypeOK`, `SpentByOneJoin` | `IInv` of `MembersProofs` |
| `LastOwnerStays` | `OrgHasOwner` | `OwnersInv`, on top of `IInv` |
| `GoneMeansClosed`, `ErasureTakesItsOwn` | `DeletedOrgsAreClosed`, `ErasureSparesOthers` | `ShutInv`, on top of `IInv` |
| `ImportTypes`, `VisitsAreApart`, `IdsAreImportedOnce` | `ImportTypeOK`, `AnswersOfThisVisit`, `ImportedOnce` | `ImportInv` |
| `NavTypes`, `RedirectsAreFew`, `ForcedChangeIsMade` | `NavTypeOK`, `RedirectsEnd`, `ForcedChangeHolds` | `NavInv` |
| `SuggestionsAreAnnounced`, `DialogsSaveOnce` | `SuggestionIsAnnounced`, `SavesOnce` | `FormInv`, `SaveInv` |
| `WritesAreShown`, `CatalogTypes` | `OwnWritesShow`, `CatalogTypeOK` | `CatalogInv`, `CatalogTypesInv` |
| `ListsFollowTheFilters` | `ListOfTheFilters` | `ListsInv` |
| `OrgIsListed`, `OwnDataIsShown`, `CurrencyIsTheOrgs` | `CurrentOrgIsListed`, `DataIsOnesOwn`, `CurrencyOfTheOrg` | `DataInv` |
| `ScreensTypes` | `ScreensTypeOK` | each machine behaves as alone (`ScreensAreTheMachines`) |

Four theorems have a hypothesis that is a choice of instance: `OneAtATime` says
that there is one worker at most (with more, an entry inserted while its account
is deleted and a row saved after it was deleted or purged break all three,
[below](#where-code-and-documents-part)), `Locks` that the browser has
Web Locks.

The inductive invariants, and why each is needed:

- **`LedgerInv`**. What holds of stored rows must hold of the rows that pending
  requests are about to write, since a handler may write back what it read long
  ago. Well-formedness (a transfer, and nothing else, has a destination; paid
  and dated agree; both accounts are of the row's organization) is carried by
  `requests` too (`PendingWellFormed`). The foreign keys are not, since the
  account may be purged meanwhile: they are tested again at each write.
- **`ReportInv`**. Between the two sums the balances read so far add up to the
  initial balances plus what was earned, minus the settled transfers there were
  when the rows were booked; unless they changed (`torn`), the second sum puts
  the same amounts back.
- **`PlacesKept`**. An id is inserted once, and with it the row's place is
  settled: its organization, and its number in which purchase. There is a table
  `born` of the places of all ids ever inserted, such that stored rows and the
  rows that pending requests will save stand in theirs (`RequestOfItsOrg`), and
  every purchase was inserted whole. Purging forgets a row but not its place,
  which is how the missing parcels are known to have been purged.
- **`SerialInv`**. With one request at a time, what it checked when it read
  still holds when it writes (`StillChecked`): the accounts it found live are,
  the row it read is stored as it was read, the account it found without entries
  has none. Every write is then a step of `LedgerPromise`, one case per kind of
  write, and every reading step and both purges leave what is mapped alone.
- **`InsertsAddUp`**. A pending insertion has the parcels of one accepted body,
  the last of which takes the remainder. That parcels are stored at no other
  moment is `PlacesKept`: only an insertion makes an id new.
- **Sums.** The folds that add up rows are recursive functions over finite sets.
  `Sums` proves by induction over finite sets that a fold does not depend on
  the order, that sums over disjoint sets add, and that the sum over the parts of
  a partition is the sum of the whole (`SumByKey`): an entry's amount is in one
  account's balance, a transfer's in one with a plus and one with a minus. The
  library's induction theorem cannot be instantiated here; the induction is by a
  least counterexample, with the hypothesis stated of a set instead of a
  predicate (`SubsetInduction`).
- **`IInv` of `RecurrenceProofs`**. No day twice follows from a stronger fact:
  every generated day is behind the stored cursor (`BehindCursor`), what a
  transaction has generated but not committed lies from the stored cursor up to
  its copy's (`JobAhead`), and one process at most holds a rule (`OneHolder`).
  `PendingFresh` adds that a pending edit carries the cursor that is stored,
  which is what `overtaken` is the negation of.
- **`AccountsInv`**. A live rule is on a live account unless it is `deserted`
  (`LiveOnLive`), what a request is about to write is too (`PendingOnLive`), and
  a rule that is held is live: the deletion of an account takes its rules along
  and waits for the lock. `Drafts` says that a rule to be inserted has no row.
- **`OnSchedule`**. A cursor is the `count`-th day of its schedule and exactly
  the days before it are generated, in the row and in the copy of a process that
  is generating.
- **`Counted`**. The count is the cardinality of what was generated, in the row,
  in the copy (with what is not committed yet) and in a pending edit.
- **`IInv` of `SessionsProofs`**. One usable token is inductive only with
  `OneRotationPerSession`: at most one request per family is between claim and
  insertion.
- **`EInv`**. An ended session has no usable token and no rotation in that
  window (`NoRotationOfEnded`), and no step adds a claim without a usable token.
- **`DisabledAreStopped`**. A sign-in, refresh or challenge that is past the
  check of a disabled user is of one who is in `passed`.
- **`TabsInv`, `StoreInv`**. The tokens of a browser are of one session; who
  sends a refresh has the lock. So unless something excuses it (a user signed
  out, an answer was lost, the session is over), the stored token is the latest
  and active or is being rotated by the tab that has the lock (`StoreIsCurrent`).
  No tab presents an older one, because it reads the store once it has the lock.
- **`IInv` of `MembersProofs`**. Beside types and the invitations themselves:
  nothing refers to an organization before it is founded (`FoundedFirst`).
- **`OwnersInv`**, **`ShutInv`**. While requests have not overlapped, a request
  that passed its check still has what it checked (`Checked`, `Standing`): the
  count of owners has not changed since, the organization it was admitted to has
  not been deleted, an erasure's list of memberships is complete.
- **Dates.** `OnOneInvoice` and its neighbours are about operators more than
  steps: consecutive periods adjoin (`FromNextDay`), dates are ordered by month
  and then day, so exactly one period covers a date (`CoveredOnce`), on every
  date and for every card. `ParcelsOnInvoicesInARow` adds that a day up to the
  28th is never clamped, `EveryMonthIsMet` that clamping is always from the
  anchor, and never from the date before (`Anchored`).
- **`ImportInv`**. Every call still heard is of this visit (`OfThisVisit`), so
  its answer is. An id is booked once because a commit that looked it up and did
  not find it (`FreshIds`) is alone with its account (`OneLooksUp`) until it
  inserts; `overlapped` is the negation of that.
- **`NavInv`**. `HopsSoFar` lists where a tab can be after one and after two
  redirects, by probe and user, and that no guard sends it on from there;
  `FlagIsKept` says that the stored record knows of the forced change whenever
  the server wants one and is its user's, unless `crossed` or `stale`. What is
  still to be written to the record must know, too (`RightCall`): the captured
  user of a confirmation, the stored change of one whose flag is cleared; and
  accounts one makes oneself never have a given password.
- **`FormInv`** is the property with the shape of the state: every action that
  sets a category says so itself.
- **`SaveInv`**. The dialogs that are open have at most one request that still
  belongs to them (`OneEach`), it belongs to what is shown, and it is applied
  exactly when the opening has saved: once answered, the dialog is gone.
- **`CatalogInv`**. What was read of a list, and what is shown of one that is
  not outdated, is the server's list, unless a request the server has applied is
  still to be answered (`Current`). Its success then invalidates the list,
  because on each of the seventeen pages every button that changes rows names
  the family the page reads (`ButtonsRefetch`). `CatalogTypesInv` bounds the
  version of a list by the requests sent: the version and the ids not applied
  yet are together no more.
- **`ListsInv`**. An answer is kept under the key it answers
  (`AnswersAreTheirs`), and what is ticked is among the rows these filters
  answered with or was ticked before they did: once they have, what is shown is
  their answer (`VisibleIsAnswered`).
- **`DataInv`**. Requests ask for the organization in their header and are of
  the queries of the signed-in user (`Calls`), so that what they store is
  (`Cache`); without a user nothing is cached and no query under way. The form
  holds the current organization (`OrgInForm`). Each hypothesis of
  `DataIsOnesOwn` (`moved`, `followed`) appears where the code opens that
  window.

Only model-checked: the two liveness properties, `DueIsServed` and
`EveryRefreshEnds`, which the proof system cannot do (fairness and ENABLED), and
what the three runs with a violation show.

## Where code and documents part

Three are shown by runs of their own:

- `recurrence_replay`: an edit saves the row it read before a generation
  committed. The cursor goes back and the days are generated again, against
  "NextRunDate/OccurrencesCount are NOT recomputed here so an edit does not
  silently replay the schedule" (`services/recurrence_service.go:131`).
- `sessions_second_factor`: `VerifyTwoFactorLogin` does not look at `disabled`,
  against "a disabled account cannot log in regardless of valid credentials"
  (`services/auth_service.go:233`).
- `members_last_owner`: two owners demote or remove each other at once, against
  "refusing to demote the last owner" (`services/member_service.go:60`).

The others came up while modelling. They are in the models as the code has
them, and properties are stated so as to leave them out by name:

- **Torn balances.** The three queries of `AccountRepository.Balances`
  (`repositories/account_repo.go:71`) see three states: a transfer settled,
  unsettled, edited or deleted between the second and the third is on one of its
  accounts only in what the caller shows (`torn`).
- **Self-transfer.** `Settle`, `BulkSettle` and `PayInvoice` may move a transfer
  to the account that is its destination; `ErrInvalidTransfer`
  (`services/transaction_service.go:32`) says a transfer "needs a destination
  account other than the source".
- **Entries on deleted accounts.** "The database enforces the same rule via
  fk_transactions_account" (`services/account_service.go:124`) does not hold for
  soft deletion: an entry inserted between the count and the delete stays on a
  deleted account. `NoOrphans` is therefore checked and proved one
  request at a time.
- **Deleted rows that return.** `Save` falls back to an upsert that clears
  `deleted_at`, when the delete comes between a handler's read and its write;
  `docs/ARCHITECTURE.md:280` says soft deletion applies to every query.
  The refinement, in which an erased entry is gone, is checked and proved one
  request at a time.
- **Used and billed.** A card's used amount counts unpaid expenses; invoices
  count all of a card's rows, although computing invoices "keeps the schema
  unchanged and the used/available math consistent"
  (`services/credit_card_service.go:108`).
- **Dead accounts.** A creation or an edit looks its account up and writes the
  rule afterwards; deleted in between, the account keeps a live rule. `DueRules`
  joins live accounts, so that the worker passes it over; the row lock reads the
  rule alone, and run-now generates into the deleted account (`deserted`).
- **Closed bills.** A closed bill grows when a purchase is dated back onto it and
  when the card's days are edited, as bills are computed anew each time.
- **Created active.** `entities/recurrence.go:50` declares `default:true`, so
  GORM stores TRUE for a rule created with `active: false`, which
  `dto/dto.go:310` calls a default only for an absent flag.
- **Due before it closes.** With closing day 30 and due day 31, both are
  February 28; `cards/cycle.go:18` says "the bill falls due after it closes".
- **Two parcels in February.** The comment at
  `services/transaction_service.go:230` explains why parcels are clamped: no
  month's invoice is left empty. A purchase on January 31 with closing day 30
  puts its first two parcels on February's invoice and none on March's.
  `ParcelsSpread` is stated for purchases up to the 28th.
- **Late successors.** A password change, a sign-out or a revocation between a
  refresh's claim and its insertion does not see the new token (`ended`).
- **Stale sessions page.** `RevokeRefreshTokenForUser`
  (`repositories/user_repo.go:192`) "returns ErrNotFound when no matching active
  token exists", but matches revoked rows too; a session rotated since the page
  was loaded goes on, and the call succeeds.
- **Forced change forgotten.** `useVerifyEmail` stores the user of its page's
  last render (`hooks/useAuth.ts:124`): answered after the page was left it
  brings back a record without the flag, or another user's. The answer to a
  change of password clears the flag of whoever is signed in (`crossed`). And a
  user whose password is reset while he is signed in sees the application until
  a request is refused (`stale`); the server refuses them all but `/me` and the
  change.
- **Creation after signing out.** `queryClient.clear()` (`hooks/useAuth.ts:198`)
  does not stop a mutation: an organization created by one user and answered
  when the next has signed in is listed and made current for the latter, until
  `/me` is read again.
- **Memory over storage.** `persist` writes the tokens with every change of the
  store (`stores/authStore.ts:91`): a tab that has not read those another
  rotated puts its own back, and the rotated token is presented and ends the
  session, against "use theirs instead of presenting the old refresh token
  again" (`lib/axios.ts`, in `refreshOnce`). `SignedInUntilOver` names that tab
  (`restored`).
- **Ticks in between.** "Clear selection when the visible rows change"
  (`pages/TransactionsPage.tsx:193`): the effect runs when the filters do, and
  the rows change when the answer comes. A row ticked in between stays ticked,
  hidden, and a bulk deletion reaches it (`early`).
- **Closed by another's success.** `onClose` closes the dialog whatever it shows
  by then: the answer to a form that was closed under way closes the one opened
  since, with what was typed into it (`AfterSuccess`).
- **Tabs.** Without Web Locks, or after a lost answer, a tab may present a token
  that was rotated, and loses its session; a tab's late answer stores tokens
  after another tab signed out.
- **Suggested over chosen.** "Never override a category the user explicitly
  picked" (`TransactionFormModal.tsx:145`) compares the category of the render
  that asked: one picked while the question is under way is replaced. What holds
  is that the replacement is announced (`SuggestionIsAnnounced`).
- **Wizard twice.** Refused with 409 because another browser has set the
  platform up, the wizard goes to `/login` (`SetupPage.tsx:230`) while its probe
  still says the wizard is needed: the guard sends it back until the probe is
  read again. A signed-in user goes round between the two (`RedirectsEnd`
  excepts that state).
- **Imported organization.** "Troque para ela no seletor" ("switch to it in the
  selector", `ImportCard.tsx:63`), but the list of organizations is not read
  again and the selector does not have it until the next document.
- **Currency of another organization.** `lib/currency.ts` is "kept in sync with
  the current organization"; an update answered after a switch sets the currency
  of the organization it was for (`late`).
- **Same line twice.** Two commits of a statement for one account at once both
  find its ids absent, and both insert them (`overlapped`).
- **Erasure.** Memberships are listed before the transaction and the counts are
  not locked: somebody who joins meanwhile loses the organization.

## Not modelled

Text and rendering (parsers of statements, reports, mail, translations), HTTP
routing and validation, cryptography, migrations as such, the audit log, reads
that change nothing. Inside modelled parts: names, notes, tags, categories,
contacts and due dates of transactions (ownership checks like that of accounts),
the archived flag, limits of cards, creating and deleting cards, registration
and e-mail verification at the server, renaming organizations, users'
anonymization on erasure, and tokens of versions before sessions had a deadline
(`session_expires_at` absent, `services/auth_service.go:333`), which get theirs
at their first rotation: every token of `Sessions` has one. In the browser: the
dashboard and the command palette, which read; the cards of the second factor
and of privacy; export menus, themes, language, toasts and the UI kit; charts;
the values of a field that nothing depends on. `PROJECT.json` says so for each
component.

Some hazards have no property. Four are listed without one (platform
administrators who disable each other, the dashboard cache, the login limiter,
an attachment without its bytes). Others met on the way:

- one row that a foreign key still needs stops the whole purge of its table
  (`jobs/jobs.go:139`), every day again;
- moving a rule's start later makes the next anchored date skip intervals, as
  the count is kept (`services/recurrence_service.go:134`);
- unpaying an invoice after an edit of the card's closing day unsettles the rows
  of the new grouping (`services/credit_card_service.go:239`);
- a contribution to a goal sends the whole goal with the sum computed from the
  cached one (`pages/GoalsPage.tsx:160`): of two at once, one is lost;
- the form of a dialog is filled by an effect, and a late list of accounts fills
  it anew, dropping what was typed.

## Plan

Done, in this order: the ledger and its abstract specification; recurrence and
the calendar; invoices; sessions and the tabs over them; members; the browser
application in six machines, with the import service; the reads of balances. Next:

1. `Platform`: `Initialize` under its advisory lock, `BootstrapAdmin` without
   one, `Register`, `SetUserDisabled`, `DeleteAccount`. Properties: the first
   run happens once, an administrator remains, with a run for two administrators
   who disable each other.
2. `SecondFactor`: enrolment in two writes, single-use time steps, recovery
   codes, and the lockout counter tested before and raised after a slow check.
3. `Attachments` and `Dashboard`: a row and its blob; a read-through cache and
   the writes that empty it.
4. `Worker`: one cycle of the scheduler with generation, notifications and
   purge, over the modules that have those actions.
5. The remaining pages of the settings, and the data import.

Theorems to add come with those modules; of the present ones every safety
property and every action property of a run is a theorem.

New modules should come with few, deep properties, and runs that answer the same
question should be merged rather than multiplied.
