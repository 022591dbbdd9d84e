# Verification of the leads portal

TLA+ models of the leads portal: the pipeline in which money and leads change
hands, from the web form to the replaced lead, and the screens and services of
the office around it. TLC runs that check them on small instances, and TLAPS proofs
for instances of any size. Paths below are relative to the repository; `S` stands for
`apps/api/src`, `W` for `apps/web/src`.

```
tlc -workers 2 -config MCDistribution.cfg MCDistribution    # a run
tlapm DistributionProofs.tla                                # the proofs of a module
```

## 1. The system

A NestJS API over PostgreSQL (Prisma, READ COMMITTED), a Next.js front end, and a
WordPress plugin that sends form submissions to the API. The API is one process;
requests and event handlers interleave at every `await`, and domain events
(`LEAD_VALID`, `LEAD_ASSIGNED`, ...) live in its memory. A screen is a page of
the browser whose calls nothing cancels: their answers come in any order, or not
at all, and change whatever the page shows by then.

| Component | State | Operations | Interacts with | What makes it hard | What makes it correct |
|---|---|---|---|---|---|
| Distribution engine (`S/distribution`) | leads, orders, lead_assignments | onLeadValid, distribute, matchPool, manualAssign, pauseOrder, resumeOrder, claimReplacementLead | intake by LEAD_VALID, delivery by LEAD_ASSIGNED, orders by shared rows | several row locks per transaction, decisions made before locking, timeouts, pool of connections, crashes | balances reconcile, sharing rules hold, sales are final, no deadlock, no lead lost |
| Distribution controls | one settings row, cached nowhere | pause or hold a lead type, isBlocked | engine | read-modify-write of one JSON value; a second connection | no toggle lost |
| Criteria matching | none | matchesCriteria | engine | pure | fits the order's criteria |
| Delivery, live feed (`S/realtime`, `W/components/NotificationsProvider.tsx`) | delivery_status, rooms, entries of the page | deliverAssignment, emit, merge of pushes and lists | LEAD_ASSIGNED; sockets | at most once; a push passes a list | state and deliveries agree, no delivery missed |
| Orders (`S/orders`, OrdersScreen) | orders, transactions; rows, dialogs, busy mark | create, uploadPaymentProof, accept, reject, cancel | engine by shared rows, invoices | status is checked in one statement and written in another | paid before served, charged once per proof, decided once |
| Invoices (`S/invoices`) | invoices, PDF files | createForOrder | called by accept after its commit | number by counting; partial failure | numbers without gap, an invoice per charge |
| Replacements (`S/replacements`) | replacements, leads, orders | create, approve, deny, rate | engine (claimReplacementLead), delivery | checks before locks, order-then-lead locking against lead-then-order | balances right, no deadlock, no lead twice |
| Intake (`S/intake`), suppression list, bulk import | leads, suppression list | ingest, ingestBulk, create and remove an entry | landing pages, WordPress, LEAD_VALID | retried, duplicated and overlapping submissions | one lead per submission, per person, none who opted out |
| WordPress bridge (`wordpress/leads-portal-bridge`) | retry queue table | process, send, drain_queue | intake | lost answers, overlapping drains, processes that die | tried until answered or given up |
| Samples (`S/samples`, three screens) | sample requests and deliveries, a flag on leads | createRequest, forward, reject, assignLeads, pool | leads | unlocked checks, old lists | served once, within the quantity, from the pool |
| Lead columns (`S/leads`, LeadColumnEditorScreen) | positions of columns | create, update, remove, reorder | lead sheet (reads) | positions renumbered by several admins, a copy patched by late answers for any tab | positions distinct, order stable, copy right |
| Lead sheet and browser (LeadsSheetScreen, LeadsScreen, AssignLeadDialog) | rows, ticks, dialogs | load, tick, assign, rematch, follow-up, reveal | engine, leads | ticks and answers outlive what they were about; two rows of one lead | assigns what it shows, shows what is stored |
| List screens (users, clients, campaigns, landing pages) | rows, ticks, runs of calls | create, edit, decide, delete, in bulk or not | their services | part of a run fails; loads overlap | shows what is stored, hidden rows safe |
| Audit log (`S/audit`, AuditScreen) | audit_logs, pages | record, list by cursor | every service | entries recorded between pages | nothing skipped or repeated |
| Drawers of a landing page and of a lead | a row, its metrics, its secret | open, refresh, rotate | landing pages, leads | late answers after another opening | shows its own page |
| Pricing (`S/pricing`, PricingScreen) | the setting lead_prices; the grid of an open screen | load, edit, replace | audit log | the grid is loaded once and sent back whole; three statements without a transaction | no price changes that nobody entered, the trail is a chain |
| Accounts (`S/auth`, ProfileScreen, sign-up and login forms) | rows of users and clients, password_hash; inputs of a form | sign up, log in, change a password, save a profile | administrators who write the same rows | inputs keep their own text; answers are lost; check and write are apart; one address in two tables | the form shows what is stored, a confirmed password is kept |
| Revenue, reports, dashboard, API keys, storage, roles | rows of their own | CRUD, queries, signed links | guards of every endpoint | little: single statements | access by role and ownership |

`PROJECT.json` lists each with what is modelled, and the hazards at their lines.

## 2. Modules and plan

Pipeline, each module with an MC module of its own:

| Module | Implements, or works with | Proofs |
|---|---|---|
| `Bridge`: plugin, retry queue, intake | implements `LeadCapture` | `BridgeProofs` |
| `Distribution`: engine, delivery, controls as a set | implements `LeadAllocation` | `DistributionProofs`, `LeadAllocationProofs` |
| `Orders`: orders and invoices | supplies open orders to `Distribution` | `OrdersProofs` |
| `Replacements`: requests against the engine | contains the engine's sales in short | `ReplacementsProofs` |

Office, composed in `MCPortal`: `Samples`, `LeadColumns`, `Controls`, `LiveFeed`,
`AuditTrail` (proofs in `OfficeProofs`); `AssignDesk`, `SheetCells`, `EntityList`,
`PageDrawer`, `OrderDesk`, `BulkImport` (proofs in `ScreensProofs`); `PriceGrid`,
`ProfileForm`, `Credentials` (proofs in `AccountProofs`).

Done: all of the above. What a next step would take: the daily cap, if rows with
one appear; criteria matching and the sort of eligible orders against a reference
definition; a run for the credit that a paused order gets (`schema.prisma:79`, "no
new assignments until resumed") and for the four cases at the head of "Met while
modelling" (section 5), and the safe half of `EverySubmissionSettles`: what a sender or
a drain alone does brings a submission nearer its end, as is proved of the engine's
transactions.

## 3. What is modelled

### LeadCapture and Bridge

`LeadCapture` is the promise: a submission is stored at most once and keeps its
verdict, a site is told of it only when it is stored, only VALID leads are offered
to the engine, and a DUPLICATE has an original.

| TLA+ (`Bridge`) | Code |
|---|---|
| `endpoint`, `siteSecret`, `queue` | tables of the plugin: endpoints, retry queue |
| `sender`, `batch` | a PHP process that serves a form, or a run of the cron: its next statement, the rows it has read |
| `request` | a request the API serves: its next statement in processOne, evaluate, persist |
| `lead`, `suppressed`, `pageSecret`, `mapped` | rows of leads, suppression_list, landing_pages |
| `fails`, `fate`, `told`, `announced`, `knew` | history |

A sender that stops waiting leaves its request behind, which works on: this is the
lost answer. Drains overlap because the lock of WP-Cron ends after a minute. Sends
fail without bound (`GiveUpWaiting`, `FailRequest`); `Trouble` counts only crashes and
what administrators change. `fails` stops counting above `MaxRetries`, where its value
makes no difference any more.

Left out: the length of the backoff (a row is due some time later), the batch
limit of 25, formats, encryption, the stub of the deliverability check, leads
older than the deduplication window.

### LeadAllocation

Assignments and balances only. `Allocate(l, S)` sells lead `l` to the orders `S`
at once, if the outcome is permitted: one EXCLUSIVE buyer or at most `MaxShared`
SHARED ones, which is what the partial unique index and the trigger of migration
`20260523000000_distribution_engine` demand of the table.

### Distribution

| TLA+ | Code |
|---|---|
| `leadState`, `orderStatus`, `quantityRemaining`, `assignments`, `delivered` | committed rows of leads, orders, lead_assignments |
| `tx[w]` | a running transaction: rows locked, orders chosen, connection held |
| `validEvents`, `assignedEvents` | events emitted and not handled yet |
| `statusWrite` | a pause or resume between its read and its write |
| `stranded` | history: VALID leads whose match was skipped or given up |
| `OnLeadValid`, `Redistribute`, `LockLead`, `Match`, `LockOrder`, `CommitAuto` | onLeadValid and matchPool to distribute; runDistribution statement by statement |
| `ManualAssign`, `LockLead`, `LockOrder`, `CommitManual` | manualAssign |
| `Timeout`, `BeginTimeout`, `Crash` | `TX_OPTIONS`, maxWait, death of the process |
| `DeliverAssignment`, `DeliveryFails` | DeliveryService |
| `PauseOrder`, `ResumeOrder`, `WriteOrderStatus`, `SetLeadType` | the admin's controls |

What a transaction writes is one step at its commit: nobody else sees it before,
and the rows it depends on are locked by then. What it reads without a lock (the
eligible orders) is a step of its own, because it goes stale. `TargetSets` gives
the set of orders the loop over sorted candidates selects.

Left out: `daily_cap` (NULL in every row the application writes), the
`last_served_at` tie-break (two orders accepted in the same millisecond),
permissions, and the unique index and trigger of the database: the properties
hold by the checks of the code alone. Orders begin ACTIVE; how they get there is
`Orders`. `claimReplacementLead` is left to `Replacements`, the row
behind the blocked lead types to `Controls`.

### Orders

| TLA+ | Code |
|---|---|
| `status`, `remaining`, `proof` | orders.status, quantity_remaining, payment_screenshot_path |
| `charges`, `received`, `invoices` | CHARGE rows of transactions, lead_assignments, invoices |
| `request[r]` | a request between its read and its write, or an accept between its commit and its invoice |
| `uninvoiced` | history: accepts whose invoice was lost |
| `UploadPaymentProof`, `Accept`, `Reject`, `Cancel`, `Pause`, `Resume` (all by `Check`) | requireOrder and the check of the status |
| `WriteStatus`, `WriteAccept` | order.update; the transaction of accept |
| `TakeNumber`, `InsertInvoice`, `InvoiceFails` | nextInvoiceNumber, invoice.create with its unique key, the catch of accept |
| `SellLead` | assignOne, on a locked row and hence one step |
| `Crash` | death of the process |

Left out: roles and ownership (an agent's cancel is a special case of an
admin's), prices, the year in the invoice number (all of one year), REFUND rows
(no endpoint writes them), and replacements, which credit orders.

### Replacements

| TLA+ | Code |
|---|---|
| `leadState`, `orderStatus`, `remaining`, `assignments`, `delivered`, `replacement` | committed rows |
| `tx[w]` | a request between two statements: the row it locks next, its locks, the lead it claimed |
| `credits` | history: approvals of an order |
| `Create`, `InsertReplacement`, `MarkLead` | the checks of create; its two writes, which are no transaction |
| `Approve`, `LockCredited`, `ClaimReplacementLead`, `CommitApprove` | the unlocked read, the order, the lead and SKIP LOCKED, the update of the request at the end |
| `Deny`, `LockDenied`, `CommitDeny` | the unlocked read; request, then lead |
| `Redistribute`, `ManualAssign`, `CommitAssignment`, `Deliver` | matchPool, manualAssign, delivery |
| `SetOrderStatus` | the write of pause, resume or cancel, whose check is stale by then |
| `Abort` | PostgreSQL's deadlock detector, a timeout, death of the process |

The last lock of a transaction and its commit are one step, and one that starts
with a lock is there from that lock on: nothing a worker does in between depends
on the others. A match sells to one order; that several orders are locked
without a circle is proved in `DistributionProofs`, and no approval waits for a
lead that a match has locked. `SetOrderStatus` may write over any status: an
admin's request that passed its check while the order was open can be that late.

Left out: reasons and window of the policy (a client may ask at any time),
criteria (every lead fits every order), the batch of 50 candidates.

### The office modules

A call of a screen is a record in a function over its possible slots (`job`,
`run`, `action`, `query`, ...): it is sent, the API reads or writes, and the answer
arrives, fails or comes late. The screen's own state is that of its hooks; what a
render computes is an operator. History variables mark what the property excepts,
such as rows that others changed; they never restrict a step.

| Module | State in the code | Actions, and what is a step of its own |
|---|---|---|
| `Samples` | sample_requests, sample_deliveries, `in_sample_pool`; the lists of three screens | the status check, the pool check and the write of each decision |
| `LeadColumns` | `position`; the tab, the array and the dialog of each open editor | the read and the write of create, the transactions of remove and reorder, which renumbers in two phases, the list, the answer; opening, choosing a tab and its load, whatever is under way |
| `Controls` | the settings row | the read and the upsert of setLeadType |
| `LiveFeed` | delivery_status, the room, `liveLeads` | booking, push, connect and disconnect, reading and merging leads/mine |
| `AssignDesk` | rows, ticks, the dialog with its orders | loads, ticks, opening for one lead or many, the loop of assign, answers for orders |
| `SheetCells` | followup_status of assignments, the sheet, the reveal dialog | load, the write and the answer of a follow-up, reveal |
| `EntityList` | the table, `data`, ticks, BulkActionsBar | create, edit, status, delete (alone or in bulk, a call per row), approve and reject, reload |
| `AuditTrail` | audit_logs, pages and cursor | record, the two loads and their answers, filters |
| `PageDrawer` | intake_secret, rows, the open drawer | open, refresh, rotate, reload of the list |
| `OrderDesk` | status as the screen's calls see it, rows, `busyId`, dialogs | prompts and dialogs of four roles, the call, its answer, the reload |
| `BulkImport` | live leads of a person, suppression_list, the dialog | upload, the two checks and the insert of each row, the answer, entries added and removed |
| `PriceGrid` | the setting lead_prices, the grid, the last audit entry | load, enter, submit; the read, the upsert and the record of replace, and its failures |
| `ProfileForm` | the row of one account, the inputs, the saves | open, type, submit; token check and update of PATCH auth/me; its answer and the load that follows; writes of others |
| `Credentials` | password_hash and status in users and in clients, the open forms | sign up, log in, change, their lost answers; check and write of a sign-up in its own table, login's look into users and then into clients, comparison and write of a change; reset, approve, remove |

Deliberate simplifications, module by module:

- `Samples`: no screen lets an agent assign, so no action does.
- `LeadColumns`: a removed column does not come back. A list on the screen is the set
  of its entries, each with its place in the array. An order is sent as the places
  that each key is listed at, since a key may be listed twice. Labels and masks only
  travel with the answer that brings a row to the screen.
- `Controls` is what `Distribution` sees as one set of blocked types; the race of
  two toggles can only be seen with the row taken apart.
- `LiveFeed`: one client; the sale is a step. An entry listed as PENDING stays
  PENDING on the screen, since a push of an id it knows is dropped: the property
  on turning back says nothing of that.
- `AssignDesk`: what an assignment does to a lead is that it leaves the pool. Stop
  ends the loop after the lead at hand; closing the dialog does not, and the loop
  that ends later closes the dialog open by then.
- `SheetCells`: one sensitive cell per row, whose plain text is named like the row.
  A row is an assignment; which lead it is of is the constant `LeadOf`.
- `EntityList`: one screen at a time, of any of the four kinds; what others do is a
  step. `ServeStray` is a call sent on for a row that was deleted meanwhile.
- `OrderDesk`: a service checks and writes in one step here; `Orders` and
  `Replacements` take that apart.
- `BulkImport`: well-formed rows, one landing page. A number on the list that was
  typed in another form than E.164 is kept, and matches nobody.
- `PriceGrid`: the audit trail keeps its last entry. A price that was never set is
  shown, and sent back, as 0.
- `ProfileForm`: one account. A text is its trimmed form; the checks of a text are
  the refusal of a call. Whether an input nobody typed in takes the text of a later
  load is left open, as React's uncontrolled inputs leave it.
- `Credentials`: one address, with at most one account in users and one in clients.
  A hash is the password it was made from; rate limits, the expiry of tokens, roles
  and the agent a client names are left out.

## 4. What the runs check

| Run | Shows |
|---|---|
| `distribution` | balances stay exact and sales go to open orders only; no lead is forgotten; lead states follow deliveries; `LeadAllocation` is implemented, so that sales are permitted and final |
| `distribution_live` | no lock cycle on overlapping sets of orders; every captured lead is decided about; every transaction ends without help of the timeout |
| `distribution_pause` | *violated*: a drained order does not stay COMPLETED |
| `distribution_pool` | *violated*: a lead may stay VALID for good |
| `orders` | served only when paid, sales covered by charges, invoices consecutive and accounted for |
| `orders_accept` | *violated*: an order is accepted from another status than PROOF_SUBMITTED |
| `orders_invoice` | *violated*: an accept ends without invoice although nothing failed |
| `replacements` | balances count every credit once sold or owed; no lead replaces two; a completed order is owed nothing; a closed order is given replacements only; approvals and matches never wait in a circle |
| `replacements_credit` | *violated*: an order is credited for a request that ends denied, or twice for one |
| `bridge` | each submission is stored once and confirmed when stored (`LeadCapture` is implemented); of two by one person both are VALID only if their requests overlapped |
| `bridge_overlap` | two drains on one queue: a submission is tried until it is answered or has failed `lpb_max_retries` times, and leaves the plugin in the end unless drains overlap time and again |
| `portal` | the nineteen properties of the office modules, in one run |

The properties of `portal`, by part:

| Part | Property | In words |
|---|---|---|
| samples | `UndisturbedRequestsAreServedOnce`, `RemovedLeadsAreNotSampled` | a request whose decisions did not overlap is served once and within its quantity; only leads that were in the pool during the call are delivered |
| columns | `ShownOrderIsStored`, `OrderIsStable` | an editor whose last full list was of its tab and the last answer shows the stored columns in their order, with what it created, and a column it removed, since; create and remove never reorder others |
| controls | `TogglesAreKept` | a toggle is lost only to one that overlapped it and only for its own types |
| feed | `NothingMissedWhileLive` | a caught-up feed shows every delivery |
| desk | `OffersFitTheLeads`, `OnlyUnsoldLeadsAreOffered` | orders of the right type; leads the rows show as unsold |
| sheet | `FollowupShownIsStored` | a row shows the stored follow-up once the last write of it has reached the screen last, by its own answer or by a load |
| entities | `ShownRowsAreStored` | the list shows what is stored |
| audit | `TrailIsComplete` | no entry between two shown ones is missing, none is shown twice |
| drawer | `DrawerFitsThePage` | own metrics and current secret, also after a rotation and a reopening |
| orders | `NothingIsDecidedTwice` | what is offered for decision reflects the operator's answered calls |
| import | `ImportsCanBeRepeated`, `OptOutsAreHonoured` | one live lead per person however often imported, true summaries; no lead after an opt-out |
| prices | `PricesAreKept`, `PriceTrailIsAChain` | a saved price stays until somebody enters another or sends an older grid; each audit entry begins where the one before ended |
| profile | `FormShowsWhatIsStored` | what the form shows, and nobody is editing, is stored |
| passwords | `KnownPasswordIsKept` | the password a form last confirmed is that of the account, in users and in clients |

The parts of the office share no state with each other, so `MCPortal` chooses one
`part` per behaviour and leaves the others at a single initial state: the state
space is the sum of the parts and not their product, and one run covers them.

Type invariants are proved as theorems (section 6) and not repeated in the runs; so
are the properties that follow from a checked one or are about a helper of the
proofs: `SharingRespected`, `SoldLeadsStaySold`, `ConfirmedStaysConfirmed` (no old
list turns a delivery back), `HiddenTicksAreGone` (a bulk action reaches no hidden
row), and the theorems on the conditions under which the findings cannot occur.

Bounds and why they suffice:

- Two leads and two workers: every conflict in the engine is between two
  transactions, over one lead or over common orders. Orders `{1, 2, 4}` (two
  shared, one exclusive) with a cap of one have all mixes of buyers and a set of
  candidates larger than the cap; `{1, 2}` with a cap of two make overlapping sets
  of targets in `distribution_live`.
- `PoolSize` 2 for two workers is the pool at its limit; 3 is a pool larger than
  the number of transactions, which liveness needs (see below).
- `AdminLeads`, `PausedOrders`, `HeldTypes` bound what the admin touches; one
  pause or resume is in flight per order. `Crashes = FALSE` in the runs about
  waiting, where a crash only ends the waiting.
- `Orders`: one order of two leads can be paused and resumed half served; three
  overlapping requests include two accepts and a third that interferes, and two
  accepts of one order race for an invoice number like those of two. Nothing
  bounds the counters: a status leaves PROOF_SUBMITTED for good but for stale
  requests, of which each slot holds one. `orders_invoice` has two orders.
- `Replacements`: three leads, so that two approvals contest the last one; an
  exclusive and a shared order of one lead each, so that every credit meets a
  completed order; two requests and two workers, for every conflict is between
  two. `MaxShared` is 1, the cap at its limit. `Controls` are PAUSED and
  FULFILLING: here CANCELLED and ACTIVE differ from these in name only. The
  credits need no bound: an approval starts while its request is pending.
- `Bridge`: two submissions of one person for everything about duplicates; one
  submission and two drains for everything about overlapping drains. Two requests
  at once are a lost answer and its retry; `bridge_overlap` has one at a time, since
  what the drains do to the queue depends on their answers alone. Nothing bounds the
  sends that fail, so they exceed the retries: two, and three in `bridge_overlap`,
  where a row is put off before it is given up. `MaxTroubles` bounds crashes and
  changes by administrators to one.
- Office: two calls under way in each part, since what goes wrong takes an answer
  and one other step between; two rows, or three columns (one new), so that one
  row changes while another is shown. The columns are of two types, so that a load
  of one may arrive under the tab of the other, and a key is used in both. The rows
  of the sheet are two assignments of one lead; an address has two passwords. `MaxCalls`, `MaxActs`, `MaxTurns`,
  `MaxActions`, `MaxUploads` bound the calls in all, enough for a call made on the
  result of another. Three audit entries in pages of one give two pages and an
  entry after them. Two screens with two prices entered overwrite one another; four
  tries are a sign-up, an approval, a login and a change, or a sign-up and an approval
  in each table; four calls of the column editor are loads of both tabs and two
  changes, or a load and three. `AssignDesk` has one load of rows at a time here; that any
  number is no different is proved.
- Symmetry in safety runs only: over leads, workers, requests, submissions and
  drains of the pipeline, and over calls (`k1`, `k2`), rows (`n1`, `n2`) and passwords
  of the office. The order of the
  uuids and the queue of orders are part of the model, so orders are not permuted
  in `Distribution`; columns, audit entries and desk leads differ and are not
  permuted either.
- Deadlock is checked in `Distribution`. An order that ended, an empty queue and a
  screen at the bound of its calls really stop, so the other runs do not check it.

Fairness of `Distribution` is strong for the steps of a transaction, the handler
of LEAD_VALID and the delivery: PostgreSQL grants row locks in the order they were
asked for and the pool serves its queue in order, so one that waits is not
overtaken for ever. Admins, visitors, timeouts and crashes have none. Strong
fairness of a step does not rescue a transaction that never finds a free
connection: with as many transactions as connections each keeps one while
`isBlocked` waits for another, which `distribution_pool` shows. Fairness of
`Bridge` is weak: a process goes on with its next statement, a sender stops
waiting after the plugin's timeout, and the cron comes again; a step, once
possible, stays so. It does not keep drains from overlapping, nor sends from failing;
`EverySubmissionSettles` supposes that the overlaps end.

Each property of a passing run is broken by a changed definition (those under
"Fault:"), listed in `PROJECT.json` under `mutants`.

## 5. Findings

1. **A pause may overwrite COMPLETED** (`distribution.service.ts:497`).
   pauseOrder and resumeOrder check a row they read earlier. When the last slot is
   sold in between, the order becomes PAUSED, and FULFILLING with nothing left
   after the resume; `schema.prisma:74` says COMPLETED is when the balance hit
   zero.
2. **Matches may starve one another of connections** (`:178`). isBlocked queries
   over a second connection inside the transaction. The matches time out, the
   error is logged, and the leads stay VALID, which matchPool does not look at;
   `distribution-concurrency-test.ts:13` expects every lead ASSIGNED or UNSOLD.
3. **accept looks at the status outside of its transaction**
   (`orders.service.ts:252`): a cancelled order is revived, or one proof charged
   twice; `ORDER_FLOW.md:82` allows PROOF_SUBMITTED only.
4. **An invoice number may be taken twice and nothing is retried**
   (`invoices.service.ts:98`), against the comment at `:95`. The unique key fails
   the second insert and the accept ends without invoice.
5. **A request may be decided twice** (`replacements.service.ts:126`). approve
   and deny read the request without a lock and do not look again. A denial that
   overlaps an approval leaves a DENIED request, an ACCEPTED original and a
   credited order; two approvals credit twice, and each may take a fresh lead.
   `:134` and `:216` refuse a second decision ("Replacement already ...").

How far each reaches is proved, not only what it breaks: without the step the run
needs, the property holds at any size (section 6).

| Finding | Holds as soon as | Theorem |
|---|---|---|
| 1 | nobody pauses or resumes the order | `UnpausedOrdersComplete` |
| 2 | there are more connections than transactions: never all stuck | `PoolsWithASpareNeverBlock` |
| 3 | the requests about one order come one after the other | `AcceptsInTurnNeedAProof` |
| 4 | invoices are made one after the other, and nothing fails | `InvoicesInTurnAreAllIssued` |
| 5 | the decisions about one request come one after the other | `DecisionsInTurnCreditOnce` |

"One after the other" is what a lock on the row (the counter) before the check would
enforce; it is not what the code does, and the theorems state it as a hypothesis
about the behaviour.

Met while modelling, and shown by no run:

- **A submission may stay in the plugin's queue for ever** (class-lpb-client.php:109).
  A drain that gives a row up deletes it by its id. The send of another drain that
  had read the row fails after that and inserts the submission anew, with one attempt
  (class-lpb-db.php:151-158). The plugin's README says at line 90 that it is dropped
  after `max_retries` failures, and at 92 that this caps the attempts. TLC refutes
  `EverySubmissionSettles` without the hypothesis on overlapping drains.
- **A client with a staff address cannot sign in** (auth.service.ts:31). Each sign-up
  looks in its own table, whose index is its own, so the account is made and may be
  approved; the login stops at the row in users. Line 17 says that it authenticates
  against both. `KnownPasswordIsKept` says that the password is the one of the account,
  and no more.
- **A follow-up shows on another assignment** (LeadsSheetScreen.tsx:304). The answer
  is patched into every row of the lead. A client may hold a lead in two orders
  (schema.prisma:486), and the follow-up "lives on the assignment, not the lead"
  (:94-95). The rows also share their React key. `FollowupShownIsStored` is about the
  row whose last write reached the screen last: the other row is right after a load.
- **A reorder need not list every column** (lead-type-columns.service.ts:150). It
  counts keys, which may be repeated, and columns, which may be created after the
  count. A column that is not named is moved 10000 down by the first phase and stays
  there (`Reordered`); the comment at :140-141 says that the body must contain every one.
- The dialogs that delete campaigns and landing pages say that those with leads
  "can't be hard-deleted and will be skipped" (CampaignsScreen.tsx:255,
  LandingPagesScreen.tsx:299 and :311). The foreign keys are ON DELETE SET NULL
  (migration `20260522000000_init`, lines 444 and 447): they are deleted. `AcceptsCall`
  follows the code.
- A send that gets 401 while the secret is being changed on both sides drops the
  submission from the queue (class-lpb-client.php:73).
- A paused or cancelled order still receives replacements (distribution.service.ts:420).
- A push that is sent while the socket is away is not repeated, and a socket that
  comes back fetches no list (NotificationsProvider.tsx:74).
- approve and reject of a client check the status and write later
  (clients.service.ts:78): of two that overlap the later wins.
- The answer of a rotation is shown as the secret of whatever page is open by then
  (LandingPageDetailSheet.tsx:138); a reveal that is answered late brings its
  dialog back; the summary of an upload made before the import dialog was closed
  is shown in the dialog open then.
- One `busyId` stands for all rows of OrdersScreen and ReplacementsScreen: an
  action on another row frees the first.
- The column editor, after two removals, may show a new column in the wrong place
  (LeadColumnEditorScreen.tsx:166). Its tabs stay live while calls are under way: the
  answer of an older load shows the columns of another lead type under the tab (:112),
  and a column whose creation is answered after a load that lists it, or after a
  change of the tab, is shown twice, or in the list of another type.
- LeadsScreen and SuppressionScreen test for rows before they test for an error: a
  first load that fails leaves the skeleton.
- removeFromPool of the samples screen does not look at the HTTP status.
- The price grid is sent back whole (PricingScreen.tsx:60): it sets back what others
  changed since it was loaded, and turns a price that was never set into 0.
- ProfileScreen loads the profile again after a save to show the trimmed values
  (line 107), but an uncontrolled input that somebody typed in keeps its text; a field
  that was emptied keeps its stored value and looks empty.
- A password that an administrator sets is trimmed (UsersScreen.tsx:144), the one typed
  at the login is not.

Where a property of the runs meets such a case it excepts it, by a history
variable, and its comment says so. What holds all the same: however accepts, pauses
and cancels overlap, no lead is sold to an order without proof and charge, and no
order receives more than was charged (`OnlyPaidOrdersAreServed`, `SalesAreCovered`); and however approvals
overlap, each credit is sold or still owed, and no lead is sold twice over
(`BalancesReconcile`, `FreshLeadsAreFresh`, theorem `ReplacementsRespectSharing`). manualAssign of a
lead that was sold locks lead then order and can deadlock with an approval that
holds the order; PostgreSQL aborts one of them, and nothing is left half done.

## 6. What is proved

For all constants that satisfy the assumptions of the modules (each `ASSUME` is
named and evaluated by TLC on the instances): any finite sets of leads, orders,
workers, requests and submissions, any balances, priorities, criteria, cap and
pool, any number of rows, screens and calls under way. Assumptions that are not
types: priority and time of acceptance order any two orders, the first columns
have distinct positions, and names of different kinds differ.

- **LeadAllocationProofs**: an allocation keeps balances and sharing rules and
  never undoes a sale.
- **DistributionProofs**: `DistributionInv` is inductive. Balances and sharing
  are not by themselves: that a commit is an allowed sale depends on what was
  checked several steps earlier. The invariant therefore says what each lock
  protects: locks are exclusive; a transaction past its first lock owns its
  lead; an automatic match owns an undecided lead and has chosen a permitted
  set of orders; undecided leads have no buyer. Then every commit is an
  `Allocate`, every other step a stutter (`DistributionImplementsAllocation`),
  and balances and sharing come from the theorems about the abstract
  specification. `RowLocksNeverDeadlock` takes, in any group of workers, one
  that holds the greatest order row held in the group: it waits only for
  greater rows, or for a free one. The theorems on forgotten leads and
  deliveries use the same invariant.
  `TargetsAreDetermined`: the loop over sorted candidates picks one set of orders,
  whatever order the rows came in. The sort is strict, hence candidates ahead of all
  others form a chain of sets, and only one of them has the size the cap allows.
  Of `EveryTransactionEnds`, which is a liveness property, the two safe halves are
  proved: `TransactionsComeNearerTheirEnd` (each step of a transaction leaves it
  fewer statements and rows to lock) and `PoolsWithASpareNeverBlock` (with more
  connections than transactions one of them waits for nothing; this is the
  acyclicity of locks applied to all that run). `UnpausedOrdersComplete` has an
  invariant of its own, that no write of a pause is under way for such an order.
- **OrdersProofs**: `OrdersInv` is inductive. A request writes what it decided
  on long ago, so the invariant carries what its decision relied on
  (`RequestIsSound`): an accept under way is of an order with a proof, a pause
  or resume of a charged one, and these facts are never taken back. An invoice
  number taken lies in `1 .. n+1`, and only `n+1` can be inserted, hence no gap.
  `InvoicesMatchCharges` follows by counting requests and invoices. The two theorems
  about requests in turn carry a fact that only a concurrent request could break:
  an accept under way is of an order still in PROOF_SUBMITTED (`AcceptIsFresh`), a
  number taken is the next one (`NumberIsFresh`).
- **ReplacementsProofs**: `ReplacementsInv` is inductive. The claim of a
  replacement checks no sharing rule; it is right because a lead in the pool has
  no buyer and was promised to no request (`PoolIsUnsold`), and because whoever
  locked one keeps it in the pool until the commit (`Sound`, `LocksAreExclusive`).
  `ReplacementsNeverBlockTheEngine` needs no order on rows: among approvals and
  matches, one that holds leads waits for a request, which none of them locks;
  one that holds an order waits for a sold lead, which no match locks.
  `DecisionsInTurnCreditOnce`: what is being decided is pending, and the credits of
  an order are as many as its approved requests (`CreditsInv`).
- **BridgeProofs**: `BridgeInv` is inductive. Of the plugin it says that a row with
  failures is still queued, out of retries, answered or of a deleted endpoint (a row
  that is put back begins with one attempt, and the failures counted reach the maximum
  all the same); of
  the portal, what a request has found out so far of the leads it has seen. Every
  step is a `Store`, a `Confirm` or a stutter of `LeadCapture`.
- **OfficeProofs**, one inductive invariant per part. `ControlsInv`: a copy of the
  row is right except for types written since. `FeedInv`: a delivery a live list
  lacks is still to be pushed, or on its way. `SamplesInv`: what an undisturbed
  call relied on still holds. `ColumnsInv`: an editor that is not in doubt has at
  most one call under way, and what its answer will patch makes the copy equal to the
  table (`JobFits`); a list that was read and not
  overtaken is the one of its type (`ListIsFresh`), so whichever load is the last to
  arrive, of however many, settles the screen if it is the tab's. `TrailInv`:
  pages, cursor and calls agree on the newest entry not shown yet.
- **ScreensProofs**, likewise. `SheetInv`: whoever carries the last follow-up of a row
  (the screen, a load, or the call that wrote it) has what is stored (`CarriersFit`),
  although answers for other assignments of the lead are patched into the row.
  `DeskInv`, `DrawerInv`: an answer under
  way fits what is shown, or the history variable will be set when it comes.
  `OrderDeskInv`: an order with an unanswered call is marked busy, or known to have
  lost its mark (`MarksFit`). `EntityInv`: overlapping loads are marked, and a load
  read nothing that was written later, but for rows known to be behind; the ticks
  follow because a row that a run deleted is hidden only after its answer.
  `ImportInv`: two uploads past their duplicate check of one person are two checks
  at a time; what an upload counted adds up to the rows it is past.

- **AccountProofs**. `PriceInv`: a grid is right about the cells it has not missed a
  write of, and so is the list of a save on its way (`GridFits`, `SavingFits`,
  `SaveFits`); `PriceTrailInv`: a save served alone has read the list of the last
  entry (`TrailFits`). `ProfileInv`: each load under way (`LoadsMatch`) and the save
  the form waits for (`SubmittedFits`) agree with what is stored, but for the fields
  the history marks. `CredentialInv`, table by table: an answer that says yes carries
  the password stored in the table of its account, unless a later write is known of
  (`AnswerFits`); a sign-up keeps its table (`SignUpHasTable`).

Only model-checked: the three liveness properties (fairness and ENABLED are out of
the prover's reach) and the five violations. Every invariant and action property
of a passing run is stated by a theorem.

## 7. Not modelled

- Reports, revenue, dashboard, results of a campaign and metrics of a page:
  queries, and single writes of a rate.
- API keys, storage and signed links, the expiry of tokens and the checks of role
  and ownership: no state that two steps could disagree on.
- Criteria matching is an arbitrary relation, a constant of `Distribution`; the
  daily cap is NULL in every row the application writes.
- The bell of notifications, sorting, masks, export, forms and layout of the screens;
  PDF files; the pages and log of the plugin; the rest of the web front end.
- Backoff lengths and deadlines: a timeout is a step that may come at any time.
