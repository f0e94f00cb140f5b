# Verification of the NexaSalon API

TLA+ models, TLC runs and TLAPS proofs for the back end of NexaSalon, a
multi-tenant salon management API (FastAPI, SQLAlchemy, PostgreSQL). The code
is under `src/src/nexasalon_api/`, its migrations under `src/alembic/versions/`;
paths below are relative to the first unless they start with `alembic`.

## 1. The system

One process serves HTTP requests from a thread pool. `api/deps.py::get_db` gives
a request **one database transaction**: committed when the handler returns,
rolled back by any exception. `get_current_actor` runs before it in a
transaction of its own. Isolation is PostgreSQL's READ COMMITTED; handlers
that must serialize take row locks (`SELECT ... FOR UPDATE`) or rely on unique
indexes, CHECKs and, for the agenda, two triggers. Nothing else is shared
between requests, apart from the in-memory rate limiter. There are no background
jobs, no queue and no message.

| Component | State | Operations | What makes it correct |
|---|---|---|---|
| Appointments (`services/appointments.py`, `appointment_state_machine.py`) | `Appointment.status`, `AppointmentItem` rows, cached bounds | create, replace, edit and add items, change status (with related ones), pay, cancel, demote | no overlapping item unless allowed; `paid` only through a closed order |
| Orders, "comandas" (`services/orders.py`, `order_totals.py`) | `Order.status`, `OrderItem`, `OrderProductItem`, `Payment` | open, edit lines and products, close, close several, correct consumption, reopen, cancel, edit the observation | paid = charged; closed = frozen; stock and commissions follow the closing |
| Stock (`services/stock.py`) | `StockLevel` (balance), `StockMovement` (ledger) | movement by hand, sale, internal use, correction, transfer | balance = sum of the ledger, never negative, no row edited |
| Inventory counts (`services/inventory_counts.py`) | `InventoryCount`, items with the balance at opening | open, count, close | the adjustment brings the balance to the count plus what moved since |
| Cash registers (`services/cash_register.py`) | `CashRegister`, `CashMovement` | open, movement, close | one open register; what was frozen at closing stays true |
| Commissions (`services/commissions.py`) | snapshot in `OrderItem`, `CommissionSettlement`, `CommissionAdjustment` | resolve at closing, settle, adjust | a line is settled once, at the value it keeps |
| Payment fees (`services/payment_fees.py`, `payment_fee_rules.py`) | `PaymentFeeRule`, snapshot in `Payment` | resolve, edit the rules | the snapshot never changes |
| Availability, public booking (`services/availability.py`, `public_booking.py`, `schedule_blocks.py`) | working hours, blocks | compute free slots, book, cancel, reschedule | a slot offered is accepted; two bookings never share a time |
| Sessions (`services/auth.py`, `customer_accounts.py`, `core/security.py`) | refresh tokens, invite and reset tokens | login, refresh with rotation, logout, invite, reset | a used token is never accepted; reuse revokes all the sessions |
| Rate limiter (`core/rate_limit.py`) | attempts by key, in the memory of the process | count an attempt or refuse it | a window holds no more attempts than the maximum, whichever threads meet |
| Employees (`services/user_management.py`, `agenda_access.py`) | memberships, roles, overrides, agenda scopes | invite, set status, assign role, overrides, scope, link | tenants stay apart; denials hold; an organization keeps an active master |
| Fixed expenses, tax rates (`services/fixed_expenses.py`, `tax_rates.py`) | versions by month | create, edit from a month on, read a month | a past month keeps its version; its readings agree |
| Dashboard, extract (`services/dashboard.py`, `extract.py`) | none: reports | read a period | independent queries over the same rows reconcile |
| Catalog, signup, storage | rows | create, edit, archive | unique constraints |

**Interactions.** `create_order` snapshots the agenda's items into the order.
`close_order` and `close_orders_consolidated` write, in one transaction, the
payments (at open registers, with the fee of the moment), the withdrawals of
stock, the commission snapshots, the order's status and, through `mark_paid`,
the appointment's. `reopen_order` undoes it unless a register involved was
closed or a line was settled. `update_appointment_item` and
`add_appointment_item` reach into the open order of their appointment.
`update_status` to `no_show` cancels the open order; `cancel_order` cancels the
appointment. Every staff request starts with the permissions that
`compute_effective_permissions` derives from a membership. The dashboard reads
orders, payments, fixed expenses, categories, withdrawals and tax rates.

**What is hard.** The order and the agenda are moved by handlers of two
services that each keep part of one invariant. Closing and reopening may repeat
in any order, with edits, corrections, register closings and settlements
between them. Handlers read rows they do not lock and write what they computed
from them. Triggers take locks in an order the code does not show. The reports
are a dozen queries that must agree about reversed payments, chosen sale dates
and month borders. Amounts have two decimals, quantities three, and their
product is not rounded. `PROJECT.json` lists these hazards one by one at the
line where they bite.

## 2. Modules

| Module | What it is |
|---|---|
| `OrderLifecycle` | The order with the parts of the agenda, stock, registers and commissions that its requests touch. One action per request. |
| `OrderRaces` | The requests that meet on one order, statement by statement, as PostgreSQL interleaves them. |
| `OrderBook` | What orders promise to whoever looks at committed rows; `OrderRaces` implements it. |
| `Agenda` | Bookings, items, blocks and free slots, statement by statement through the two triggers. |
| `Inventory` | Movements, transfers, sales and counts of stock as concurrent transactions. |
| `Sessions` | Refresh tokens and the flows that issue them. |
| `RateLimiter` | The threads that count attempts in one list per key. |
| `Permissions` | The keys the migrations seed and the keys each staff route accepts: operators only. |
| `Access` | Memberships, effective permissions, agenda scopes and the administration of one member by another; EXTENDS `Permissions`. |
| `Finance` | Fixed expenses by version, categories, withdrawals and tax rates. |
| `Dashboard` | Sales, payments and fees, and the reports over them and over `Finance`, which it EXTENDS. |
| `Sums` | Lemmas about the sum of a function over a finite set, and the inductions in the form the prover accepts. |
| `OrderLifecycle_proofs`, `OrderRaces_proofs`, `Inventory_proofs`, `Agenda_proofs`, `Sessions_proofs`, `Access_proofs`, `Dashboard_proofs` | Theorems, section 4. |
| `MC...` | Values of the constants for TLC. |

### OrderLifecycle

One action is one request, hence one transaction. Every handler that writes an
order takes its row lock before it reads its status, so for those handlers the
step is also what the database serializes. The requests that do not take that
lock (edits of the agenda, status changes, register closings, settlements) are
one step here too: **this module says nothing about what they do when they
interleave with another transaction**. That is what `OrderRaces` is for.

| Variable | Column or table |
|---|---|
| `appointment_status`, `agenda` | `Appointment.status`; the `AppointmentItem` rows that exist |
| `order_status`, `order_appointment` | `Order.status` (`"none"`: not inserted), `appointment_id`; the order's number is its id |
| `order_items`, `product_items` | rows of the order, by `appointment_item_id` and by slot |
| `payments`, `reversed` | `Payment` rows with `reversed_at` NULL and set, oldest first |
| `quantity_on_hand`, `movements` | `StockLevel`, `StockMovement` (a row's id is its position) |
| `register_status`, `opened_day`, `cash_net`, `expected_amount` | `CashRegister`, with its cash movements added up |
| `settlements` | `CommissionSettlement` (the id is the position, 0 is NULL) |
| `today` | the operational day |

| Action | Handler |
|---|---|
| `CreateOrder`, `UpdateOrderItem`, `UpdateOrderItemBenefit`, `AddProductItem`, `RemoveProductItem`, `UpdateProductItem` | the functions of `services/orders.py` of the same names |
| `CloseOrder`, `CloseOrdersConsolidated` | `close_order`, `close_orders_consolidated`, with `record_sale_movement`, `record_internal_use_movement`, `resolve_commission` and `mark_paid` |
| `CorrectConsumption`, `ReopenOrder`, `CancelOrder` | same names, with `record_consumption_correction`, `demote_appointment_from_paid_for_order_reopen` and `cancel_appointment_for_order_cancel` |
| `UpdateStatus`, `CancelAppointment`, `UpdateAppointmentItem`, `AddAppointmentItem` | `services/appointments.py`; `UpdateStatus` includes the automatic cancelling of an order on `no_show` |
| `OpenRegister`, `RegisterMovement`, `CloseRegister` | `services/cash_register.py` |
| `CreateSettlement` | `services/commissions.py` |
| `RecordMovement` | `services/stock.py::record_movement` |
| `NextDay` | the clock |

Choices that a reader should know:

- **Money.** An amount is a natural number of cents. A price has two decimals
  and a quantity three, so `quantity * unit_price` is finer than a cent. The
  model counts in units of `1/QuantityScale` cent: `order_charged_total` is
  exact, payments are whole cents. `QuantityScale = 1` is the case where every
  amount due is payable.
- **The consolidated closing** divides a queue of payments. The model does not
  repeat the loop: what the orders owe and what was paid are laid end to end,
  and an order takes from a payment the units they share (`Portion`); the part
  stored is rounded to cents, as the column does (`ToCents`).
- **The order of product lines** inside an order is not defined by the code
  (`Order.product_items` has no `order_by`), so the withdrawals of a closing are
  numbered in any order.
- **Widths.** `MaxAmount` and `MaxStock` stand for `Numeric(10, 2)` and
  `Numeric(12, 3)`: a wider value is refused by the database and the request
  rolls back.
- **Fresh keys.** `reopen_order` gives its movements a new UUID as idempotency
  key; no request can carry it, so the model writes `NoKey`.
- **Bounds.** `MaxOrders`, `MaxDay`, `MaxMovements`, `MaxReversed` and
  `MaxSettlements` only limit how long a history is explored.
- **Abstracted**: services, names, durations, fees, audit rows; one branch and
  one configuration; working hours and overlaps (an edit of the agenda "may be
  refused").
- **Left out**: `update_observation`, commission adjustments, custom statuses.
  `replace_appointment` and the customer's own cancel and reschedule are in
  `Agenda`, `sale_competence_override` and fees in `Dashboard`.

### OrderRaces and OrderBook

A worker serves one request at a time. A request is a transaction, and an action
is one of its statements. What it writes becomes visible in its commit step, so
the tables change there only; until then `tx[w]` keeps what it has read and
`holder` the rows that it has taken. `Needs` says which rows a statement takes:

| Statement | Code | Takes |
|---|---|---|
| `LockOrder` | `order_repo.get_for_update`, in closing, reopening, cancelling and `no_show` | the order |
| `ReadAppointment`, `WriteAppointment` | `mark_paid`, `demote_appointment_from_paid_for_order_reopen`, `cancel_appointment_for_order_cancel`, `_apply_status_change`, the trigger of an edited item | nothing; the appointment |
| `WriteLine` | the UPDATE of `order_items` at a closing or by an edit | the line |
| `ReadOrder` | `get_by_appointment`, in `no_show` and `update_appointment_item` | nothing |
| `CheckOrder`, `ReadNumber`, `InsertOrder` | `create_order` | the entries in the two unique indexes |
| `ReadPending`, `LockLines` | `lock_pending_commission_items` | the lines |
| `CheckRegister`, `ReadSummary`, `WriteRegister` | `assert_register_open_and_in_org`, `build_summary`, `close_register` | nothing; the register |
| `Commit...` | the end of `get_db` | gives everything back |

A statement that finds a row taken waits. Workers that wait in a circle stay
there until the database fails one of them (`DeadlockVictim`): marking *no_show*
takes the appointment before the order, a closing the order before the
appointment. A refusal, an exception and a lost deadlock are the same rollback
(`Refuse`).

An order has one line and one payment here, in cash at the one register, and a
request is kept down to the statements that can disagree with another request.
`close_orders_consolidated`, the edits that hold the order's lock, products and
stock are left out. The waiting itself is PostgreSQL's, not the repository's: it
is modelled from what the code relies on and marked external in the map. Foreign
keys lock rows only against deletion and play no part. SQLAlchemy does not send
an UPDATE that changes nothing; the model always sends it. `MaxAmount` is the
width of an amount's column: a register whose sum is wider cannot be closed.

`OrderBook` has four steps (open, close, reopen, cancel) and no notion of a
transaction. `OrderRaces` implements it with the identity on the order's
columns: however statements interleave, orders move as if each request had run
alone. What does *not* survive is in section 5: it always involves a row that
some request reads without taking.

### Agenda

A request validates what it read (`Begin`), writes its items one at a time
(`Write`), takes the row of the appointment (`Touch`) and commits. `Write` is
where the two triggers of `alembic 0004` run. The overlap trigger takes an
advisory lock per professional that lasts until the commit, then looks for
overlaps in what is committed by then; the bounds trigger computes the cached
bounds from what it sees *before* it waits for the appointment's row. Two
transactions that wait for one another lose one (`DeadlockVictim`).

| Variable | Column or table |
|---|---|
| `appointments` | status, client, branch, `starts_at`, `ends_at` |
| `agenda` | `appointment_items`: professional, times, duration, `forced` |
| `blocks` | `ScheduleBlock` |
| `now`, `ids` | the clock; the identities given so far |
| `requests` | what each transaction under way has read, written and taken |
| `reoccupied`, `raced` | ghosts: appointments that went back to holding their time; appointments whose items two transactions wrote at once |

| Action | Handler |
|---|---|
| `create_appointment`, `replace_appointment`, `update_appointment_item`, `add_appointment_item`, `update_status`, `cancel_appointment` | `services/appointments.py` |
| `CreateForCustomer`, `cancel_by_customer`, `reschedule_by_customer` | `services/public_booking.py` and the customer's functions of `appointments.py` |
| `create_schedule_block`, `delete_schedule_block` | `services/schedule_blocks.py` |

`compute_availability` is the code's sweep: windows cut by opening hours, busy
intervals subtracted in order of their start (`Subtract`), starts aligned to a
grid from midnight (`Slots`). The booking checks (`HasConflict`) are other
functions of other services. `Visit` is one turn of the sweep's loop: it skips
what lies outside, and cuts the free piece before an interval. `forced` is the
column that says a conflict was accepted. Time is in units of the grid; a day's
windows do not cross midnight, as in the code. The bookings here have no order,
and the register prerequisite of a staff booking is taken as met:
`OrderLifecycle` has both.

### Inventory

A request is a transaction: its movements are done one by one
(`_create_movement`), each locks the row of its shelf (product, branch) until the
end, reads its own writes, and a refusal rolls everything back. `level` is
`StockLevel`, `ledger` the sum of `StockMovement` by shelf and reason, `counts`
the counts with their items, `holder` who holds a shelf's row. Quantities are
numbers of half thousandths: a column stores thousandths, so what it stores is
even, and a quantity converted from another unit may be odd (`Column` rounds it).
`open_count` makes one SELECT per product (`SnapshotItem`); `others`, a history
kept in its items, is what the ledger said apart from counts at that moment.
Sales are the withdrawals of a closing order, whose order of lines is a constant.

### Sessions

A request reads in one step and commits in another; nothing is locked between.
`token` holds the rows of both refresh token tables, `cookie` what a browser
sends, `request` what a tab waits for. `Authenticate` stands for `login` with
one membership and for `select_organization`; `accept_invite`, `reset_password`
and it issue the token in a second transaction (`issue_session_tokens`) that
reads nothing again. `ReadToken`, `refresh` and `refresh_session` are the two
halves of a rotation: `mark_rotated`, or, when the token was already revoked,
the revocation of the rows selected in the first half (`SelectedByReuse`).
**Faults**: an answer is lost (`Cookie` may leave the browser with the old
token, the ordinary cause of a reuse), and the process restarts at any step
(`Restart`), which rolls its requests back. What the limiter or a wrong password
refuses changes nothing here. Hashes, signatures and access tokens are data.

### RateLimiter

`InMemoryRateLimiter.hit` reads the clock (`Arrive`) and *then* takes its lock
(`core/rate_limit.py:44-46`); what it does under the lock is one step (`hit`,
`TooManyRequests`). Between the two the clock goes on and other threads may
prune and record, with an earlier clock or a later one, so the times of a list
need not be in order and what one call forgets may matter to another. `hits`
holds which attempts the list still has and `admitted` their history: the time
each recorded (`at`) and the time it was let in (`entered`). A key is a route
with an address; `ProcessRestarts` is a crash or a deploy, after which nothing
is remembered. The limiter stands before the routes of `Sessions` and shares no
state with them: `MCSessions` explores the two in one run, each while the other
is at rest, which is every state of each.

### Permissions and Access

`Permissions` has no variable: the seeds of the migrations, in the union that
they leave in `role_permissions`, and one `Route` per guard of `api/v1` with the
operations behind it. `Access` computes from them what the code computes:
`compute_effective_permissions` (role, overrides, normalisation),
`can_view_professional` and `list_agenda`, `Visible` (row level security after
`alembic 0006`) and the guard of the handlers against it (`GetMembershipInOrg`).

| Variable | Column or table |
|---|---|
| `users`, `password` | `users`; `password_hash` is set |
| `membership` | `organization_memberships` with its role, overrides, scopes and access grants |
| `professional_user` | `Professional.user_id` |
| `request` | the organization a user's admitted request acts in |

A request is two transactions, so `Admit` and the handler are two steps and
anything may happen to the member between them. Inside each nothing is locked
and each is one step: the races between two handlers' own statements are in
section 5, not in the model. `OWNER` and `PROFESSIONAL` are the roles that
requests of the run assign; the other two differ in keys only.

### Finance and Dashboard

`Finance`: `expenses[e]` maps the month a version starts in (`effective_from`) to
the version. A request validates in `FinanceStep` and writes at its end
(`Commit`); uniqueness and foreign keys are checked there, and no row is locked
between, so two requests on one expense or category may both go through: the
ghost `raced` keeps what that touched, and the properties say "unless". Three
functions read an expense: the list (`effective_version`, `occurs_in`), the
provision by due date (`provisions`) and the share by days open
(`managerial_fixed_costs`).

`Dashboard` adds orders whose lines are fixed, closed by `close_order` (with a
sale date or none, and a fee per payment) and reopened by `reopen_order`. Each
operator below is one of the report's queries: the headline figures, the series
by bucket, the breakdowns, the detail of a method, the extract's total, the
available result. A day is the unit of time and months are short, which keeps
all borders (start of month, mid-month, end of calendar) within reach; the
thresholds of the granularities (31 and 92 days) are constants. Days are the
salon's, since the requests name its midnights (`tests/test_dashboard.py:2420`);
what the code computes from a row instead, with `.date()`, is the day in the zone
the database session returns rows in, which nothing sets: UTC. The months of the
taxes are such days (`utc_competence`, `revenue_by_month`), those of the period
are not (`MonthsBetween`), and a sale whose month is none of them is left out of
every base, as in the code. A chosen sale date is stored as its noon and is the
same day in both. The report reads
in one step; in the code its queries are separate statements under READ
COMMITTED, so a closing may fall between two of them.

## 3. Runs

| Run | Question | Instance | Distinct states |
|---|---|---|---|
| `OrderMoney` | Does a closed order stay paid what it charges, whatever is closed, reopened, repriced and paid again, and do closed registers keep their figure? | 1 appointment, 1 item, 1 order closed up to three times, 2 registers, payments of one or two rows in cash or pix | 247,700 |
| `OrderConsolidated` | The same for two orders of one client closed together, with their commissions settled | 2 appointments, 2 orders, 1 register, 2 days, payments 1 and 2, three kinds of rule, 1 settlement | 196,272 |
| `OrderStock` | Do product lines, ledger and balance agree through closing, reopening, correction, retry and manual movement? | 2 appointments, 2 orders, 2 slots, 1 product, balance up to 2, 4 movements, 2 keys | 149,064 |
| `OrderRaces` | Whatever statements interleave, do orders move as if requests ran alone, is a line settled once, and does every request end? | 2 workers, all nine kinds of request, 1 appointment, 2 orders, one price | 218,019 |
| `Access` | Do routes, seeds, overrides and scopes fit together, and do two salons that share a member stay apart? | 2 users, 2 salons, 3 memberships, 1 professional, 2 roles, 3 sets of overrides | 136,196 |
| `Sessions` | Do rotations, replays, logouts, lost answers and restarts leave chains of tokens, and does a reuse log the user out everywhere? What may the limiter admit, whose threads wait between the clock and the lock? | 2 tabs of one browser, 2 memberships of one user, 1 customer, 3 tokens; 2 threads, 2 keys with windows of 2 ticks and 1, maximum 2 and 1, 3 ticks | 576,717 |
| `Inventory` | Do balance, ledger, transfers and counts agree when movements interleave, and does every request end? | 2 workers, 1 product, 2 branches, 2 counts, 4 requests | 148,968 |
| `Agenda` | Can two bookings share a time nobody forced; is every offered slot accepted; do the cached bounds follow the items? | 2 requests at a time, 4 in all, 2 professionals, 2 days, 2 appointments, 2 items, 1 block | 121,064 |
| `Finance` | Do the three readings of an expense agree, is a past month left alone, and is no cost counted twice? | 2 requests at a time, 3 in all, 2 expenses, 2 categories, three months of 3, 2 and 3 days | 193,469 |
| `Dashboard` | Do the report's independent queries add up to one another? | 2 sales, one made on the last evening of a month, 2 methods, chosen sale dates, 2 payments, one expense, three short months, five periods | 49,641 |
| `SettlementRace`, `MethodDetail` | Findings, section 5 | | |

**Bounds.** Each run of `OrderLifecycle` gives one dimension (money, agenda,
stock, commissions) several values and the others one or none: the dimensions
meet only in the closing, the reopening and the cancelling, which every run
contains. Two orders, two registers and two days are the smallest numbers at
which one can be confused with another; closing an order twice needs
`MaxReversed` of at least one payment. The amounts 1 and 2 allow an exact
payment, a short one, an excess and a payment divided between two orders.
Elsewhere two workers, tabs or requests are what every race here needs: each
conflict, and each circle of waiting, is between two. `OrderRaces` has two
orders, so that an appointment is opened again after a cancelling and two
openings collide on a number. `Sessions` needs three tokens for a rotation, its
replay and a session issued in between, and three memberships and accounts for
a user with two of them and a customer beside. `RateLimiter` needs two threads,
for one to wait while the other forgets; three ticks let a window of two end
and another begin. In `Access` a member of two
salons is what isolation is about, and a second member of one what the last
master is about. In `Agenda` one professional has a split shift in one branch
and the other a day cut by the opening hours; a service of one unit and one of
two, on a grid of two, put slots on every kind of edge. The calendar of
`Finance` and `Dashboard` has three months, so that one is past, one current and
one future, of different lengths, so that a due day passes a month's end.

Deadlock is checked in the runs of the order. The others say
`CHECK_DEADLOCK FALSE`: their clocks and counters of requests end, and then the
system has nothing to do; that no request waits for ever is `EveryRequestEnds`
in `OrderRaces` and `Inventory`. For `Agenda`, for more requests than two and for
longer circles see *waiting* in section 4.

**Properties**, and what would break them:

- `PaidMeansClosed`: *paid* in the agenda exactly while an order is closed; one
  active order per appointment. Broken by a missing demotion on reopening, or by
  a change of status that reaches a paid appointment through a related one.
- `MoneyConserved`: a closed order's active payments equal what it charges; no
  other order has active payments.
- `FrozenRegister`: the expected amount of a closed register is still the sum of
  its active cash payments and movements. Broken by a closing or a reopening
  that does not check the register.
- `PaymentsAppendOnly`: the payments ever received are only appended to.
- `ClosedOrderIsFrozen`: nothing changes a closed order without reopening it.
- `StockFollowsClosing`, `StockIsItsLedger`, `OneCorrectionPerKey`: a line is
  linked to its own withdrawal exactly while its order is closed; the balance is
  the sum of the ledger; a retried correction moves stock once.
- `SettlementBacked`: a settlement's totals are those of the lines linked to it,
  which are still closed and still of that professional.
- `ImplementsBook`: a second payment by a retried closing, a closed order that a
  late *no_show* cancels, two active orders of one appointment. Broken when the
  status is read before the row is locked, or when the partial unique index is
  missing.
- `LineSettledOnce`: two settlements at once never pay the same line.
- `EveryRequestEnds` (`OrderRaces`, `Inventory`): rows are given back by commits
  and refusals, and a circle of waiting is broken. Broken by a transaction that
  ends and keeps its locks.
- `OwnerIsAdmittedEverywhere`: an owner nobody restricted passes the guard of
  every staff route. Broken by a migration that forgets a role, or a route that
  asks for a key nobody seeded.
- `DenialsHold`: a route whose every key was denied to a member refuses it,
  except for the own agenda that the normalisation gives back to whoever writes
  appointments. `WritersReadTheAgenda` is what that normalisation is for.
- `ListAgreesWithDetail`: the agenda's list and an appointment's detail, two
  functions, show a member the same professionals.
- `MasterSurvivesStatusChange`: a change of status never takes an organization's
  last active master, with overrides, roles and statuses of all members counted.
- `TenantIsolation`: a membership changes only by a request made in its own
  organization, by its signup or by its invitation, although the row level
  security shows a user the rows of two.
- `RateWindow`: when an attempt is admitted, fewer than the maximum were recorded
  in the window that ends at that moment, however long its thread and the others
  waited for the lock. Broken by a cutoff a moment late. It speaks of
  recorded times; counted by the moments they were let in, attempts may exceed
  the maximum, section 5.
- `Lineage`: the tokens of a session form a chain that can be followed both ways.
- `RevokesTheUser`: a reuse revokes the tokens of that user, of all of its
  memberships, and of no one else; only what was issued since its SELECT survives.
- `LedgerIsBalance`, `TransfersBalance`: whatever transactions met on a shelf,
  its ledger explains its balance; what left a branch arrived in another.
- `CountSettles`: after a count is closed the shelf holds what was counted and
  what moved since the count was opened, unless a count of the branch was closed
  before; of two closings of one count that overlap, it is about the first.
- `OverlapsAreForced`: two active items of one professional overlap only when one
  was forced or came back from no-show. Broken by a trigger that trusts the
  application's check.
- `OfferedIsAccepted`: the sweep that offers slots and the checks that accept a
  booking agree on every start of the grid; every public slot has a professional.
- `BoundsFollowItems`: the cached bounds are the first start and the last end,
  unless two transactions wrote the items at once.
- `ViewsAgree`: list, provision and managerial share show the same expenses of a
  month, once, for the same amount.
- `PastIsImmutable`: no request changes what an earlier month was provisioned
  for, nor its tax rate unless the user confirmed it.
- `CostCountedOnce`: a withdrawal that is deducted by itself belongs to no
  category of a fixed expense.
- `SeriesAddUp`, `BreakdownsAgree`, `ResultAddsUp`: the bars of each chart add up
  to its card, for every granularity; sold less benefits is received, by method
  too, and services, professionals, clients and extract split the same sales; the
  result of two consecutive months is the sum of their results, each month taxed
  at its own rate. A sale made on one side of the border that is on the other in
  UTC is excepted: it is taxed in the two months together and in neither alone,
  section 5.

**Fairness.** `OrderLifecycle`, `Access`, `Sessions`, `RateLimiter`, `Agenda`,
`Finance` and `Dashboard` assume none and state no liveness: a request is made
when a person makes it, and nothing in the code promises that an order is ever
closed. `OrderRaces!FairSpec` and `Inventory!FairSpec` assume that a worker goes
on with its request, that PostgreSQL serves those who wait for a row in turn
(its lock queue is first in, first out, hence strong fairness of `Step(w)`: a
row may be taken and given back many times meanwhile) and that it looks for
deadlocks (weak fairness of `DeadlockVictim`). They do not assume that requests
arrive.

## 4. Proofs

Sums and other recursions are defined here by folds and recursive functions,
and the library's induction theorems take an operator as a parameter, which none
of the provers can instantiate. The inductions needed are therefore stated about
*sets*: a set of naturals that holds 0 and the successor of each of its members
is `Nat` (`UpwardInduction`), a set of subsets that holds the empty one and grows
by one element holds the whole (`RemovalInduction`). Both follow from the
library's well-founded minimum. From them `Sums` proves what the fold
`SumFunctionOnSet` does on empty sets, equal functions, one more or one fewer
element, disjoint unions, parts by a column, rows summed before columns, and
renamed rows. Its last part is about finite sets, `CircleExists` above all: where
each member of a finite set waits for one of the set, some of them wait for one
another in a circle.

`OrderLifecycle_proofs` proves, from the assumptions `StructureAssumption`,
`InputAssumption` and `BoundAssumption` of `OrderLifecycle` only:

| Theorem | Statement |
|---|---|
| `TypeCorrect` | `Spec => []TypeOK` |
| `PaidCorrect` | `Spec => []PaidMeansClosed` |
| `MoneyCorrect` | `QuantityScale = 1` implies `Spec => []MoneyConserved` |
| `ClosedFrozen` | `Spec => ClosedOrderIsFrozen` |
| `PaymentsKept` | `Spec => PaymentsAppendOnly` |
| `KeyCorrect` | `Spec => []OneCorrectionPerKey` |
| `StockCorrect` | `Spec => []StockFollowsClosing` |
| `FrozenCorrect` | `Spec => []FrozenRegister` |
| `SettlementCorrect` | `Spec => []SettlementBacked` |
| `LedgerCorrect` | `Spec => []StockIsItsLedger` |

The argument. `TypeOK` is inductive by itself; the balance stays in `Quantity`
because the withdrawals of a closing are checked together. `PaidMeansClosed` is
inductive with `TypeOK`: its second half (one active order) is what lets a
reopening demote an appointment without looking for other orders.
`MoneyConserved` is inductive with `TypeOK` and uses two facts about a closing:
the commission snapshot does not change what a line charges (`ChargeIsKept`),
and with whole cents rounding a part is the identity, so the parts an order
takes add up to its charge (`ExactClose`). These sums stay opaque: this part uses
only that equal functions have equal sums. The two action properties follow
from `TypeOK` action by action (`ClosedStep`, `HistoryStep`).

The ledgers. `OneCorrectionPerKey` rests on one fact about every action: it
appends to the ledger rows that carry no key, or one row whose key no earlier
row has (`LedgerGrows`, `NewKeys`). `StockFollowsClosing` is not inductive,
because it does not say what a link points at; `Links` does: a line of a closed
order is linked to a row with its own product and quantity, every other line to
none, and no two lines share a row. `FrozenRegister` is kept because closings
and reopenings require open registers, so the payments that point at a closed
one stay in place (`SamePayments`). `SettlementBacked` is inductive with
`TypeOK`: a step keeps an order's services and its status, or touches only
lines that no settlement paid (`BackingKept`), or is the settlement itself
(`BackingCreated`). `StockIsItsLedger` is inductive with `TypeOK`: what a ledger
adds for a product is the sum over its rows (`Booked`), appending rows adds their
sum (`BookedTogether`), and each request changes the balance by what it appends.

`OrderRaces_proofs` proves, from `RacesAssumption` only, for any number of
workers, appointments, orders and prices and any selection of requests:

| Theorem | Statement |
|---|---|
| `RacesTypeCorrect` | `Spec => []TypeOK` |
| `SettledOnce` | `Spec => []LineSettledOnce` |
| `BookCorrect` | `Spec => ImplementsBook` |
| `SomeoneMayProceed` | `Spec => []SomeoneMayGoOn` |
| `StepsShorten` | every step of a worker makes its `Left` smaller and leaves that of the others |

The last two are explained below, under *waiting*. None of the first three is
inductive alone: a commit writes what an earlier statement
justified, so the invariant has to say what that statement still guarantees.
`IInv` adds to `TypeOK` what each worker *knows* between two statements. `Reads`:
its next statement is one its request makes, on rows that exist. `OrderHeld`:
from `LockOrder` on it owns the order's row and the order has the status it read.
`EntriesHeld`: once it has inserted an order it owns both index entries, the
order's number is unused and the appointment has no active order. `LinesHeld`: a
settlement about to commit owns its lines and they are still pending. `Books`
adds that an order not yet closed has no active payment. The
proof is one lemma per statement; what the *other* workers know survives because
nobody loses a row (`TakeKeeps`, `ReleaseKeeps`) and a commit only moves an order
whose row its worker owns (`OthersAfterMove`). With `IInv`, the commits of
`create_order`, `close_order`, `reopen_order` and of the cancelling requests are
`Open`, `Close`, `Reopen` and `Cancel` of `OrderBook`; every other step stutters
(`StepOfTheBook`). Deadlock victims need no argument of their own: they roll back.

`Inventory_proofs` proves, from `InventoryAssumption` only, for any products,
branches, transactions at once and lists of sales:

| Theorem | Statement |
|---|---|
| `TypeCorrect` | `Spec => []TypeOK` |
| `TransfersCorrect` | `Spec => []TransfersBalance` |
| `BalanceExplained` | `WholeThousandths` implies `Spec => []LedgerIsBalance` |
| `CountsSettle` | `WholeThousandths` implies `Spec => CountSettles` |
| `SomeoneMayProceed`, `StepsShorten` | as in `OrderRaces`, see *waiting* below |

`WholeThousandths` says that the quantities requests enter are whole thousandths,
which is what every request without a conversion of units enters. Without it the
two properties are false, and that is the code's doing: balance and ledger are
rounded apart (section 5). `TransfersBalance` needs no such hypothesis, because
both rows of a transfer round one quantity. The invariant of each is about the
transactions under way, because a commit writes what earlier steps computed.
`TransferInv`: what a transaction has moved between branches and has still to
move is nothing. `LockInv`: whoever wrote a balance holds its shelf's row, so
`BalanceInv` can say that what it is about to write is the committed balance and
what it moved. `CountInv` carries a count from its opening to its closing: the
items remember what the ledger said when each was read, and no adjustment of the
branch was committed before the first count that is closed.

`Access_proofs` proves, from `AccessAssumption` only, for any users,
organizations, professionals and roles:

| Theorem | Statement |
|---|---|
| `RowsCorrect` | `Spec => []Rows` |
| `DenialsCorrect`, `WritersCorrect`, `ListsCorrect`, `OwnerCorrect` | `Spec` implies `[]DenialsHold`, `[]WritersReadTheAgenda`, `[]ListAgreesWithDetail`, `[]OwnerIsAdmittedEverywhere` |
| `TenantCorrect` | `Spec => TenantIsolation` |
| `MasterCorrect` | `Spec => MasterSurvivesStatusChange` |

`Rows` (each table has its columns' types, an admitted request an
organization) is the only invariant needed. With it the first four are about
`compute_effective_permissions` alone: a key is effective when a role or an
override grants it and no override denies it, and the normalisation of the
agenda keys adds one key and removes none. `OwnerCorrect` also expands the
tables of `Permissions`. `TenantCorrect` goes through the actions: each writes
memberships of the requester's organization, or one of the user it is made for.
`MasterCorrect` says that the guard of a deactivation leaves another active
master, and that whether a member is a master depends on its own row only
(`MasterDependsOn`). A handler is one step in `Access`, so two deactivations
at once stay outside this theorem, as section 5 says.

`Sessions_proofs` proves, from `SessionsAssumption` and, for the last, from
`LimiterAssumption` only:

| Theorem | Statement |
|---|---|
| `SessionsInvariant` | `Spec => []Inv` |
| `LineageCorrect` | `Spec => []Lineage` |
| `ReuseCorrect` | `Spec => RevokesTheUser` |
| `WindowCorrect` | `LimiterSpec => []RateWindow` |

`Inv` adds three things to `Lineage`: the types of the rows (`Rows`), that a
token's parent exists (`ParentsExist`), and what a request under way
has read (`Requests`). The last is what the reuse needs: the
revocation selects its rows in one statement and writes them in a later one, so
`Covers` says that the pending selection holds every live token the user had
when it was read and nobody else's. Other requests keep it true because a
revocation is never undone and a row never changes its owner or its parent.
The limiter has an invariant of its own, `LimiterInv`. A thread under way read a
clock that is not ahead of the present one (`InTime`), so whatever it leaves out
of a list, on behalf of all the others, has left the window by now
(`Forgetting`), and stays out of it as the clock goes on (`DroppedIsPast`). The
attempts of the present window are therefore all in the list and newer than the
cutoff of any call under way: the one that is admitted counted them
(`AdmittedIsSpaced`), and what it adds to the history does not change what
earlier ones found (`Spaced`).

`Dashboard_proofs` proves the theorems of `Finance` and of `Dashboard`, which
EXTENDS it. Those of `Finance` use `FinanceAssumption` only and hold for any
categories, expenses, requests and months:

| Theorem | Statement |
|---|---|
| `CostCorrect` | `FinanceSpec => []CostCountedOnce` |
| `VersionsCorrect` | `FinanceSpec => []VersionsKept` |
| `PastCorrect` | `FinanceSpec => PastIsImmutable` |
| `ViewsCorrect` | `FinanceSpec => []ViewsAgree` |

The invariant of the first, `Inv`, has two parts. `Tables` reads the property
off the rows: every version of an expense belongs to a category that is fixed or
in `raced`, every withdrawal that is deducted by itself to one that is variable
or in `raced`. `Checked` says what a request that has read and not yet written
may rely on: the category still has the nature it read, or is still used by
nobody, unless it is in `raced`. A commit that changes a category another
request under way has read adds it to `raced` (`RacesAreKept`, `OthersHold`,
`StillUnused`), and a category in use keeps its nature (`UsedHolds`). The order
in which the requests commit is therefore free.

`VersionsKept` carries the others. The versions of an expense are in turn: each
ends no later than the next starts, unless two requests met on the expense
(`InTurn`). A request under way writes in one of three ways, from a month that
was not past when it was accepted: the first row (`Creates`), columns of the row
of that month (`Edits`), or a row that takes over the end of the one it cuts
short (`Splits`). They are ways to write the table as it is *when the request
commits*, and stay so because any other commit on that expense puts it in
`raced`. `PastCorrect` follows: each way leaves every row in force in an earlier
month as it is but for its end, which stays later (`SameCharged`).
`ViewsCorrect` adds the calendar, whose recursion is proved well defined and
growing (`StartIs`, `StartGrows`): a due day past a month's end is its last day
(`DueInMonth`), the month that starts at the last bound has no due date and no
open day within it (`ShareInMonth`), the share of all the days is the whole
(`ShareOfAll`), and in turn, one version is in force (`OneInForce`).

Those of `Dashboard` add `DashboardAssumption`, and hold for any finite sets of
orders, methods and expenses, any lines, calendar, limits of granularity and
periods:

| Theorem | Statement |
|---|---|
| `DashboardIsFinance` | `DashboardSpec => FinanceSpec` |
| `SalesCorrect` | `DashboardSpec => []Kept` |
| `SeriesCorrect` | `DashboardSpec => []SeriesAddUp` |
| `BreakdownsCorrect` | `DashboardSpec => []BreakdownsAgree` |
| `ResultCorrect` | `DashboardSpec => []ResultAddsUp` |

The invariant `Kept` is that of `Finance` with `Sales`: the rows have their
types (`SalesRows`), and what is not reversed of an order is what it charged
while it is closed and nothing while it is open (`PaidWhenClosed`). Closing
appends payments of what is charged (`PaymentsMade`, `PaymentsAdded`), reopening
reverses every payment of the order, so a second closing starts from nothing.
The three properties are then facts about sums of fixed rows:

- `SeriesAddUp`. The buckets of a period, whose recursion is proved well defined
  for every granularity because each step moves on (`CutExists`), hold each day
  of it once (`BucketsPartition`). A bar sums the rows of its bucket, so the bars
  sum the rows of the period (`SumOnSlices`, `CountOnSlices`); what net revenue
  reads of a bucket is a period of its own (`DataOfBucket`).
- `BreakdownsAgree`. `PaidWhenClosed` gives the sums received; the rest are the
  same rows summed by another column (`SumOnParts`) or the lines summed by
  column before order (`SumOnSwap`, `LinesOfTags`).
- `ResultAddsUp`. Sales, fees and withdrawals split at the common bound
  (`PeriodSplits`). A month lies in one of the periods. Since every sale is on
  the same side of the bound in both zones (`SameSide`), the sales keyed by that
  month are the same in that period as in the whole, and it is taxed the same
  (`SoldInMonth`); sales keyed outside the whole are taxed in neither. A row of
  a fixed expense has its whole amount in a period that holds its month and
  nothing in one that ends where the month starts (`ShareInPeriod`). No
  withdrawal is of a fixed nature, by `CostCountedOnce` (`NoneIsFixed`): where
  two requests met on a category one may be, whether it counts then depends on
  the provisions of the period asked for. The property excepts both cases, this
  one and a sale that changes sides.

`Agenda_proofs` proves, from `AgendaAssumption` and, for the slots only,
`BlockAssumption` (a block starts and ends at an instant), for any requests under
way at once, any professionals, schedules and lists of items:

| Theorem | Statement |
|---|---|
| `OverlapsCorrect` | `Spec => []OverlapsAreForced` |
| `TypeCorrect` | `Spec => []TypeOK` |
| `BoundsCorrect` | `Spec => []BoundsFollowItems` |
| `OfferedCorrect` | `Spec => []OfferedIsAccepted` |
| `SomeoneMayProceed`, `StepsShorten` | as in `OrderRaces`, see *waiting* below |

The trigger sees only what is committed, so the property of the committed agenda
is not enough to show that two transactions may both commit. `Inv` states it
(`Clean`) for what *each* transaction under way sees, its own writes included,
and adds that no two of them wrote items of one professional (`Apart`), which is
what the advisory lock buys: when one commits, what the others see changes only
for professionals they did not write (`CommitKeeps`). `WriteKeeps` is the
trigger: it found the time free, or was told not to look, and then the row that
it let through says `forced` (`WellFormed`). Appointments may give their time
back meanwhile; `Gone` never becomes false again, which is why `reoccupied` has
to be remembered.

`TypeOK` needs `TabInv`: what each transaction has written and is to write is
sound against the committed tables, and two of them never hold one identifier
(`Sound`, `Separate`). `BoundsFollowItems` needs `BoundsInv`: a transaction that
has begun to write an appointment's items holds its row, so what its trigger
computed before it waited is still what its items say (`CacheKept`), and no two
transactions write the items of one appointment unless it is in `raced`. The
assumption that a list of items is not empty is the schema's
(`schemas/appointment.py`, `min_length=1`).

`OfferedIsAccepted` compares three functions of the code. The sweep is a fold over
busy intervals in the order of their start, so it has an invariant of its own,
`SweptUpTo`: the intervals visited so far lie behind the cursor or after the
window, the free pieces overlap none of them and end before one of them starts
(so that no later one, which starts no earlier, overlaps them), and a stretch of
the window that overlaps none starts at the cursor or later or lies inside a
free piece. A visit keeps it (`VisitKeeps`), the fold is
well defined whichever of two intervals with one start comes first
(`SweepExists`), and therefore `Subtract` leaves room for a stretch exactly when
no busy interval overlaps it (`SubtractIs`). The intervals the sweep is given
are read around one day only; inside the day's windows they are all those the
checks look at (`BusyInWindow`, `ChecksAreHeld`), because no window crosses
midnight (`DayIs`). The agenda and the blocks are finite because each action adds
at most a list of items or one block.

**Waiting.** `OrderRaces`, `Inventory` and `Agenda` have the same two theorems
about the locks. `SomeoneMayGoOn`: while a request is under way, one of those
under way may make its next statement (`MayStep`, `MayProgress`: it has the rows
it takes), or is in a circle of waiting ones, of which the database fails one.
Requests that cannot go on wait for the holder of a row, and a row is held by a
request under way only (`BusyInv`, `StageInv`), so if none could go on, each
would wait for another of a finite set, and `CircleExists` finds the circle. The
invariants that this needs say what a lock bug would break: a request that ended
holds nothing, and a statement that takes a row finds the row there (`WhereInv`,
in `OrderRaces`, with the appointment of every order in use). In `OrderRaces` the
order number must also exist: the numbers in use have no gap (`NumberInv`), since
`_next_order_number` is MAX + 1 of what is committed and the unique index lets
one of two equal numbers in. `StepsShorten` counts the statements a request has
ahead of it (`Left`): its statements, its commit, its refusal and a lost deadlock
make the count smaller and touch nobody else's. The two together say that
requests under way end, in finitely many steps, once no more arrive, however
many they are and whatever circles they make.

`MayWrite`, `MayTouch`, `MayCommit`, `MayMove`, `MaySnapshot` and `MayOpen` are
conjuncts of the actions they guard, and what follows them only assigns. In
`OrderRaces` a statement's guard is `CanLock`, and `MayStep` says the same of any
statement; a price exists for an order's line (`Prices # {}`). That a guard is
`ENABLED` of its action is read off the action and not proved.

Only model-checked: `EveryRequestEnds`, which adds the order in which waiters
are served (`ENABLED` and liveness are out of the prover's reach). The properties
of the two runs that expect a violation are refuted, section 5.

## 5. Findings and observations

Two runs expect a violation:

1. **`SettlementRace`.** A settled commission blocks reopening
   (`services/orders.py:599-604`). The settlement locks lines, the reopening the
   order, and each reads what the other is about to write: both commit.
2. **`MethodDetail`.** The detail of a payment method lists "os `Payment` exatos
   que compuseram aquele bucket", on the card's basis
   (`services/dashboard.py:2402-2406`). Its query does not leave reversed
   payments out, the card's does: after close, reopen and close, the two differ.

What follows was met while modelling and has no run of its own.

*Orders and agenda.*

- After close, `correct_consumption` and reopen, the ledger of an open order does
  not add up to zero: `reopen_order` returns the line's quantity, not what
  corrections took or gave back, although `cancel_order` relies on an open order
  holding "sem baixa definitiva" (`services/orders.py:521-525`).
- Moving an item in time writes the agenda's price over the one negotiated in the
  open order (`services/appointments.py:1572`), although order and agenda "vivem
  independentes" (`services/orders.py:189-192`).
- Two orders that owe half a cent each, paid together with one cent, record one
  cent each; an order that owes a fraction of a cent cannot be closed alone.
- `update_appointment_item` reads the order without its lock, so its price may
  commit into an order closed meanwhile (`services/appointments.py:1475`).
- The appointment's status is checked on a plain SELECT: a change that read
  *scheduled* waits for the closing's row and then overwrites *paid*
  (`services/appointments.py:1102`).
- Neither the register's closing nor a payment locks the register: a payment that
  saw it open commits after it was closed and is missing from `expected_amount`
  (`services/cash_register.py:488`).
- An item added while the order is closed is never billed, although
  `services/appointments.py:1645-1650` expects it after reopening; an appointment
  may be *no_show* before an order is opened for it, which
  `services/appointments.py:1312-1316` takes for unreachable.
- The overlap trigger counts finished items, the application's check does not.
  Two `replace_appointment` at once leave the union of their items, and two edits
  at once may leave an end that is not start plus duration, or stale bounds
  (`alembic 0004`, lines 88-97): these are what `raced` excepts.
- The booking limit of a customer is checked and then acted on, unlocked
  (`services/customer_accounts.py:305`). `can_cancel` looks at the item's start,
  cancelling at the appointment's. A professional tied to another branch makes
  the availability of "any professional" an error
  (`services/appointments.py:756`).

*Access and sessions.*

- A change of role or of overrides may leave an organization without an active
  master, and so may two deactivations at once: only a change of status is
  guarded, and by a plain SELECT (`services/user_management.py:165-190`).
- With view scope *all* and edit scope *selected*, a member who holds only
  `agenda.view_own` may edit professionals it cannot see, although editing is
  said to be a subset of viewing (`services/agenda_access.py:49-61`).
- Two refreshes of one token at once both succeed and no reuse is detected
  (`services/auth.py:265-266`); `Lineage` allows for it.
- The limiter may admit more than its maximum at the edge of a window, although
  `hit` is said to raise when the key has that many attempts "dentro dos últimos
  `window_seconds` segundos (janela deslizante)" (`core/rate_limit.py:29-31`). The
  clock is read before the lock is taken (lines 44-46): a call that waits there
  finds a list that a later call has pruned, and records a time already old. With
  two attempts in a window of 2: two logins at 0; a third call reads 0 and waits;
  at 2 another is admitted, prunes both and is recorded at 2; the one that waited
  is admitted, recorded at 0; the next call at 2 forgets it and is admitted. By
  recorded times three stand in the window from 0; by the moments they were let
  in, three at 2. `RateWindow` is what remains true. The limiter is
  per process and forgets at a restart.

*Stock and counts.*

- Balance and ledger are rounded separately: half a thousandth, from a
  conversion, makes them differ (`services/stock.py:81`).
- Two `close_count` at once apply the adjustment twice, and two `open_count` may
  both open (`services/inventory_counts.py:52`). `get_overview` counts inactive
  products as low.

*Finance and reports.*

- Two requests that split one version at once rewrite a past month
  (`services/fixed_expenses.py:260`). `set_status` cannot stop an expense whose
  category was archived. A withdrawal registered while its category becomes
  fixed is then counted in some periods and not in others. `create_rule` meets
  the unique key of an inactive rule.
- A client whose order was created in one month and closed in the next is new in
  neither (`services/dashboard.py:181-183` against 897-908).
- The taxes of a month may leave sales of that month out, although they are
  provisioned at the rate in force "EM CADA COMPETÊNCIA tocada pelo período"
  (`schemas/dashboard.py:372-375`). `_available_result` keys a sale by the UTC
  date of its row and drops it when `months_between`, in the zone of the request,
  has no such month (`services/dashboard.py:1501-1506`). West of UTC a sale of 30
  September at 22:00 is in September's revenue and not in its taxes, is not in
  October's report, and over the two months is taxed at October's rate. The
  results of September and October then do not add up to that of the two:
  `ResultAddsUp` holds, and is proved, for sales that do not change sides.
- A report's queries are separate statements under READ COMMITTED.

## 6. Plan

Done: the modules above. Left, in this order:

1. `OrderRaces`, extended: consolidated closings (several orders locked in the
   order of their ids), corrections, stock rows, observation versions.
2. `Access` with the statements of its handlers apart.
3. Commission adjustments, custom statuses, card brands.

## 7. Not modelled

Storage, images, configuration, logging, parsing and formatting: pure I/O.
Catalog rows (clients, services, professionals, categories of services, styles)
that are created, edited and archived one at a time under a unique constraint,
apart from the financial categories and archived products, which other components
read. Profiles, histories, receipts and lists: single queries with nothing to
reconcile. The Google exchange, e-mail and hashing: external.
