# Otlob Captain: a verification of order distribution

Otlob Captain is a delivery dispatcher. Stores and staff create orders, a distribution
engine offers each order to captains for 30 seconds at a time, captains accept or reject and
deliver, and a prepaid balance pays the commission. The program is a Node service
(`apps/api`: Express, Prisma, Postgres, Socket.IO), a React dashboard (`apps/web`) and an Expo
application for captains (`apps/captain-mobile`). The core of these modules is where
everything meets: the order row, the assignment log, and the handlers that change them. Around
it are fourteen smaller modules, one for each part of the API, the phone and the dashboard
that keeps state of its own: caches, tokens, queues, buttons, scopes; and one that takes apart
the two operations of the desk that are not one transaction, `Removals`.

## 1. Inventory

| Component | State | Operations | Talks to |
|---|---|---|---|
| Distribution engine (`services/distribution/`) | `Order` (status, assignedCaptainId, distributionMode, lastDistributionResetAt, archivedAt), `OrderAssignmentLog` (one row per offer: PENDING, then ACCEPTED / REJECTED / EXPIRED / CANCELLED) | startAuto, resend, assignManual, reassign, cancelCaptainAssignment, tick (processDueTimeouts), afterCaptainReject | Postgres advisory locks per order and per captain; prepaid service; after the commit sockets and push |
| Orders service (`orders.service.ts`) | the same rows | create, updateStatus, accept, reject, adminOverride, archive, unarchive, list, getById | engine (reject chain, cancel on archive), prepaid service (delivery), tenant scope |
| Timer (`server.ts`) | one in-flight flag per process | setInterval every DISTRIBUTION_POLL_MS | engine; several API instances tick independently |
| Prepaid balance | `Captain.prepaidBalance`, totals, `CaptainBalanceTransaction` ledger | charge, adjust, deduct on delivery | orders service, engine (eligibility), settings |
| Captains, users, stores, tenant scope | `Captain`, `User`, `Store` with company, branch, supervisor | create, link to a supervisor, activate, delete; the filters of every list and read | orders service |
| Authentication | accounts; signed tokens, stored nowhere | login, refresh; the roles of every route | phone, dashboard |
| Captain mobile API | none of its own (reads) | current assignment, overflow, order, history, earnings, profile, availability | the phone's screens |
| Push and realtime | `CaptainPushToken`; socket rooms | register, send, receipts; announcements after commits | Expo, Socket.IO, phone, dashboard |
| Tracking | `CaptainLocation`; on the phone a short outbox | report, flush | API; the dispatcher's map |
| Mobile session | tokens in secure storage and in a store, the socket | start, login, logout, refresh on 401 | auth service, every request of the phone |
| Captain screens | the query cache, per-screen mutations | list of current orders, order page, history, availability switch, sums | mobile API, events |
| Dashboard | the query cache, a page's forms and entries | pages by role, the dispatcher's board and map, order entry, settings card | API, events |
| Settings | one row `dashboard_settings` | get, patch | prepaid policy, maps |
| Shared package | - | what an order's two amounts mean | API, phone |
| Notifications, activity, customer link, geocoding | rows appended, an HTTP lookup | - | - |

What is hard in the core is concurrency over two tables. Every handler is a READ COMMITTED
transaction. The desk's handlers and the tick take the order's advisory lock first; **accept
takes no lock, reject takes it after it has written its log row, and a status write takes
none**. The tick reads its work list outside of any transaction, runs in every API instance,
and decides what follows an expiry from the order's row as it is by then. Time windows,
retries and rollbacks come on top. What is hard around it is age: the phone and the dashboard
show answers fetched some time ago, put two of them together, hand the callbacks of one call to
another, keep what a user was told after he is gone; and two places decide the same thing by
rules of their own. Nothing of this is reached by a unit test (the repository has manual test
plans for the core under `docs/`, which the findings quote).

What makes each part correct:

* engine and orders service: at most one open offer per order, and its captain is the
  order's; a row is answered once; a captain has at most one automatic order; the chain
  ends; an accepted order is not taken away by a leftover row; no deadlock.
* prepaid balance: the balance is what the ledger adds up to; a delivery is paid once.
* session: a signed-out phone holds no token, and everything on it is one captain's.
  Tracking: no position is lost before it was sent, the queue empties. Push: a phone that
  believes it is registered is.
* screens: the list is whole, the history has no order twice, a button is there when the API
  would take the tap, a tap does what it said, a switch shows the row.
* scopes and accounts: whoever is responsible for an order is shown it; a closed account is
  shut out; what a page does is allowed to its user.
* board, announcements, entry, money, settings: no second command; whom a change concerns
  hears of it; an order is what was typed, once; everybody is told the same sum; a save
  changes what was edited.

`PROJECT.json` lists each hazard at its line with the properties aimed at it.

## 2. Modules

| Module | Role |
|---|---|
| `DispatchRules` | constants and their assumptions, the row types, the pure rules: eligibility, the pool, the round-robin pick, what a release or an assignment writes |
| `Distribution` | one committed transaction per step; every handler that changes an order, a log row or a captain's eligibility |
| `DistributionTx` | the same handlers taken apart into statements, with advisory locks, row locks and stale reads; implements `Distribution` for the handlers that lock first |
| `Removals` | an archive in two transactions and the deletion of a captain, every other handler of `Distribution` in between |
| `DistributionViews` | what the phone, the map, the panel under it and the board compute from the rows of `Distribution` |
| `PrepaidBalance` | charges, adjustments and deliveries as overlapping transactions over the captain's row and the ledger |
| `PhoneSession` | start, login, logout, refresh, storage and socket of the captain's application |
| `TrackingOutbox` | his position: timer, sends, the queue and its overlapping flushes |
| `PushTokens` | registration of his phone against refusals and late receipts |
| `CaptainScreen` | the list of current orders from two cached requests |
| `CaptainTaps` | the buttons of one order on two screens, and what the API takes |
| `OrderHistory` | the paged list while orders enter and leave it |
| `AvailabilitySwitch` | the optimistic switch against fetches and other screens |
| `OfferNews` | announcements after the commit, rooms, sockets down, the API stopping |
| `StaffScope` | companies, branches, supervisors: links, orders, assignments and reads |
| `StaffSessions` | accounts, login and refresh, tokens that age |
| `WebAccess` | the dashboard's user, pages and requests against the routes' roles |
| `DeskBoard` | the dispatcher's board: drags, the window, resends, entries and callbacks |
| `OrderEntry`, `OrderMoney` | the form, the pasted text and the API; what the amounts come to |
| `Sums` | what rows of a table add up to, for the ledger and the earnings |
| `DashboardSettings` | the settings row, its query and the card that saves all fields |
| `DistributionProofs`, `RemovalsProofs` | theorems about `Distribution`, `DistributionViews` and `Removals` |
| `DistributionTxProofs`, `DistributionTxRefinement` | theorems about the transactions; that they implement `Distribution` |
| `PrepaidBalanceProofs`, `StaffProofs` | theorems about `PrepaidBalance`; about `StaffSessions` and `StaffScope` |
| `PhoneProofs` | theorems about `PhoneSession`, `PushTokens`, `CaptainScreen`, `CaptainTaps`, `AvailabilitySwitch`, `TrackingOutbox`, `OfferNews`, `OrderHistory` |
| `DashboardProofs` | theorems about `DeskBoard`, `DashboardSettings`, `OrderEntry`, `OrderMoney`, `WebAccess` |
| `MC*` | values for TLC; `MCPhone` runs the parts of the phone and `OfferNews`, `MCOffice` the other parts, `PrepaidBalance` and `Removals`, one part at a time |

### Distribution: code to model

`order[o]` is the `Order` row. Its field `by` is the type of the log row that gave the order
its captain: of the closed rows nothing else is ever read again but the number of completed
automatic rounds, which is `rounds[o]` (`countCompletedAutoRounds` since
`lastDistributionResetAt`). `offer[l]` is the PENDING row with id `l`. `captain[c]` has the
three bits eligibility depends on.

| Action | Code |
|---|---|
| `StartAuto`, `Resend` | startAutoDistribution, resendToDistribution: cancel PENDING rows, reset, offer |
| `OfferNext` | offerNextAutoCaptainTx: pool, capacity, attempts, round-robin pick, offer or release |
| `AssignManual`, `Reassign` | assignManualOverride (MANUAL and DRAG_DROP), reassign |
| `CancelAssignment` | cancelCaptainAssignment |
| `Expire`, `WindowElapses` | one row of processDueTimeouts; the passing of its 30 seconds |
| `Accept`, `Reject` | acceptByCaptain, rejectByCaptain with afterCaptainRejectTx |
| `CaptainSetStatus`, `StaffSetStatus` | updateStatus by the assigned captain; by staff or a store |
| `AdminOverride`, `Archive`, `Unarchive` | adminOverrideOrderStatus, archiveOrder, unarchiveOrder |
| `SetActive`, `SetAvailability`, `BalanceMoves` | the captain's row; charges, adjustments, policy |

`DistributionViews` adds no step: it says what `getCurrentAssignment` and `getAssignmentOverflow`
(`OfferCards`, `WorkingCards`), the captain's card (`NextStep`), `activeMap` with the marker and
panel that show it (`OnMap`, `WaitingOnMap`, `MarkerCountdown`, `Frame`, `PanelLine`) and the board
(`BoardCards`, `CardCountdown`) make of the rows in one state. The map lists active captains that are
not OFFLINE; `Distribution` keeps of an availability only whether it is AVAILABLE, so the views take
the set of OFFLINE captains as a parameter and `MapAgreesWithPhone` says what it says for every one.

`StaffTargets` is the set of statuses that staff really send to `PATCH /orders/:id/status`.
The route accepts any and cancels no offer (`orders.service.ts:371`), so ASSIGNED without an
offer, or an offer on a cancelled order, is reachable when the set is not empty. The run
`dist_all` has every status in it; the properties that only hold when nobody uses the route
this way are checked and proved with `StaffTargets = {}`, and say so.

### Removals: code to model

`Archive` of `Distribution` is one step. `archiveOrder` is three: it reads and checks the order
(`ArchiveBegins`, lines 782-807), cancels the assignment in a transaction of the engine with
checks of its own (`ArchiveCancels`), and writes `archivedAt` by id (`ArchiveWrites`). It may end
after any of them (`ArchiveFails`). `deleteCaptain` counts the captain's open orders (`CountOpen`)
and, in the same transaction but without a lock, takes his name off his orders, deletes his
log rows and him (`DeleteCaptain`); `rounds` may then be less than before. `HandlerCommits` is any
handler of `Distribution` that commits in between. `crossed` is a history variable: the orders
such a handler made somebody's work, or moved on, between the look of a removal and its writes.

### DistributionTx: code to model

A request is a transaction `tx[t]`: its handler, the statement it is at, the locks it holds
and the rows it has written and not committed. A step is some writes or locks followed by at
most one read, or by the commit; writes of a transaction are invisible until then, so this
cuts no interleaving. An update waits for whoever has written the row and then applies to
the newest version (READ COMMITTED): `UpdateRow` writes by id whatever the response is by
now, which is what the code's `update({ where: { id } })` does. `Rollback` may happen at any
step: an error, Prisma's transaction timeout, a lost connection, a deadlock's victim.

`RefinesDistribution` maps the committed rows to `Distribution`: the handler's commit is its
one step, every other step a stutter.

### PrepaidBalance: code to model

`account[c]` is a captain's `prepaidBalance`, `totalCharged` and `totalDeducted`; `ledger` the
rows of `CaptainBalanceTransaction` in the order of their commits. A transaction of this
service is two steps: its read of the captain's row (`Charge`, `Adjust`, or `UpdateOrder` for
a delivery), and its writes with the commit (`Commit`), which store *the balance it read* plus
the amount. A delivery (`Deliver`) first reads the order outside of its transaction; the
update of the order's row then locks it until the commit (`Locked`), and the deduction is
decided on the captain the row names by then (`Owes`). `Redispatch` stands for every handler of
`Distribution` that writes an order's captain; it takes no part in the balance.

### The parts around it: code to model

Each of these modules has its own variables and shares none; `MCPhone` and `MCOffice` pick one per
behaviour (`focus`), the latter `PrepaidBalance` and an instance of `Removals` the same way. In all of them a step runs up to the
next await, callback or answer (an await that only a step of the same actor can tell from none is
folded into it), a request is a record that is on its way, read or answered, and may fail or be
lost at either end.

* **PhoneSession** (`client.ts`, `auth-store.ts`, `auth-storage.ts`, `auth-provider.tsx`): `disk`
  is the secure storage, written key by key, `store` the state of the application, `flow` the
  start, login or logout under way, `refresh` the one promise all requests answered 401 wait
  for, `call` the requests. A kill at any step leaves only `disk`. `crossed` and `torn` are
  history variables: a logout during a refresh, until a login has been stored whole with nothing of
  before it left; a kill or a failing storage between two writes of a login. The storage may fail at
  every step (`WipeFails`, `StartFails`, `LoginFails`, `RefreshFails`); `flow.why` says who wipes, a
  sign out, the start after a refusal or its outer catch, because each goes on differently when the
  wipe fails. A request need not end: `client.ts` calls `fetch` without a timeout.
* **TrackingOutbox** (`use-captain-tracking.ts`, `outbox.ts`, `sender.ts`): `queue` is the ref,
  `Flushing` the flushes between their read of the head and its answer.
* **PushTokens** (`captain-push-sync.tsx`, `push-notification.service.ts`): `rows` is the table,
  `phone.submitted` the ref that stops a second registration, receipts carry the row's id.
* **CaptainScreen** (`captain-mobile.service.ts`, `use-captain-assignment-workbench.tsx`, the query
  hooks, the realtime invalidation): orders change in between the single queries of one answer.
* **CaptainTaps** (`captain-order-actions.ts`, `assignment-actions-bar.tsx`, both screens, the
  API's checks): `row` the order, a cached answer per screen, `taps` from the finger to the answer.
  A step of the delivery is two: `StepChecked` is the read and the check of `updateStatus`, before
  its transaction, `StepWritten` its write by the order's id, whatever the order is by then. An
  answer to an offer is one step here (`DistributionTx` takes it apart). `overtaken` marks an order
  that was given away, taken back or closed while a step was in that gap: the write then leaves
  PICKED_UP beside a live offer, and the properties leave it out.
* **OrderHistory** (`use-order-history-infinite.ts`, `order-history-screen.tsx`,
  `listForCaptainHistory`): `pages` as fetched, each marked old by a later move of the list.
* **AvailabilitySwitch** (`use-update-availability.ts` and two screens): the cache of GET /me,
  a mutation and its snapshot per screen.
* **OfferNews** (`distribution/index.ts`, `order-emits.ts`, `hub.ts`, the subscribers): `tasks` are
  the announcements a handler has still to make, `news[v]` whether a viewer's screen is behind. One
  that nobody hears stands for closed sockets and for the read in front of the emits that fails
  (`index.ts:221` catches it row by row).
* **StaffScope** (`tenant-scope.service.ts`, `supervisor-order-read-scope.ts`, the stores, captains
  and orders services): what each service checks when it writes, and what each reader is shown.
* **StaffSessions** (`auth.service.ts`, `users.service.ts`): `access[p]` holds what life is left to
  each token; `door` a request between its look at the account and its signature.
* **WebAccess** (`router.tsx`, `loaders.ts`, the pages and their query hooks, `rbac-roles.ts` on both
  sides, the routes): who is signed in, the page, the requests sent.
* **DeskBoard** (`distribution-page.tsx`, `draggable-order-card.tsx`, two mutation hooks): the entries
  "assigning...", the calls, and which call useMutation follows.
* **OrderEntry** (`new-order-form.tsx`, the incubator page and its parser, `orders.service.ts` create)
  and **OrderMoney** (`order-financial-inference.ts` and its users): figures are numbers in
  thousandths and hundredths. A pasted or typed text is the amount it means, the first number under
  a label of the total (another one, if two lines have such a label) and the way it is written:
  plainly, with a comma or point between its thousands, with a space there, or with the Arabic decimal sign.
  `AmountRead` is what the parser makes of each (`normalizeAmountText`), `NumberOf` what the draft's
  field makes of what was typed into it, which may also be nothing; an overlong text is a mark.
* **DashboardSettings** (`dashboard-map-settings-card.tsx` and its hooks, the settings service):
  fields are names, `OfMap` those an answered save fills in again, `View` those of them that may be NULL
  in the row (all three are when it is created). `Resolved` is `resolveDashboardMapView`: with one of
  them missing the card shows the fallback for all, and saves it. `PickerReports` is the map's `moveend`,
  which an animated `setView` fires after `syncingFromProps` is reset, so that the view is touched though
  nobody moved it. `base` and `touched` are history: the write the card's fields are of, and what
  was set since, by hand or by the map.

## 3. Runs

| Run | Bounds | Shows |
|---|---|---|
| `dist_all` | 1 order, 2 captains, 2 log ids, 3 attempts, all statuses by staff, the tick fair | `OneOpenOffer`, `AttemptsBounded`, `ModeOfOffer`, `OffersClose`, `ChainEnds` |
| `dist_desk` | 2 orders, 2 captains, 3 log ids, 1 attempt, no raw status writes | `AssignedIffOffered`, `SingleAutoOrder`, `AcceptedLeftAlone`, `WorkbenchButtonsWork`, `MapAgreesWithPhone` |
| `tx_locked` | 1 order, 2 captains, 2 log ids, 2 requests; the desk's six handlers and the tick | `RefinesDistribution`, `AnswerFinal`, `TypeOK` |
| `tx_accept` | 3 log ids, 2 requests; start, assign, cancel, tick, accept, captain's status | `OnePending`, `NoDeadlock` |
| `tx_race` | 3 log ids, 2 requests; resend, reassign, tick, accept, reject | `DeskSettles` |
| `tx_accept_expire` | start, accept, tick | violates `AnswerFinal` |
| `tx_reject_expire` | start, reject, tick | violates `OnePending` |
| `tx_deadlock` | start, reject, tick | violates `NoDeadlock` |
| `balance_lost` | 1 order, 2 captains, 2 requests, 3 ledger rows | violates `BalanceIsLedger` |
| `phone` | seven parts, each on its own, with fairness | the properties below |
| `office` | nine parts, each on its own | the properties below |
| `money_fee` | two figures, two costs, one entry | violates `FeeMeansFee` |

What `phone` (the first seven) and `office` (the others) show, and their bounds:

| Part | Properties | Bounds |
|---|---|---|
| `PhoneSession` | `SignedOutStays`, `OneUser`, `StartEnds` | 2 captains, the start's request and 2 ordinary ones at once, 2 kills |
| `TrackingOutbox` | `SavedUnlessOverlapped`, `OutboxDrains` | 2 spots, 3 points, a queue of 2, 2 flushes at once |
| `PushTokens` | `SubmittedReaches` | 2 captains, 2 tokens, 1 receipt awaited |
| `CaptainScreen` | `ScreenIsWhole` | 2 orders, 2 changes of them |
| `OrderHistory` | `HistoryIsPrefix` | 5 orders, pages of 2, 2 moves |
| `AvailabilitySwitch` | `SwitchIsTrue` | 2 screens |
| `OfferNews` | `NewsReaches` | 2 captains, 1 dispatcher's page, 2 handlers at once |
| `CaptainTaps` | `SurfacesAgree`, `StepByStep` | 2 captains, 2 taps at once, theirs together |
| `StaffScope` | `LinkedIsVisible` | 2 companies, 3 branches, 5 accounts, 2 stores, 1 captain, 1 order |
| `StaffSessions` | `DeactivationBites` | 2 accounts, 2 requests at once, tokens of 2 and 3 units of time |
| `WebAccess` | `RefusedOnlyWhere` | every role, every page, 1 request at once |
| `DeskBoard` | `OneCommand` | 2 orders, 3 assignments, 2 visits of the page |
| `OrderEntry`, `OrderMoney` | `OrdersAsEntered`, `CollectedAlike` | 1 entry, 2 orders; 30.505 and 1250, alone or one before the other, in each way of writing they allow |
| `DashboardSettings` | `SaveKeepsTheRest` | one field of the view, one other, 2 writes, a row with the view or without |
| `PrepaidBalance` | `TotalsAdd`, `DeliveredIsPaid`, `DeductedOnDelivery` | 2 orders (one without commission), 2 captains, 2 requests, 3 ledger rows, a charge of 3, a correction of -2 |
| `Removals` | `WorkSurvives` | 1 order, 2 captains, 2 log ids, 2 attempts, no raw status writes |
| the phone's | `PhoneTypeOK` | of the part that moves (the types of the others are proved, section 5) |

The properties that name exceptions (a refresh crossing a logout, a lost answer, a page that was
left, a step written after its order changed hands, a figure not written plainly, a view the row lacks) are as strong as the code: each exception is a behaviour
TLC showed, listed with its line under `hazards`, and everything outside of it holds. What
`FeeMeansFee` says is violated in the same module that satisfies `CollectedAlike`: all that is
shown to the captain agrees, and the commission is taken of something else.

Why these bounds are enough to be interesting: in `Distribution` log ids are reused once a
row is closed, so a run is not limited in length; one open row per order is the most the code
makes, and one id more leaves room for a second. Three captains let the round-robin skip a
captain and come back; two orders with two captains make them compete, and a captain can hold
a manual and an automatic order. In `DistributionTx` rows are never reused, so the number of
ids bounds how many offers one behaviour makes (two or three), and `Request` how many
transactions overlap (two): each of the races in section 4 needs two. Two or three attempts let
the limit be reached after intermediate offers. Deadlock checking is off because an order that
is DELIVERED and left alone, or a log without free ids, is a legitimate end. The symmetry of
requests and log ids is sound: no definition tells them apart (captains are ordered and are
not symmetric). In `PrepaidBalance` a lost update or a double payment needs two requests, and
three rows let an order be paid for by one captain, given to another and paid for again.

In `Removals` one order that is archived while its captain is deleted, with a second captain it may
go to, meets every pair of a removal and a handler; the proof lifts the bounds.

The parts are small on purpose: a stale answer needs one fetch and one change, a lost callback
two calls, a crossed sign-in two captains. They share no variable, so one run that lets each
move alone checks what a run for each would. The counters that are bounded in guards (kills,
writes, entries, calls, moves) are named `Max...` in each module.

**Fairness.** `dist_all` assumes weak fairness of `WindowElapses(l)` (the clock runs) and of
`Expire(l)` for each row: `server.ts` calls the tick every DISTRIBUTION_POLL_MS and the tick
goes through every due row, catching the failure of each. Nothing is assumed of captains or
of the desk. In `ChainEnds` the premise "the desk lets the order be" is explicit; `OffersClose`
leaves out orders that a raw status write and an archive have put out of the tick's reach.
`SessionFairness` says that the secure storage answers, with a result or an error, and that the
chain of awaits then goes on. It says nothing of the API: `client.ts:53` and `client.ts:120` call
`fetch` without a timeout, so a request may hang for ever, and `StartEnds` names that case instead
of assuming it away. `OutboxFairness` says that the interval timer fires while the application is in
front and that a send ends; the latter rests on the network stack of the phone closing a dead
connection, for the same code has no timeout of its own (a flush that hangs does not keep those of
later timer ticks from sending). A user is never assumed to do anything. `StartEnds` and
`OutboxDrains` rest on these, nothing else does.

## 4. What the runs found

The atomic handlers are right: all the properties of `Distribution` hold. So are the locked
ones, down to their statements. The disagreements with the documentation come from the
handlers that do not lock first (`findings` in `PROJECT.json`):

1. *Accept against expiry* (`tx_accept_expire`). The closure report says one of the two
   fails. Both commit. The order's lock does not keep accept out, which takes none: it has updated
   its row and not committed when the window ends; the tick, under the lock, still reads PENDING;
   accept commits ACCEPTED; the tick then writes EXPIRED over it by id, finds the order not
   ASSIGNED and releases it (`distribution-engine.ts:205-228`). The captain was told he has an
   order that is now nobody's. The other way round (an accept that read before the tick expired
   the row overwrites EXPIRED) is the same race and in the model too.
2. *Reject against another answer* (`tx_reject_expire`). The QA plan (E3) allows one outcome
   and no two active PENDING. A reject that read before another answer committed continues
   the chain a second time. TLC's shortest trace is the same reject sent twice; with the
   tick in the second place it is the same race.
3. *Reject against the tick* (`tx_deadlock`). Row lock then advisory lock, against advisory
   lock then row lock.
4. *Two movements of one account* (`balance_lost`). Both read the balance and each writes
   its own sum: the second overwrites the first, both rows stay in the ledger, and the last
   row shows a balance the rows do not add up to. The totals, which the database increments,
   stay right (`TotalsAdd`).
5. *Which fee* (`money_fee`). The order's `cashCollection` is the delivery cost to the forms of
   the dashboard and to the commission, and the sum to collect to the shared inference, the
   order page and the earnings.

Writing the parts down met many smaller things; each is in `hazards` at its line. Among them: an
automatic offer made while its order is archived can still be accepted, but the tick fails on it
at every call; a captain who gets an order after his open orders were counted is deleted all the
same, and the order keeps a status without a captain; a logout during a refresh is undone by it;
two overlapping flushes of the outbox drop a point that was not sent; a registration answered
after a sign-out silences the next captain; the desk's reassignment tells the captain who loses
the order nothing; a dispatcher is shown buttons the API refuses; a lost answer to a create
makes two orders; an amount with a separator of thousands, or with the Arabic decimal sign, becomes a
smaller one; and the settings card saves every field it took when it was opened, the fallback for a
missing view included.
`docs/captain-order-lifecycle.md:116` says the next offer made by the tick may not be announced:
the code announces it by now (`NewsReaches`).

## 5. Proofs

Eight modules hold theorems; TLAPS checks them for every value of the constants that satisfies the
assumptions named in the modules. `DistributionProofs` is about every set of orders, captains and
log ids, every limit and every setting (captains are integers, the limit is positive, the hash is
natural, `NoOffer` is no row). The other assumptions say that a value like `NoUser` is not one of
the things it stands beside, that a bound is a number, and in `OrderEntry` that figures are below a
million, so that a figure has one separator of thousands at most, and in `DashboardSettings` that the
view is of the map's fields and NULL no value of the card. `OrderHistory` asks that the orders be
finitely many: each state of a database has finitely many rows. TLC evaluates all of them.

*The inductive invariant.* `IInv` is `TypeOK`, one row per order (`OneRow`), and for each open
row its agreement with its order (`RowAgrees`: the captain, an attempt left, the mode). None is
inductive alone: that `rounds` stays within the limit when a row expires needs that an open
AUTO row has an attempt left; that a release leaves no row of the order behind needs that the
closed row was the only one. `OrderRewritten` and `OrderOffered` say once what a step that
rewrites one order must show; each action then cites one of them. `Invariance` gives
`TypeCorrect`, `SingleOffer`, `ChainBounded` and `ModeAgrees`. The types of `Distribution` are left
to the proof.

*The second layer* assumes `StaffTargets = {}`. `Served` is `AssignedIffOffered`,
`OfferedUnarchived` and `SingleAutoOrder`, inductive relative to `IInv`. `Moved(o)` describes
the shape every handler's step has (the order is offered and ASSIGNED, or not offered and not
ASSIGNED; a new automatic captain was not busy), `DispatchMoves` and `AnswerServes` show that
each action has it and `MovedServes` that the shape preserves `Served`. From it follow
`AssignedMeansOffered`, `NoArchivedOffer`, `AutomaticIsSingleOrder` and `AcceptedIsLeftAlone`.

*The views* (`StaffTargets = {}` again). `WorkbenchIsServed` and `MapIsPhone` follow from `Served` and
`IInv` in one state: with one open row per order, its captain's and its order's mode, what each screen
computes from rows and orders of its own is the same.

*Removals.* `RemovalsProofs` reuses both layers. A deletion keeps `IInv` (it takes a captain's rows
and his name together, and fewer rounds only leave more attempts); so does the late write of
`archivedAt`. `RemovalInv` adds for each order that was not crossed that it is `Carried` (its status
says somebody's work exactly when its captain, and on offer its row, are there) and `Spared` (no
deletion that counted is of its captain; an archive under way has the assignment still to
cancel, and will). `Touches` says that a handler works on one order and leaves it carried;
whatever it makes unspared is by definition crossed. `RemovalsSpareWork` (`WorkSurvives`) follows.

*The transactions.* `TxInv` (`DistributionTxProofs`) says of each transaction under way what its place
implies: which locks it holds, whom it aims at, what it has written but not committed, which rows of
its order it has already dealt with (`Settled`); and that no key has two holders (`Exclusion`). It holds
for all handlers and any number of orders and requests, and gives `TxTypeSafe` and
`DeskHasTheLastWord` (`DeskSettles`). The other theorems are about as many handlers as they are true of,
which the violation runs delimit:

* `OneRowWithoutRejects` (`OnePending`), `WaitsGoUp` and `NoMutualWait` (`NoDeadlock`) leave rejects out:
  `tx_reject_expire` and `tx_deadlock` show both false with them. `OneInv` adds that a handler which will
  insert a row has closed, or is about to close, every open row of its order. `WaitsRise` says more than
  the run's property: each wait is for a transaction further along the statements, so that no circle of
  *any* length closes, with one exception: two chains of different orders that both try captains,
  each keeping the advisory locks of those it tried (`distribution-engine.ts:398`). `NoMutualWait` is
  therefore about one order.
* `ClosedOnce` (`AnswerFinal`) leaves out accepts and rejects, as `tx_accept_expire` demands: what the
  remaining handlers are about to close is still open (`FinalInv`), because the order's lock keeps
  every other one of them away.
* `ChainGivesOneOrder` is `SingleAutoOrder` of the rows as `Distribution` sees them, for any number of
  orders that compete for a captain. No run has two orders in `DistributionTx`: this one is proved
  only. `AutoInv` adds `Reserves` to the property: a chain that has picked a captain holds his
  lock, and he has no other automatic order. The pool says nothing of the sort, since it is read before
  he is locked; the second look at his load under the lock does (`PickReserves`), and the lock keeps
  it true until the commit. Accepts and status writes are left out, because they write an order from what
  they read outside of any lock: an accept that commits after the tick has expired its row brings the
  captain back to an order (the race of `tx_accept_expire`, the other way round) when the chain of another has found him
  free; a status written late brings an order he had delivered back to work in the same way.

*The refinement.* `ImplementsDistribution` (`DistributionTxRefinement`) is `RefinesDistribution` for the
handlers that lock the order first. `Faithful` says that what such a handler has read is still so when
it commits: the status it was allowed by, the rows it closes, the rounds it counted, the pool it chose
from. With it each commit is one step of `Distribution` (one lemma per handler) and every other
statement a stutter. One order is assumed, and needed: the pool is read before the captain
is locked, so with two orders it can be out of date, which the code answers by checking the
captain's load again under his lock.

*Prepaid balance.* `PrepaidBalanceProofs` holds for every set of orders, captains and requests,
all amounts and a ledger of any length. `PInv` is `TypeOK`, `Held(t)` for each transaction that
has updated its order (the order still names the captain it will take the money from, and no
other such transaction has the order) and `Paid(o)` for each order. `Paid` alone is not
inductive: a commit makes an order DELIVERED and writes the deduction of the captain it read a
step earlier, which is the order's captain only because the row was locked in between.
`DeliveriesPaid` and `DeductionsDeliver` follow.

`TotalsAlwaysAdd` (`TotalsAdd`) is about sums over the ledger, which `Total` computes by a recursive
function. Its value is not to be had by an induction theorem here, but by taking the least place
where things would go wrong (`Least`, from the well-foundedness of the naturals): `RunsExist` says that
the partial sums of a sequence exist, `RunsAgree` that they are the same ones for all sequences
that agree so far, `TotalRuns` that the total is the last of them. Then one row more adds its own
amount (`TotalAppended`, `AmountsAppended`), which is what a commit increments the total by
(`CommitSums`). `OneByOneNothingIsLost` delimits the finding of section 4: with one request at a time, an
assumption of the theorem alone, what a transaction has read is still the captain's balance when it
writes (`Current`), and `BalanceIsLedger` holds. The overlap is all that `balance_lost` needs.

*Accounts.* `StaffProofs`: `TokensInv` adds to the types how old a token of a closed
account must be (what life it has left and how long the account has been closed add up to no
more than a token's life) and that a request signs only for an account that was active within
the same unit of time. `ClosedIsShutOut` (`DeactivationBites`) follows for all lifetimes.

*The board.* `DashboardProofs`: the invariant ties every request under way to the entry that
covers its card, and the entry to the call whose callbacks will remove it.
`NoSecondCommand` (`OneCommand`) follows for any number of orders and calls, and
`EntriesAreCleared` says which entries are never removed: those whose call was displaced.

*Scopes.* `StaffProofs`: `SupervisorsSeeTheirOrders` (`LinkedIsVisible`) needs that a link, an
order and an assignment each stay within the company and branch they were checked against.

*Push.* `PhoneProofs`: `RegisteredIsReached` (`SubmittedReaches`) needs what each request and
receipt under way may still do to the row the phone relies on.

*Settings.* `DashboardProofs`: `SettingsInv` says of every copy of the row (the query's data,
a fetch, the card, its PATCH) that it is the row (the card's with the fallback for a view the row lacks),
but for what was touched, if it is of the last write, and of the card that it agrees with its PATCH
on what was not touched since. The proof
showed what the run's two writes do not reach: an answer to a save made before the card had
data fills in the map's fields of an older write than the others, so `base` is the older of
the two. `SavesKeepTheRest` follows for any fields and any number of writes.

*Order entry.* `DashboardProofs`: `EnteredIsBooked` (`OrdersAsEntered`) needs that the amount of a
draft, of a request and of an order is what the code reads from the text it is of, by the style it is
written in (`ReadInv`; `Texts` shows that this is the figure itself for one written plainly, and no more than it
for any other), and that an entry which has an order cannot ask again: its
page is closed or its request is done, unless an answer was lost. `CollectsAsTold` (`CollectedAlike`) is of the
amounts of the booked orders: `RowsAgree` goes through the cases of the inference for one order, the
sums of the earnings are then of the same amounts.

*Roles.* `RolesAgree` (`RefusedOnlyWhere`) goes through the tables of the routes and of the pages, one
lemma each, for requests of any number.

*The session.* `PhoneProofs`: `SignedOutStays` and `OneUser` speak of the moments when no flow runs and
are far from inductive. `SessionInv` follows each flow through its writes: what a wipe has emptied so
far (`WipeInv`), what a login has stored so far (`LoginInv`), that nothing under way can bring tokens to
a phone that has none (`OutInv`), and that one user owns whatever is stored, shown, connected or
on its way (`OwnerInv`). The proof found an error of the model that the run could not reach with one
ordinary request: the exception `crossed` ended with the next login, but with two ordinary requests
under way one of them can still wait for a refresh of the former captain and bring
his tokens back after it. `crossed` now lasts until a login has been written with nothing of before
it left and no refresh under way, and the run has two ordinary requests.

*The list of orders.* `ScreenShowsAll` (`ScreenIsWhole`): `WholeInv` follows each answer from its first
query to the cache and says that what it has read since the last change is as the server has it; the
two choices of the primary order are then of the same lists, so one answer leaves out what the other
has. `TakenOut` and `PutIn` are the facts about lists it rests on.

*The history.* `HistoryShowsPrefix` (`HistoryIsPrefix`) rests on what is computed and on what is kept. Computed:
`ListInOrder` says that placing each order behind those newer than it gives a list of all of them, newest
first (a place nobody had would have a least counterexample, `PlacesTaken`); `PagesJoin` that n
pages of a list, joined, are its top, and `MorePages` that rounding the number of pages up asks for one
more exactly when there is more. Kept: `HistoryInv` says that each page has the number of its
place and what was read since the last move is as the server has it, through refetches given up,
failures and lists that shrink between two pages.

*Buttons.* `SurfacesAlwaysAgree` (`SurfacesAgree`) needs that a live offer is of an assigned order and
that whoever works on an order has accepted it, as long as the order was not overtaken by a write.
`NoStepSkipped` (`StepByStep`) needs more: the status an order has was written by a step, and every
step before it too, since the order was given to whoever has it; of a step that is checked and not
written yet the same holds, whatever steps the same captain's other taps write meanwhile.

*The switch.* `SwitchTellsTheTruth` (`SwitchIsTrue`): while a tap is under way either the API has carried
it out or the row is as the screens showed it before, which is what a failure puts back; outside of
the doubts only one tap is, and no fetch of `/me` that began during it.

*The outbox.* `OutboxSaves` (`SavedUnlessOverlapped`): the points of the queue are in the order they
were read and the one flush that waits has sent its head, so that what the answer removes
is what was sent.

*Announcements.* `NewsGetsThere` (`NewsReaches`): whoever is behind will be told by an announcement still
to be made. For those that read the order again before they tell anybody, this needs that every
later handler either leaves them the captain they will find or tells him itself (`Reaches`).

*Only model-checked:* liveness (`OffersClose`, `ChainEnds`, `StartEnds`, `OutboxDrains`), which needs
fairness and ENABLED; and `PhoneTypeOK` as such: the invariants above contain the types they need.
`WorkSurvives` of `MCOffice` is the property of the same name of `Removals`, for the instance that run
has; `RemovalsSpareWork` proves it for all. Nothing is claimed of `OnePending`, `AnswerFinal`, `NoDeadlock` and
the refinement for the handlers their theorems leave out: the violation runs refute the first three with
them. The refinement with two orders is neither proved nor checked; of what it would give,
`ChainGivesOneOrder` proves the rule that the pool's age puts in doubt.

## 6. Not modelled, and why

* In `Removals`: raw status writes by staff, changes of a captain's row, and the statements inside
  each transaction. A deletion commits as one step: a log row inserted for the captain meanwhile
  makes it fail (`onDelete: Restrict`).
* Notifications, activity rows, delivery logs, timing logs, the customer link and the geocoding
  lookup: written or asked beside the decision and not read by it.
* Branches and companies in `Distribution`: one branch; `StaffScope` has several.
* The override gate for several automatic orders (`overrideGate`): no caller passes it.
* `expiredAt` and `assignedAt` as dates: a row is within its window or `due`. The second
  clock reading inside the tick can only agree, since time does not go back.
* The explanation text of the policy and the percentages themselves: a commission is a
  constant amount per captain and order; the policy and the fee do not change while a delivery runs.
* `DistributionTx` leaves out archive and unarchive, changes of the captain's row and the
  deduction, and has one order in its runs (the captain locks of two orders meet in `WaitsGoUp` and
  `ChainGivesOneOrder` only).
* Hash collisions of `hashtext` (two keys sharing an advisory lock only delay each other,
  but may add a deadlock).
* On the phone: sounds, texts, layout, the support and settings screens, the work-status
  banner. Never rendered by the application, so left out: the step buttons of the list card, the
  workbench card, the overflow banner, two of the payment summary lines; the history screen is
  used in its archive mode only.
* On the dashboard: the camera of the map (`distribution-map.tsx` 80-93, 256-267, 350-409), the quick
  alerts, the forms of captains and users, the activity page beyond its fetch.
* The location events the map receives, and the row a location is written to.

## 7. Plan

1. Done: the core (`DispatchRules`, `Distribution`, `DistributionTx`, `PrepaidBalance`), the views of
   it, the fourteen parts, `Removals`, and theorems about all of them: every safety property of a
   run is stated by one.
2. `DistributionTx` with two orders: the refinement with a pool read before the captain's lock, as far as
   the second look at his load makes it true; `ChainGivesOneOrder` is the first part of it.
3. Composition: `OfferNews` with `Distribution`'s handlers instead of its own summary of them.
