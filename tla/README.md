# Loyal Loop backend: a TLA+ verification project

Loyal Loop is the backend of a shop-front service for small businesses (NestJS,
Prisma, PostgreSQL). An owner lists products, publishes a shop, and records
sales; a customer builds a cart, sends an order request, pays by bank transfer,
follows the order's journey to the handoff and confirms it. This directory
models the parts of `src/` whose correctness depends on the *order* of events:
concurrent HTTP handlers over shared rows, read-then-write races, retries,
webhooks and schedulers. Paths below are relative to `src/`.

## 1. Inventory

### How the program runs, and what that means for a model

Every HTTP request is an `async` handler; a Node process interleaves many of them
and several processes may serve one database. The only shared state is the
database. A handler reads rows, checks them, and then writes, usually in
`prisma.$transaction`. PostgreSQL runs those at READ COMMITTED unless the call
asks for SERIALIZABLE. All modules here use one reading of that:

* what a handler reads *before* its transaction is a step of its own that keeps a
  snapshot (`req[r]`); anything may happen between it and the transaction;
* a READ COMMITTED transaction is one step from its first write to its commit
  (row locks are held to the end); a read it makes *before* its first write is a
  further step when what it reads can change before that write;
* an `updateMany` with a condition is a compare-and-swap: the step that finds the
  condition false changes nothing and the handler is refused;
* a SERIALIZABLE transaction is one step with respect to the rows it writes. A row
  it only reads may still be changed by a concurrent READ COMMITTED transaction
  (PostgreSQL detects conflicts only among serializable ones), so where such a
  read matters it is a step of its own;
* a handler may stop at any point (client gone, process killed): nothing forces
  the next step of a handler to be taken, and no fairness is assumed unless a
  section below says so.

### Components

| Part | State it keeps | Operations that change state | What makes it hard | What makes it correct |
|---|---|---|---|---|
| Payment ledger (`modules/payments`, `sales.recordPayment`) | `Sale.total/amountPaid/paymentStatus`, `PaymentEntry`, `PaymentProof`, rejection notices | recordPayment, submitProof, reviewProof (verify/reject), late fee of returnRental | three writers of the balance, only one compares before writing | balance within 0..total; a proof entered once; no entry lost; paid orders unlocked |
| Order journey (`modules/delivery`) | `Delivery` row, rental photos and stamps on `SaleItem`, `Sale.status` | update, switchPickupMethod, confirmHandoff, confirm, receiveRental, returnRental, cancel | status read before the transaction; some writers compare, `update` does not | confirmed only when settled and received; canceled orders unpaid; terminal states stay; pickup method fixed after handoff |
| Sale inventory (`common/sale-inventory.ts`, `products.update`) | `Product.stockCount`, `ProductVariant.stockCount`, `Sale.inventoryRestoredAt` | consume on sale, restore on cancel, owner edits | conditional decrements, restore-once flag, variants deleted and recreated by an edit | stock moves by what standing sales hold, once each way |
| Rental capacity (`common/rental.ts`) | rental periods of `SaleItem`s, `Product.stockCount` | reserve, dispatch/receive, return, cancel, capacity edits | a query and a sweep over interval ends; overdue units; units handed out by a canceled order | never more units promised for an instant than exist |
| Sale creation (`modules/sales.create`) | `Sale`, its items, receipt, delivery, idempotency key | create, replay, convertRequest | replay outside the transaction, recovery after P2002 by key *or* request | all answers to a form, or for a request, name one sale |
| Order requests (`modules/shops`) | `OrderRequest.status`, change records, converted sale | createRequest, updateRequest, requestTermsChange, applyTermsResponse, cancelByToken, convertRequest | blind status writes after a check outside the transaction | converted and canceled requests stay so; one sale per request |
| Promotions (`modules/promotions`) | `Promotion`, `PromotionClaim` | create, update, reserve, release, redeem, expiry | limit counted then claimed; reservation that expires | never more live claims than the limit |
| Carts (`modules/carts`) | `CustomerCart`, its items, one group per shop | addItem, addBundle, updateItem, removeItem, updateGroup, merge, submit | device and account bags merged from a stale read; a submit goes shop by shop with a replay key | quantity caps, one request per key and shop, sets ordered whole |
| Message outbox (`modules/messaging`) | `MessageOutbox`, `MessageEvent`, consent | enqueueUtility, processDue/processOne, Twilio webhook, consent, memory replies | no atomic claim; webhook races the worker; retries | one send per attempt allowed; final statuses stay; retries bounded |
| Owner sessions (`modules/auth`, `common/auth`) | `User`, `OwnerSession`, login codes, reset tokens | login, startWhatsapp, verifyWhatsapp, rotate, logout, reset/change password | tokens checked outside transactions, session rotation racing revocation | one session per login; what was ended stays ended |
| Customer sessions (`modules/customer-auth`) | OTP challenges, sessions, addresses | start, verify, rotate, logout, addresses | attempt counter and claim by compare-and-swap | at most five attempts; one login per code |
| Platform admins (`modules/platform-auth`, `platform-admin`) | admin users, passkeys, recovery codes, audit log | OTP, passkey ceremonies, recovery, review decisions | one-use challenges | each used once |
| Founding circle (`modules/founding-circle`) | applications, invitations, onboarding drafts | apply, invite, redeem, save draft, revoke | use count claimed by compare-and-swap; draft revisions | no invitation used beyond its count |
| Value feedback (`modules/founding-value-feedback`) | one feedback row per business | capture, submit, defer, snooze | captured inside payment transactions | captured once |
| Attention digest and web push (`modules/attention`) | digest stamps, urgent pushes, launch reminders | scheduler run, markPushed | send before stamp; several schedulers | one digest per day |
| Retention (`modules/retention`), media (`modules/media`) | `MediaAsset` lifecycle | purge, moderation webhook, review, remove | delete at the provider, then mark | no asset of an open issue purged |
| Trust and activity (`modules/trust`, `modules/activity`) | trust ledger, streaks, activity | record, completeInventoryCheck | check-then-act once a day | one entry per source |
| Receipts (`modules/receipts`) | `Receipt.status`, share tokens | markSent, view, acknowledge | stale `sentAt`, status regress | acknowledged receipts stay |
| Businesses (`modules/businesses`) | launch state, contacts, team invitations, pickup locations | launch/open/pause/lock, reconcile, invite/accept | scheduled launch reconciled by reads | one accepted membership per invitation |
| Products (`modules/products`) | catalogue rows | create, update, archive | edits over a stale read | rental commitments kept |
| The rest: customers, customer-reports, discovery, dashboard, intelligence, follow-ups, billing, support, mail, short-links, waitlist, users, monitoring, pwa-telemetry, prisma, config, scripts | single rows, read models, I/O | CRUD, queries, mail | little concurrency | not modelled (see section 7) |

Components meet in the database only: the ledger and the journey share the `Sale`
and `Delivery` rows (a payment unlocks the journey, a cancel reads the balance, a
late fee raises the total, a confirmation needs the sale paid); sale creation
consumes inventory, rental capacity, promotions and the order request in one
transaction, and a canceled journey gives the stock back; every state change may
enqueue a message in the outbox, which a scheduler and the provider's webhooks
drive.

## 2. Plan

The order puts what moves money and goods first. Done means modelled, checked
and (where listed in section 6) proved.

| # | Module | Parts | State |
|---|---|---|---|
| 1 | `SaleLedger`, abstract `PaymentLedger` | payment ledger | done |
| 2 | `DeliveryJourney` (composes 1) | order journey, its payments and its restock | done |
| 3 | `MessageOutbox` | outbox, founding token, consent | done |
| 4 | `OrderRequests` | order requests, terms, promotion claims, conversion, stock | done |
| 5 | `Onboarding` | e-mail and number codes, registration, founding invitations | done |
| 6 | `RentalCapacity`, and `RentalBooking` which implements it | rental capacity, under journeys and product edits | done |
| 7 | `SaleCreation` | idempotent sale creation, conversion, product edits that recreate variants | done |
| 8 | `CustomerCart` | bags, their merge, the submit with its replay | done |
| 9 | `Sessions` | owner and customer sessions and login codes | done |
| 10 | `AttentionDigest` | the digest of a day, urgent pushes, the consent behind them | done |
| 11 | `Schedulers` | product launch reminders, value feedback, trust checks | planned |
| 12 | `Media` | retention, media removal, receipts | planned |
| 13 | `Teams` | team invitations, onboarding drafts, launch state | planned |
| 14 | `OrderRequests` with two promotions | promotion overlap | planned |

Abstract specifications: `PaymentLedger` for the ledger, `RentalCapacity` for the
capacity test. Of the properties that hold in the runs, the safety ones are all proved,
and the liveness ones cannot be (section 6). What section 8 refutes is proved where it
does hold. The theorems left to prove are those of the planned modules.

## 3. Modules and the code

Each module's header says how it cuts its handlers into steps. Names in the
modules are the source's names where TLA+ allows it; `PROJECT.json` maps every
definition to its lines.

**`SaleLedger`** - one sale. `total`, `amountPaid`, `paymentStatus` are the Sale
row; `paidIn`, `paidOut` the sums of its PAYMENT and REFUND entries; `entries[p]`
counts the entries that carry proof `p`; `proofStatus`, `proofAmount`, `noticed`
the proofs and the rejection notices; `bankTransfer` whether the order is paid by
transfer, which alone lets a customer submit a proof (`assertBankTransferOpen`);
`delivery` the journey's status, as far as the first payment unlocks it: an order opens
locked only when it is paid by transfer and nothing is paid yet
(`openingDeliveryStatus`). `RecordPaymentRead/Commit/Conflict`
(`sales.recordPayment`), `SubmitProofRead/Create` (`payments.submitProof`),
`ReviewRead`, `VerifyCommit/Conflict`, `RejectCommit/Conflict`
(`payments.reviewProof`), `ReturnRental` (the late fee). Amounts are integers in
minor units; evidence images, methods and notes are data.

**`PaymentLedger`** - what the ledger promises: `balance` moves with `entered`, the
sum of the entries, in one atomic action and within what is `due`; `settled` means
covered; and money alone opens fulfilment. `SaleLedger` implements it on every order,
paid by transfer or not, but for one kind of step, `StaleReview`: a review that
commits over a balance or total which moved after it was read (section 8).

**`DeliveryJourney`** - extends the ledger with the journey of the same order:
`method`, `codeIssued`, `handedOff`, the rental line's stamps, the sale's status
and `restocks`, how often its goods went back. Handlers are `update` (with its
in-transaction balance check for a cancel), `switchPickupMethod`,
`confirmHandoff`, `confirm`, `receiveRental`, `returnRental`. Couriers, photos and
notes are taken to be given. Issue records, feedback and audit rows are left out.

**`MessageOutbox`** - the rows (`status`, `attemptCount`, `reference`, `due`,
`sentToday`), the founding invitation's `token`, the recipient's `consent`, the
provider's accepted sends and the webhook events already processed. A worker is
`processOne` in the steps its awaits make; `handleTwilioWebhook` delivers any
status of any accepted send in any order, once or never. Provider and callbacks
are external.

**`OrderRequests`** - requests of one offered product with up to two variant
lines; `change` the term-change rows; `claim` the reservation; `sale` and `stock`
the sale a request becomes and the goods it takes. `createRequest` and
`convertRequest` are SERIALIZABLE and are one step; `updateRequest`,
`requestTermsChange`, `applyTermsResponse`, `cancelRequestByToken` and a sale with
`sourceRequestId` are a read and their later writes.

**`Onboarding`** - how a shop comes to exist. `code` holds the challenge rows of
both tables (`to` says which address a code went to; `verified`, `used`, `tries`,
and `live` for an `expiresAt` still ahead); `invitation` the invitation rows;
`granted` the invitations somebody holds a grant for; `account` the users, each
with the proofs and the invitation it was founded on; `op` the calls in flight.
Handlers are `startOnboardingEmail/Whatsapp` (whose two writes are one transaction
for an e-mail and two statements for a number), `verifyOnboardingEmail/Whatsapp`,
`validateAccess`, `register` with `redeemInTransaction`, `createInvitation`,
`revokeInvitation` and `replaceInvitation`. Knowing a secret is not modelled: any
call may try any code, right or wrong.

**`RentalCapacity`** - the rental lines of one product: `item` the `SaleItem` rows
(period, quantity, `out` for a dispatch or receipt stamp, `returned`), `canceled`
and `journey` what the sale and its `Delivery` say, `capacity` the product's
`stockCount`, `now` the clock. `Reserve` (the reservation inside
`SalesService.create`), `UpdateRead/Commit` (`delivery.update`: the dispatch, the
cancel), `ReceiveCheck/Commit` (`receiveRental`), `returnRental`,
`EditRead/Commit` (`products.update`). The test is stated as the promise: at every
instant of the period what is in use and what is asked for fit.

**`RentalBooking`** - the same with the test as `common/rental.ts` computes it:
`Selected` is the query's `where`, `Events` the two ends of what of a booking falls
into the period, `Before` the comparator of `Used`/`Peak` the running
count, whose changes are summed as sets of units (`Gained`, `Lost`), so that it can be
reasoned about. Instants are integers; the capacity test uses nothing of them but their order.

**`SaleCreation`** - one product with one variant: `stock` of the product (row 0)
and of the variant rows, `live` the variant row that exists, `tracked` whether it
counts stock; `sale` with its key, its request and the row its units came from;
`answers` what clients were told. `CreateReplay/Read/Write/Refused/Recover`
(`sales.create`), `Convert/ConvertAgain` (`convertRequest`),
`cancelSaleAndRestoreInventory`, `EditCount` and `EditVariants`
(`products.update`). A variant deleted between a create's read and its transaction
fails the foreign key of the sale's line.

**`CustomerCart`** - `items` and `group` of the account's bag and each device's,
`abandoned` the bags merged away, `request` the order requests, `answers` what
submits returned. `AddRead/Write`, `addBundle`, `UpdateRead/Write`, `removeItem`,
`GroupRead/Write`, `MergeRead/Write`, and a submit: `SubmitRead`, then for each
shop one of `SubmitReplay`, `SubmitCreate`, `SubmitRefused`. A shop sells one set,
two products or more that are ordered together for one price.

**`Sessions`** - one account's `session` rows, with the login each descends from
(`root`, `by`: the code or the password), and its `challenge` rows. An owner's
and a customer's sessions follow the same steps, so one module stands for both;
passwords exist for owners only. `start`, `VerifyAttempt/Claim`, `login`,
`createSession`, `RotateRead/Write`, `logout`, `changePassword`, `resetPassword`.

**`AttentionDigest`** - the reminders of one business's owner: `digestPhone` and
`push` the `BusinessPreferences` row, `checkedToday` whether `lastDailyDigestAt` is
of this day, `itemsSeen` and `pushed` the receipts, `digestConsent` the numbers with an
OWNER_DIGEST consent, `row` the outbox row of today's key and of yesterday's. A
scheduler `run` is `RunRead`, `Look`, `unpushed`, `PushUrgent`, `markPushed`,
`EnqueueRead`, `enqueueOwnerDigest`, `PushDigest`, `markDigestChecked`, and may
`Stop` between any two. The owner's part is `SettingsRead/Write`,
`revokePhoneConsent`, `grantPhoneConsent` (`updatePreferences`), `markSeen` and
`ChangePhone` (`updateContacts`); `Midnight` is that of the owner's time zone.
What a run looks at is what `attention.get` lists: `Listed` is its three queries, the
oldest `TakeOf` open items of each kind (10 issues, 12 requests, 10 proofs in the
code), among them the seen and the pushed; `Alerts` the oldest `AlertCap` (20) of the
urgent ones. The cut to 30 tasks before it never binds for them, since the urgent are at
most 32 and come first. Items are taken to be made at different times. A request moves
between urgent and not (`ItemMoves`: read by its owner, twelve hours old, answered by its
customer) and may come back into the list. A run takes `RunTake` (500) businesses in no
order.
Hours and weekdays are whether a run falls into the two windows. `given` and
`undone` only observe.

How they meet: 2 extends 1, and `RentalBooking` extends `RentalCapacity`. What a
cart's submit creates is a request of `OrderRequests`; what `SaleCreation` does to
a request is its view of the conversion there; the cancel it allows at any time is
the journey's. `RentalCapacity` has its own journey, reduced to what touches a
rental, because money restricts no order of its steps. A founding invitation is a row in `Onboarding` and a
token to deliver in `MessageOutbox`: they share the moment of its creation and of
its revocation, and neither reads what the other changes. `OrderRequests` carries its own view of a sale (open
or canceled) because the sale's money never affects a request. `MessageOutbox` is
driven by every other part through `enqueueUtility` only; `AttentionDigest` keeps of it
the row of a day and the second look at the consent.

## 4. Runs

| Run | Configuration | Shows |
|---|---|---|
| `sale_ledger` | two handlers, two proofs, totals 0, 2, 3, fee 0-1, entries up to 3, by transfer or not | balance in range, each proof entered once, no owner entry lost, PAID means covered, refinement of `PaymentLedger` but for stale reviews |
| `delivery_journey` | one owner, customer and payment handler over a rental, one transfer proof | restock once, photo and handoff before confirmation, settled when confirmed, only payment unlocks |
| `outbox` | a founding message with two workers and two sends, or with a plain message, one worker and a send each; daily cap 1, calls killed now and then | evidence for SENT and DELIVERED, token gone once sent, suppression kept, every message settles but the one row a killed call had marked |
| `claimed_once` | one founding message, two workers | *violated*: both workers send it |
| `order_requests` | two requests, two customers, limit 3 (2 each), stock 3 | limits, goods, release |
| `request_terms` | one request, three proposals, one owner and two customer calls, stops | one open proposal, answers stand |
| `onboarding` | one e-mail and number, two codes, two invitations, one code request, two calls, one administrator | shops stand on spent proofs, attempts bounded, ended codes stay so, one live code, one active invitation |
| `rental_booking` | two sales of one or two lines, instants 0-3, one or two units, one call of each kind | the sweep is the peak of the units in use, no instant oversold, refinement of `RentalCapacity` |
| `sale_creation` | three sales, two create calls, three keys and none, one request, one edit | answers name one sale, stock follows sales |
| `customer_cart` | two shops, a set of two products and one more, one device, one submit key, two calls at a time, six in all | one request per key and shop, sets whole, quantities capped |
| `sessions` | four rows, two codes of two attempts, two calls at a time | one session per login, one login per code, attempts bounded, ended stays |
| `attention_digest` | two requests of which one is listed, two numbers, one run and one settings call at a time, one stop between a push and its mark | each reminder taken once, digests to the chosen number only, every reminder that the caps leave in goes out |

The types of the other modules are not a run's business: they are theorems
(section 6).

**Bounds, and why they are enough.** Two handlers make every pair of steps
interleave; a third adds no new pair, and the theorems of section 6 hold for any
number. `LedgerCap` and `SendBound` bound counters that only grow; they leave room
for a payment, its refund and a second payment, and for a resend after a late
callback. `Apart` (in `MCMessageOutbox`) keeps a second message from meeting a second
worker: two workers on one row are what the row's writes can go wrong about, two rows
what the cap is about, and the product of the two is too large (with two messages
the consents stand, and callbacks only say how a send ended). A total of 2 with
amounts 1 and 2 has a partial, an exact and an excess payment. A promotion of 3 with 2 for each customer lets each limit be reached
first. Three `Changes` make a superseded, an answered and an open proposal of one
request; its lines are two, so that the terms are answered for a request of
several variants. In `onboarding`, two codes let one supersede the other or prove
the two addresses of a shop, and two invitations let one replace the other; one
attempt stands for the five, since the count is compared twice either way. Two
shops that compete for one proof or invitation need more rows than fit: that they
never share one is proved (`founded`), and the run shows the rest of it. One code
request and one administrator at a time is what `OneLiveCode` and
`OneActiveInvitation` assume (section 8). A code or an invitation is asked for only
while a row is left. In `rental_booking` four instants hold a period before, inside,
across and after another, and a unit that is overdue; the clock ends there, which
is why the run may stop. One unit and two make the sweep's peak fit and not fit. In
`sale_creation` two calls and a conversion meet on a request under two keys and
none, and one edit comes between any two of their steps. The cart needs a device's
bag, the account's and two shops for a submit that is half done; six calls build a
set, spoil it by an edit or a merge, and submit it twice. Quantities stop at two, so
the cap and a set's wrong quantity are one step away. A session row is made by a
login or a refresh: four rows are two logins refreshed, or one refreshed three
times. Runs that say `CHECK_DEADLOCK FALSE` do so because an order
really ends: when it is confirmed or canceled, or a shop is founded, and the bounds
are used up, nothing is left to do. In `attention_digest` two requests and caps of one
make the younger wait, although the older is pushed or seen, until it is dealt with, and
let an older one come back over it; receipts are each item's own, so a third adds no new
case. In the run the query's cap is the one that cuts; `MCAlertCap.cfg`, run by hand, has
a request and a proof, of which the cap on alerts leaves one out, and the theorems hold
for any caps. Two numbers let a digest be owed to an old one. `StopBound` bounds only the stops
that cost a second push, one at a time; others are unbounded. `Apart`
(in `MCAttentionDigest`) keeps the second request, what is seen or read and a stop
before an item's mark to an owner who never had a digest, whose rows, consents and
settings calls are the rest of the run, and leaves a request open where push is off,
where nothing depends on it but that the digest has something to say. A
run takes every business (`Businesses`, `RunTake`). A run is over
before a second midnight. The number starts as `FirstPhone` (the two are
alike, and a run with a liveness property takes no symmetry) and changes only where
push is off: pushes go to devices, digests to numbers. Settings calls run to their
end (`CallsStop`, section 8). Symmetry is used for interchangeable handlers,
rows and customers, and in no run with a liveness property.

## 5. Fairness

Two runs assume any. In `outbox` the cron calls `processDue` every few minutes
and takes every due row in order, so a row that is due again and again is visited
(strong fairness of `processOneRead` for each message); an `async` call that is not
killed goes on (weak fairness of a worker's next step); a backoff ends and a day
begins. A call may be killed, but not for ever: from some moment on none is killed
between its count of the day and its record of the send (`CrashesEnd`; without it a
row could be killed each time it is due, and nothing would settle). What a kill costs
is stated rather than assumed away: the row that call had marked PROCESSING is
selected by nothing afterwards (`messaging.service.ts:482`), so `EverySettles` excepts
a row marked PROCESSING that no call holds (`Stranded`), and only that. 

In `attention_digest` the same kind of cron calls the scheduler every few minutes, so
a run begins again and again in each of the two windows, push hours and the three
hours of the digest (strong fairness of `RunRead` with either), and one that is not
stopped goes on (weak fairness of `Proceed`). That it comes to *this* business is assumed
only where a run takes them all (`AllTaken`): of more than 500 it takes any 500
(`attention-scheduler.service.ts:53` has no `orderBy`), nothing makes it take another one
the next time, and `EveryReminderGoesOut` says nothing of them. Days pass. A device takes a push now and
then (strong fairness of `PushUrgent` with an answer): an owner whose subscriptions
all fail gets nothing, whatever the code does. Runs that stop come to an end
(`StopsEnd`): one that stopped each time at the same place would lose its reminder for
good. HTTP handlers get no fairness anywhere.

## 6. Proofs

Checked by TLAPS with Z3, Zenon and LS4, for every value of the constants that
satisfies the modules' assumptions.

* **`DeliveryJourneyProofs`, the ledger** - `IndInv` adds to the types what a handler's snapshot
  still guarantees (`SnapshotsSound`: what was read as the total is no more than
  the total now, the amount fitted what was read) and that a proof awaiting review
  claims money (`ProofsClaim`). Without it the range of the balance is not
  inductive: `VerifyCommit` writes a sum computed from the snapshot. It is in two
  parts, `MoneyInv` for the money and `LockedMeansUnpaid` for the lock, because the
  journey keeps the first whatever it does to the second. From it
  follow `TypeCorrect`, `BalanceStaysInRange`, `ProofsEnteredOnce`,
  `PaidOrdersUnlocked`, `OwnerEntriesMoveBalance`. `LedgerIsAtomic` is the refinement:
  on every order a step maps to a step of `PaymentLedger`, a stutter or a
  `StaleReview`. An order not paid by transfer has no proof and no review in flight
  (`TransferOnly`, in `IndInv`), so it implements the ledger outright, its second part;
  it is never locked, which is why the lock is a matter of the first. `PaidSettled` (PAID
  means covered) holds of a transfer order until its rental's return is recorded, since a
  review's total is current until then (`SnapshotsSound`), and of any other for good
  (`TotalsKept`). None of these assumes anything.
  That the balance is the sum of its entries is refuted in general (section 8), and
  the proofs draw the line: every step but `VerifyCommit` moves both alike
  (`EntriesMoveBalance`), so `OwnerBalanceIsLedger` has it of an order not paid by
  transfer, with any number of handlers, and `BalanceIsLedger` of every order while
  one handler runs at a time (`OneRequest`), since a review's balance is then current
  (`ReviewsCurrent`).
* **`DeliveryJourneyProofs`, the journey** - `JourneyInv` adds what stays true of a row read
  earlier (`ReadSound`) and which statuses each way of collecting can be in
  (`MethodReached`); a restock happens exactly with the mark that forbids the next.
  `RestockOnlyOnce`, `PhotoBeforeConfirmation`, `RiderHandoffFirst`, `MethodFixed`
  and `JourneyTypes` hold for any number of owners, customers and payment handlers.
  `JourneyKeepsLedger` is the composition: each journey step either leaves the money
  alone or is the ledger's, so `MoneyInv` is kept (`JourneyKeepsMoney`). `OnlyPayment`
  and `ConfirmedSettled` assume one owner call at a time (`OneOwner`): then what the
  owner's call read of the journey still holds when it writes (`OwnerReads`); with
  two calls a stale write breaks both (section 8). `ConfirmedSettled` rests on
  `PaidSettled` and excepts, like it, a transfer order whose rental is back, because a
  review may write PAID from the total before the late fee; the kind of the order never
  changes (`JourneyKeepsTransfer`).
  `JourneyBalanceIsLedger` carries both results about the sum of the entries over to the composition,
  and `JourneyLedgerIsAtomic` the refinement: of every order each step is one of
  `PaymentLedger`, a `StaleReview` of a transfer, or leaves what is due, the balance, its
  entries and whether it is settled alone.
  The lock `open` is not the ledger's own any more, since a cancel and an owner's update
  write the same column: that it opens for money only is `OnlyPayment`.
  `CancelUnpaid` draws the line for the cancel: a checked cancel sees a balance of nothing
  (`CancelsSound`), which a refund, a rejection or a new proof leaves (`NothingStaysNothing`),
  so it is enough that no payment and no verification is in flight between its two
  statements (`PaymentsApart`).
* **`MessageOutboxProofs`** - `OutboxInv`: a call past its read holds a message, an
  accepted send is one of that message's sids, and its token is linked or gone. From
  it `SendsAreEvidenced` and `TokenGoneOnceSent`, crashes included; `SuppressedIsFinal`
  too: a suppressed row no call holds is not picked, and without a sid no callback
  matches it. `sendsBudgeted` is what is left of the maximum that the code does not
  keep: `BudgetInv` is an account in which a message has `maxAttempts` and one more try for
  each of its sends reported undelivered. It needs no two calls to hold one message
  (`ClaimedAlone`: what `ClaimedOnce` would give, if it held) and allows crashes; the
  callback that comes before its send is recorded is the case that makes it hard, because the
  row may then owe a count and must not be picked (`Owed`). `capKept` says the same of
  the day's cap, for one call at a time (`CallsInTurn`) while nothing is reported
  undelivered (`NoBounce`): without the second a late callback "sent" after "undelivered"
  counts a row for today while its retry is under way, and one call alone exceeds the cap.
* **`MessageOutboxProofs`, the owner's digest** - about `AttentionDigest`, which the
  module extends beside `MessageOutbox` (hence its names of its own: `DigestInit`,
  `DigestNext`, `Midnight`). `RunsInv` is an account of
  pushes: a device was given a reminder at most once more than runs have left it unmarked,
  and no more often than that unless it is marked or the run in flight is about to mark it
  (`ItemsOnce`, `DigestOnce`); what a run is about to push is not marked (`KeysUnpushed`);
  and a run that saw midnight is alone in the new day, in which nothing was given yet
  (`RunsDay`). `remindedOnce` follows, for one run at a time (`OneRun`): two break it (section 8).
  `ConsentFollows` says which consent there is at each statement of a settings call; from
  it `disablingRevokes` and `sentToChosenNumber`, for one call at a time that runs to its
  end (`OneCall`): a stopped one breaks the first (`MCConsentRevoked.cfg`). All hold for
  any items, caps and numbers. Both
  invariants were checked by TLC on the instance of `MCAttentionDigest.cfg` first.
* **`OrderRequestsProofs`** - `RequestInv` = types, a request not yet made holds
  nothing, the goods add up. `goods` counts units as a set (`UnitsOf`) and rests on
  two lemmas about its cardinality; `limits` follows from one observation: every
  step but `createRequest` leaves the counted units as they were or removes some
  (`ClaimsOnlyFade`), and that step adds what `quote` found to fit. It assumes
  requests of one line, and fails without that (section 8).
  `releases` assumes calls run to their end (`Crashes = FALSE`); `proposals` one
  owner call at a time; `answers` assumes nothing. `settledStays` is an action property
  about every request by itself: once it is converted and no call that writes is in
  flight on it (`Settled`), it stays so, because each handler's read refuses a converted
  row. What section 8 refutes needs a call that read it before.
* **`OnboardingProofs`** - `types` is inductive only with its last conjunct: a call
  that will write an invitation by id has one that exists. `founded` rests on
  `CodeKept` (a code keeps its address, its proof and its use in every step) and
  `UseKept` (an invitation keeps its number and its use), so what `register` saw in
  its transaction stays true of the shop; two shops are apart because each claims
  what was unused. `overStays`: an invitation that is over is never good again, whichever
  status a write by id puts over which; and `usesCounted`: its count is 1 only with a shop
  founded on it (`CountMoves`: `register` alone counts), which `founded` has the
  converse of. `attempts` and `ended` follow from `CodeKept`. `oneCode` and
  `oneInvitation` add what holds between a handler's two writes (`CreateClear`,
  `InviteClear`) and assume one code request, one administrator at a time; the
  others assume nothing.
* **`RentalBookingProofs`** - `handedOut` is immediate from the test once
  `TypeOK` gives the counts a value (the units in use are a finite set:
  `UnitsFinite`). `neverOversold` needs more: the units promised at an instant are
  among those in use at it, and a booking adds at most its own (`UnitsMore`), so what
  fits what is in use fits what is promised (`ReservedFits`); every other step only
  takes promised units away (`PromisedFades`); and an edit that lowers the count
  finds nothing committed, because the count it read is still the count
  (`EditsCurrent`). That last lemma assumes one product edit at a time
  (`OneEditor`): the edit compares with a count read before its transaction.
  The second half proves the algorithm of `common/rental.ts` for any rows, any
  period and any times. The running count after an event is the units of the lines that
  have started and not ended (`UsedIsRunning`). They are all in use at one instant: the
  event's, or the one before it if it is an end (`UsedBelow`). And at an instant every line
  in use runs after the last start behind it, the greatest of that time (`UsedAbove`). So the
  peak of the sweep is the most units in use at one instant (`PeakIsMost`). The last start
  exists because a set of integers under a bound has a greatest one (`GreatestOf`, from the
  library's well-foundedness of the naturals), which needs no induction here. Hence `sweepIsPeak`, and `implementsRentalCapacity`
  with its converse `refusesNoMore`: the code's test admits what the promise admits, no
  more and no less, and `bookingNeverOversold` is `neverOversold` for the code's own test.
* **`SaleCreationProofs`** - `answeredAlike` rests on `Provenance` (a sale carries
  the key and request of some form), `Unique` (what the two unique indexes keep) and
  `AnswerSound` (an answer names a sale of the form's request, or of its key when it
  has none); a key is used for one request (`IntentsAssumption`), which ties the two
  cases together. `stockFollowsSales` adds `RestoredWithCancel` (a sale is marked
  restored exactly when it is canceled) and counts units as a set: a sale adds
  exactly its own (`UnitsAdd`), so recording moves them from the row's stock to the
  orders that stand (`RecordMoves`) and the first cancel moves them back, when the
  row they came from is still there (`CancelMoves`). `cancelRestores` says when that is:
  until an edit has replaced the variant row, no sale names a row later than the one that exists
  (`LinesNamed`), so the cancel that section 8 refutes restores all it took.
* **`CustomerCartProofs`** - `types` is the cap: every write bounds the quantity it
  makes, also from a stale read and when two bags are added up. `CartInv` adds that a key
  orders from a shop once (`OneRequest`) and that an answer names the request of its key and
  shop (`AnswersName`); only `SubmitCreate` makes a request, and it looks for the key in the
  step that does. `ordersOnce` follows, with calls in any number, and `setsWhole`. Neither assumes anything.
* **`SessionsProofs`** - `oneSessionPerLogin` is inductive with two companions: a
  session's root is the root of itself, and a refresh copies root and opener of a row
  it revokes in the same step. `codeOpensOnce` adds that a code is verified by one
  call and that the call's session is the first of its root. `endedStays` follows: a
  live row appears only as a new root or where an unrevoked row of the same root goes.

Only model-checked: `EverySettles` and `EveryReminderGoesOut`, because liveness under
fairness is out of the prover's reach. Each statement that section 8 refutes is proved where it
does hold, as said above: of the balance, the cancel of an order, the converted request,
the consent and the restored stock; of `ClaimedOnce`, the sends that follow from it. The
hypotheses of these theorems are the ones the counterexamples break: nothing in the code
enforces them, and behaviours in which calls do not overlap satisfy them.

## 7. Not modelled

Sections of the inventory without a module are listed with their reason in
`PROJECT.json`: planned parts (section 2), read models and metrics without state
(discovery, intelligence, dashboard), single-row CRUD (customers, follow-ups,
support, billing, waitlist), and I/O (mail, the Twilio client, monitoring, the
throttler). Within the modelled parts these are left out: issue records and
feedback of the journey, photos and evidence as data, promotion editing and two
promotions of one product, owner edits of the stock while requests are open,
`captureCustomerMemoryReply`, the payment-method half of a term change, drafts kept
on an invitation, applications, the session `register` opens, the end of a grant's
own term; of rentals the rate check, the listing's status and late fees; of a sale
its money and the rows written beside it; of a bag its prices, stock, dates and
preferences, which only make a call fail, and the statements of one READ COMMITTED
transaction (a merge's, a removal's) interleaving with another's; of sessions
password hashes, recovery tokens, `lastUsedAt` and the nightly deletion, and that a reset's
or password change's `updateMany` (`auth.service.ts:888`) may, under READ COMMITTED, miss a
row that a refresh commits while it runs (they revoke all rows in one step here, so
`EndedStays` says nothing of that row); of a set's bag rows, which the submit counts by
product and variant (`carts.service.ts:367`), the variants; of reminders
product launches, the pause, snoozing, push subscriptions, turning push on or off,
STOP and the consent to customer notes; and PostgreSQL's serialization failures (a SERIALIZABLE transaction that fails and is
retried or reported leaves nothing behind, which is the stutter).

## 8. What the models say against the code's own words

Six statements of the repository are refuted, each by a configuration that checks one
property, where TLC shows the behaviour; `claimed_once` is a run of section 4, the
others are kept to be run by hand:

* `MCLedgerMatchesBalance.cfg` (`SaleLedger`, `payments.service.ts:278`): a review
  overwrites a balance read before its transaction. `docs/PAYMENT_EVIDENCE.md` says
  that balance changes compare against the recorded balance.
* `MCCancelOnlyUnpaid.cfg` (`DeliveryJourney`, `delivery.service.ts:200`): "Record the
  full refund before canceling this paid order" - a payment fits between the check and
  the write of the cancel.
* `MCClaimedOnce.cfg` (`MessageOutbox`, `messaging.service.ts:547`): two workers that
  read the same due row both send it, because it is marked by id and nothing is
  compared. "Outbox claiming is safe" (`docs/RAILWAY_REMINDERS.md:66`).
* `MCConvertedStays.cfg` (`OrderRequests`, `shops.service.ts:616`): a status checked
  before a conversion commits is written over CONVERTED.
* `MCCancelRestores.cfg` (`SaleCreation`, `sale-inventory.ts:86`): "restores consumed
  stock once when a sale is canceled" (`sale-inventory.spec.ts:43`) - not when an edit
  has deleted the variant the units came from.
* `MCConsentRevoked.cfg` (`AttentionDigest`, `attention.service.ts:449`): "Disabling it
  revokes the owner-digest consent record" (`docs/RAILWAY_REMINDERS.md:75`) - not when
  the call stops after the preferences are written; and disabling again revokes
  nothing, because the number to revoke is gone from the row (line 491).

The modules also show these:

* `payments.reviewProof` writes the decision by id: two reviewers who read a proof
  as SUBMITTED can verify and then reject it, with the money entered. A review that
  read the sale before a late fee marks it PAID with the fee unpaid, and
  `completeDelivery`, which compares PAID only, lets it be confirmed.
* `delivery.update` writes by id a status it checked on an earlier read: it can
  overwrite a confirmation, send a pickup order IN_TRANSIT after the customer
  switched, leave a pickup order READY without a code, or lock a paid order again
  when it writes back the status it read.
* `messaging.assertDailyCap` counts before a send what is recorded after it: two
  workers exceed the cap; so does one, after a callback "sent" that comes later than
  "undelivered". A send reported undelivered is retried past the maximum,
  which only a failed call tests. `processDue` may pick a founding message before
  its invitation is linked, and that attempt fails.
* `requestTermsChange`, with two owner calls at a time, can leave two open proposals.
* `createRequest` quotes every line before it reserves any: a request for two
  variants can claim two units of a promotion limited to one.
* `revokeInvitation` writes by id after its check: it can put REVOKED over REDEEMED.
  The shop and the use count stay; only the status is wrong.
* Two code requests at once can leave an address two live codes, and two
  administrators a number two active invitations: each pair of writes sees the rows
  as they were.
* A sale recorded by hand for a request leaves its promotion reservation as it is,
  and does not look at NEEDS_CHANGES.
* Two product edits that read the same unit count: the later can lower what the first
  raised, below what is booked since. A dispatch or receipt checked before a cancel
  puts canceled units back in use, until their return is recorded.
* `create` answers a form with the sale of *its request* when another key was first,
  which is what `AnsweredAlike` allows.
* "Products inside a set stay at quantity one" (`carts.service.ts:98`): a merge adds a
  device's quantities to a set in the account's bag (`SetsAtOne` in `CustomerCart`); the
  submit of that shop then fails until the set is removed. Two submits with
  different keys order the same bag twice, an item added between a submit's read and
  its delete is lost, and two merges at once double the quantities.
* A device has one ABANDONED bag at most (`@@unique([deviceKey, status])`), so the
  merge of its second bag fails each time.
* Two scheduler runs that overlap (the cron gives up after 55 seconds, the server goes
  on) push the same reminder twice: both look for the mark before either sets it. A
  digest read before midnight stamps the day before over today's stamp. A run between
  the write that enables the digest and its consent stores that day's row SUPPRESSED,
  and the key keeps a second from being made: the first digest is lost.
* An item past the caps of `attention.get` is not pushed while as many older ones stay
  open, also when those were pushed or seen long ago and nothing more is sent of them: of
  thirteen open requests the youngest waits until one is dealt with. A request that
  comes back after its customer's answer keeps its receipt: seen or pushed before, it is
  not pushed again. Past 500 businesses a scheduler run takes any 500.
* After `updateContacts` changes the owner's number, digests go to the old one until
  the digest is enabled again.
* A sale of total zero stays UNPAID, so its journey can never be confirmed.

## 9. Running

`tlc -config MCOrderRequests.cfg MCOrderRequests` checks a run, `tlapm
OrderRequestsProofs.tla` a proof module. Every run ends within about three minutes on
two workers and each proof module within about two.
