# TLA+ models of the Yulo backend

TLA+ specifications of the parts of `src/server` where money and deliveries can go
wrong between two database calls, model-checked with TLC on small instances and, for
the properties that matter most, proved with TLAPS for every size.

Run a model with `tlc -workers 2 -config PaymentRaces.cfg MCOrderPayment` (the table of
section 3 names the module of each `.cfg`) and a module's proofs with
`tlapm OrderPaymentProofs.tla` (and `DispatchProofs`, `SettlementWeekProofs`, `PayoutProofs`,
`DineInBillProofs`, `OfferCheckoutProofs`, `LiveSessionProofs`, `FinanceSettingsProofs`).
`PROJECT.json` maps every definition to the lines it models.

## 1. The system

An Express and MongoDB backend for food delivery and dine-in: customers order and pay
through Razorpay or in cash, restaurants accept and cook, riders deliver, the platform
settles with restaurants and riders once a week. There are no multi-document
transactions: an operation is a sequence of awaited calls, each atomic on one document,
and consistency rests on conditional writes (`findOneAndUpdate` with a filter), unique
indexes and idempotent retries. Timers in `socket.js` and `jobs/` run the sweeps.

| Component | State | Operations | Talks to | What makes it correct |
|---|---|---|---|---|
| Online payment and refund (`payment.service`, `refund.service`, `webhook.controller`) | `Order.paymentStatus`, `razorpayPaymentId`, `refund`; `StrayPayment`; `WebhookEvent` | verify, payment and refund webhooks, retry payment, refuse a wrong amount, refund of a cancellation, admin retry | Razorpay; kitchen (cancellations); ledger | a payment is counted or owed back, once; money goes back at most once; nobody's money is forgotten |
| Dispatch and delivery (`deliveryAssignment.service`, `partner/order.controller`, `partner/duty.controller`, `admin/order.controller`, `kitchen.service`) | `Order.status`, `Order.deliveryAssignment`, `DeliveryPartner.status` | accept order, search, offer, lapse, accept, reject, pick up, hand over, cancel, close by hand, reassign, duty | refunds, bills, ledger; sweeps every 5 s | one rider per order; handover and cancellation exclude each other; a cancelled order leaves every hand; nobody waits for ever; 'busy' is true |
| Settlements (`settlement.service`, `settlementMath.service`, `settlementScheduler`) | `RestaurantSettlement`, entries' settlement ids, the generation lock | generate a week, undo, carry forward, schedule, hold, release, mark paid | ledger, payout account, batches | what is approved is what is summed; carried balance conserved |
| Payout batches (`payoutBatch.service`) and accounts (`payoutAccount.service`) | `PayoutBatch`, members' payout, the restaurant's bank account | build, cancel, file, reconcile, retry, carry forward; save, verify, change | settlements, the bank's file | paid once, to a verified account; a reconciled batch awaits nothing |
| Rider payouts and cash (`payout.service`, `cashLedger.service`, `migratePayoutPeriods`) | `Payout`, `CashDeposit` | week's payout, adjust, pay, migrate, deposit | deliveries | a paid week is its deliveries, once; paid stays paid |
| Dine-in bills (`billing.service`, `publicBill.controller`, `counterPayment.service`) | `Bill`, `TableSession`, rounds (`Order`) | order, assemble, discount, pay online, pay at the counter, cancel a round | Razorpay, kitchen | the receipt is the payment; no payment lost; a cancelled round is given back |
| Personal offers (`personalOffer.service`), cart and checkout (`order.service`, `cart.service`), idempotency keys | `Discount`, `Cart`, `IdempotencyKey` | send, apply, claim, redeem, give back; claim and answer a key | cancellation, sweep | an offer off one standing order; one answer per key |
| Live activity (`activity.service`) | `CustomerSession` | events, time-outs, sweep, paid table, opting out | bills, checkout | left and abandoned mean it |
| Finance settings (`financeSettings.service`) | `FinanceSettings` versions, a cache per process | save a change from a date, re-apply it to scheduled versions, serve the current rules | every price and payout | a change lasts until the rule changes again; what is served follows the schedule |
| Restaurant ledger (`ledger.service`), approval (`orderApproval.service`) | entries; `Order.status` in 'placed' | credit, adjust; accept, reject | settlements; payment | parts of the modules above |
| Others | - | one-time passwords, support tickets, reports, notifications, accounts, catalogue, HTTP, other migrations | - | not modelled: section 9 |

What is hard in this code, and drives the models:

* **interleaving at every await**: verify against webhook, cancel against capture, accept
  against cancel, two sweeps, two administrators;
* **stale documents**: `order.save()` of a document read several awaits before;
* **an unreliable outside**: Razorpay redelivers, reorders and duplicates events, and an
  answer can be lost after the refund was made;
* **crashes** between two writes that belong together;
* **liveness by sweep**: an order waits for a timer, a redelivery or a human.

`PROJECT.json` lists each such hazard at its line with the properties that catch it.

## 2. Plan

Done: `OrderPayment` with the abstract `MoneyBook` it implements; `Dispatch`;
`SettlementWeek`, `PayoutBatch` and `RiderPay`; `DineInBill`, `OfferCheckout` and
`LiveSession`; `FinanceSettings` with the abstract `SettingsTimeline` it implements; theorems
about all nine of them, two of which are the refinements of `MoneyBook` and `SettingsTimeline`.

Left, in this order:

1. What several handlers at once still guarantee about a batch: `ReconciledIsSettled` is proved
   for one of them.
2. The ledger's own rows: which event writes which entry under which unique index, composed
   with `Dispatch` (what a delivered order credits) and `SettlementWeek` (what it settles).
3. A table's personal offer, composed from `DineInBill` and `OfferCheckout`.
4. Arithmetic as operators against reference definitions: charges, settlement totals, weeks
   and working days.

## 3. Modules and runs

Every component module is written alike. A *handler* (`task[t]`) is one request, webhook,
tick or script: a program counter `pc` and the registers it has read into. One action is one
database or gateway call with the code up to the next `await`; in between any other handler
may move. A conditional write tests the document as it is then, a `save()` writes what was
read before. People, clocks, the bank and Razorpay are actions without a handler. An
operator `X_Y` is `X` with a seeded fault `Y`; `PROJECT.json` pairs each property with one that
breaks it.

Components that share no state are checked in one run: an `MC` module extends them all, a
behaviour chooses one `part` at the start, takes the steps of that component's own `Next` within
the part's bounds (conditions on the state a step leads to) and leaves the others' variables alone.

| Run | Module | Parts or instance | Checks |
|---|---|---|---|
| `PaymentRaces` | `MCOrderPayment` | 2 exact payments, up to 2 refunds each, 2 handlers, no fault | `TypeOK`, `SendsOnce`, `CancelledMoneyIsRefundable` |
| `PaymentRefused` | `MCOrderPayment` | 1 exact, 2 refused payments, up to 2 refunds each, 1 handler | `OneRecordPerPayment`, `RefundOfOwnPayment`, `LiveOrderKeepsItsMoney`, `PaidIsFinal` |
| `PaymentFaults` | `MCOrderPayment` | 1 exact, 1 refused, 1 handler, 1 crash or error anywhere | `RefundedMeansReturned`, `ImplementsBook`, `CapturedIsSettled`, `CancelledMoneyGoesBack` |
| `DispatchRaces` | `MCDispatch` | 1 order, 2 riders, 2 handlers, each rider asked up to twice, no reassignment | `TypeOK`, `HandedOverIsNotCancelled`, `CancelledIsReleased`, `NoTakeover`, `OfferStands`, `HandedOverIsClosed`, `WaitingIsOffered` |
| `DispatchAlone` | `MCDispatch` | 2 orders, 2 riders, 1 handler, waiting orders given away by administrators | `OneOfferAtATime`, `BusyHoldsAnOrder` |
| `Payouts` | `MCPayouts` | `SettlementWeek`, `PayoutBatch` at three sizes, `RiderPay` at two | `TypesOK`, `ApprovedIsSummed`, `MoneyConserved`, `SavedIsSummed`, `PaidOnce`, `ToVerifiedAccount`, `ReconciledIsSettled`, `LonePaidIsEarned`, `PaidForGood` |
| `FloorAndGuards` | `MCFloorAndGuards` | `DineInBill` at four sizes, `OfferCheckout` at three, `LiveSession` and `FinanceSettings` at two | `TypesOK`, `ReceiptIsPayment`, `LonePaymentIsAccounted`, `CancelledRoundIsFlagged`, `RedeemedOnce`, `OfferOfItsOrder`, `OneAnswerPerKey`, `LeftOncePerAttempt`, `AbandonedWhenSilent`, `LoneSaveKeepsTheTimeline`, `ServedIsCurrent` |
| `RefundMixup`, `RefundNotRetryable`, `StrayTwice`, `DispatchReassign`, `PayoutReplay` | as above; `PayoutBatch` | as above, with a second handler, a fault, a reassignment or a hold | one property each, violated: section 8 |

The large runs reach up to two million states and take about two minutes with two workers.

## 4. `OrderPayment`: one online order and its payments

`OrderPayment.tla` follows one order with any number of Razorpay payments (`Exact` are
those of the expected amount; the others must be refused).

* **Handlers.** A handler (`task`) has a program counter `pc` and the registers it has
  read into: the payment `p`, the document `doc` whose refund it works on, the refund
  sub-document it `held`, Razorpay's refund id `rid`. `src` says what started it. One
  action is one database or gateway call; in between, any other handler may move.
* **State.** `status`, `forfeited`, `pay`, `pid` are the order's fields; `refund[d]` is the
  refund sub-document of the order or of a stray payment (the documents `Docs`); `gw`,
  `sent` and `gwRefund` are Razorpay's side, which handlers see only by asking; `acked`
  and `ackedRefund` are the events answered 2xx.
* **Actions.** `Verify`, `Webhook`, `Duplicate`, `Confirm`, `AlreadyFlagged`, `Flag`,
  `FailOrder` are verification and settlement; `StrayCheck`, `OrderCheck`,
  `StrayInsert` are `recordStrayPayment`; `MoveRead`, `MoveCopy`, `MoveClear`
  `moveRefundToStray`; `Count` is `confirmCapturedPayment`'s compare-and-swap; `Settings`,
  `Claim`, `Amount`, `Send`, `SendLost`, `SaveId`, `SendFailed`, `Processed`, `Refunded` the
  refund engine; `RefundWebhook` and `FailedEvent` Razorpay's refund events; `RetryRefund`,
  `RetryPayment`, `Cancel`, `Accept`, `StartPreparing`, `Deliver` the people; `Crash` and
  `HandlerError` the faults. `Pay`, `AutoCapture`, `GatewaySettles`, `CreateRefund` are
  Razorpay and the customer, outside the repository.
* **Abstractions.** "preparing" stands for preparing to out for delivery. An amount is the
  payment whose amount it is. `initiatedAt` is how many refunds the payment already had,
  which is what the clock-skew comparison tells apart. An attempt stale for 15 minutes is
  taken to be dead. `payment.captured` and `order.paid` are one event. The gateway's
  errors are transient. The lookup of `findRefundTarget` is one step.

`MoneyBook.tla` says what all this is for: each payment has a fate (unseen, counted,
refunded, owed, returned), at most one is ever counted, and a counted one goes back
only when the order was cancelled with a refund due. `ImplementsBook` is the refinement.

`PaymentRaces` shows that, where nothing crashes or fails, a double cancel, a retry and a webhook
never send a second refund of a payment unless Razorpay failed the first, and that of a
cancellation and a payment whichever is second starts the refund. `PaymentRefused` takes every
sequence of refusals, retries, moves and late events that one handler at a time can make, and
keeps the records apart; two handlers need not (`RefundMixup`, `StrayTwice`). `PaymentFaults` shows
the refinement, and that under fairness every captured payment is settled, one crash or error
notwithstanding; and that, when there was none, a cancelled order's money goes back or is marked
failed (after one it may not: `RefundNotRetryable`).

`MaxMoves` is 1 against the code's 5: an attempt that loses gives up, which is the worst
the loop can do. Two handlers are what a race between two writes needs; three payments
are what moving a refund past another payment needs.

**Fairness** (`FairSpec`). A handler goes on (`WF`: Node resumes it); Razorpay
redelivers an event until it is answered 2xx (`SF`, because the bounded handler slots may
be occupied each time it tries); a pending refund is settled. Nothing is assumed of
customers, restaurants or administrators, and faults are bounded.

## 5. `Dispatch`: riders, offers, handover

`Dispatch.tla` follows several orders and riders. `status` is the order's, `aged` whether it was
placed more than three hours ago, `asg`, `partner`,
`code`, `offeredTo`, `lapsed`, `asked` its `deliveryAssignment`, `rider` the riders'
status, `bills` and `counted` what closing produces, `task` the handlers in flight: `pc`,
the order `o`, the rider `r` it acts for, what it has read (`p`, `saw`) and the riders it
will free (`free`).

| Code | Actions |
|---|---|
| `autoAssign` and the sweeps | `Search` (the tests), `Offer` (the conditional write), `Lapse`, `Age` (time), `ExpireStale`, `Expire`, `SweepUnassigned` |
| `acceptOrder`, `rejectOrder` | `AcceptOffer`, `Accept`, `CountBusy`, `SetBusy`; `RejectOffer`, `Reject` |
| `verifyPickup`, `deliverOrder` | `VerifyPickup`, `PickUp`, `Handoff`; `DeliverOrder`, `Handover`, `Close`, `Bill`, `BillWrite`, `Count` |
| `updateOrderStatus`, `markDelivered` | `AcceptOrder`, `SendOut`, `Cancel`; `MarkDelivered`, `KitchenClose`, `KitchenSave` |
| `releaseAssignmentForCancelledOrder`, `freeRiderIfIdle` | `Release`, `Withdraw`, `Unassign`, `Freeing`, `SetFree` |
| `reassignDeliveryPartner`, `toggleDuty` | `ReassignPartner`, `Reassign`; `ToggleDuty`, `SaveDuty` |

A mongoose `save()` writes the fields that differ from the document read, so `Close` writes
the status only and `Reassign` only what it changes. "accepted" stands for confirmed,
preparing and ready. The history is the number of times each rider was asked, an acceptance
using them all up as `passedOverFor` does; a cooldown is a choice for a rider asked before.
All riders are approved and reachable; codes are right. The constant `Reassigns` says which
orders administrators give to riders.

`sweepUnassignedOrders` takes the orders of `Waiting`: assignable, without rider and offer, and
younger than three hours (`aged` is time's doing and may happen at any moment). A pass takes the 100
oldest (`SweepLimit`); `EveryTurn` says that there are no more than that.

`DispatchRaces` shows that the conditional writes do exclude each other as their comments
say, with two handlers and no crash; that a rider's offer or handover does not stay half done; and
that a waiting order is offered again as long as the sweep takes it. `DispatchAlone` shows that with
several orders competing for a rider, and one handler at a time, there is one offer at a time and no
idle rider left busy.

One order is enough for races on one document; two are needed for a rider's limit and
offers, which are about several. `MaxActive` is 1 so that the limit is reached.
The sweep's limit of 100 is not reached with one order: `EveryTurn` is in the fairness and the
property so that neither promises more than the code where it is.

**Fairness**: a handler goes on, the clock reaches `offerExpiresAt`, and the sweeps of
`socket.js` (every five seconds) keep coming (`SF`, again because of the bounded slots). The sweep
for waiting orders is assumed to reach an order only while the order is in `Waiting` and `EveryTurn`
holds: nothing in the code offers an order without an offer once it is three hours old, or while 100
older ones wait. `WaitingIsOffered` promises no more: an idle rider nobody asked does not stay beside
such an order for ever, nor beside one whose offer has lapsed, which the other sweep takes at any
age. No order has to grow old, and restaurants and riders need not act: no rider has to accept.

What the two properties of `DispatchAlone` do **not** survive is two handlers at once, and
the code has nothing that would make them: `autoAssign` tests a rider's load and offers
before writing another document, and `acceptOrder` counts before it writes 'busy'. The
hazards say so at their lines. The same holds for one receipt per order: `createOrderBill`
finds, then creates, and the index on the order is not unique.


## 6. The other components

None of these modules states fairness: what is checked of them are invariants and what a
step may not do. `task` (`save`, `fill` in `FinanceSettings`) are the handlers in flight.

### 6.1 `SettlementWeek`: one restaurant's weeks

`sid` is each ledger row's settlement, `info` its week, amount and kind, `status`, `manual`,
`lock` and `late` a settlement's status, manual hold and `generationLock`, `summed` the rows
its totals were added up from (so `entryCount` is its size and nothing is a running counter).

| Code | Actions |
|---|---|
| `settleRestaurant` | `Generate`, `FindOrCreate`, `Lock`, `Candidates`, `ClaimRow`, `Claimed`, `ReadRows`, `DropEmptyWeek`, `CarryHalf` (a row of the pair each), `Reread`, `Save`, `Release` |
| its undo | `Undo`, `Unmake`, `Delete`, `Unclaim`, `DropIfEmpty` |
| ledger and administrators | `Earn`; `Schedule`, `Payout`, `Hold`, `Unhold`, `CloseFailed` with `CreditFailed` |
| what goes wrong | `Error` (a call fails and the undo runs), `Crash`, `Expire` (the lock runs out under a live generator) |

Part `week`: two weeks, two generators, five rows of 3, 1 or -2, the second week held.
`ApprovedIsSummed` needs that what was approved cannot be claimed into; `SavedIsSummed` that
a dead run's rows are found again. `MoneyConserved` adds up: the rows outside the settlements
closed by carrying forward, with the failed payouts still to be credited, are what was earned and
the half of a carry pair written so far. The halves cannot be left out: a second generator may
claim the first half, its week may be approved, fail and be carried forward, all before the other
half is written. `MaxEvents = 2` bounds rows written by others and mishaps together: the
properties stop holding at three, see the known gaps.

### 6.2 `PayoutBatch`: transfers, batches and accounts

`pay` is a settlement's status and payout, `batch` the batch's status, `account`, `verified`,
`asked`, `saving` the restaurant's account and the change asked for, `file` the lines an
administrator has downloaded, `bank` what became of each transfer, `vetted` a ghost: accounts
that were ever verified. An attempt is its number, an account its version.

| Code | Actions |
|---|---|
| `payoutAccount.service` | `StartSave`, `SaveAccount`, `VerifyAccount`, `DecideChange` |
| `settlement.service` | `StartScheduling`, `SchedulePayout`, `StartRelease`, `ReleasePayout`, `RecordPaid`, `RecordFailed`, `MarkPaidManually`, `HoldPayout`, `UnholdPayout`, `CarryForward`, `TransferByHand` |
| `createBatch`, `buildBatchFile` | `CreateBatch`, `ReadAccount`, `ClaimMember`, `FinishBatch`; `StartDownload`, `ReadLines`, `SaveDownload` |
| `reconcileBatch` | `StartReconcile`, `FindRow`, `SettleRow`, `CountAwaiting`, `SaveReconciled` |
| `cancelBatch` | `StartCancel`, `Withdraw`, `SaveCancelled` |
| the bank | `Upload`, `BankMoves` |

People are honest (they report what the bank did and do not upload a cancelled file); the
bank is not in order: it reports late, twice, or returns what it had paid. The three parts
spend the states on different questions: `alone` (two attempts, batches and accounts) on
results of an earlier attempt, `several` (two settlements) on the count that closes a batch,
`together` (two handlers) on overlapping batches.

### 6.3 `RiderPay`: a rider's weeks and cash

`when` says in which week a delivery was delivered, `row` is the `Payout` of each week, `old`
one of the old UTC weeks, `deposited` the cash handed in.

| Code | Actions |
|---|---|
| `ensurePayoutForPeriod` | `FindExisting`, `FindOverlaps`, `RemoveSuperseded`, `AddUp`, `WriteRow`, started by `StartList` and by the others |
| adjust, mark paid, bulk | `StartAdjust`, `Adjust`; `StartPay`, `StartBulk`, `Settle` |
| `migratePayoutPeriods.js` | `StartMigration`, `Move`, `Drop` |
| deposits, deliveries, time | `StartDeposit`, `Deposit`; `Deliver`, `WeekEnds`; `RiderDies` |

Part `rider` (one delivery, two requests at once) checks that what is paid stays paid with
its reference; part `riderlone` (two deliveries and weeks, one request at a time, which may
die anywhere, an old row paid or pending) that a paid week is paid on each of its
deliveries, once (`LonePaidIsEarned` is `PaidIsEarned` in that part): a paid row is frozen, and an old row's dates are not paid again.

### 6.4 `DineInBill`: one sitting at a table

`round`, `listed`, `marked` are the rounds, `session` the table's, `bill` the bill's document,
`rzp` Razorpay's orders, `strays` payments with a stray record of their own, `flagged` cancelled
rounds recorded for a refund, `forfeited` those their customer cancelled once the kitchen had started,
which earn none. A round costs 2 and a discount is 1, so that amounts tell them apart.

The bill has one payment (`bill.pid`) and one refund (`bill.refund`: on record, of that payment). A
refused payment is flagged there when the refund is free and gets a stray record otherwise; before a
payment settles the bill, the refund of another is copied to a stray record and cleared, in three
calls (`moveRefundToStray`); and settling writes its own payment over the one that is there. What
becomes of a refund on record (in flight, done, failed) is modelled for orders only.

| Code | Actions |
|---|---|
| guests and kitchen | `PlaceRound`, `CreateRound`, `PushRound`; `Accept`, `Prepare`, `Serve`; `StartCancel`, `CancelRound`, `FlagCancelled` |
| `getBill`, `assembleBill` | `AskFinal`, `Assemble`, `ReadBill`, `ReleaseAbandoned`, `WriteBill` |
| `payBill` | `CheckLive`, `OpenRazorpay`, `Adopt`, `Lock`; Razorpay: `GuestPays` |
| `verifyBillPayment`, `rejectBillPayment`, `recordStrayPayment` | `StartSettle`, `Refuse`, `Reopen`, `RecordStray` |
| `moveRefundToStray`, `markPaid` | `MoveRead`, `MoveCopy`, `MoveClear`; `Settle`, `CloseSession`, `FlagVoided` |
| counter and discount | `CheckCounter`, `PayAtCounter`, `StartBackOut`, `StartDiscount`, `ApplyDiscount` |

The parts are four small tables, since each property is about another race: `crowd` a second round
ordered or cancelled while the bill is paid, `alone` an abandoned payment and its successor, with
every refusal, move and cancellation one handler can make, `discount` a total that changes under a
payment, `twice` two payments. `LonePaymentIsAccounted` is `PaymentIsAccounted` in the first, second
and third: in `twice`, where two handlers have a payment each, it is false (section 8, known gaps).
`CancelledRoundIsFlagged` leaves out the forfeited rounds, as `onOrderCancelled` does.

### 6.5 `OfferCheckout`: offers, checkout and idempotency keys

`offer` are the `Discount` documents, `late` those past their end, `order`, `cart`, `key` the
other documents, `told` the orders a key was answered with.

| Code | Actions |
|---|---|
| `personalOffer.service`, the sweep | `SendOffer`, `ViewOffer`, `RunOut`, `CloseOffer`, `ExpireGivenBack` |
| cart | `AddItem`, `StartEmpty`, `EmptyCart`, `StartTakeOff`, `TakeOff`, `StartApply`, `ApplyOffer`, `UnapplyOffer`, `MarkApplied` |
| `idempotency.service` | `ClaimKey`, `Repeat`, `NoKey`, `Succeed`, `Fail` |
| `createOrder` | `ReadCart`, `Validate`, `ClaimPersonalOffer`, `CreateOrder`, `ReleaseClaim`, `MarkRedeemed`, `ClearCart` |
| restaurant, crashes | `AcceptOrder`, `CancelOrder`, `ReopenOffer`; `Die` |

`used` has one offer and two checkouts racing for it, `sent` two offers after each other with
one handler, `keys` two keys and two orders. A handler may die at any step of any of them.

### 6.6 `LiveSession`: a visit on the owner's dashboard

`visit` are the `CustomerSession` documents, `clock` counts ticks, `reported` is a ghost:
`checkout_left` events since the checkout was started.

| Code | Actions |
|---|---|
| `recordNow`, `sessionFor` | `StartRecord`, `CloseTimedOut`, `OpenSession`, `FindAgain`, `Record` |
| sweeper, paid table | `FindDue`, `Move` (close, idle, left, paid) |
| sharing turned off, time | `Hide`; `Tick` |

`app` has two sessions and the short time-outs, `table` one diner and the longer one; every
time-out is reached with `MaxTime`.

### 6.7 `FinanceSettings`: versions of the platform's rules

`rows` is the collection, `cache` what each process serves and until when, `save` and `fill`
the admins' saves and the reads that missed the cache, `now` the clock.

| Code | Actions |
|---|---|
| `getActiveSettings` | `GetActiveSettings`, `Look`, `SeedRead`, `Fill` |
| `createVersion` | `CreateVersion`, `ReadBase`, `SeedSave`, `ReadLater`, `ReadLatest`, `Insert` (one row of `insertMany` each), `Collide` |
| time | `SettingsTick` |

`SettingsTimeline` is what an administrator is promised: a rule has a value for every date,
and a change made for a date holds until the rule was already due to change; which rules, values and
date a request names is left open, so it says nothing of a save that writes other values than those
asked for. `Timeline` in
`FinanceSettings` reads the collection as such a plan (an insert begun counts as done, its
rows become visible one by one) and `KeepsTheTimeline` says that every step is a `Change` or
a stutter. `LoneSaveKeepsTheTimeline` checks that in part `plan`: two rules, dates 0..2, up to four
versions, one save at a time. Part
`served` lets two saves race one read of one rule and asks that a version scheduled when a
process looked is served from its own date, not from when the cache happens to expire.

## 7. Proofs

TLAPS checks these for any values of the constants.

| Module | Theorem | Says | Under |
|---|---|---|---|
| `OrderPaymentProofs` | `TypeCorrect` | `TypeOK` | - |
| | `RefundedIsReturned` | `RefundedMeansReturned` | any number of handlers and faults |
| | `PaidStaysPaid` | `PaidIsFinal` | the same |
| | `CancelledStaysRefundable` | `CancelledMoneyIsRefundable` | no fault (`MaxFaults = 0`) |
| | `OneRecordOfAPayment`, `RefundIsOfThePayment`, `LiveOrderPaymentStays` | `OneRecordPerPayment`, `RefundOfOwnPayment`, `LiveOrderKeepsItsMoney` | `Apart`; any faults |
| | `OrderImplementsBook` | `ImplementsBook`: the refinement of `MoneyBook` | `Apart`; any faults |
| | `RefundIsSentOnce` | `SendsOnce` | exact payments, no fault |
| `DispatchProofs` | `TypeCorrect` | `TypeOK` | - |
| | `HandoverExcludesCancellation` | `HandedOverIsNotCancelled` | any reassignments |
| | `CancelledReleased` | `CancelledIsReleased` | `Reassigns = {}` |
| | `HolderKept` | `NoTakeover` | `Reassigns = {}` |
| | `OneOffer` | `OneOfferAtATime` | one handler; any reassignments |
| | `BusyIsLoaded` | `BusyHoldsAnOrder` | one handler; only waiting orders reassigned |
| `SettlementWeekProofs` | `TypeCorrect` | `TypeOK` | - |
| | `ApprovalHolds` | `ApprovedIsSummed` | no generator fails or outlives its lock |
| | `BooksBalance` | `MoneyConserved` | the same; any number of weeks, generators and rows, any integer amounts |
| | `TotalsAreOfTheWeek` | `SavedIsSummed` | no call fails, no lock expires; generators may die |
| `PayoutProofs` | `PayoutTypeCorrect`, `PaysVettedAccounts` | `PayoutTypeOK`, `ToVerifiedAccount` | any number of handlers |
| | `PaysOnce`, `ReconcilesAll` | `PaidOnce`, `ReconciledIsSettled` | one handler, no failed payout held |
| | `RiderTypeCorrect`, `PaidStaysPaid` | `RiderTypeOK`, `PaidForGood` | any number of requests and crashes |
| | `PaysWhatWasEarned` | `PaidIsEarned` | one request at a time; any crashes |
| `DineInBillProofs` | `TypeCorrect`, `PaidAsShown`, `CancelledIsFlagged` | `TypeOK`, `ReceiptIsPayment`, `CancelledRoundIsFlagged` | any number of handlers |
| | `NoPaymentLost` | `PaymentIsAccounted` | one handler at a time, or one Razorpay order |
| `OfferCheckoutProofs` | `TypeCorrect`, `Once`, `OfOneOrder`, `SameAnswer` | `OfferTypeOK`, `RedeemedOnce`, `OfferOfItsOrder`, `OneAnswerPerKey` | - |
| `LiveSessionProofs` | `TypeCorrect`, `LeftOnce`, `ClosedForGood`, `AbandonedOnlyInSilence` | `VisitTypeOK`, `LeftOncePerAttempt`, `ClosedStaysClosed`, `AbandonedWhenSilent` | - |
| `FinanceSettingsProofs` | `TypeCorrect`, `ServesCurrent` | `SettingsTypeOK`, `ServedIsCurrent` | any number of saves and reads at once |
| | `NumberedInTurn` | versions are numbered 1, 2, 3 and so on, without a gap | the same |
| | `LoneSavesImplementTimeline` | `KeepsTheTimeline`: the refinement of `SettingsTimeline` | one save at a time |

`Apart` says that there is one handler at a time or every payment is exact: two handlers that
refuse payments do break what it is assumed for (`RefundMixup`, `StrayTwice`). The hypotheses of
the others are likewise where the property ends: `DispatchReassign` and `PayoutReplay` show it,
and the last paragraph of section 5 says it for two handlers.

They assume nothing else but the modules' named assumptions on their constants, which TLC
evaluates in the runs: kinds of model values that differ, sizes that are numbers, and finite sets
where rows or rounds are counted or added up.

**Payment.** "An order marked refunded had its payment returned" is not inductive: it
speaks of two documents of two systems. `Inv` adds what each handler knows where it
stands (`TasksOK`): the handler about to write 'refunded' holds a refund that is processed
at Razorpay. That stays true because no step undoes a processed refund (Razorpay's side only
goes forward) and ids are given out in order (`Unsent`). For the cancellation race
`UnderWay` says who will start the refund: the cancelling handler if it saw the payment,
the counting handler if it saw the cancellation - each writes before it reads, so one of
the two sees the other.

**Where an order's money is.** `Kept` relates the documents (`Money`): a refund on the order is
of the payment the order names, and is due or of a refused payment; a stray record is of a
payment the order does not count, and there is one of it; what Razorpay refunded is on record
somewhere. None of the three properties is inductive without the others, nor without what a
handler may rely on between its calls (`Knows`): that the record it is about to write is not
there yet, that the refund it is moving is still the order's. Under `Apart` there are two
reasons for it, and the proof has one case for each: a handler alone sees the documents as it
read them; handlers that interleave handle exact payments, and of those they only know what no
step undoes (`Persists`: a settled order, a refund that is due, a record).

**The refinement.** `fate` computes each payment's fate from the documents and from Razorpay;
`FateFacts` says what each fate means under `Kept`. Each action is then one of four: it changes
neither fates nor the order (`SameBook`), it settles the order or records what is owed
(`SettleBook`), Razorpay returns money (`ReturnBook`), or the order is closed. That
`CountPayment` is enabled in the book when the code counts is where `OneRecordPerPayment` is
needed.

**One refund.** `Once` is about payments none of whose refunds failed: one has one runner between
claim and answer (`OneRunner`), a refund not under way has not been sent and one under way
without an id has its runner (`DocOnce`), and that runner has not sent either (`RunOnce`). With
exact payments a payment has one document that carries its refund, so that the claim, a
compare-and-swap on that document, excludes a second runner; and an attempt is taken over
only when it is stale, which without faults nobody's is while its runner lives.

**Dispatch.** The handover's claim and the cancellation's guard test each other's field on
one document. What could break them is the kitchen's later `save()`, which writes
'delivered' from an old document; `Inv` therefore says that a handler about to save
(`kitchenSave`) has an order already delivered, and that delivered is final. For the release
`Sound` names, for a cancelled order still on offer or held, the handler that will take it
back (`TakenBack`): one that has not read it yet, or read exactly the present offer and
rider. That survives because acceptance, pickup and offer all require an order that is
not cancelled, so nothing but that handler changes them any more; it needs that an order on
offer has no rider (`OneHolder`). A reassignment writes unconditionally and breaks it.
The two properties about a rider with several orders need one handler at a time: `OffersOK`
carries `autoAssign`'s test of the rider's other offers to its write. `BusyOK` says of a busy
rider without a full load who is going to free them (`WillFree`), and of the handler that
counted that its count still stands (`KnowsLoad`); an order on offer has no rider
(`OfferedIsFree`), so that acceptance only adds to a load.

**Settlements.** `ApprovedIsSummed` holds because nobody claims rows for a week without its
lock: `Inv` says that a generator at work holds the lock of its week, that two of them work
on different weeks (`Locked`, `Apart`), and what each has read so far (`Knows`) - all under
`Calm`, that nothing worse has happened than a generator dying. `MoneyConserved` says nothing of
what is under way; `Books` does: a generator that carries has decided both rows of its pair, and
those it wrote are as decided (`Carries`); a half whose twin is missing belongs to one that is about
to write it (`HalvesHeld`); a credit due is of a settlement that was closed (`CreditsDue`). Each
action then adds to both sides of `Balanced` alike. What a sum gains by a row, or by a set of rows
apart, is proved from the definition of the community modules' fold: the least size at which it
fails is looked at, since an induction theorem cannot be cited.

**Batches.** A line of a file carries the account read when the member was claimed; `Inv`
follows that account from the verification through the approval (`PayFine`), a handler's
registers (`TaskFine`) and the files (`LinesFine`) to the bank. Held and draft
settlements are left out of it, since scheduling writes their account anew. `Kept` is the
invariant of being paid once. Of a settlement only the last transfer may be under way or done
(`LastOnly`), and its status says which: approved or failed, the last has stopped; processing, it
went by the batch the payout names or has not gone yet; paid, it is credited or came back,
or the payment was made by hand (`PayKept`). A line of a file that is not with the bank yet, of a
batch nobody withdraws, belongs to a payout that awaits it (`FilesKept`): that is why a late
upload pays nothing twice, and why a batch may be closed. A hold on a failed payout breaks
`PayKept`, because its reference survives it (`PayoutReplay`).

**Rider payouts.** That a paid row stays paid needs only types: each write names the status it
replaces. That it was paid as earned needs `Fair`: a paid week is over, so that no later
delivery belongs to it, and what a request has added up for a week that is over (`Knows`) is
still its sum when it writes, since only the script that deletes an old row could change it, and
that is another request.

**Bills.** The total of a bill is frozen from the moment a Razorpay order locks it; `Frozen`
says so, `Knows` what a handler settling, refusing or backing out has read, `OneCreator` that
only one of two locks wins, `Ordered` that a bill is paid before its table closes. `Pending`
names, for a round cancelled around a payment and not forfeited, the handler that will still flag
it: the canceller if the bill was paid first, the settler otherwise. That no payment is lost needs a
second invariant, `Kept`: the payment in the bill's slot, if its refund is not on record, has settled
the bill or is a stray (`SlotOnRecord`); a handler about to settle finds no refund there but its own
payment's (`Room`); and what is about to be cleared has been copied (`Copied`). `Room` is where the
hypothesis comes in: a handler alone finds the slot as its move left it, and with one Razorpay order
whoever flags in between flags the same payment.

**Offers and visits.** An offer's count is the claim: `Inv` of `OfferCheckoutProofs` relates
it to the one order or handler that holds it. In `LiveSessionProofs` a sweeper's decision is
written under the condition it was read with; `Counted` relates the number of reports to
whether the checkout still counts as started.

**Finance settings.** `ServedIsCurrent` needs that a number is never given to a version after a
higher one was seen: `NoGap` says of an insert under way that with it the numbers have no gap, and
`Current` of a cache, and of a read between its two queries, that among the versions it had seen
none beats the one it serves before the next was due. For the refinement, `Planned` says that what a save has
read still holds while it is the only one. `MergedOK` computes the plan its rows make, in one case
for each date: the changed rules from the new version, the others from what was scheduled.
`MergeIsChange` shows this to be the abstract `Change`: a scheduled version takes a rule over
exactly when every version since the new one left that rule as it was (`KeptLasts`), which is the
same as no date in between changing it (`LastingOK`, by its first date).

Each action has its step in `NextInv` or its like; lemmas such as `StepOK`, `GotoOK` and
`GentleOK` say once what moving one handler does to the others.

Only model-checked: liveness (`OfferStands`, `HandedOverIsClosed`, `WaitingIsOffered`,
`CapturedIsSettled`, `CancelledMoneyGoesBack`), which is out of the prover's reach; `TypesOK`,
`LonePaidIsEarned`, `LonePaymentIsAccounted` and `LoneSaveKeepsTheTimeline` of the `MC` modules, whose
parts are proved of the components; and `ReconciledIsSettled` and `PaidOnce` with two handlers,
as far as part `together` goes. The latter does not extend beyond its bounds, so that there is
nothing to prove: with a second transfer, a result looked up for the first and written after a
retry was paid settles the wrong one.

## 8. Where code and documentation disagree

* `RefundMixup`: a refused payment's refund can be written onto the record of an order that
  meanwhile counted another payment, because `runRefund` saves by `_id` alone
  (`refund.service.js:148`); the comment at line 326 excludes it.
* `RefundNotRetryable`: an error or crash between the cancellation and the claim leaves no
  refund on record, and the admin screen refuses the retry promised at line 294.
* `StrayTwice`: two handlers refusing a payment for different causes both record it as owed,
  against line 602.
* `DispatchReassign`: a rider whose offer was overtaken by an administrator's reassignment can
  still accept, where `API.md:5999` says `ORDER_UNAVAILABLE`.
* `PayoutReplay`: a failed payout put on hold, scheduled again and released by hand keeps the
  reference of its first transfer, so replaying the bank's old result settles the new
  attempt; `payoutBatch.service.js:274` says replaying results changes nothing.

### Known gaps

Reading the code for the models also showed the following. They lie outside the bounds above
or in parts left out, and are listed here rather than checked.

* **Payment and dispatch.** A redelivery that overlaps the first run of a webhook claims its
  row again (`webhook.controller.js:21`); of two overlapping deliveries of one `refund.failed`
  the second finds a retry that has no id yet (`refund.service.js:431`) and marks it failed, so
  that a third attempt can be started while the retry is under way. A refund that is claimed
  while it is moved to a stray record is copied as not claimed (`refund.service.js:338`). The duty switch saves a status read before and can
  overwrite 'busy' (`duty.controller.js:33`). The kitchen looks for a rider before its
  conditional write (`kitchen.service.js:149`). A process that dies after the handover's claim
  leaves the order open (`partner/order.controller.js:435`). Two searches at once can offer two
  orders to one rider. An order without an offer is never offered again once it is three hours old, and
has to wait while 100 older ones do (`deliveryAssignment.service.js:622`, `:630`).
* **Settlements.** With three events a generator that dies, fails or outlives its lock can
  leave totals that no longer are those of the rows when the week is approved, or half a carry
  pair. Closing a failed settlement loses the balance when the process dies between the status
  and the credit. The scheduler's Redis lock (`settlementScheduler.js:44`) can expire while it
  runs, and its release then deletes a successor's.
* **Batches.** With two handlers a download writes over 'cancelled', a batch can be used while
  it is being built, and a reconciled row is not tied to its batch when it is written. An
  owner's save from an old document (`payoutAccount.service.js:170`) can take the verification
  from an account.
* **Rider payouts.** With two requests a week can be written from incentives or earnings read
  before; an adjustment saves without a condition on the status (`payout.service.js:249`), so
  that it can change a paid week, which line 20 excludes; two deposits can exceed the cash held
  (`deposit.controller.js:25`); the script dying between moving and deleting doubles incentives
  when run again; a delivery saved after the recompute is not in the week paid; references
  are unique by a check before the write.
* **Bills.** With two payments and two handlers a refused payment can be on no record at all.
  A's payment has passed `moveRefundToStray`, which found nothing to move (`refund.service.js:340`);
  B refuses another, flags it on the bill and is answered; A's `markPaid` then replaces
  `razorpayPaymentId` (`billing.service.js:603`), and the refund left on the bill is taken for one of
  A's payment. That is the payment `payment.service.js:424` says is never silently dropped. For
  the amounts to differ a screen that assembled the bill before the round was accepted must re-price it
  meanwhile. TLC finds it, in 33 steps, when `FloorAndGuards.cfg` names `PaymentIsAccounted` in place
  of `LonePaymentIsAccounted`. A round its customer cancels after the kitchen started but before the
  bill is paid is flagged for a refund when it still is on the bill (`billing.service.js:660`),
  against the rule of `refund.service.js:20`. `markPaid` marks rounds that were not on the bill (`publicBill.controller.js:107`
  says otherwise); the counter's settlement tests no total; discounts written at the same time
  lose one; a bill whose refused payment is owed back can later be settled by that payment
  (`payment.service.js:485`); a crash between the settlement and closing leaves the table open.
* **Offers and keys.** The daily limit counts on an offer staying open while the second is
  written (`personalOffer.service.js:350`); a crash between claim and order leaves an offer
  claimed by none; an order cancelled before the redeemed write leaves an offer redeemed by a
  cancelled order; a cart changed during checkout answers an error after the order was
  created and frees the key, so that a retry can order again.
* **Live activity.** The cached consent can be written back after the customer opted out; an
  attempt started after the sweeper's read can be lost.
* **Finance settings.** With two administrators the base is read before the newest version
  number, so a whole save in between is undone without a collision, where
  `financeSettings.service.js:319` says it cannot be; and a collision on a later row comes
  after rows were saved, where line 386 says it fails on the first.

## 9. Not modelled

* In `OrderPayment`: dine-in bills paid online (they are in `DineInBill`), cash, simulated
  payments, fee entries in the ledger, notifications, legacy refund fields, and permanent
  gateway refusals (4xx).
* In `Dispatch`: ranking by distance, presence, push, the veg-fleet search, wrong codes and
  the lock after five, COD amounts, and crashes.
* In the others: payouts approved before fingerprints existed, monthly statements, offers on a
  table's bill, the daily limit, keys expiring after a day, the consent cache, labels and
  prices of activity.
* Ledger: only the rows settlements are made of; which event writes them is planned.
* One-time passwords, restaurant approval as a component of its own, support tickets,
  reports, notifications, accounts, catalogue, HTTP plumbing and migrations other than
  `migratePayoutPeriods`: no state that orders or money depend on, pure input and output, or
  one conditional write. Arithmetic of charges, GST and distances is a function of one
  document, covered by the repository's unit tests.

The map covers the services above; most of the repository's lines are reads, views,
validation, HTTP handlers and scripts, so its share of all lines stays low.
