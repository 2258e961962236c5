# Verification of Harvestlink

Harvestlink is the point-of-sale and inventory system of a food co-operative: an
Express/Prisma/PostgreSQL backend (`backend/src`), a React client that can work
offline (`frontend/src`), Stripe for card payments, and cron jobs in the backend
process. This directory holds TLA+ models of the parts in which goods, money and
concurrency meet, TLC configurations that check them on small instances, and
TLAPS proofs of the most important invariants for every instance.

Paths below are relative to the repository; `stockEngine.ts`, `sales.service.ts`
and the other services are in `backend/src/services`, jobs in `backend/src/jobs`,
scripts in `backend/scripts`.

## 1. Inventory of the system

| Component | State it keeps | Operations | Interacts with |
|---|---|---|---|
| Stock engine (`stockEngine.ts`, `lib/locks.ts`) | `Lot.quantityRemaining/quantityReserved/status`, cached `Product.stock/reserved` | allocateFefo, reserve, release, consume*, restockToLots, addLot, setLotRemaining, leaveSellableRollup, returnToSellableRollup, recallDepleteLot | called, under row locks, by everything that moves goods |
| Inventory (`inventory.service.ts`, `expireLots.ts`) | StockAdjustment, InventoryWriteOff | createProduct, updateProduct, adjustLot, quarantineLot, the lot expiry job | stock engine, catalog |
| Checkout and payment (`sales.service.ts`, `stripe.webhook.ts`, `expirePendingSales.ts`) | Sale, SaleItem, SaleItemLot, ProcessedStripeEvent, StockReconciliation | createSale, startCheckoutPayment, startTerminalPayment, finalizePaidSale, settleUnpaidSale, confirmSalePayment, webhook, expiry job | stock engine, Stripe |
| Offline sales queue (`offline/sync.ts`, `salesQueue.ts`, `POS.tsx`) | IndexedDB queue shared by the tabs | enqueue, replay in order | createSale with an idempotency key |
| Refund protocol (`sales.service.ts`, `reconcileRefundingSales.ts`) | SaleRefund, SaleRefundLine, Sale.pendingRefundId | claimRefundInDb, refunds.create, finalizeSucceededRefund, abortFailedRefund, reconcileRefundingSale | stock engine, Stripe |
| Pricing (`sales.service.ts`) | amounts on Sale, SaleItem and refund rows | line totals, tax, operator share, pro-rata refunds | settlement |
| Settlement (`settlement.service.ts`) | OperatorPayout | createPayout | sales, refunds, other payouts |
| Cash drawer and deposits (`drawer.service.ts`, `cash.service.ts`, `flagUndepositedCash.ts`) | CashDrawer, CashDeposit | open, close, record, confirm, dispute, daily job | cash sales and refunds |
| Purchasing (`purchasing.service.ts`) | PurchaseOrder, GoodsReceipt, Product.cost | create, edit, submit, cancel, receiveGoods, reorder suggestion | stock engine |
| Recall (`recall.service.ts`) | Recall, RecallLot, RecallNotification | initiate, preview, activate, cancel, close, dispatch, recovery, disposal, refunds | stock engine, refunds, traceability |
| Traceability (`traceability.service.ts`) | none | trace forward, backward, genealogy | sales and lots |
| Stock counts (`stockCount.service.ts`, `scheduleCycleCounts.ts`, `CountScan.tsx`, `offline/count*.ts`) | StockCount, StockCountLine, the device's queue | create, schedule, start, submit, complete, cancel, approve | stock engine, sales (by `paidAt`) |
| Membership (`membership.service.ts`) | Member, CapitalInvestment, EquityAccount, Ballot, Vote, BoardResolution, Dividend | member life cycle, confirm and refund capital, vote, declare and allocate dividends | settings |
| Benefits (`benefits.service.ts`) | MemberBenefitUsage | resolveBenefits, usage rows | createSale |
| Catalog (`catalog.service.ts`, `backfill-catalog.ts`) | CatalogItem, CatalogDisagreement | create, update with propagation and clamping, backfill | products of all stores |
| Barcodes and scanner (`barcode.service.ts`, `lib/barcode.ts`, `frontend/src/scanner`) | ProductBarcode, Lot.barcode, the run of keys | register, look up, parse, detect scans | purchasing (lot labels), counts |
| Lot migration (`migrate-legacy-lots.ts`) | LEGACY lots | run, verify | stock |
| Shrinkage, reports, receipts, audit, stores and users, authentication, pages | own rows | single-row writes, queries, formatting | - |

What is hard here:

* **A card sale is open for minutes.** Its units are only reserved while the
  customer pays at Stripe; cashiers, adjustments, quarantines, expiry and offline
  tills work on the same lots meanwhile.
* **Three parties settle it**: the webhook (at-least-once, any order), the confirm
  endpoint and the expiry job; the process may die after it claimed an event.
* **Refunds are a saga** over the database and Stripe: claim, call, record, apply.
  Every gap between two of these can be a crash, a lost reply or a race with the job.
* **Reads before locks.** Most services (refund, recall, counts, purchasing,
  membership, catalog, settlement, drawer) decide on rows they read before taking a
  lock, or without taking one, at READ COMMITTED.
* **Offline devices** deliver sales and counted quantities late and repeatedly, from
  several tabs.
* **Redundant state**: `Product.stock` and `Product.reserved` are sums of lot
  columns, `totalInvested`, voting rights and the equity account are sums of
  investments, a product's identity is a copy of its catalog item's.
* **Scripts without a transaction** move live data while the shops are open.

`PROJECT.json` lists these under `hazards`, each at its line.

## 2. The modules

| Module | Models |
|---|---|
| `Totals`, `Money` | sums over finite sets, defined by counting units, so that their laws follow from the cardinality theorems without induction; rounding of amounts |
| `StockEngine` | lots, reservations and the rollup; one operator per mutation of `stockEngine.ts` |
| `Inventory` | EXTENDS StockEngine: opening lots, manual adjustment, quarantine, expiry, and `ledger`, the units ever put into a lot minus those written off |
| `Checkout` | EXTENDS Inventory: the whole life of a sale |
| `SaleLedger`, `CheckoutLedger` | what checkout promises, without lots, Stripe or jobs; the refinement mapping under which Checkout implements it |
| `OfflineQueue` | EXTENDS Checkout: the till's queue, its tabs, the network |
| `Refund` | EXTENDS Inventory: the refund saga and its job |
| `Pricing`, `Settlement` | the money of sales and refunds; payouts to the operator against both |
| `CashCustody`, `DepositAllocation` | shifts, deposits, the daily job; how deposits are spread over shifts |
| `Purchasing`, `Reorder` | EXTENDS StockEngine: orders and receipts; the suggested quantity |
| `Recall`, `Outreach`, `Traceability` | a recall up to its activation, with the till selling (EXTENDS Inventory); what follows it; the queries it rests on |
| `StockCount`, `CycleCount` | counts, the counting device, the real shelf (EXTENDS Inventory); which products the next cycle count takes |
| `Membership`, `Dividends` | members as owners; resolution, declaration and allocation of a dividend |
| `Benefits` | which benefits a cart gets |
| `Catalog`, `CatalogBackfill` | catalog items and products; the backfill script |
| `Barcodes`, `Gs1`, `Scanner` | registry and locks; check digits, UPC-E and GS1 parsing; telling a scanner from a person |
| `LegacyLots` | the migration to lots |
| `MC*` | instances for TLC: model values, functions, input sets. `MCCoop`, `MCStockCount` and `MCDesk` put components that share no state into one run: a behaviour is about one of them (`partner`, `topic`) |
| `TotalsProofs`, `StockProofs` | lemmas about sums, induction over finite sets and numbers; lemmas about the stock engine's mutations |
| `CheckoutProofs` | theorems about Checkout, its books, the refinement and the offline queue |
| `RefundProofs` | theorems about refunds, recalls and what follows a recall |
| `PurchasingProofs` | theorems about purchasing, reorder suggestions and cycle counts |
| `CountProofs` | theorems about counts and the barcode registry |
| `CoopProofs` | theorems about membership, settlement, dividends and benefits |
| `DeskProofs` | theorems about the cash from till to bank, barcodes and the scanner, the catalog, its backfill and the migration to lots |

**Atomicity.** `lib/locks.ts` prescribes Product rows before Lot rows, both
`FOR UPDATE`; what an operation does after that is one action. What it reads
before the lock is a step of its own wherever the code uses the value afterwards
without reading it again (`ReadBeforeFinalize`, `ReadLotsToRecall`,
`ReadBeforeCancel`, `BeginSubmit`, `JobAsksStripe`; the read steps of `Purchasing`,
`Membership`, `Catalog`, `Settlement`, `CashCustody` and `Outreach`).

**Data.** Quantities are integers, a product has at most a few lots, the expiry date
of a lot is its rank in FEFO order. Prices are left out of the stock modules and are
cents in `Pricing`. Times appear as what they decide: a reservation may expire
(`ReservationExpires`), a count knows which units were paid after it looked
(`paidAfter`), ages are days or cycles.

**What the code cannot promise.** Where two requests overlap in a way the code does
not guard, the model still takes the step and marks the row it spoiled in a history
variable (`raced`, `disturbed`, `overtaken`, `staleRights`, `staleAccount`,
`crossed`, `renamed`, `muddled`, `raised`, `misnamed`, `revived`, `early`, `busy`,
`unsure`, `refused`, `lapsed`). Properties exclude exactly those rows by name, so what they say
of the others holds next to such overlaps. Section 3 lists what goes wrong on the
marked rows.

**Checkout.** `paymentStatus`, `allocation` (SaleItemLot) and `saleItem` are the
sale; `stripe` is the truth at Stripe; `sent`, `processedEvent`, `running` and
`conflicted` are the events Stripe may deliver, the ProcessedStripeEvent rows, the
handlers that have claimed an event, and those that met a conflict; `due` are the
sales whose reservation has run out; `verdict` is what the expiry job was told and
has not acted on; `reconciliation` the StockReconciliation rows. A declined attempt
leaves the payment intent open, as at Stripe. `Restart` forgets handlers and job, not
rows. Constant `Offline` lets tills sync sales that may oversell.

**SaleLedger.** Units of a product on hand, lines and status of each sale. An order
takes units nobody holds; a held unit is neither sold to another nor taken off the
shelf; a sale settles once. `CheckoutLedger` maps `Product.stock`, the SaleItem rows
and `paymentStatus` to it.

**OfflineQueue.** `minted` are the idempotency keys with their basket and mode,
`queue` the IndexedDB rows; each tab walks over a snapshot of the rows, earliest key
first, sends one at a time, and then removes the row or writes it back with an error. A request may reach
the server after its sender has given it up; answers may be lost and pages reloaded
(`MaxLosses`). The server side is createSale of Checkout with the key lookup; of the
rest of Checkout a card sale at another till goes on. Webhooks and restarts of the
server are left to the checkout runs.

**Refund.** The request and the job are two workers, each in a `phase` per refund.
Stripe may refuse, succeed, or answer "pending" and decide later; with
`LostReplies` it may succeed and the answer be lost. `Overlap` lets the job act
while the request is still at work (the grace period makes that rare, not
impossible). `MaxFaults` bounds restarts and rolled-back transactions.

**Pricing and Settlement.** `SaleRow` computes the amounts of createSale,
`planRefundLines` those of a refund, per line and rounded as in the code, with the
last refund of a line taking what is left. Settlement moves sales through refunds in
parts while the store's settings change, and lets payouts read sales, read payouts
and create the row in three steps.

**CashCustody.** The banknotes are in `till`, the books in drawers and deposits.
createSale, openDrawer and closeDrawer each look first and write later. A dispute is
allowed on one read and claimed in another step; the bank confirms in between.

**Purchasing.** Each request loads the order, then writes by id; receiveGoods has a
third step, because the status it commits was computed from the lines it saw before
it waited for product locks.

**Recall and Outreach.** Request steps are split at their reads. Requests about
different recalls overlap; `Concurrent` lets two requests about one recall overlap.
Lots of a recall may be adjusted and sold meanwhile; `revived` says that an adjustment
put a lot back on sale that had joined a recall after it sold out.
Outreach starts from the affected-customer list of `Traceability` over every history
of two purchases; dispatches and refund runs of two administrators interleave and may
die between a mail and its row.

**StockCount.** `shelf` is what is really there. Counters count correctly; units
are sold from any lot, held, lost, and adjusted meanwhile. `drift` records how far
books and shelf moved apart since a look, which is what an approved count cannot
know. `Racing` lets a sale commit between the two reads of one submission. A device
is used by one person.

**Membership.** An operation on capital reads the investment, changes its row and
adds up what it sees, writes the equity account (where it waits for others), and adds
up again for total and voting rights. `qualified` remembers who ever reached the
threshold in force.

**Catalog, Barcodes.** Reads of the catalog item protect nothing at READ COMMITTED and
are steps of their own. Registrations take the advisory lock and the product lock in
the orders of the code, which differ; a deadlock is broken by aborting one
side (`AbortDeadlocked`).

**CatalogBackfill, LegacyLots.** One product at a time, no transaction; the run may
stop anywhere and be run again while prices, names, sales and receipts go on.

## 3. What is checked

All runs set CHECK_DEADLOCK FALSE: a shop with everything sold, refunded, recalled
or counted, and all bounds used up, may stop.

| Run | Instance | Shows |
|---|---|---|
| `checkout_stock` | 2 sales, 2 lots of 1 product, adjustments, quarantine, expiry; succeeded events | rollup, holds, conservation of units, FEFO; a customer charged while PENDING can be served; `ImplementsLedger`: checkout refines SaleLedger |
| `checkout_payment` | 2 sales, 1 lot, succeeded and failed events, restart; fair | goods leave only against money; every sale settles; a payment whose webhook was lost is recovered |
| `offline_queue` | 2 tabs, 2 queued sales, another till, 2 losses; fair | no sale is lost, made twice or reordered; units add up below zero and overselling is flagged; the last-chance claim of finalizePaidSale never fires; the queue drains |
| `refund_protocol` | card and cash sale, 2 refunds, 2 lots, 2 faults, lost replies; fair | claim and sale agree, each refund is applied once, goods are accounted for, no lot is overfilled, card refunds settle |
| `count_shelf` | 2 counts, 1 lot, 2 people, 2 looks, 1 loss, 1 adjustment; or the barcode registry with 2 clerks, 2 products with a lot each, 3 codes | approval brings books to shelf, one shortfall is written off once, a recount is a second look, figures of a completed count are final; a code is registered once and a scan finds one product, on server and device |
| `purchasing` | 1 order over 2 products, 3 lots, 2 requests | an order no requests raced on says what arrived; a raced one loses units, never invents them; the average cost stays within the prices paid |
| `cash_custody` | 2 shifts, an online and an offline sale, 1 deposit, 2 days; fair | an undisturbed shift balances; only confirmed money covers a shift; a dispute does not undo a confirmation; cash kept too long is flagged |
| `coop` | 1 sale of 2 lines under 3 settings, 2 payers; 1 member, 2 investments, 2 requests, a changing threshold | refunds in parts add up for customer and operator; a store console does not overpay; votes, rights, equity and payments back rest on confirmed capital |
| `desk` | the other components, one in each behaviour | catalog, backfill, migration, scanner, cycle counts, recalls, outreach and dividend keep their invariants; the calculations are right on every input of a bounded set |

`UnitsAccounted`, `RefundsConsistent`, `OrdersTruthful` and the like are conjunctions
of named parts, each with its own comment; several mutants stand for their parts.

Runs that expect a violation, each a disagreement between the code and its own
comments (quotations under `findings`):

| Run | Shows |
|---|---|
| `refund_twice` | request and job both apply the same partial refund |
| `batch_untraced` | a batch received by two stores: the recall in one does not list the customers of the other |
| `offline_sold_out` | a sale taken offline of a product that sold out meanwhile is refused, each time |

Met while modelling, visible in the models, and named where a property excludes it:

* *Checkout*: the expiry job releases the units of a sale the customer then pays; a
  declined attempt fails the sale while its payment intent can still be paid
  (`LostWebhookRecovered` excludes both); an offline sale takes reserved units, after
  which the charged sale can never be finalized, and a negative lot that leaves sale
  leaves its shortage in `Product.stock` (with `Offline = TRUE` TLC refutes
  `HoldsBacked`, `ChargedSaleCanSettle` and `StockRollup`, and `ImplementsLedger` with
  them). startCheckoutPayment charges the gross of the lines, without discount or tax.
* *Offline queue*: a basket whose answer was lost is rung up again under a new key
  (`unsure`); the first sale the server refuses blocks the ones behind it (`refused`).
* *Refund*: Stripe made the refund but the reply was lost, and the refund is given up;
  a refund Stripe reports as pending is booked at once; a cash refund that dies after
  its claim, and a restock onto a lot that was recalled or has expired, stay REFUNDING.
* *Recall*: cancelling one of two recalls of a lot puts it on sale under the other; with
  `Concurrent = TRUE` an ACTIVE recall is cancelled. A lot that sells out between the
  check of its status and its lock joins the recall DEPLETED; an adjustment upwards puts
  it on sale under the recall, and the activation then writes its units off without
  taking them from `Product.stock` (`revived`; TLC refutes `StockRollup` there).
  Recovered and disposed quantities have no upper bound.
* *Counts*: with `Racing = TRUE` a sale between the two reads of a submission is taken
  for a missing unit; an adjustment between submission and approval is applied twice;
  an expired lot is written off again at approval; entries of a shared device are
  recorded for whoever is signed in; products beyond the size of a cycle count may be
  put off for ever.
* *Purchasing*: raced receipts lose units from the order; an order may be received
  after it was cancelled, or over-received without acknowledgement.
* *Cash*: two drawers may be opened at once; a sale between sum and close belongs to no
  shift. *Settlement*: two payouts, or a payout and a refund, together overpay; under
  SHARED the clawback of a partial refund measures units and base differently.
* *Membership*: a settings change or a withdrawal writes rights computed before capital
  moved. Two allocations of a dividend without a common member are both kept.
* *Benefits*: no code bounds a percentage; one above 100 is a discount larger than
  its line, and createSale then refuses the sale. A benefit used on two lines of a sale is recorded as one use, so its cap
  is exceeded over several sales.
* *Catalog*: overlapping writes leave a price above the ceiling or an old identity.
  An interrupted backfill, or one that is crossed by a rename while it links, forgets
  replaced names: the next run takes them for agreed and overwrites an open disagreement
  (`muddled`); prices raised and items renamed while it runs are missed. The migration doubles the units of products that have lots of
  their own.
* *Barcodes*: a SKU is set without the store's lock to a code that is in use. A label
  whose text is 12 or 13 digits (a lot of ten or eleven digits and nothing else) is padded
  like a code before it is parsed, and not recognised; `LabelIsReadBack` excepts it.
* `expirePendingSales` takes the 100 oldest sales of a tick; 100 that fail each time
  would starve the rest. The models give each sale a job step of its own.

**Bounds.** Two sales are enough for every race between sales: an operation on a
sale reads only its own rows and the lots. Two lots of a product make FEFO spill,
partial depletion and lot-by-lot restock happen; `MaxUnits` 2 or 3 lets a lot be
partly sold, partly held and partly refunded. Two refunds of a sale are needed for a
refund to meet its predecessor. One adjustment is enough to move a lot between any
two quantities, or to put a sold-out lot of a recall back on sale. Three names let a run
of the backfill that was crossed by a rename meet a third. `MaxFaults` 2 lets a crash hit the recovery of a crash; `MaxLosses` 2
lets a tab lose an answer and then its page. Two requests, payers, clerks,
treasurers or administrators are enough for one to overtake another between its read
and its write; the catalog, purchasing and membership requests take any operation.
The order has two lines so that one is complete before the other. Prices and
quantities of `MCCoop` are such that neither the tax nor the operator's share comes
out even; every line has at most 5 units, see `Pricing`. Nine keys let the scanner
finish a scan of the minimal length and begin another; the gaps are one on each
side of every limit. Three holders let a dividend have a rounding remainder.

**Fairness.** `JobFairness` and `RefundFairness` assume that cron keeps calling the
jobs and that a call which has begun is carried on unless the process dies (deaths
are bounded). Nothing is assumed about webhooks: Stripe may lose every one of them,
customers need not pay. Stripe is assumed to settle a pending refund. `QueueFairness`
assumes that an open page tries to sync again (when it is shown or the network
comes back) and that the network does not fail forever. `CashCustody` assumes that the
daily job runs. No liveness is stated of what waits for a person.

**Mutants.** Operators named "Mutant of X" are X with a plausible slip (a dropped
guard, a missing reset, a wrong order). Each property of a passing run is violated
when one of them takes the place of X.

## 4. What is proved

All theorems hold for every value of the constants the named assumptions of the
modules allow: any finite sets of products, lots, sales, counts, orders, members, any
number of requests, people and tabs, any prices, FEFO ranks and bounds. The last
column says what a theorem assumes beyond them.

| Theorem | Property | Assumes |
|---|---|---|
| `TypeCorrect` | `TypeOK` of Checkout | - |
| `HoldsMatch` | `HoldsMatchPending`: a lot's reserved units are those of the PENDING sales | - |
| `LastChanceNever` | `LastChanceRefused`: the last-chance branch of finalizePaidSale is dead code | - |
| `RollupHolds`, `HoldsAreBacked`, `ChargedSettles` | `StockRollup`, `HoldsBacked`, `ChargedSaleCanSettle` | `~Offline` |
| `GoodsOnlyAgainstPayment` | `PaidMeansCharged` | - |
| `EveryUnitAccounted` | `UnitsAccounted` | - |
| `OversellNeverSilent` | `OversellFlagged` in Checkout | - |
| `EarliestExpirySoldFirst` | `FefoOrder` (action property) | - |
| `CheckoutImplementsLedger` | `ImplementsLedger`: Checkout refines SaleLedger | `~Offline` |
| `QueueKeepsFaith`, `OversellStaysAccounted` | `QueueFaithful`, `OversellAccounted` of OfflineQueue | - |
| `RefundedGoodsSafe` | rollup, refunded goods and refilled lots, `Overlap` included | - |
| `RefundsAppliedOnce`, `RefundsStayConsistent` | `BooksMatchRefunds`, `RefundsConsistent` | `~Overlap` |
| `OrdersTellTheTruth`, `ReceivedIsABound`, `CostStaysWithinPrices` | `OrdersTruthful`, `ReceivedNeverOverstated`, `CostWithinPrices` | - |
| `CountsStayConsistent`, `CompletedFiguresFinal` | `CountsConsistent`; figures of a COMPLETED count (action property) | - |
| `ApprovalsFaithful` | `ApprovalFaithful` (action property) | `Racing = FALSE` |
| `ShelfNeverWrittenOff` | `BooksCoverShelf` | `Racing = FALSE`, one lot per product |
| `RegistryStaysSound` | `RegistrySound` of Barcodes | - |
| `CapitalAlwaysBacksRights` | `CapitalBacksRights` of Membership | - |
| `RefundsAlwaysAddUp`, `ConsoleNeverOverpays` | `RefundsAddUp`, `StoreConsoleNeverOverpays` of Settlement | lines of at most five units |
| `DividendStaysSound` | `DividendSound` of Dividends | - |
| `RecallsAreEffective` | `RecallEffective` of Recall | `~Concurrent`, no two recalls name one lot |
| `OutreachStaysHonest` | `OutreachHonest` of Outreach | - |
| `CycleCountsOnTime` | `CyclesKept` of CycleCount | - |
| `CashIsAccountedFor`, `DisputesKeepConfirmed` | `CashAccounted`, `ConfirmedStaysBanked` (action property) of CashCustody | - |
| `KeysAreHandled` | `KeysHandled` of Scanner (invariant and action property) | - |
| `CatalogStaysConsistent` | `CatalogConsistent` of Catalog | - |
| `BackfillStaysFaithful` | `BackfillFaithful` of CatalogBackfill | - |
| `MigrationStaysExact` | `MigrationExact` of LegacyLots | - |

Eight theorems are about calculations that `CalculationsCorrect` checks on bounded
inputs, and hold for every input:

| Theorem | Of | For every |
|---|---|---|
| `CoverageIsRight` | `allocateConfirmedDeposits` | shifts, takings and deposits, in the order the shifts closed |
| `DividendIsFair` | `allocateDividend` | pool, method, split, capital and patronage |
| `BenefitsAreFair` | `resolveBenefits` | cart, benefits and past use; discounts within their lines where percentages are at most 100 |
| `ReorderIsOnce` | `suggestReorderDrafts` | shelf, supplier terms and order lines |
| `MisreadIsCaught` | `gtinCheckDigitValid` | code of eight digits or more, misread digit and pair of neighbours |
| `EitherFormIsFound` | `expandUpcE`, `lookupCandidates`, `addProductBarcode` | UPC-E, in each form scanners send its item |
| `EanIsNotALabel` | `parseGs1` | code of 13 digits |
| `LabelIsReadBack` | `parseGs1` | label of fields in any order, no identifier twice; texts of 12 or 13 digits excepted |

The assumptions in the last column mark what the code does not guard; TLC has a
counterexample for each when it is dropped. An offline sale of a held unit refutes
`HoldsBacked` and `ChargedSaleCanSettle`, a negative lot that leaves sale refutes
`StockRollup`, and `ImplementsLedger` with them. Request and job on one refund
(`Overlap`) book it twice: run `refund_twice`. A sale between the two reads of a
submission (`Racing`) is written off as missing. With two lots of one product, a
customer may take a unit of one lot while the sale is booked on the other, whose books
are then below its shelf. Two requests about one recall, or two recalls of one lot, put
goods on sale under an open recall.

**Checkout** (`CheckoutProofs`). `HoldInv == TypeOK /\
HoldsMatchPending /\ AbsentUnallocated` is inductive for every instance.
`AbsentUnallocated` (nothing is allocated from a lot before it is received) is needed
so that a receipt adds units that no sale has. `StockInv` adds `StockRollup`,
`HoldsBacked` and `NotOversold`, which need each other: the rollup is preserved when a
lot leaves sale only if its remaining is not negative and nothing is held on it, and
holds stay backed only if allocation never exceeds what is free. `AccountInv` adds to
`HoldInv` the balance of every lot and what is known of lots off the shelf; the
refinement uses both. `ChargeInv` follows the truth about a payment from Stripe through
events and verdicts. `StepKinds` splits `Next` into four kinds of step (maintenance,
selling, settling, bookkeeping); each kind is treated once per invariant, and the steps
of the offline queue are of the same kinds (`QueueStoreStep`).

**Offline queue** (`CheckoutProofs`). `TillInv` says of everything in flight why it does
no harm when it arrives, however late: a request of a sync, and every row a tab has
still to send, has all sales taken before it on the server (`WireOK`, `WalkOK`); a
request of the cashier has the cashier waiting, or its basket marked unsure; a basket
still at the till has been taken by no key (`BasketOK`).

**Refunds** (`RefundProofs`). What happens to goods (`GoodsInv`) needs no agreement of
request and job: a restock is bounded by what the sale took from each lot. The books
need `OneWorker`, and that a refund somebody works on is the one its sale waits for.

**Recall** (`RefundProofs`). `RecallInv` says of each recall what its state means for
the lots it names: under a DRAFT none is on sale, under an ACTIVE one all are RECALLED
and their buyers on the list, and what a preview or an activation has read still covers
everyone who bought (`impact`), because nothing is sold from a lot that is off sale.
The rollup holds as long as no lot was `revived`. **Outreach**: a request holds claims
on sales that are REFUNDING and nobody else's; messages are counted against rows, with
what a dispatch has handed out and not yet written in between.

**Purchasing** (`PurchasingProofs`). The invariant says what a reading taken without a
lock is worth when it is used: a lower bound of the units accepted for ever, the
order's lines until they are replaced, the whole row until somebody else commits. The
cost stays within prices because rounding a weighted mean of integers does not leave
their range. **Reorder**: rounding up to cases gives the least number of cases that
holds the quantity, and a submitted line adds exactly itself to what is on order.
**Cycle counts**: once the count of a cycle was drafted, what is not on it is within its
interval (`DraftCoversDue`).

**Counts and barcodes** (`CountProofs`). `CountInv` ties each line to the look it was
taken from and each look to one submission; `ShelfInv` adds that a look, less what was
paid since and the drift, is the shelf. `RegistryInv` says what each clerk's checks are
still worth under the lock the clerk holds.

**Members and money** (`CoopProofs`). `CapitalInv` says what each request of Membership
that was not overtaken still relies on, and that the settings request holds totals
right for every member whose capital has not moved. `SalesInv` bounds the distance
between what was refunded and its exact share by half a cent per refund and line for
each of the two roundings, and makes the last refund of a line close it. A line has at most
five units here: the shares are compared as integers, in sixtieths (`BaseBack`), which
bounds the theorem as it does the run. **Dividends**: shares add up because rounding each
of them is off by half a cent at most; `DividendInv` says that the rows of a run are all
there or all deleted, and who deleted them. **Benefits**: lines are resolved in order
(`WinnersAfter`), and by induction on the lines no benefit wins beyond its cap, and one
that wins nowhere has a reason. The recursion of the code is a recursive function; that
it has a value for every cart is itself proved by induction (`WinnersExist`), with the
set of good numbers in the place of a predicate (`NumbersInduction`).

**Cash** (`DeskProofs`). `CoverageIsRight` is by induction over deposits, and for each
over the shifts in the order they closed. `CashInv` follows each sale from the books of
a shift to its till: an open shift that is not `disturbed` holds what its books say
(`TillBalances`), and a count that was taken stands until the close (`CountStands`).

**Barcodes** (`DeskProofs`). A check digit is valid when the weighted digits add up to
whole tens (`ValidMeansTens`); a misread digit changes the sum by one to 27, never by
tens, and a zero in front changes nothing (`ZeroInFront`), which makes the padded forms
of a code one. The parser is a recursive function, and that it has a value is proved
first (`FieldsComputed`). Then a label is read back by induction from its last field to
its first: what is read from the place of a field on is what is written from it on
(`LabelIsRead`).

**Scanner** (`DeskProofs`). The invariant accounts for every key: it is in the field, in
a scan, in the run under way or was swallowed with a run that lapsed; the mean gap of a
run is compared by multiplication (`maxAvgInterKeyMs`), and a swallowed key was quick.

**Catalog, backfill, migration** (`DeskProofs`). `CatalogInv` says what a request that
has read and not yet written knows: its item is as it read it unless somebody came
between (`crossed`). `BackfillInv` ties a run to the first name it saw and to the prices
it has collected; while it links, a name is on record or the run is `muddled`.
`LegacyInv` says that a product without a LEGACY lot is untouched by lots, and one with
it is tracked by them.

**Sums.** `TotalsProofs` holds the facts about totals (adding, splitting, changing at
one point, monotone, scaled, the greatest element, allocation in order), `StockProofs`
what each mutation of the stock engine does to types and rollup. Totals are defined by
counting, not by recursion. Where a fact needs induction over the rows, the set of good
subsets takes the place of the predicate (`FiniteInduction`), which the provers can
instantiate.

Every inductive invariant was checked by TLC on the run's instance before it was
proved. Attempts at proof changed the models where they were loose: `derivePoStatus`
had overlapping CASE arms; the requests of Barcodes, Catalog and Dividends and the carts
and settings of Settlement had no types; the keys a tab has still to send were a sorted
sequence where a set taken in order says the same, and the shifts of a deposit likewise.
Two attempts failed for a reason, and TLC then showed it on an instance that had been too
small: `StockRollup` under a recall is lost when a sold-out lot is adjusted upwards (the
run had no adjustment), and a backfill crossed by a rename forgets names as an interrupted
one does (the run had two names). Both are described in section 3.

*Only model-checked.* Liveness (`EverySaleSettles`, `LostWebhookRecovered`,
`QueueDrains`, `RefundSettles`, `KeptCashIsFlagged`): TLAPS 1.4.5 has neither fairness
nor ENABLED. The types of the smaller models are part of their inductive invariants, not
theorems of their own. `CalculationsCorrect` itself is about the input sets of `MCDesk`;
what it says is proved for every input by the eight theorems above. The runs that expect a violation, of course: their
counterexamples are the result.

## 5. Not modelled, and what is left

Not modelled:

* shrinkage and reports: read-only aggregation, no decision reads them;
* receipts, pages and components: formatting and presentation; the parts of the client
  that keep state (queues, count entry, scanner) are modelled;
* audit rows: written inside modelled transactions, read by no decision;
* stores, users, suppliers, benefits and member profiles as rows: plain create and
  update; what a change of settings does to sales, refunds and voting rights is
  modelled where it is used;
* authentication: login, lockout and password rules, outside goods and money;
* seed data and schema migrations.

What is left: every invariant the runs check is a theorem, the calculations as theorems
about every input. Worth adding next: the aggregation of shrinkage
and reports as functions over the rows the models already have; a refinement of the
refund saga like that of the checkout; and the conditions under which the theorems hold
(`~Offline`, `~Overlap`, `~Concurrent`, `Racing = FALSE`), dropped one by one as the code
gains the guards they stand for.
