# Saima's Vintage: models, checks and proofs

TLA+ specifications of the shop in `src/src` (a NestJS application over MySQL or
MariaDB with Prisma, paid through bKash), the TLC configurations that check them, and
TLAPS proofs about the parts where a mistake costs money or stock.

Paths below are relative to the repository's own root, `src/` here.

## 1. The system

Several Node workers (`app.js`, Passenger) serve the same database. There is no
in-process scheduler: crontab calls `/internal/cron/*` over HTTP. A request is a
sequence of awaited statements; between any two of them another request of any worker
may run. Only what is inside `prisma.$transaction` is atomic, and at REPEATABLE READ.

| component | state | operations | talks to |
|---|---|---|---|
| inventory (`modules/inventory`) | `ProductVariant.stock`, `InventoryReservation`, `InventoryMovement`, `LowStockNotification` | reserve at checkout, release, restock, commit, adjust | called by checkout, payments, admin orders, cron |
| payments (`modules/payments`) | `Order.status`, `Payment` | create session, callback, settle, reconcile, review, refund, markTerminal | bKash client, inventory, jobs |
| bKash client (`bkash.service.ts`) | token cache of the process | grant, call with one retry | bKash over HTTPS |
| admin orders | `Order.status`, `Shipment` | processing, shipped, delivered, cancel, approve, refund | payments, inventory |
| cron | none of its own | run-jobs (each minute), expire-orders, reconcile-payments, low-stock-scan, clean-carts | jobs, payments, inventory, carts |
| jobs (`modules/jobs`) | `Job` | enqueue, drain (claim, run, done or retry) | SMTP |
| cart, checkout, coupons | cookie, `Cart`, `CartItem`, `Order`, `Coupon`, `CouponRedemption` | add, update, remove, page, submit, redeem | inventory, payments, pricing |
| pricing (`common/pricing.ts`) | price and flash columns of `Product` and `ProductVariant` | resolve price, sale list, discount, tidy-up script | everything that shows or charges a price |
| admin team | `User.role`, `isActive` | create, change, delete | session guard |
| admin products, images, slugs | `Product`, `CategoryProduct`, `ProductVariant`, `ProductImage`, `Redirect` | form, save, upload, reorder, delete | catalogue, disk |
| admin categories | `Category`, `Redirect` | save, delete | catalogue, menu |
| category menu | memory of each worker | read, background refresh | categories |
| catalogue (`modules/catalog`) | none of its own | shop, category, search, product page, redirect | products, reviews |
| customer auth, admin auth, guards, filter | `Customer`, `CustomerOtp`, session cookies of the browser | register, send code, verify, reset, sign in and out, Google | SMTP, Google |
| account (`modules/account`) | `Customer.imageUrl`, `Address`, pictures on disk | save the profile, show it | checkout's form |
| reviews | `Review` | offer, submit, remove | orders, products |
| analytics | memory of each worker | dashboard of a range | orders |
| audit, SEO, pages, client scripts | rows or nothing | see "Not modelled" | |

What is hard in this code, in order of what it can cost:

* **Stock.** Row locks, REPEATABLE READ snapshots taken before the locks, foreign-key
  shared locks, and an admin form that writes stock without any of them.
* **Money.** bKash has no webhook. Redirects of the browser come back in any order,
  more than once or never; Execute's answer can be lost after the money was captured;
  two crons and four admin buttons work on the same order; `markTerminal` and
  `refundOrder` are several statements without a transaction.
* **Check, then write.** Coupons, carts, OTP codes, slugs, image positions, the count
  of admins, open notifications, the default address, the right to a review: each is
  read, awaited and written.
* **Pages that are old.** A form, a list's next page, a menu, a cookie and a cached
  dashboard are used after what they were made from has changed.
* **Batches and retries.** `take: 100` and `take: 200` without an order that makes
  progress certain; jobs whose worker disappears; refreshes that fail silently.

The full list, each at its line with the properties that watch it, is under `hazards`
in `PROJECT.json`.

What makes each part correct: no sale of a unit that is not there, units given back once,
sold units stay sold (inventory); what counts as paid was captured, charged once, settled in
the end, refunded and restocked (payments); bKash acts on a call at most once (client); a
job runs once at a time and ends (jobs); one order of a page, coupons within their cap,
products within their limit (checkout); the cheapest applicable price is charged, listed and
never changed by the script (pricing); an admin remains (team); a gallery in order with one
thumbnail (images); former addresses resolve (slugs); a live code, accepted once, with tries
that are limited, that gets the customer verified (codes); a menu that catches up (menu); no
low variant without a notification (low stock); a product with the categories of the form
that was saved last (product form); links of the menu that lead somewhere (categories);
pages that together show the whole list (catalogue); a request that ends on a page and not
between two redirects (sign-in); the address saved last, on every page (account); reviews of
what was paid for, and no form offered in vain (reviews); each sale in the figures of its
period once (analytics). Not all of this holds: section 3 lists what the models refute
beside what they confirm.

## 2. Modules

A component has one module, an `MC` module with its instances and, where there are proofs, a
`Proofs` module (`ShoppingProofs` and `BackOfficeProofs` are about several). Abstract
specifications are modules of their own.

| module | models | abstract specification or user |
|---|---|---|
| `StockLedger` | what the inventory promises, each operation atomic | |
| `Inventory` | `InventoryService` as interleaving transactions | implements `StockLedger` |
| `OrderPayments` | one order: session, callbacks, Execute, Query, crons, admin | takes the order's reservations as one, as in `StockLedger` |
| `CronBatches` | many orders, the `take` of both crons | handlers atomic, detail in `OrderPayments` |
| `BkashClient` | token cache and retry below `OrderPayments`' calls | |
| `Delivery` | what the queue promises: one attempt after another | |
| `JobQueue` | `JobsService` as claim, read, run, result | implements `Delivery` |
| `Cart` | cookie, carts, edits | extended by `Checkout` |
| `Checkout` | page, submit, transaction, coupon, cart conversion | composes `Cart`, coupons and stock |
| `LowStock` | both writers of notifications and the alert emails | |
| `Pricing` | prices against the clock, totals, the script | |
| `AdminTeam` | roles and the acting user's session | |
| `ProductImages` | gallery and variant images | |
| `SlugRedirects` | slugs, `Redirect`, resolution of an address | |
| `OneTimeCodes` | registration, Google sign-in and mailed codes | |
| `CategoryNav` | the cached menu | |
| `SignIn` | cookies, guards and redirects, of the shop and of the back office | |
| `Account` | the profile, its picture and its address | |
| `Reviews` | reviews of one product | |
| `Listing` | shop, category and search lists, page by page | |
| `CategoryPages` | categories, their redirects and the links of the menu | |
| `ProductForm` | the product form from the page to the row, and its refusals | |
| `Analytics` | the sales dashboard | |

Five `MC` modules put components together that share no row that matters to what is said
of them. Each extends or instantiates them, chooses at the start which one a behaviour is
about, and leaves the others at rest, so that their states add up instead of multiplying:
`MCShopping` (checkout, lists, profile, reviews), `MCSigningIn` (codes, cookies),
`MCBackOffice` (team, images, product addresses, product form, categories, dashboard),
`MCJobQueue` (jobs, the crons' batches of orders), `MCBackground` (calls to bKash, the
safety net of one payment, low-stock scans, menu).
Where components do share state they are composed for real: carts, coupons and stock in
`Checkout`, the ledger under `Inventory`, crons, callbacks and buttons in `OrderPayments`,
products and redirects in `SlugRedirects`, categories, redirects and menu in
`CategoryPages`, both writers of notifications in `LowStock`.

### How state and actions correspond to the code

**Inventory.** `stock`, `reservation` are columns; `adjusted` and `returned` are sums
over `InventoryMovement`; `alerts` counts open notifications; `tx[s]` is what a
database session has read and locked. An action is what happens up to the next point
where another session can come in: a snapshot read, one row lock (`LockRow`, in the
order the code sorts ids), the writes with COMMIT. All writes of these transactions
follow their last lock, so writes and COMMIT are one step and a rollback (`Abort`)
leaves nothing. `missed` records that a row has changed since the snapshot, which is
what the code's stale reads depend on. `SnapshotIsolation` is a choice the server
makes: MariaDB 11.6.2 and later fail a lock on a row changed since the snapshot (TRUE);
MySQL and older MariaDB grant it (FALSE). The README of the repository asks for MySQL
or MariaDB, so both are checked. `placeOrder`, `releaseReservations`,
`restockReservations`, `commitReservations`, `adjustStock` and the variant form's
absolute write are the operations.

**OrderPayments.** Rows are variables, `gateway` is bKash's record of each payment and
`refunded` its refunds. `task[a]` is the await at which handler `a` stands, with the
values it read before. Each action is one statement or one bKash call with the code
up to the next await. A call to bKash has an answer or none; a crash (`MayCrash`) ends a
handler between any two steps. `markTerminal` is three steps because it is three
awaited statements; `settle` chooses between markPaid, markReview and markTerminal as
the code does. Buttons have the guards of `AdminOrdersService`, evaluated when the code
evaluates them.

**CronBatches.** `reconcile` and `expireUnpaidOrders` choose a batch of at most `take`
rows, in the order of ids because the queries give no other: open sessions, and unpaid
orders with an ACTIVE reservation that is past its TTL. A row of the first is queried, with
an answer or none, and settled to one of the three ends (`Settle`; `MarkTerminal` may stop
after each of its statements); a row of the second is released (`ReleaseNext`) and, in
a statement of its own, closed whatever it is by then (`ExpireNext`). A throw is caught by
the first loop and ends the second; either may be cut off anywhere.

**BkashClient.** `life` is bKash's view of a token, `token` the cache with the ticks
left until `expiresAt`, and how late the answer to its grant came: nothing limits the
fetch. `post` takes the cached token or grants; `send` is a request on its way, an act at
bKash, an answer, each of which can be lost; an auth error grants again once.

**JobQueue.** `FindCandidate`, `ClaimCandidate` (the conditional update), `ReadJob`,
`handle`, `MarkDone`/`MarkFailed` are the awaits of `drain` and `run`. A mail is
accepted, refused, or accepted with the answer lost.

**Cart, Checkout.** A cart edit resolves the cart, reads the row, writes. A submit reads
the order of its key, the cart and the coupon, then goes through the transaction; how
far it is implies the locks it holds, its writes show at the commit, a rollback leaves
nothing. A unique key conflict waits for the other transaction and then answers with its
order, as the catch of P2002 does.

**LowStock.** The scan's query of active variants, then per variant an insert and an
enqueue; the order's flag is part of its transaction and sends nothing. A variant may be
switched off and on.

**Pricing.** `resolveProductPricing`, `variantCurrent`, `onSaleWhere`, `computeDiscount`
and the totals are operators over the price columns; actions are the admin's form, the
clock, an order, and the script. Money is in whole units of the smallest coin the code
rounds to; rounding is modelled on numerators.

**AdminTeam.** A request loads its user in the guard, counts admins, writes. The user
loaded in the guard stays what it was, whatever happens to its row. `raced` is a history
variable: an admin was demoted or deleted while another request was between its last look
and its write.

**ProductImages.** A row is its position, its variant and whether it is primary. An
operation reads, then writes in the transaction the code has, or outside of one where it has
none, as an upload does. Requests overlap as they like; `disturbed` is a history variable:
an upload has overlapped another request, and no order of all the images was written alone
since.

**SlugRedirects.** A save probes slugs one after the other, writes the product (a
taken slug fails on the unique key), then records the redirect in a separate statement.
`Visited` follows an address the way `CatalogController` does, a live product first, then
the redirect: the least set of addresses that has the first and each one that is followed
from one in it, so that a circle of redirects is a set too and not an endless sequence.

**OneTimeCodes.** One customer row, the unconsumed codes with age and attempts, and what
each request has read before bcrypt or the next statement. `mailed` is the last code the
mail server took, `spent` what was consumed; a code is a model value and typing one is any
value. A request may fail at any await (`Fails`), with what it did before left as it is: a
code may be invalidated and none made. `type` is fixed
per behaviour: verifying the email, resetting the password, or changing it while logged
in, where the current password is proven first and then the code. Google sign-in reads
the account and links, verifies or makes it. An account Google made has no password.

**CategoryNav.** `fetchedAt` is abstracted to whether the minute has passed; a refresh
is a query, an answer, or a failure that is swallowed. Prisma sends a statement for each
level of the menu: what a refresh has read counts from the first of them, as that part
is the oldest.

**SignIn.** A tab shows a page, has a request under way, or an answer that is a page or a
redirect with `Set-Cookie`. A request carries the `jar` as it is when sent, and the cookies
of an answer are stored when it arrives, so tabs overlap at both ends. `good` are the
sessions a guard accepts; `Withdraw` is a customer deleted, a team member switched off, a
changed secret or an expiry. `KeepsCookie` (a mutant) is the refusal without `clearCookie`.

**Account.** A save is an upload, the update of the customer, `findFirst` of the default
address and a write; the profile page reads afterwards, in the same request or another
tab's. `shown[t].asked` is how far the address was when the page was asked for.

**Reviews.** `Answer` is one query of the product page or of a submit: product, purchase,
earlier review. `late` remembers whose right went after the page was asked for, `paid` who
has paid: an order of cash on delivery counts as a purchase from its placement.

**Listing.** `visit` is a customer with a list: filters, page, the set of what was seen and
`shown`, the number of rows it was seen in, so that a row that came twice counts. A request
reads count, rows and, on the shop, the price bounds in separate statements (`listActive`,
`priceBounds`, `searchPage`). Rows that compare equal come in any order, chosen anew by each
query, as MySQL may with LIMIT and OFFSET. `lost` counts the changes to products of the list
while it is read: a product that is hidden or repriced between two pages moves the others
up. The slider's bounds are sent back by the filter form, rounded to whole takas.

**CategoryPages.** A save reads the old slug, probes, writes, records the redirect. `menu`
is a set of links read at some earlier time, the parents in one statement and their children
in the next (`FindTopLevel`, `FindChildren`); `Visited` follows an address as in
`SlugRedirects`: a live category, else a redirect. Cycles of parents are possible and the
menu then omits them.

**ProductForm.** A tab has the form with its boxes and categories, as rendered or as the
user left it. The validation pipe's refusal comes back through `AdminFormExceptionFilter`
(`catch`), the service's through the controller (`Rerender`). `deleteMany` and `Write` are
the transaction's two steps with the row and gap locks in between; `Deadlock` is one
session chosen as victim and retried by `withWriteRetry`.

**Analytics.** Days are numbers, a bucket is its first day, months begin where
`FirstOfMonth` says. The buckets are computed, then the trend and the key figures are
queries at times of their own (`Trend`, `Kpis`), `Shape` stores the result. `Viewers` are
the requests that may compute at the same time. The code reads the clock for the buckets
and again for the period before (`analytics.service.ts:376`, `417`) with no await in
between; the model has one instant for both.

### Files

`X.tla` the component, `MCX.tla` its instances (small sets, symmetry, inputs), `<Run>.cfg`
one question each, `XProofs.tla` proofs. Mutants are operators beside the definition they
change, marked "Mutant:"; no specification uses them.

## 3. Runs

Runs that hold, with what they show:

| run | shows |
|---|---|
| `InventoryStrict` | on a server that fails stale locks: given back once, sold stays sold, stock moves only under its row lock, and every step is a step of `StockLedger` |
| `InventoryForms` | on a server that grants them, with the variant form writing stock: no checkout takes a unit that is not there, sorted locks never cross, an order that runs a variant low leaves a notification |
| `PaymentsFlow` | two handlers of any kind, both providers, two bKash sessions: what counts as paid was captured; an order with one session is confirmed once; a closed order is settled (`ClosedIsSettled`: no reservation stays ACTIVE, a refund restocks and, with one session, agrees with bKash); no callback, cron or cancel takes back a payment that is PAID, whichever session is on record. A refund does, and the checkout submitted again, which puts a new session over it (row `ChargedOnce` is where that leads) |
| `Jobs` | overlapping drains, refusals, lost answers, crashes: one run at a time and one email per attempt (`OncePerAttempt`), implements `Delivery`, every job ends unless its drain was cut off; with more orders than a batch of a cron takes, lost answers, crashes between any two statements and customers who never come back, each unpaid order lets its units go, or is before a human |
| `Shopping` | two pages of one cart submitted at the same time while it is edited: the coupon's cap and count, one order of a key; a list read to the end leaves out no more of what matched than there were changes to its products meanwhile; the profile and the checkout show the address saved last, while there is one default row, and a picture that is there; no review form is offered in vain |
| `Pricing` | every form of a product and a variant over a short clock: charge, list and discount agree on the cheapest applicable price (`PricesAgree`), the script changes no price, totals add up for every kind of coupon |
| `SigningIn` | one tab asks, another types, requests fail at any await: the code mailed last works until it is consumed, and the customer gets verified |
| `SigningVisits` | two tabs type codes at the same time while a third asks for new ones: a code is tried no more than once beyond the limit for each tab but one; two tabs with one jar of cookies: what a tab asks for ends on a page |
| `BackOffice` | two admins who take each other's role: one remains unless a request wrote between the count of another and its write; the gallery is in order, or is again after the next order of all images that is written alone; former addresses of a shown product lead to it; a product has the categories of the last save; links of an old menu lead to their category; a sale is counted in its period and in no other |
| `Background` | bKash acts once on a call although it is repeated, and a cached token whose grant was answered within the margin is accepted; with lost answers and crashes a captured payment of an open session is settled in the end; a variant that stays low gets its notification although scans are cut off and variants are switched off; the menu catches up |

Runs that end in a counterexample, each against a sentence of the repository:

| run, property | what happens, and what it contradicts |
|---|---|
| `InventoryDoubleRelease`, `RestockedOnce` | two transactions release one order from snapshots taken before their locks, and the units come back twice (`inventory.service.ts:182`); "Idempotent: only ACTIVE reservations are touched" (152). The theorems of section 4 turn on it: they hold with `SnapshotIsolation` and not without |
| `FormResubmit`, `SubmittedIsShown` | a browser sends no unticked box, and the filter fills what is missing from the saved row (`admin-form-exception.filter.ts:55`): a product that was being hidden is shown again once another field is corrected; "the submitted values" (17) |

What the models show besides is below: the property is defined in the module, no run
checks it with these constants, and doing so produces the trace. Constants that are not named
are those of the run that has the module.

| property, module | constants | what happens, and what it contradicts |
|---|---|---|
| `CommittedStaysSold`, `Inventory` | as `InventoryDoubleRelease` | a release closes a reservation that was committed since its read (`inventory.service.ts:182`); "only ACTIVE reservations are touched" (152) |
| `StockOnlyUnderLock`, `Inventory` | as `InventoryForms` | the variant form writes the absolute stock (`admin-products.service.ts:174`); "only ever read/mutated while the row is locked" (`inventory.service.ts:15`) |
| `NoDeadlock`, `Inventory` | as `InventoryStrict` | two checkouts hold a variant shared through OrderItem's foreign key and both want it exclusive; "sorted, to avoid deadlocks" (`inventory.service.ts:39`) |
| `ChargedOnce`, `OrderPayments` | two payment ids | `createPaymentSession` opens a second session of an order, paid or not, and both are captured (`payments.service.ts:65`); "a double-submit can't create two paid orders" (`checkout.service.ts:29`) |
| `ClosedIsSettled`, `OrderPayments` | one actor, which may crash | a handler cut off inside `markTerminal` leaves the units reserved for good; "all atomic + idempotent" (`payments.service.ts:339`) |
| `ReviewWaitsForHuman`, `OrderPayments` | two actors, no buttons | a cancel redirect that read the payment before the review closes the order (`payments.service.ts:412`); "hold for a human" (169) |
| `CapturedIsSettled`, `CronBatches` | `FairSpec`, two orders, batches of one | abandoned sessions fill the batch for good, and a captured payment behind them is never queried (`payments.service.ts:200`); "the safety net" (`maintenance.service.ts:20`) |
| `UnpaidIsClosed`, `CronBatches` | `FairSpec`, one order | cut off between release and update, an order awaits its payment for ever, as no later run selects it (`maintenance.service.ts:39`); "Idempotent" (31) |
| `OrderWithinMax`, `Checkout` | two variants of one product | the limit of a product is checked for each variant, and an order of two variants has twice as much; "Limit is ... per order" (`cart.service.ts:217`) |
| `OncePerCustomer`, `Checkout` | two carts, `UsageLimit` 2 | `placeOrder` validates the coupon without the customer; "You have already used this coupon" (`coupons.service.ts:45`) |
| `AdminRemains`, `AdminTeam` | two actors | two admins demote or delete each other after both counted two; "can never lock the team out" (`admin-users.service.ts:15`) |
| `OneThumbnail`, `ProductImages` | no image to start with | two uploads count none and both are primary (`admin-products.service.ts:229`); "assigned in order" (`admin-products.controller.ts:346`), and the form shows one thumbnail |
| `AcceptedOnce`, `OneTimeCodes` | as `SigningVisits` | two requests read a code before either consumes it, and both go on (`customer-auth.service.ts:132`, `152`); "one-time code" (75) |
| `AttemptLimit`, `OneTimeCodes` | as `SigningVisits` | two requests read the count before either raises it; "Enforces expiry + attempt limit" (121) |
| `NoEdgeOfWindow`, `BkashClient` | `Margin` 1 | the answer to a grant takes longer than the 60 s taken off, as nothing limits the fetch (`bkash.service.ts:109`); "to avoid edge-of-window 401s" (129) |
| `SingleDefault`, `Account` | two tabs | two saves find no address and each makes a default one (`account.service.ts:132`); "Maintain a single default address" (130) |
| `ReviewsArePaidFor`, `Reviews` | as `Shopping` | an order of cash on delivery counts as a purchase before anybody has paid (`checkout.service.ts:139`); "a paid+ order" (`reviews.service.ts:20`) |
| `PaidHasStock`, `OrderPayments` | one actor | a payment after the release has no stock; "the reservation becomes a committed sale" (`inventory.service.ts:138`) |
| `ExpiredIsUnpaid`, `OrderPayments` | two actors, no buttons | the expiry cron overwrites PAID (`maintenance.service.ts:50`); "Expire unpaid orders" (31) |
| `RefundedStaysRefunded`, `OrderPayments` | one actor, `refundOrder` | a repeated cancel redirect takes the payment out of REFUNDED (`payments.service.ts:412`); "terminal payments short-circuit" (94) |
| `ChargedIsSettled`, `OrderPayments` | `FairSpec`, `Redirects` with "cancel" | a captured payment marked CANCELLED is no longer queried (`payments.service.ts:195`); "the safety net" (`maintenance.service.ts:20`) |
| `OneOrderPerCart`, `Checkout` | as `Shopping` | two tabs have two keys and order one cart twice; "converts the cart" once (`checkout.service.ts:28`) |
| `LowIsReported`, `LowStock` | `Crashes` FALSE, `FairSpec` | the order's notification hides the variant from the scan that mails (`inventory.service.ts:126`); "enqueue an alert" (`maintenance.service.ts:60`) |
| `FlaggedOnce`, `LowStock` | one scan | an order flags the variant between the scan's query and its insert; "flags low-stock variants once" (`ops.e2e-spec.ts:158`) |
| `AdvertisedIsCharged`, `Pricing` | as `Pricing` | JSON-LD leaves a variant's own price out; "Advertise the price actually charged" (`seo.service.ts:41`) |
| `DealIsCheaper`, `Pricing` | as `Pricing` | a dear flash price is shown as a deal; "must be lower than the base price to show as a deal" (`form.njk:84`) |
| `SingleVariantImage`, `ProductImages` | a variant | two requests find no image of a variant and each makes one (`admin-products.service.ts:211`) |
| `VariantImagesApart`, `ProductImages` | a variant | a deleted variant's image turns up in the gallery; "Per-variant images live separately" (224) |
| `FormerAddressesResolve`, `SlugRedirects` | `Exclusive` FALSE, or "record" in `LostAt` | two renames at once, or a crash before the redirect, leave an address dead; "populated when a product/category slug changes" (`schema.prisma:779`) |
| `OneLiveCode`, `OneTimeCodes` | both requests "ask", `Patient` FALSE | two requests at once leave two live codes; "Invalidate any prior unconsumed codes" (`customer-auth.service.ts:87`) |
| `OnlyStaleIsCleared`, `SignIn` | two tabs | a refusal that was sent with an old cookie arrives after a new sign-in and clears it; "Clear the (stale/expired) cookie" (`all-exceptions.filter.ts:46`) |
| `TiesToo`, `Listing` | two products of one price | products that compare equal change places between two pages: one is shown twice and another never (`products.service.ts:100`) |
| `NoCycle`, `CategoryPages` | two categories | each is made the other's parent, as `editForm` leaves out only the category itself; both are gone from the menu |

`JobQueue` has one more of them built into a property: a job whose worker dies stays
PROCESSING for good (nothing reads `lockedAt`), and `EveryJobEnds` excepts it by name
(`CutOff`).

Seen while modelling, and not a property of a model:

* The crontab in `README.md:113` calls the cron endpoints with GET; `cron.controller.ts`
  has `@Post`.
* `test/customer-auth.e2e-spec.ts` changes a password without a code;
  `changePasswordWithOtp` demands one.
* A product renamed from a to b and back keeps the redirect from a to b: hiding it makes
  a and b redirect to each other.
* Two overlapping saves of one category can overwrite the redirect one of them recorded
  (`MenuLinksResolve` holds as no save overlaps another of the *same* category).
* A category page's breadcrumb links its parent although that one is hidden.
* An older dashboard may replace a newer one in the cache, with a newer `at`.
* Cash on delivery: a sale moves from the day of the order to the day it was collected
  (`admin-orders.service.ts:97`). A sale made between the first query and the last, after
  midnight, is in the key figures and in no bucket of the trend.
* The dashboard page counts stock of 3 and less as low, whatever the threshold of a variant.
* The variant form resets `isActive` and `lowStockThreshold` of a saved variant.
* Two tabs that start Google's sign-in share one state cookie: only the later one ends well.
* A partial refund, or a removed variant, takes the right to a review of the rest away.
* A product page counts 20 reviews at most. The search ignores `publishedAt`.

### Bounds, and why they are enough

* Inventory: two variants, two orders, two sessions. A race needs two transactions and
  a lock cycle two rows; one variant allows backorder, the other does not; the basket
  of one order has both. `AdjustLimit` 1 allows a delta of either sign.
* OrderPayments: two handlers, two payment ids, both providers and every button in
  `PaymentsFlow`; the handlers of it do not crash, as a crash would leave a closed order
  unsettled (row `ClosedIsSettled`), and what is said of crashes is proved or checked in
  `Background`. Every finding and every guard is about a pair: one handler reads, the other
  writes; a third session could only replace the second as that one does the first.
  `MaxConfirmations` 1 lets a cash-on-delivery order, and a second confirmation, happen.
* CronBatches: two orders against batches of one, so that one of them is left over; a batch
  may be cut off. Nothing is assumed of the customers, who may abandon both.
* JobQueue: two drainers, one good and one unknown job, two attempts, two rounds.
* Shopping, checkout: two submits, two keys, two edits, one cart, one coupon for one use: enough
  for two orders that race for one key, one coupon and one unit; a second variant of the
  product is only in row `OrderWithinMax`. `None` is no cart; the number of carts and keys is
  the bound on sequences.
* LowStock: two variants and scans of one, so one is left over; one refill; a variant may be
  switched off.
* Pricing: three prices give every order of base, sale and flash price; four ticks put
  the clock before, at, inside, at the end and after a window.
* AdminTeam: three users, two of them admins who both act, two requests.
* ProductImages: one image to start with and up to three, one variant, two requests, which
  overlap as they like. Beyond that positions only shift. What a run says of the gallery
  leaves out the states between an upload that has overlapped another request and the next
  order of all the images that is written alone: in the code an upload may leave a gap or a
  second thumbnail there (row `OneThumbnail`), which the next such order repairs.
* SlugRedirects: two products over a small set of slugs (two typed texts, and the suffix
  tried when one is taken). `Exclusive` keeps two saves of the *same* product apart,
  since two tabs can lose an address; `LostAt` is where a request may be lost.
* OneTimeCodes: two requests, three codes, two attempts, ticks of the cooldown and the life;
  three requests, two of which verify, and two codes of one tick in `SigningVisits`. In
  `SigningIn` one request issues codes: with two the code mailed last need not be the one
  looked up (row `OneLiveCode`).
* BkashClient: two calls, two tokens of three ticks with a margin of two; answers to grants
  take any time. One call can find, or replace, what the other has cached.
* Shopping, lists: three products on pages of two, two prices in halves of a taka so that
  rounding matters, one change by the admin (the theorem is for any number); profile: two
  tabs and three saves, so that one overlaps another and one stops half way, the one that
  makes the first address too. `SavedIsShown` speaks of the address as long as there is one
  default row (row `SingleDefault`). Reviews: one customer in two tabs; others could
  not change that customer's rights.
* SigningIn, cookies: two tabs, two sign-ins: one that expires and one that replaces it.
* BackOffice: product form: one product, two tabs, one box, two categories, so that two
  saves have different ones, and one retry of a deadlock. Categories: two, which swap two
  slugs and may be each other's parent, under a menu that reads parents and children apart.
  Dashboard: one order is enough for every statement, as sales do not interact, and one
  viewer, as a computation writes nothing that another one reads but the cache, whole, at
  its end; days of two ticks, weeks of three days, months of two or three; it begins at the
  end of a month so that each kind of bucket turns while it is computed.
* Background: one order and handler at a time (overlaps are `PaymentsFlow`'s), which may be
  cut off at every step, and answers that get lost.
* CategoryNav: two changes, two queries in flight.

Deadlock is not checked (`CHECK_DEADLOCK FALSE`) where an instance runs out of orders,
keys or variants: nothing is left for anyone to do. Symmetry is used in safety runs
only, over sets the code treats alike.

### Fairness, and why the code justifies it

* A handler that has begun goes on (weak): Node runs the continuation of an await.
  With `MayCrash` (`Crashes` elsewhere) it may end instead.
* Crashes are not for ever (`<>[][~ Crash(d)]` in `JobQueue` and `LowStock`): at any
  time a drain or a scan may be cut off, but from some time on they are not. Without
  it a worker restarted at the same statement each time would keep a job PENDING or a
  variant unflagged, and no code could help.
* The server answers a request and the browser follows a redirect (weak, in `SignIn`).
* The crons keep calling (weak, or strong where a step can be disabled for a while):
  crontab calls run-jobs each minute, the others every 5 minutes to hourly.
* Time passes (weak): an order gets older than 15 minutes, a job's `runAt` comes, the
  menu's minute ends, codes expire.
* External: a lost answer, a crash or a refused mail does not meet *every* attempt at
  the same step (strong, on that step: `ReconcileNext(TRUE)`, `ReleaseNext`, `ExpireNext` of
  the crons in batches, `Limit` to `Send` of a code). The customer who wants to be verified
  asks again when the last mail is no use, and does not mistype for ever. Of a customer at
  bKash nothing is assumed in `CronBatches`: any session may be abandoned.

In `MCSigningIn`, `MCJobQueue` and `MCBackground` the fairness of each component is assumed
together: of a component that is not chosen nothing can happen, so its part asks nothing.
Where a call would find nothing to do and still be a step (the menu, the crons), its fairness
is stated for the behaviours that are about it (`MenuFairness`, `JobFairness`,
`BatchFairness`).

No fairness is assumed of a customer's next order, an admin's click or a refill.

### External parts

MySQL/MariaDB (row locks, snapshots, unique and foreign keys), bKash (authorise, capture
once, refund once, token life), SMTP (accept, refuse, lose the answer), the browser
(redirects in any order, any number of times, forms from old pages). Each is modelled
by what the code relies on and marked `external` in the map. Google either sends the
customer back with the state it was given or never. Nothing is assumed of how long bKash takes
to answer a grant, as nothing limits that `fetch` (`bkash.service.ts:109`): `CachedIsAccepted`
speaks of the tokens whose answer took no longer than the 60 s taken off, and row
`NoEdgeOfWindow` shows the others.

## 4. Proofs

Checked by TLAPS for every value of the constants that satisfies the named assumptions: any
number of sessions, handlers, requests, tabs, orders, products and codes, and any limit,
page size, calendar and price. A theorem is about the specification its run checks, or one
that leaves out only the bound of the instance; every invariant and every action property of
the runs that hold has one. What a theorem assumes besides is named in its statement. Each
such hypothesis is there because the statement is false without it, and section 3 has the
counterexample.

| theorem | hypothesis | without it |
|---|---|---|
| `RestocksOnce`, `SalesStaySold`, `Implementation` (inventory) | `SnapshotIsolation` | run `InventoryDoubleRelease`, row `CommittedStaysSold` |
| `ClosedLetsGo`, `ClosedSettled` | `MayCrash = {}` | row `ClosedIsSettled` |
| `FormerAddressesLead` | `SavesEnd` | row `FormerAddressesResolve` |
| `MailedCodeWorks`, `CodesOneAtATime` | `OneIssuer` | row `OneLiveCode` |

Five theorems have no hypothesis because their statement says where the code's promise
ends: `TeamKeepsAnAdmin` (`raced`), `GalleryStaysInOrder` (`disturbed`),
`SavedProfileIsShown` (`SingleDefault`), and `RefundedAgrees` and `OrderConfirmedOnce`
(`OneSession`: bKash has issued one session so far). What lies beyond is in the rows
`AdminRemains`, `OneThumbnail`, `SingleDefault` and `ChargedOnce`.

**`InventoryProofs`.** `TypeCorrect`; `NeverOversells` on both kinds of server, form
writes included; with `SnapshotIsolation`, `RestocksOnce`, `SalesStaySold`, and, without
form writes, `Implementation` (`StockLedger`). The invariant is `SafeInv`:
`TypeInv` (the type with the shape of a transaction at each stage); `CheckoutInv`:
exclusive locks exclude each other (`LocksExclude`), what a checkout read under a lock is
still the stock (`SnapshotFresh`), and the lines of an order being placed are not visible
to others (`NewOrderIsPrivate`); and `RestoreInv`: with `SnapshotIsolation` a restoring
transaction that holds its lock has seen the reservations as they are. `NoOversell` alone
is not inductive: that the stock suffices when it is taken follows from it having
sufficed when it was read and nobody having been able to change it since. On every server
too, `SortedLocks` and `CheckoutsFlagLowStock`, from `WaitInv`: a transaction has
locked the lowest of its rows (`LocksInOrder`), so of two that waited for each other each
would want a row above those it has; and a notification that a checkout has seen is still
open when it commits without one of its own (`AlertsStayOpen`).

**`OrderPaymentsProofs`.** `PaymentTypes` and `TrustBoundary` (`PaidIsCaptured`) for any
number of handlers, sessions, lost answers and crashes. `IInv` adds to the type that every
handler on its way to a decision goes by an id bKash knows (`TaskOK`) and that whatever
row, or handler about to write one, claims money has a captured payment
(`ClaimsAreCaptured`): the claim of a handler in flight is the missing half.
`ClosedLetsGo` is the part of `ClosedIsSettled` about stock: `StockInv` says that a
handler about to cancel or expire the order has let its units go already, and that while a
closed order still has them some handler is at the statement that lets them go, where a
crash would refute it. The other part is `RefundedAgrees`, crashes
included, and both are `ClosedSettled`. `PaymentStaysPaid` is for any number of sessions, and
handlers that crash: every id that the row, a handler or a refund goes by was issued, and a
session about to be saved is not the row's own, nor another handler's (`NewSessions`), so
that no claim but a refund's takes a PAID row. `RefundedAgrees` and `OrderConfirmedOnce` come
from `OnceIfOne`: as long as one session was issued, `OnceInv` holds. A session is saved
before anything goes by it, and only once (`SessionInv`); a transaction is on record before
it is refunded (`RefundInv`); and the handler whose claim made the payment PAID is the only
one that confirms (`ConfirmInv`).

**`JobQueueProofs`.** `QueueTypes`, `RunsOnce`, `EmailsOncePerAttempt`, both as
`AttemptsAreSingle`, and `Implementation` (`Delivery`) for any jobs, drainers, refusals and
crashes. `IInv` says a claimed job is PROCESSING and has one runner, that the attempts a
runner read are still the row's (`AttemptsCurrent`), and how many mails may have been
accepted at each stage (`SentBefore`).

**`BkashClientProofs`.** `NeverTwice`, `TrueAnswers`: `IInv` says how often bKash has acted
at each step of a call. `CacheIsFresh`: `TokenInv` says that the cached token lasts as long
as the cache says, if its answer was no later than the margin; what was left of its life
when it was cached is what the lateness tells, however long that took and in whatever order
two answers came.

**`ShoppingProofs`**, of `MCShopping` and its parts. *Checkout*: `CheckoutTypes`,
`OneOrderOfAPage` and `CouponsAreCounted` for any number of browsers, carts, pages, submits
and edits, and any limit. `IInv` adds what a transaction holds: its key has no order and no
other transaction (`KeysAreHeld`); its coupon is the one that is there, and who has redeemed
shares it with nobody and had a use left (`CouponsAreHeld`); and orders refer to no other
coupon (`CouponIsCounted`). The count alone is not inductive: that the redemption just
before the commit is still right depends on the lock it took. *Profile*:
`SavedProfileIsShown`, from `AccountInv`, which says of each save on its way and of each
page what it read and how far the row was then. The picture is there whatever overlaps; as
long as no two saves made a default row each, a row that is written is written by whoever
found it, or made it when there was none. *Reviews*: `OffersAreHonoured`, from `ReviewInv`:
what a tab has found out still holds, or the right was lost since and `late` has the tab.
*Lists*: `PagesCover`, for pages of any size and any number of changes between them, to
products of the list too. `ListInv` says that no more of what should be seen and was not is
ranked among the rows shown so far than there were changes to the list (`Beyond`), and that
without any as many rows were shown as the pages hold, or the list has (`Counted`). A row's
rank is the number of rows before it; the lemmas say that without ties any order the server
chooses has it at that place (`RankOf`), and that a change moves the rows behind the product
up by one place at most.

**`PricingProofs`.** `ChargesCheapest`, `DiscountsAreListed`, both as `AgreeAlways`,
`TotalsCorrect`, `ScriptTidiesOnly`, `TypeCorrect` for any prices, windows and coupons; the
lemmas bound a discount after caps and rounding.

**`OneTimeCodesProofs`.** `MailedCodeWorks` and `CodesOneAtATime`: `LiveInv` says that what
is live is the code on its way, or else the one mailed last, until it is consumed, and
requests may fail at any await. One request may issue codes, and any number try them.
`TriesStayLimited`, for any number of both: `TriesInv` counts for each code the tries it had
and the requests that are comparing it, each of which will add one; a request only begins to
compare below `MAX_ATTEMPTS`. `TypeCorrect`: a request that goes by an account has one
(`CustomerInv`).

**`BackOfficeProofs`**, of `MCBackOffice` and its parts. *Team*: `TypeCorrect`, and
`TeamKeepsAnAdmin` for any number of acting admins and requests: before anybody has raced,
another admin remains than the target of any request about to write (`Guarded`), which is
what the count it has made says (`NotTheLast`). *Product form*: `LastSaveStands`, from
`FormInv`: a transaction that is about to insert its links has deleted all there are
(`HasDeleted`), which the gap lock keeps so. *Images*: `GalleryStaysInOrder`, from
`ImagesInv`. Whatever overlaps, the order a request is about to write has each image once,
none of a variant and none it removes (`ImagesKept`). While nothing is `disturbed`, it also
has all the images that were uploaded for the gallery, and the count an upload goes by is
still right (`Calm`); an order of all the images that is written alone makes the gallery
calm again. *Addresses*: `FormerAddressesLead`, from `AddressInv`. That each former address
leads somewhere is not inductive, as it speaks of whole chains; `NoTrap` says instead that
no set of addresses that were left is closed under redirects, unless a product is there, or
a save that will leave a redirect, and of sets it can be said step by step. *Categories*:
`MenuLinksLead`, from `CatalogueInv`: the same of the addresses of one category
(`NoDeadEnd`), with no hypothesis, as the model lets saves of different categories overlap
and no others; a link that a menu has read, in either of its statements, was a category's
address then. *Dashboard*: `SalesCountedOnce`, from `SalesInv`: what each query has computed
is right for the orders that have not changed since, whatever is to change. That the buckets
of a calendar part its days rests on the least-number principle (`LeastOf`), which is
derived from the library's theorem that `<` is well-founded, as induction theorems cannot be
instantiated.

Only model-checked are the liveness properties: `EveryJobEnds`, `OpenSessionIsSettled`,
`UnpaidLetsGo`, `LowIsFlagged`, `GetsVerified`, `MenuCatchesUp` and `VisitEnds`. Liveness
under fairness, and ENABLED, are out of the prover's reach. As nothing else is checked of
`LowStock`, `CronBatches`, `CategoryNav` and `SignIn`, nothing is proved of them.

## 5. Not modelled

* Audit log: appended after the change it describes, its failure swallowed, read only by
  its own page.
* Analytics beyond the sales figures: customers, top lists, hours, operational counts, and
  the SVG charts are queries and formatting.
* Sitemap, SEO beyond the advertised price, static pages, home page: queries and formatting.
* Which words match a search is MySQL's FULLTEXT; `Listing` has the ranks.
* CSRF, throttling, helmet, roles beyond signed in, view engine: framework wiring; a refusal
  is one more error page.
* Texts, SKUs and pictures of products and categories, and the form of a new variant: fields
  that no property tells apart. Converting an uploaded image and writing the file.
* Browser scripts, seed and maintenance tools (but `expire-flash-deals`, in `Pricing`).

## 6. Plan

Written first, and in this order, because it is where a mistake costs most: the
inventory with its ledger, the payment flow, jobs, checkout; then the smaller
check-then-write components; then what the pages promise (sign-in, account, reviews, lists,
categories, the product form, the dashboard). What is left:

1. A composition of `Checkout` with `OrderPayments`: one shopper from the page to the
   shelf, with the old page submitted again.
2. Proofs: conservation of the units of a variant, from `Implementation` and the ledger; the
   type invariants of the components whose proofs contain them without stating them.
3. A refinement of `OrderPayments` to an abstract order that is open, paid, closed or
   refunded, in the part where it holds, and its proof.
