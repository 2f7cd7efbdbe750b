# A verification of the buildify backend

The backend is a FastAPI application over MySQL for a construction marketplace:
vendors sell materials, workers take jobs, clients buy and hire. This directory
holds TLA+ models of the parts of it where requests meet each other in the
database, the TLC configurations that check them on small instances, and proofs
checked by TLAPS.

## The system

Every request runs one handler in one SQLAlchemy session, which is one MySQL
transaction: `get_db` commits when the handler returns and rolls back when it
raises. There are no background jobs and no shared memory between requests, so
all concurrency is between transactions; what can go wrong is decided by what a
statement reads and what it locks. The engine sets no isolation level, hence
REPEATABLE READ: plain SELECTs read the view opened by the first of them (for an
authenticated request, `get_current_user`), while `FOR UPDATE`, `INSERT`,
`UPDATE` and `DELETE` act on the latest committed row and lock it.

| Component | State | Operations | What must hold |
|---|---|---|---|
| transactions (`db/session.py`, `core/deps.py`) | row versions, locks, views | open, read, lock, write, commit, roll back | an unlocked row is a committed one; circles of waits are broken |
| carts (`modules/orders`) | a cart per client, its items | add, set, remove, clear; created with the first item | a quantity that was checked stays checked; an item a checkout takes is on its order |
| orders (`modules/orders`) | orders, lines with a vendor status | checkout, vendor moves a line, buyer cancels | no overselling, no unit lost, order status follows the lines, closed stays closed, everyone told |
| catalogue (`modules/catalog`) | a tree of categories; products with stock and status; image keys | add a category, list, edit, file, archive, add and remove images, browse | stock and status agree; a category shows its subtree; reading page after page misses nothing |
| media (`modules/media`) | none in the database (objects in R2) | hand out an upload address, check a key | a stored key is its owner's, and a file was put under it |
| payments (`modules/payments`) | attempts with a status and a refund note | start, settle from browser or webhook | settled once, as charged; every charge recorded |
| notifications | rows per user | inserted with the change, read, marked | committed exactly with the change |
| jobs, reviews (`modules/jobs`, `reviews`, `workers`) | job status, reviews, denormalised rating | request, accept, start, complete, cancel, review | transition table, one review per completed job, rating is the mean |
| worker profiles (`modules/workers`) | profile columns, skills, portfolio | edit, replace skills wholesale, search | edits and ratings leave each other alone; a replacement is whole |
| accounts (`modules/auth`, `users`) | account, profile, refresh tokens, reset tokens | register, login, refresh, logout, reset | an email registers once, a rotated token is dead, a reset ends all sessions, one reset window |
| web layer, slugs | none | middleware, limits, formatting | |

How they interact: a checkout reads the cart, locks products, writes order,
lines and stock; fulfilment and cancellation write lines, stock and the order;
payments lock the order to start and read it to settle; cancellation reads the
payments; a review rewrites figures in the profile its worker edits; everything
inserts notifications in its own transaction. What is hard: the same row read in
a view and written later under a lock, two parties acting on one order, two tabs
on one cart, the browser and the webhook settling one attempt, a reset among the
sessions it is to end, a listing that changes between two of its pages, a commit
or a gateway call that fails half way.

## The modules

| Module | What it is |
|---|---|
| `InnoDB` | the database as a request meets it: `db` (latest versions), `committed`, `owner` (row locks); lock, write, commit, roll back, circles of waits |
| `Orders` | checkout, vendor moves, cancellation, product edits, as concurrent requests over `InnoDB` |
| `OrderProperties` | what is asked of `Orders`, and the inductive invariants |
| `Storefront` | the abstract shop: units move from the shelf to orders and back, atomically |
| `Carts` | filling a cart, among the requests of `Orders` |
| `CartProperties` | what is asked of `Carts` |
| `Payments` | starting and settling attempts, among the requests of `Orders`, with Paystack outside |
| `PaymentProperties` | what is asked of `Payments` |
| `Engagements` | hiring, moving a job, reviewing it and rewriting the worker's figures, over `InnoDB` |
| `EngagementProperties` | what is asked of `Engagements` |
| `Profiles` | a worker's edits of profile and skills, among the requests of `Engagements` |
| `ProfileProperties` | what is asked of `Profiles` |
| `Sessions` | accounts, sessions and password resets, over `InnoDB` |
| `SessionProperties` | what is asked of `Sessions` |
| `Catalogue` | categories, listings, images and a buyer who pages, over `InnoDB` |
| `CatalogueProperties` | what is asked of `Catalogue` |
| `ProofBasics` | lemmas about the store (what a write, a lock, a commit and a rollback do and preserve), induction over numbers and over the subsets of a finite set, sums, and functions applied again and again |
| `OrderProofs`, `PaymentProofs`, `CartProofs`, `StockProofs`, `SessionProofs`, `EngagementProofs`, `CatalogueProofs` | the theorems |
| `MCOrders`, `MCCarts`, `MCPayments`, `MCEngagements`, `MCSessions`, `MCCatalogue` | the instances for TLC |

A `...Properties` module states what the runs check and, in a section of its
own, the inductive invariants the proofs of it need.

### How the model corresponds to the code

A *slot* (`t \in Txns`) is a connection: it serves one request, then another.
`pc[t]` names the next statement of its request that locks a row, `req[t]` its
arguments, `seen[t]` its session's identity map, `outbox[t]` the notifications
it has inserted, and `notices` those that are committed. A step is one locking
statement with the Python around it, because only there can another request
come in between or make it wait. Plain reads need no step: what they return was
fixed when the view was opened.

| Code | Model |
|---|---|
| `get_current_user` opens the view | `Begin`, `ReadView` |
| `get_db` commits / rolls back | `Commit`, `Abort`, `Rollback` |
| `checkout` | `BeginCheckout`; `LockProduct` once per product, in id order, each re-read (`populate_existing`); then `FindNumber` and `InsertOrder` (the order enters the unique index on `order_number` with the number `''`); then `PlaceOrder` (order with its number, lines, stock, cart, notifications) or `RefuseCheckout` |
| `update_vendor_item_status` | `BeginAdvance`; `Restock` if it cancels; `Mark` (the UPDATE of the line); `SetOrderStatus` |
| `cancel_order` | `BeginCancel`; `Restock` and `Mark` per live line; `SetOrderStatus` |
| `_restock`, `_roll_up_status` | `Returned`/`Restock`, `RollUpStatus` |
| `update_product`, `archive_product` | `BeginEdit`, `EditProduct` with `Patched`, `Honest`, `Archive`; only changed columns are written |
| `add_to_cart`, `get_or_create_cart` | `BeginAdd`; `CreateCart` or `CartTaken` and `RereadFails` (the unique index, in a savepoint); `PutItem` or `RefuseItem` |
| `update_cart_item`; `remove_cart_item`, `clear_cart` | `BeginSet`, `PutItem`; `BeginRemove`, `BeginClear`, `DropItems` (DELETE by the ids that were read) |
| `payments.start` | `BeginPay`; `StartPayment` (order locked, attempt inserted) or `RefusePayment`; `Initialise` (Paystack answers, the order still locked) or `PaystackFails` |
| `payments.settle` | `BeginVerify` (browser) or `BeginWebhook`; `LockPayment`; `Verify` |
| `create_job`, `update_status` (jobs) | `BeginHire`, `Hire`; `BeginMove` (table and role, in the view), `Move` (the UPDATE) |
| `create_review`, `recalculate_rating` | `BeginReview`; `InsertReview` (the unique index decides) or `RefuseReview`; `Rate` (the aggregate over the view, changed columns written) |
| `workers.update_profile` | `BeginProfile`, `EditProfile` with `Reworded` (only changed columns) |
| `workers.set_skills` | `BeginSkills`; `Unlink` (DELETE of what was read); `Link` or `RefuseLink` (the primary key) |
| `register`, `login` | `BeginRegister`, `Register` (account, profile and session) or `RefuseRegister`; `BeginLogin`, `Rehash`, `InsertToken` |
| `refresh`, `logout` | `BeginRefresh`, `BeginLogout`; `Spend`, then `InsertToken` (`_issue_tokens`) |
| `verify_email_for_reset`, `reset_password` | `BeginVerifyEmail`: `Spend` per open window, `InsertToken`; `BeginReset`: `SetPassword`, `Spend` per live session and for the window |
| `create_category`, `_descendant_category_ids`, `build_category_tree` | `BeginCategory`, `InsertCategory` or `RefuseCategory`; `Descendants`, `Roots` |
| `create_product`; `update_product`, `archive_product` once more, now for filing and status | `InitialRows` with `ShelfStatus` in `Orders`; `BeginProduct`, `InsertProduct`, `BeginPatch`, `PatchProduct` in `Catalogue` |
| `add_product_image`, `verify_owned_key`, `delete_product_image` | `BeginImage`; `HeadObject` (asks the bucket) or `RefuseImage` (deletes what is too large); `InsertImage`; `BeginUnlist`, `DeleteImage` |
| `list_products`, `PageParams`, `Page.build` | `Listing`, `NewestFirst`, `OnPage`, `Pages`; a buyer's requests for one page after the other are `StartWalk`, `NextPage` |
| a client's PUT of a file to its upload address | `Upload` |
| Paystack and the payer | `Charge`, `Answers`; `hooks` is what Paystack still has to deliver |

Where two transactions wait for each other, InnoDB rolls one back at once:
`DeadlockVictim`. A request that raises before its first lock leaves no trace
and is no step.

A product that `Orders` has from the start is one that `create_product` stored
before anyone referred to it: with any stock and any status, for it checks
neither, and by default with 0 units for sale. `shop_serial` has such a product.

Every checkout inserts its order with the number `''` and only then checks its
lines; the number is written by a later UPDATE. `order_number` is unique, so the
entry `''` of its index (`EmptyNumber`) is one lock that all checkouts ask for,
whatever they buy. Who inserts it holds it until the request ends. Who meets one
(`NumberMet`: another's, or what an order with a number has left behind until it
is purged) queues for a shared lock of it, which all who queue get together
(`pc` is `"queue"`); two who share it wait for each other to insert theirs
(`Clashes`). The row of the order itself nobody can meet before the commit, so
`PlaceOrder` writes it in one go.

What is abstracted, and why it may be:

- Gap locks other than those at `order_number` `''`, prices, addresses and texts,
  and permission checks (a request is one its caller may make). So are keyword search and the filters by price and
  region: one more condition on the same rows.
- The shared locks foreign keys take on parent rows, except in `Sessions`,
  where inserting a token meets a reset that is writing its account. Elsewhere
  an insert takes such locks too: on the product of a cart item or an order line,
  on the category of a product, on the user, skill or job of a row. They change no
  data and refuse nothing here, for products, categories and skills that are
  referred to are never deleted. But they may make a request wait where the model
  lets it go on, and they may close a circle of waits of their own; what is said
  below of circles is said of the locks the models have.
- A cart with its items is one row in `Carts`, and a worker's skills are one row
  in `Profiles`. Rows of their own would let two requests of one person on
  different items overlap, which ends as if one had come after the other. A
  cart request holds nothing else while it waits for the cart, so no circle of
  waits goes through one.
- Tokens do not expire in `Sessions`: an expired one is refused and leaves no
  trace, so it is a token nobody presents. A token is its row's id; hashing is
  the flag `outdated` (the parameters of a hash) and nothing else. The tokens a
  request is still to spend are the set `todo`: the ORM flushes one table after
  the other, in an order it does not promise, so a reset takes either first.
- An upload address can be used again until it expires, and its expiry is not
  modelled: in `Catalogue` another file may be put under any key at any time,
  keys of images that are already attached included. `created_at` is a number
  of seconds, and rows of the same second come back in any order.
- Notifications are a set of messages, so duplicates of a payment's news are
  excluded by looking at who is *about* to send them.

## What the runs check

Each run finishes in under three minutes with two workers. `CHECK_DEADLOCK FALSE`
everywhere, because carts, attempts, jobs and tokens of an instance are finite:
when all is sold and answered, nothing is left to do. That no request is stuck is
checked by `EveryRequestEnds` and `SessionRequestsEnd`.

| Run | Instance | Checks | Distinct states |
|---|---|---|---|
| `shop_checkout` | 2 slots, 2 products, 3 orders; ann fills a cart that does not exist yet, in two tabs, bob buys both products | `CartWithinStock`, `StockConserved`, `OnlyNumbersClash`, `ItemsTakenAreOrdered`, and that the shop implements `Storefront` | 241 000 |
| `shop_cancel` | 2 slots, 2 orders, scarce shelf, cancelling vendors and buyers | `StockNeverNegative`, `NoUnitsLost`, `SingleLineStatus`, `EveryoneInformed` | 1 180 000 |
| `shop_serial` | 1 slot, 2 orders, every kind of request, edits included; one product was created for sale without units | `TypeOK`, `StatusMatchesLines`, `StaysHonest`, `CartSoldOnce`, `LineLifecycle`, `ClosedStaysClosed` | 1 030 000 |
| `payments` | 2 slots, 1 order of two lines, 1 attempt, 1 fault, buyer cancels; with fairness | `PaymentTypeOK`, `PaidIsCharged`, `ConfirmedOnce`, `UnpaidIsUnannounced`, `FailureToldOnChange`, `PaidStaysPaid`, `ChargeIsRecorded`, `EveryRequestEnds` | 47 000 |
| `engagements` | 2 slots, 1 client, 1 worker, 3 jobs of which 2 wait for their review, edits of profile and skills | `EngagementTypeOK`, `ReviewedByConsent`, `RatingIsEarned`, `ReviewIsFinal`, `FreshRatingIsRight`, `EditsKeepFigures`, `FreshSkillsAreWhole` | 1 610 000 |
| `sessions` | 2 slots, 1 email, 2 passwords, 2 sessions and 2 windows, an account from before the hash got stronger or none; with fairness | `SessionTypeOK`, `RotatedAway`, `RegisteredOnce`, `ResetEndsSessions`, `OneWindow`, `SessionRequestsEnd` | 274 000 |
| `catalogue` | 2 slots, 3 categories, 3 products, 3 requests, one product to a page, every tree and filing to begin with, files put again under keys in use | `CatalogueTypeOK`, `BrowseFindsSubtree`, `WalkMissesNothing`, `CategoryIsFinal` | 946 000 |

Five runs show where the code and what it says of itself part; each is a race
between two requests that takes no lock on what it read.

| Run | What it shows |
|---|---|
| `double_restock` | two cancellations of one line that overlap, its buyer's and its vendor's or two of its vendor's, both return its units |
| `first_item` | two tabs put the first item into a cart; the one the unique index refuses "re-reads" a view in which there is still no cart, and fails |
| `unflagged_refund` | a cancellation and a settlement cross: paid, cancelled, no refund note |
| `rating_drift` | two reviews of one worker overlap; the profile counts one of them |
| `old_password` | a login that strengthens an old hash writes the old password over the one a reset has just committed |

Other consequences of the same pattern are not runs of their own: a vendor's
move checked against a stale status can revive a line or rewind it, a slow
request can reopen a closed job, two vendors who answer at once can leave an
order's status behind, two tabs can sell a small cart twice, a vendor's edit of
the stock can undo a sale, and `payments.start` refuses only an order that has
been paid, so two attempts can be open at once. Four more can be seen in the
models, and the properties claim no more than they leave:

- An item whose quantity another tab raises after the checkout has read the cart
  is deleted as it is and ordered as it was; hence `ItemsTakenAreOrdered`.
- Checkouts of different products that meet at the order number `''` share a lock
  there and wait for each other, and one is rolled back, although the comment on
  the sorted locks says that checkouts "queue instead of deadlocking"; hence
  `OnlyNumbersClash`.
- A buyer who calls off an order nobody has paid for tells its vendors, who had
  not heard of it; hence `UnpaidIsUnannounced`.
- A file that is too large, put under the key of an attached image and offered
  again, is deleted, and the first image leads to nothing; hence
  `CatalogueTypeOK` says of an image's key only that a file was put under it.

The properties the races break are still right for one request at a time, which
is what `shop_serial` checks and the theorems under `OneSlot` state, and weaker
ones hold under every interleaving: `StaysHonest` as long as no vendor edits
products (a status that agrees with the stock goes on agreeing; what is created
for sale without units is not promised to be put right), `NoUnitsLost` (there are
never fewer units than at first; there may be more, and those are sold twice),
`ItemsTakenAreOrdered` (an item that leaves the cart is ordered, if not always in
the quantity it had), `UnpaidIsUnannounced` (of an order nobody has paid for no
vendor is told that it was placed or paid; that it was called off is told),
`FailureToldOnChange` (a charge that came short is told each time it is settled,
and is exempted), `OnlyNumbersClash` (while nothing is called off, the locks of
products, in id order, close no circle; whoever is in one queues at the number `''`), `SingleLineStatus` (orders of
one line, whose lock orders the roll-ups), `RatingIsEarned` and
`FreshRatingIsRight` (the figures are a mean of real reviews, and the next review
that saw all the others puts them right), `ReviewedByConsent` (whatever moves of
a job overwrite, a review has a job behind it that was accepted and completed).
`ResetEndsSessions`, `OneWindow` and `FreshSkillsAreWhole` are promised to a
request nobody committed beside (`disturbed` in `Sessions`, the version that was
read in `Profiles`); `RotatedAway` needs no such condition.

**Bounds.** Two slots give every race of two requests, the circle at the order
number included: once an order has its number, two more checkouts queue at what
it left behind. Two products and two clients give carts that cross, orders of one and of two lines, and a line whose
neighbour another vendor owns. The scarce shelf leaves whoever comes second
short, without being empty, so that the stock check and not the status refuses.
`OrderIds`, `PaymentIds`, `SessionIds` and `WindowIds` bound how many orders,
attempts and tokens there are; a request starts only if an id is left for it.
`MaxItems` bounds how often a product is put into a cart anew: twice lets a stale
request meet another item under the same product. `Shoppers` are the clients who
change their carts, `Amounts` what they add. `Past` gives jobs that are already
completed, so that reviews overlap while another job is still being lived, and a
third review comes after two that crossed; `rating_drift` has a second worker,
`engagements` one, who edits. Admins, who may make any move, are left out of that
instance. `MaxFaults` bounds the requests that fail half way in `payments`, since
a request that fails every time is never finished by anything. `MaxRequests`
bounds those of `catalogue`: two that meet and one more, between any two pages.
Three categories give a chain of three levels, whose addition in any order the
walk over them has to follow; one buyer walks, once. Slots are symmetric where
no liveness is checked.

**Fairness.** InnoDB serves lock requests in order, so a step that is possible
again and again is taken (`SF` per slot), and it looks for a circle as soon as
one closes (`WF` on `DeadlockVictim`, on `Victim` in `Sessions`). Nothing makes clients send requests or
requests fail. Paystack redelivers a webhook until it gets a 200 (`SF` on
`BeginWebhook`), for hours in fact; the models say until.

## What is proved

The theorems hold for every value of the constants: any numbers of slots,
clients, vendors, products, orders, attempts, emails, jobs and workers, any
shelf and carts to begin with, every interleaving of requests, with rollbacks at
any step. Each is proved of the specification its property is run under, without
the fairness that only liveness needs.

| Module | Theorems | Hypotheses |
|---|---|---|
| `OrderProofs` (`Spec`) | `Invariance`, `TypeCorrect`, `NeverOversold` (`StockNeverNegative`), `NobodyLeftOut` (`EveryoneInformed`), `OneLineFollowed` (`SingleLineStatus`) | |
| | `StatusStaysHonest` (`StaysHonest`) | `OneSlot`, or no edits |
| | `StatusFollowsLines` (`StatusMatchesLines`), `CartsAreSoldOnce` (`CartSoldOnce`), `LinesMoveLegally` (`LineLifecycle`), `ClosedOrdersStay` (`ClosedStaysClosed`) | `OneSlot` |
| `PaymentProofs` (`PaySpec`) | `PayInvariance`, `PayTypeCorrect`, `ChargedBeforePaid` (`PaidIsCharged`), `ToldOnce` (`ConfirmedOnce`), `QuietUntilPaid` (`UnpaidIsUnannounced`), `FailureIsNews` (`FailureToldOnChange`), `PaidForGood` (`PaidStaysPaid`), `NeverOversoldPaying` | |
| `CartProofs` (`CartSpec`) | `CartInvariance`, `NeverOversoldFilling`, `TakesWhatItSold` (`ItemsTakenAreOrdered`) | |
| | `CartsWithinShelf` (`CartWithinStock`), `Refinement` (`ImplementsStorefront`) | `NoReturns`, `CartsFit` |
| | `QueuesNotCircles` (`OnlyNumbersClash`) | `NothingRestocks` |
| `StockProofs` (`CartSpec`, `Spec`) | `UnitsAreKept`, `UnitsAreKeptSelling` (`NoUnitsLost`) | `NoStockEdits` |
| | `StockAddsUp` (`StockConserved`) | `NoReturns`, `CartsFit` |
| `SessionProofs` (`Spec`) | `SessionInvariance`, `SessionTypeCorrect`, `OldSessionIsSpent` (`RotatedAway`), `EmailIsTakenOnce` (`RegisteredOnce`), `ResetIsThorough` (`ResetEndsSessions`), `WindowsAreClosed` (`OneWindow`) | |
| `EngagementProofs` (`ProfileSpec`) | `EngagementInvariance`, `NoUnearnedReview` (`ReviewedByConsent`), `ReviewsStand` (`ReviewIsFinal`), `ProfilesAreShared` (`EditsKeepFigures`), `SkillsAreReplaced` (`FreshSkillsAreWhole`), `EngagementsTyped` (`EngagementTypeOK`), `RatingsAreEarned` (`RatingIsEarned`), `FreshRatingsAreRight` (`FreshRatingIsRight`) | |
| `CatalogueProofs` (`Spec`) | `CatalogueInvariance`, `CatalogueTypeCorrect` (`CatalogueTypeOK`), `CategoriesStay` (`CategoryIsFinal`), `WalkersMissNothing` (`WalkMissesNothing`), `BrowsersFindAll` (`BrowseFindsSubtree`) | |

**Assumptions.** `NobodyIsNoTxn`, `OrdersAssumption`, `CartsAssumption`,
`PaymentsAssumption`, `EngagementsAssumption`, `ProfilesAssumption`,
`SessionsAssumption`, `CatalogueAssumption` and `NoRowIsNoValue` say that the
constants have their types, that an instance has finitely many products, order
ids, jobs and categories, and that the marker of a missing row is no row. TLC evaluates them in every run.

**Hypotheses.** Some theorems are about shops in which something does not
happen, because the code does not keep the property where it does:

- `NoStockEdits`: no vendor sets a stock. An edit overwrites the count, sales
  that were made since it was read included.
- `NoReturns`: moreover nothing is called off. A buyer and a vendor who cancel
  one line at once both return its units (`double_restock`). `shop_checkout`,
  the run of the properties under this hypothesis, is such a shop.
- `CartsFit`: the carts an instance starts with ask for no more than there is.
- `NothingRestocks`: nothing is called off, edits allowed. A cancellation locks
  its products in the order of the order's lines and holds one while it waits
  for the next, so that two can wait for each other over products; checkouts
  lock those in id order and alone never do.
- `OneSlot`: one request at a time, as in `shop_serial`, which may still be
  refused or rolled back at any step. The handlers check a line, an order or a
  cart in a plain read and write it later, so each of these properties is broken
  by a second request in between; alone, a handler keeps it whatever the shop.
  For `StaysHonest` it is enough that there are no edits (`Edits = {}`), however
  many slots: everything else that writes a product re-reads it under its lock.

**Arguments.** No property of the list is inductive. What is needed beside each:

- *Stock never negative.* That a sale leaves stock rests on the check made on
  what the session holds. `IInv` says that a checkout's session holds the latest
  version of every product whose lock it has (`CheckoutReads`), that whoever
  reaches `place` has all the locks, that a version nobody holds is a committed
  one (`UnlockedIsCommitted`, so a rollback cannot bring back a lower stock than
  the row had), that rows are not deleted, and that a line comes with its order
  (`LinesHaveOrders`, `LineReads`).
- *Everyone informed.* `NewsInv`: whoever holds a line has in the outbox what
  its version calls for, unless it is committed news already; so a commit
  publishes both at once, and a version that overwrites another comes with its
  own message.
- *Status of an order of one line.* `StatusInv`: who moves the line holds it
  until the order has been written or needs no writing, so the order's row is
  written under the line's lock. That the roll-up is not skipped as "unchanged"
  needs that the order the request read differs from the status it is to write.
- *One request at a time.* What `OneSlot` buys is that nothing a request has read
  changes under it, and that a commit publishes all it has written (`OneCommits`).
  `HonestInv` says it of the product an edit has read, and that the latest version
  of a product is honest if the committed one is, so that a commit keeps it so.
  `BooksInv` counts what a client has ordered and what the cart still holds
  against what it held at first; a checkout moves units from one to the other,
  and sees the cart as it is when it does. `SerialInv` follows an advance or a
  cancellation: its order is open, the lines it has still to move are as
  committed and may move, those it has moved did so by the table, and before it
  commits the order's status is the one its lines roll up to, written or found
  right already. That a cancellation has every live line on its list is why an
  order can be written as cancelled without looking at its lines again.
- *Payments.* `PayInv` ties each attempt's latest and committed versions to what
  Paystack recorded (`Accounted`), names who may hold an attempt (`HolderOK`)
  and what its session is worth at that step (`PayRequestOK`), and says that the
  outbox tells exactly what is about to be committed (`TellsTrue`). That browser
  and webhook announce a payment once is the lock of the attempt, re-read under
  it, together with this.
- *Checkouts and carts.* `CartInv`: an order that is inserted and not committed
  still holds the cart it has emptied, and what it took out of the cart is in
  its lines (`PendingOK`); nobody else writes the cart meanwhile.
- *Carts within the shelf.* `ScarceInv`: without returns stock only shrinks, so
  every version of a cart and every request about to write one stays within what
  there was at the start.
- *Refinement.* `SalesInv`: of its products a pending order has taken exactly
  the units of its lines, under locks it still holds (`PendingSale`,
  `TakenBySale`); a committed line is sold for good. Then a commit of a checkout
  is one `Place` of `Storefront`, and every other step moves no committed unit.
- *No circle.* `WaitsInv`: a checkout that waits holds only products before the
  one it waits for (`LocksInOrder`); whoever holds an order or a cart, or the
  entry `''`, is at its commit or waits for nothing held by one who waits. A
  circle with a member that waits for a product would have a greatest product
  held by a member that waits for a smaller one; so nobody in a circle waits for
  a product, and what is left is who queues at the number `''`.
- *No unit lost.* `UnitsInv` keeps the books of every request: what it has put
  on the shelf of a product and into its lines adds up to no loss, step by step
  of a cancellation (`BalanceOK`). A line still to be called off holds the
  quantity that was read in the view, because quantities never change
  (`QtyKept`); its status may be stale, which is how units are returned twice
  and why the theorem is an inequality. Sums over orders are changed at one
  order at a time with the lemmas of
  `ProofBasics`.
- *Stock conserved* is proved of `Storefront`: each of its steps conserves
  units, and the shop refines it.
- *Sessions.* `SessionInv` follows the rotation chain (`RotationOK`: a token's
  predecessor is spent in the same transaction at the latest), the account of
  every token a request holds (`HoldsOwn`), and what a reset or a new window has
  covered while nobody disturbed it (`ResetOK`, `WindowOK`).
- *Jobs, reviews and profiles.* `ProfileInv`: what has been told of a job
  reaches as far as its status (`JobOK`), by the transition table whichever
  stale status a move was checked against; a review's row is held by the
  request that still has to tell of it, and by nobody once it is committed; a
  replacement of skills holds exactly what it read less, or has read none.
- *Figures.* `TypeInv`: a sum of `n` ratings is at most `5 n`, and rounding half
  to even does not lead out of the range. `RatingInv`: whoever holds a profile
  is about to commit, and the rows it would leave (`Left`) show earned figures
  and new ones only beside a new review; nobody commits a review without the
  profile (`HolderOK`). So two requests that rate one worker commit one after the
  other, each over rows that only gained reviews. Only columns that differ from
  what the session read are written, so an average may stay from one review and
  a number from another; that both are earned, and right after a fresh request,
  needs that the figures a session holds still stand unless it misses a review
  (`ReviewerOK`).

- *Catalogue.* `CatalogueInv`: who holds a category has just inserted it, below a
  parent that was committed when the request looked, and nothing deletes a
  category afterwards; so neither a rollback nor a stale check leaves a child or
  a product without its category. Products are refiled and archived, never
  deleted, so an image row keeps the vendor its key was checked against, and a
  key under which a file was once put is known for good. What the key leads to
  today is not promised: another file may have been put there, or the object
  deleted.

- *Paging.* `WalkInv`: whatever the buyer has still to see of what was listed
  when he began has a page of newer products, for each page he has read, in the
  listing he read last. New products are newer or older than it, never its age,
  and those listed stay listed, so its place only moves back; and it is shown as
  soon as its place comes onto a page (`Ranked`, `PageShows`).
- *Browsing.* `TreeInv` says that there is no circle, without naming an order:
  among any categories one is not below another of them. It is kept because a
  new category has no children yet. What the level-by-level walk collects is
  the least set with the category that is closed under children
  (`DescendantsAreLeast`), what is above a category the least one that is closed
  under parents (`AboveIsLeast`); both stop in time because each level before
  the last has a category of its own. Each being least, they are the same
  relation (`BelowIsAbove`).

`ProofBasics` proves the inductions it uses, over numbers and finite sets, from the
well-foundedness of the naturals. TLC checked the inductive invariants on the
instances of the runs before they were proved.

**Only model-checked.**

- `EveryRequestEnds`, `ChargeIsRecorded` and `SessionRequestsEnd` are liveness
  properties under fairness, which the provers do not reach.
  Every other property of the passing runs is also a theorem.

## Not modelled, and the plan

Left out: the web layer (no state), migrations and seeds (run once by hand),
edits of users and vendor profiles (each overwrites columns no other request
writes), portfolios and logos (keys checked as those of product images are),
new skills (one insert behind a unique name), reading and marking notifications,
and search by keyword, price or region (one statement). `rating_summary` and the
other reads change nothing. Money is not computed: a charge is right, short or in
another currency. Whether the answer of a request is sent before or after its
commit depends on the FastAPI that is installed; the models answer after it.
