------------------------------- MODULE Orders -------------------------------
(***************************************************************************)
(* Checkout, fulfilment, cancellation and product edits                    *)
(* (modules/orders/service.py, modules/catalog/service.py) as concurrent   *)
(* requests, each in its own transaction of InnoDB.                        *)
(*                                                                         *)
(* A request is cut where another request can run or make it wait: a step  *)
(* is one statement that takes a row lock, together with the Python around *)
(* it.  seen[t] is the identity map of the request's session: the rows as  *)
(* the request believes them to be, which is what its checks and           *)
(* assignments use.  A request that raises before its first statement that *)
(* writes or locks leaves no trace, so it is not a step.                   *)
(***************************************************************************)
EXTENDS InnoDB, Integers, FiniteSets, Functions, TLC

CONSTANTS
    Clients, Products, Vendors, OrderIds, PaymentIds,
    VendorOf,          \* Product.vendor_id
    Shelf,             \* units of each product at the start
    ShelfStatus,       \* its status, which its vendor chose along with them
    Carts,             \* units of each product in each client's cart at the start, if there is one
    PaymentsEnabled,   \* settings.payments_enabled
    VendorMoves,       \* the line statuses the vendors of the instance ask for
    BuyerCancels,      \* whether its buyers cancel
    Edits,             \* the product patches its vendors send
    Unset              \* a field a patch leaves out

ProductStatus == {"DRAFT", "ACTIVE", "OUT_OF_STOCK", "ARCHIVED"}
OrderStatus == {"PENDING", "CONFIRMED", "FULFILLED", "CANCELLED"}
VendorItemStatus == {"PENDING", "CONFIRMED", "READY", "CANCELLED"}
PaymentStatus == {"PENDING", "SUCCESS", "FAILED", "ABANDONED"}

ASSUME OrdersAssumption ==
    /\ Products \subseteq Nat
    /\ IsFiniteSet(Products)
    /\ OrderIds \subseteq Nat
    /\ IsFiniteSet(OrderIds)
    /\ VendorOf \in [Products -> Vendors]
    /\ Shelf \in [Products -> Nat]
    /\ ShelfStatus \in [Products -> ProductStatus]
    /\ Carts \in [Clients -> [Products -> Nat] \cup {NoRow}]
    /\ PaymentsEnabled \in BOOLEAN
    /\ VendorMoves \subseteq VendorItemStatus
    /\ BuyerCancels \in BOOLEAN
    /\ Edits \subseteq [stock : Nat \cup {Unset}, status : ProductStatus \cup {Unset}]

VARIABLES
    pc,        \* what the request of each slot does next; "idle": no request
    req,       \* what it was asked
    seen,      \* the rows its session holds
    outbox,    \* the notifications it has inserted and not committed
    notices    \* the notifications that are committed

request == <<pc, req, seen, outbox>>
vars == <<db, committed, owner, pc, req, seen, outbox, notices>>

-----------------------------------------------------------------------------
(* The rows and their columns. *)

Product(p) == <<"product", p>>
Cart(c) == <<"cart", c>>
Order(o) == <<"order", o>>
Line(o, p) == <<"line", o, p>>
Payment(k) == <<"payment", k>>

\* The entry of the order_number '' in the unique index: a row to lock, no more.
EmptyNumber == <<"order_number">>

Rows == {Product(p) : p \in Products} \cup {Cart(c) : c \in Clients}
        \cup {Order(o) : o \in OrderIds} \cup {Line(o, p) : o \in OrderIds, p \in Products}
        \cup {Payment(k) : k \in PaymentIds} \cup {EmptyNumber}

ProductRow == [stock : Int, status : ProductStatus]
\* A cart is a row of carts with its cart_items: a product is in it if its qty is
\* positive, and gets a new id whenever it is put there anew.
Item == [id : Nat, qty : Nat]
CartRow == [Products -> Item]
OrderRow == [client : Clients, status : OrderStatus]
LineRow == [qty : Nat, status : VendorItemStatus]
PaymentRow == [order : OrderIds, status : PaymentStatus, refund : BOOLEAN]

ASSUME NoRowIsNoValue ==
    NoRow \notin ProductRow \cup CartRow \cup OrderRow \cup LineRow \cup PaymentRow

\* The products are as create_product stored them, which compares neither units
\* nor status with anything (0 and ACTIVE are its defaults).  Nobody refers to a
\* product before, so all that are ever created may be there from the start.
InitialRows ==
    [r \in Rows |->
        CASE r[1] = "product" -> [stock |-> Shelf[r[2]], status |-> ShelfStatus[r[2]]]
          [] r[1] = "cart" /\ Carts[r[2]] # NoRow ->
                [p \in Products |-> [id |-> 0, qty |-> Carts[r[2]][p]]]
          [] OTHER -> NoRow]

\* The rows one order is read with: its lines and payments are loaded with it.
LinesOf(view, o) == {p \in Products : view[Line(o, p)] # NoRow}
LiveLines(view, o) == {p \in LinesOf(view, o) : view[Line(o, p)].status # "CANCELLED"}
Paid(view, o) ==
    \E k \in PaymentIds : /\ view[Payment(k)] # NoRow
                          /\ view[Payment(k)].order = o
                          /\ view[Payment(k)].status = "SUCCESS"
OrderQuery(o) == {Order(o)} \cup {Line(o, p) : p \in Products}
                 \cup {Payment(k) : k \in PaymentIds}

\* Notifications, addressed by what they say: an order announced to a vendor, a
\* line's new status to the buyer, a line called off to its vendor.
Announced(o, v) == <<"ORDER_PLACED", o, v>>
Moved(o, p, s) == <<"ORDER_ITEM_UPDATED", o, p, s>>
CalledOff(o, p) == <<"ORDER_ITEM_UPDATED", o, p>>

Notice == {Announced(o, v) : o \in OrderIds, v \in Vendors}
          \cup {Moved(o, p, s) : o \in OrderIds, p \in Products, s \in VendorItemStatus}
          \cup {CalledOff(o, p) : o \in OrderIds, p \in Products}

-----------------------------------------------------------------------------
(* The life of a request. *)

NothingSeen == [r \in Rows |-> NoRow]

Init ==
    /\ InitStore(InitialRows)
    /\ pc = [t \in Txns |-> "idle"]
    /\ req = [t \in Txns |-> NoRow]
    /\ seen = [t \in Txns |-> NothingSeen]
    /\ outbox = [t \in Txns |-> {}]
    /\ notices = {}

Begin(t, next, what, rows) ==
    /\ pc[t] = "idle"
    /\ pc' = [pc EXCEPT ![t] = next]
    /\ req' = [req EXCEPT ![t] = what]
    /\ seen' = [seen EXCEPT ![t] = ReadView(rows)]
    /\ UNCHANGED <<db, committed, owner, outbox, notices>>

Forget(t) ==
    /\ pc' = [pc EXCEPT ![t] = "idle"]
    /\ req' = [req EXCEPT ![t] = NoRow]
    /\ seen' = [seen EXCEPT ![t] = NothingSeen]
    /\ outbox' = [outbox EXCEPT ![t] = {}]

\* The handler has nothing left to do but return: what its session holds is not used again.
Finish(t) ==
    /\ pc' = [pc EXCEPT ![t] = "commit"]
    /\ req' = [req EXCEPT ![t] = NoRow]
    /\ seen' = [seen EXCEPT ![t] = NothingSeen]

Rollback(t) ==
    /\ RollbackTxn(t)
    /\ Forget(t)
    /\ UNCHANGED notices

\* The handler has returned: the session commits.
Commit(t) ==
    /\ pc[t] = "commit"
    /\ CommitTxn(t)
    /\ notices' = notices \cup outbox[t]
    /\ Forget(t)

\* The client hangs up, the process or the connection dies, or a lock wait times out.
Abort(t) == pc[t] # "idle" /\ Rollback(t)

-----------------------------------------------------------------------------
(* Checkout. *)

SeenCart(t) == seen[t][Cart(req[t].client)]
Basket(t) == [p \in Products |-> SeenCart(t)[p].qty]
InBasket(t) == {p \in Products : Basket(t)[p] > 0}
Locked(t) == {p \in Products : owner[Product(p)] = t}
Unused == {o \in OrderIds : db[Order(o)] = NoRow}

\* OrderIds bounds the orders of the instance: a checkout starts only with an id left for it.
BeginCheckout(t, c) ==
    LET wanted == {p \in Products : committed[Cart(c)][p].qty > 0}
    IN  /\ committed[Cart(c)] # NoRow
        /\ wanted # {}
        /\ Cardinality(Unused) > Cardinality({u \in Txns : pc[u] \in {"lock", "insert", "queue", "place"}})
        /\ Begin(t, "lock", [client |-> c], {Cart(c)} \cup {Product(p) : p \in wanted})

\* Variants named "Slip" are the definition that follows with one mistake in it.
NextProductSlip(t) ==   \* in cart order, here by quantity
    CHOOSE p \in InBasket(t) \ Locked(t) :
        \A q \in InBasket(t) \ Locked(t) : Basket(t)[p] >= Basket(t)[q]

\* The next row the sorted SELECT ... FOR UPDATE locks.
NextProduct(t) == CHOOSE p \in InBasket(t) \ Locked(t) : \A q \in InBasket(t) \ Locked(t) : p <= q

RereadSlip(t, r) == seen[t][r]   \* without populate_existing

\* The lock returns the latest version, and populate_existing puts it in the session.
Reread(t, r) == db[r]

LockProduct(t) ==
    /\ pc[t] = "lock"
    /\ LockRow(t, Product(NextProduct(t)))
    /\ seen' = [seen EXCEPT ![t][Product(NextProduct(t))] = Reread(t, Product(NextProduct(t)))]
    /\ pc' = [pc EXCEPT ![t] = IF InBasket(t) \ Locked(t) = {NextProduct(t)} THEN "insert" ELSE "lock"]
    /\ UNCHANGED <<req, outbox, notices>>

\* The check for duplicates meets an entry '': another order's, inserted and not
\* committed; or what an order that has since got its number has left behind, which
\* stays until it is purged.  It asks for a shared lock of the entry.
NumberMet(t) ==
    \/ owner[EmptyNumber] \notin {t, Nobody}
    \/ \E o \in OrderIds : committed[Order(o)] # NoRow

FindNumber(t) ==
    /\ pc[t] = "insert"
    /\ NumberMet(t)
    /\ pc' = [pc EXCEPT ![t] = "queue"]
    /\ UNCHANGED <<db, committed, owner, req, seen, outbox, notices>>

\* INSERT INTO orders with order_number ''.  The entry is t's until t ends, for the
\* UPDATE to the final number only marks it as deleted; and a shared lock of it,
\* which all who queue get at once when it is free, keeps others from inserting.
\* The row itself nobody else can meet before t commits: PlaceOrder writes it.
InsertOrder(t) ==
    /\ pc[t] \in {"insert", "queue"}
    /\ \A u \in Txns \ {t} : pc[u] # "queue"
    /\ LockRow(t, EmptyNumber)
    /\ pc' = [pc EXCEPT ![t] = "place"]
    /\ UNCHANGED <<req, seen, outbox, notices>>

BuyableSlip(row, n) == row.status = "ACTIVE"   \* without the stock check

Buyable(row, n) == row.status = "ACTIVE" /\ row.stock >= n

\* The product row once n units are sold.
Sell(row, n) ==
    [stock |-> row.stock - n, status |-> IF row.stock = n THEN "OUT_OF_STOCK" ELSE row.status]

EmptiedSlip(t, row) == row   \* the cart keeps its items

\* DELETE of some of a cart's items, by the ids a session read: a product that
\* has been put there anew since is another item.
WithoutItems(row, items, read) ==
    [p \in Products |-> IF p \in items /\ row[p].id = read[p].id
                        THEN [id |-> row[p].id, qty |-> 0]
                        ELSE row[p]]

EmptiedWhole(t, row) ==   \* the whole cart, not the items that were bought
    [p \in Products |-> [id |-> row[p].id, qty |-> 0]]

\* The cart's latest version without the items that were bought.
Emptied(t, row) == WithoutItems(row, InBasket(t), SeenCart(t))

CheckoutWrites(t, o) ==
    [r \in {Order(o), Cart(req[t].client)}
           \cup {Product(p) : p \in InBasket(t)} \cup {Line(o, p) : p \in InBasket(t)} |->
        CASE r[1] = "order"   -> [client |-> req[t].client, status |-> "PENDING"]
          [] r[1] = "product" -> Sell(seen[t][r], Basket(t)[r[2]])
          [] r[1] = "line"    -> [qty |-> Basket(t)[r[3]], status |-> "PENDING"]
          [] r[1] = "cart"    -> Emptied(t, db[r])]

ToVendorsSlip(t, o) ==   \* announced before it is paid
    {Announced(o, VendorOf[p]) : p \in InBasket(t)}

\* With online payment on, vendors hear of an order when it is paid.
ToVendors(t, o) == IF PaymentsEnabled THEN {} ELSE {Announced(o, VendorOf[p]) : p \in InBasket(t)}

\* The lines are checked and all is written.  The new order takes the next id.
PlaceOrder(t) ==
    /\ pc[t] = "place"
    /\ \A p \in InBasket(t) : Buyable(seen[t][Product(p)], Basket(t)[p])
    /\ \E o \in Unused :
        /\ \A n \in Unused : o <= n
        /\ WriteRows(t, CheckoutWrites(t, o))
        /\ outbox' = [outbox EXCEPT ![t] = ToVendors(t, o)]
    /\ Finish(t)
    /\ UNCHANGED notices

\* A line is not ACTIVE any more or short of stock: the checkout raises.
RefuseCheckout(t) ==
    /\ pc[t] = "place"
    /\ \E p \in InBasket(t) : ~Buyable(seen[t][Product(p)], Basket(t)[p])
    /\ Rollback(t)

-----------------------------------------------------------------------------
(* A vendor advances a line; a buyer cancels an order.  Both work on a line  *)
(* as the view showed it, and no lock covers that reading.                   *)

VendorTransitionsSlip == [PENDING   |-> {"CONFIRMED", "READY", "CANCELLED"},   \* a step skipped
                          CONFIRMED |-> {"READY", "CANCELLED"},
                          READY     |-> {},
                          CANCELLED |-> {}]

VendorTransitions == [PENDING   |-> {"CONFIRMED", "CANCELLED"},
                      CONFIRMED |-> {"READY", "CANCELLED"},
                      READY     |-> {},
                      CANCELLED |-> {}]

BeginAdvance(t, o, p, move) ==
    /\ committed[Line(o, p)] # NoRow
    /\ move \in VendorTransitions[committed[Line(o, p)].status]
    /\ Begin(t, IF move = "CANCELLED" THEN "restock" ELSE "mark",
             [order |-> o, item |-> p, todo |-> {p}, move |-> move, buyer |-> FALSE],
             OrderQuery(o))

CancellableSlip(o) ==   \* a fulfilled order is cancelled too
    committed[Order(o)] # NoRow /\ committed[Order(o)].status # "CANCELLED" /\ ~Paid(committed, o)

Cancellable(o) ==
    /\ committed[Order(o)] # NoRow
    /\ committed[Order(o)].status \notin {"FULFILLED", "CANCELLED"}
    /\ ~Paid(committed, o)

\* The lines come back in no particular order: item is any of those left.
BeginCancel(t, o, p) ==
    LET live == LiveLines(committed, o)
    IN  /\ Cancellable(o)
        /\ p \in live \/ live = {}
        /\ Begin(t, IF live = {} THEN "rollup" ELSE "restock",
                 [order |-> o, item |-> p, todo |-> live, move |-> "CANCELLED", buyer |-> TRUE],
                 OrderQuery(o))

ReturnedSlip(row, n) ==   \* assigns the units instead of adding them
    [stock |-> n, status |-> IF row.status = "OUT_OF_STOCK" THEN "ACTIVE" ELSE row.status]

Returned(row, n) ==
    [stock |-> row.stock + n,
     status |-> IF row.status = "OUT_OF_STOCK" /\ row.stock + n > 0 THEN "ACTIVE" ELSE row.status]

\* _restock: the product row is locked, re-read and written.
Restock(t) ==
    LET r == Product(req[t].item)
        l == Line(req[t].order, req[t].item)
    IN  /\ pc[t] = "restock"
        /\ WriteRows(t, [x \in {r} |-> Returned(db[r], seen[t][l].qty)])
        /\ pc' = [pc EXCEPT ![t] = "mark"]
        /\ UNCHANGED <<req, seen, outbox, notices>>

ToldSlip(t) ==   \* the vendor of a line called off is not told
    IF req[t].buyer THEN {} ELSE {Moved(req[t].order, req[t].item, req[t].move)}

\* Whoever did not ask for the change is told of it.
Told(t) == IF req[t].buyer THEN {CalledOff(req[t].order, req[t].item)}
           ELSE {Moved(req[t].order, req[t].item, req[t].move)}

\* UPDATE order_items SET vendor_status: the row's latest version is overwritten.
Mark(t) ==
    LET o == req[t].order
        p == req[t].item
        left == req[t].todo \ {p}
    IN  /\ pc[t] = "mark"
        /\ WriteRows(t, [x \in {Line(o, p)} |-> [db[x] EXCEPT !.status = req[t].move]])
        /\ seen' = [seen EXCEPT ![t][Line(o, p)].status = req[t].move]
        /\ IF left = {}
           THEN req' = [req EXCEPT ![t] = [@ EXCEPT !.todo = {}]]
           ELSE \E q \in left : req' = [req EXCEPT ![t] = [@ EXCEPT !.todo = left, !.item = q]]
        /\ pc' = [pc EXCEPT ![t] = IF left = {} THEN "rollup" ELSE "restock"]
        /\ outbox' = [outbox EXCEPT ![t] = @ \cup Told(t)]
        /\ UNCHANGED notices

RollUpStatusSlip(view, o) ==   \* cancelled lines count
    LET status == {view[Line(o, p)].status : p \in LinesOf(view, o)}
    IN  IF status \subseteq {"CANCELLED"} THEN "CANCELLED"
        ELSE IF status = {"READY"} THEN "FULFILLED"
        ELSE IF status \cap {"CONFIRMED", "READY"} # {} THEN "CONFIRMED"
        ELSE "PENDING"

RollUpStatusMixUp(view, o) ==   \* the line's enum for the order's
    LET status == {view[Line(o, p)].status : p \in LiveLines(view, o)}
    IN  IF status = {} THEN "CANCELLED"
        ELSE IF status = {"READY"} THEN "READY"
        ELSE IF status \cap {"CONFIRMED", "READY"} # {} THEN "CONFIRMED"
        ELSE "PENDING"

\* _roll_up_status, over the lines as a view shows them.
RollUpStatus(view, o) ==
    LET status == {view[Line(o, p)].status : p \in LiveLines(view, o)}
    IN  IF status = {} THEN "CANCELLED"
        ELSE IF status = {"READY"} THEN "FULFILLED"
        ELSE IF status \cap {"CONFIRMED", "READY"} # {} THEN "CONFIRMED"
        ELSE "PENDING"

NewOrderStatusSlip(t) ==   \* rolled up from the lines as they were before the change
    IF req[t].buyer THEN "CANCELLED" ELSE RollUpStatus(committed, req[t].order)

NewOrderStatus(t) ==
    IF req[t].buyer THEN "CANCELLED" ELSE RollUpStatus(seen[t], req[t].order)

\* The order row is written only if its status differs from the one the request read.
OrderDiffers(t) == NewOrderStatus(t) # seen[t][Order(req[t].order)].status

SetOrderStatus(t) ==
    LET r == Order(req[t].order)
    IN  /\ pc[t] = "rollup"
        /\ IF OrderDiffers(t)
           THEN WriteRows(t, [x \in {r} |-> [db[r] EXCEPT !.status = NewOrderStatus(t)]])
           ELSE UNCHANGED <<db, committed, owner>>
        /\ Finish(t)
        /\ UNCHANGED <<outbox, notices>>

-----------------------------------------------------------------------------
(* A vendor edits a product. *)

HonestSlip(row) ==   \* nothing reopens a product that is out of stock
    [row EXCEPT !.status = IF row.stock = 0 /\ @ = "ACTIVE" THEN "OUT_OF_STOCK" ELSE @]

\* "Keep the status honest": stock and status are brought in line.
Honest(row) ==
    [row EXCEPT !.status = IF row.stock = 0 /\ @ = "ACTIVE" THEN "OUT_OF_STOCK"
                           ELSE IF row.stock > 0 /\ @ = "OUT_OF_STOCK" THEN "ACTIVE"
                           ELSE @]

Patched(row, patch) ==
    Honest([stock  |-> IF patch.stock = Unset THEN row.stock ELSE patch.stock,
            status |-> IF patch.status = Unset THEN row.status ELSE patch.status])

\* archive_product; Honest leaves the status it sets alone.
Archive == [stock |-> Unset, status |-> "ARCHIVED"]

BeginEdit(t, p, patch) ==
    /\ Patched(committed[Product(p)], patch) # committed[Product(p)]
    /\ Begin(t, "edit", [item |-> p, patch |-> patch], {Product(p)})

\* The UPDATE names only the columns that differ from what the request read.
EditProduct(t) ==
    LET r == Product(req[t].item)
        old == seen[t][r]
        new == Patched(old, req[t].patch)
    IN  /\ pc[t] = "edit"
        /\ WriteRows(t, [x \in {r} |->
                [stock  |-> IF new.stock = old.stock THEN db[r].stock ELSE new.stock,
                 status |-> IF new.status = old.status THEN db[r].status ELSE new.status]])
        /\ Finish(t)
        /\ UNCHANGED <<outbox, notices>>

-----------------------------------------------------------------------------
(* Waiting for row locks. *)

\* The row the next step of t has to lock, if any.
Wants(t) ==
    CASE pc[t] = "lock"    -> {Product(NextProduct(t))}
      [] pc[t] = "queue"   -> {EmptyNumber}
      [] pc[t] = "place"   -> {Cart(req[t].client)}
      [] pc[t] = "restock" -> {Product(req[t].item)}
      [] pc[t] = "mark"    -> {Line(req[t].order, req[t].item)}
      [] pc[t] = "rollup"  -> IF OrderDiffers(t) THEN {Order(req[t].order)} ELSE {}
      [] pc[t] = "edit"    -> {Product(req[t].item)}
      [] OTHER             -> {}

\* Two who share the lock of the entry '' wait for each other to insert theirs.
\* (One who is still at "insert" may wait for them, but holds nothing they want.)
Clashes ==
    {w \in Txns \X Txns : /\ w[1] # w[2]
                           /\ pc[w[1]] = "queue" /\ pc[w[2]] = "queue"
                           /\ owner[EmptyNumber] = Nobody}

WaitsFor ==
    {w \in Txns \X Txns : w[1] # w[2] /\ \E r \in Wants(w[1]) : owner[r] = w[2]} \cup Clashes

DeadlockVictim(t) == OnCycle(t, WaitsFor) /\ Rollback(t)

-----------------------------------------------------------------------------

\* A request arrives.
Arrive(t) ==
    \/ \E c \in Clients : BeginCheckout(t, c)
    \/ \E o \in OrderIds, p \in Products, m \in VendorMoves : BeginAdvance(t, o, p, m)
    \/ BuyerCancels /\ \E o \in OrderIds, p \in Products : BeginCancel(t, o, p)
    \/ \E p \in Products, e \in Edits : BeginEdit(t, p, e)

\* A request in progress takes its next step.
Serve(t) == \/ LockProduct(t) \/ FindNumber(t) \/ InsertOrder(t)
            \/ PlaceOrder(t) \/ RefuseCheckout(t)
            \/ Restock(t) \/ Mark(t) \/ SetOrderStatus(t)
            \/ EditProduct(t)
Step(t) == Serve(t) \/ Commit(t)

Next == \E t \in Txns : Arrive(t) \/ Step(t) \/ Abort(t) \/ DeadlockVictim(t)

Spec == Init /\ [][Next]_vars

\* InnoDB queues the requests for a row lock, so a step that is possible again
\* and again is taken, and it looks for circles of waits whenever one closes.
\* Nothing makes a request arrive or fail.
Fairness == \A t \in Txns : SF_vars(Step(t)) /\ WF_vars(DeadlockVictim(t))

LiveSpec == Spec /\ Fairness
=============================================================================
