-------------------------- MODULE OrderProperties --------------------------
(***************************************************************************)
(* What is asked of Orders.                                                *)
(***************************************************************************)
EXTENDS Orders

\* Every variable has its type, and the request of a slot is one its step can serve.
CheckoutReq == [client : Clients]
LineReq == [order : OrderIds, item : Products, todo : SUBSET Products,
            move : VendorItemStatus, buyer : BOOLEAN]
EditReq == [item : Products,
            patch : [stock : Nat \cup {Unset}, status : ProductStatus \cup {Unset}]]

RowsOK(rows) ==
    /\ rows = [r \in Rows |-> rows[r]]
    /\ \A p \in Products : rows[Product(p)] \in ProductRow
    /\ \A c \in Clients : rows[Cart(c)] \in CartRow \cup {NoRow}
    /\ \A o \in OrderIds : rows[Order(o)] \in OrderRow \cup {NoRow}
    /\ \A o \in OrderIds, p \in Products : rows[Line(o, p)] \in LineRow \cup {NoRow}
    /\ \A k \in PaymentIds : rows[Payment(k)] \in PaymentRow \cup {NoRow}
    /\ rows[EmptyNumber] = NoRow

TypeOK ==
    /\ RowsOK(db)
    /\ RowsOK(committed)
    /\ owner \in [Rows -> Txns \cup {Nobody}]
    /\ pc \in [Txns -> {"idle", "lock", "insert", "queue", "place",
                        "restock", "mark", "rollup", "edit", "commit"}]
    /\ req \in [Txns -> CheckoutReq \cup LineReq \cup EditReq \cup {NoRow}]
    /\ \A t \in Txns : /\ pc[t] \in {"lock", "insert", "queue", "place"} => req[t] \in CheckoutReq
                       /\ pc[t] \in {"restock", "mark", "rollup"} => req[t] \in LineReq
                       /\ pc[t] = "edit" => req[t] \in EditReq
    /\ seen = [t \in Txns |-> [r \in Rows |-> seen[t][r]]]
    /\ outbox \in [Txns -> SUBSET Notice]
    /\ notices \subseteq Notice

-----------------------------------------------------------------------------
(* Safety under every interleaving. *)

\* Stock never goes negative, for readers of committed rows and for the
\* transaction at work alike: the row locks of checkout, the re-read under the
\* lock and the check of every line before the decrement.
StockNeverNegative ==
    \A p \in Products : db[Product(p)].stock >= 0 /\ committed[Product(p)].stock >= 0

\* Units of a product that an order's line holds, unless the line is cancelled;
\* and those of all orders, as far as they are committed.
UnitsIn(rows, o, p) == IF p \in LiveLines(rows, o) THEN rows[Line(o, p)].qty ELSE 0
UnitsSold(o, p) == UnitsIn(committed, o, p)
Held(p) == SumFunction([o \in OrderIds |-> UnitsSold(o, p)])

\* No unit is lost: what is on the shelf and what live lines hold is at least what
\* there was, whatever is refused, rolled back or cancelled.  (That it is no more,
\* either, is StockConserved.)
NoUnitsLost == \A p \in Products : committed[Product(p)].stock + Held(p) >= Shelf[p]

\* Cancelling gives a line's units back once: shelf and live lines always add
\* up to what there was (_restock, cancel_order, update_vendor_item_status).
StockConserved == \A p \in Products : committed[Product(p)].stock + Held(p) = Shelf[p]

\* "Keep the status honest": a product whose status and stock agree (no product for
\* sale without units, nor the reverse) never comes to disagree.  A vendor may create
\* one that disagrees from the start.
HonestRow(row) == /\ row.status = "ACTIVE" => row.stock > 0
                  /\ row.status = "OUT_OF_STOCK" => row.stock = 0
StaysHonest ==
    [][\A p \in Products : HonestRow(committed[Product(p)]) => HonestRow(committed'[Product(p)])]_vars

\* "Order.status stays what _roll_up_status derives from the vendor lines",
\* said once more from the other side: what each status tells of the lines.
RolledUpIn(rows, o) ==
    LET live == LiveLines(rows, o)
        status == rows[Order(o)].status
        In(S) == {p \in live : rows[Line(o, p)].status \in S}
    IN  rows[Order(o)] # NoRow =>
            /\ status = "CANCELLED" <=> live = {}
            /\ status = "FULFILLED" <=> live # {} /\ In({"READY"}) = live
            /\ status = "PENDING" <=> live # {} /\ In({"PENDING"}) = live
            /\ status = "CONFIRMED" <=> In({"READY"}) # live /\ In({"CONFIRMED", "READY"}) # {}
RolledUp(o) == RolledUpIn(committed, o)
StatusMatchesLines == \A o \in OrderIds : RolledUp(o)

\* The same for orders of one line, where the lock of that line puts the
\* roll-ups of racing requests in the order of their writes.
SingleLineStatus == \A o \in OrderIds : Cardinality(LinesOf(committed, o)) = 1 => RolledUp(o)

\* What a version of a line calls for has been said.
Informed(rows, o, p, said) ==
    LET s == rows[Line(o, p)].status
    IN  /\ PaymentsEnabled \/ Announced(o, VendorOf[p]) \in said
        /\ \/ s = "PENDING"
           \/ Moved(o, p, s) \in said
           \/ s = "CANCELLED" /\ CalledOff(o, p) \in said

\* Whoever did not make a change is told of it: the vendors of an order that is
\* placed (unless its payment announces it), the buyer of what a vendor did to a
\* line, the vendor of a line the buyer called off.
EveryoneInformed ==
    \A o \in OrderIds : \A p \in LinesOf(committed, o) : Informed(committed, o, p, notices)

\* One cart becomes one order: no client is sold more of a product than the
\* cart held.
OrderedIn(rows, o, c, p) == IF /\ rows[Order(o)] # NoRow
                               /\ rows[Order(o)].client = c
                               /\ p \in LinesOf(rows, o)
                            THEN rows[Line(o, p)].qty ELSE 0
Ordered(rows, c, p) == SumFunction([o \in OrderIds |-> OrderedIn(rows, o, c, p)])
AtFirst(c, p) == IF Carts[c] = NoRow THEN 0 ELSE Carts[c][p]
CartSoldOnce == \A c \in Clients, p \in Products : Ordered(committed, c, p) <= AtFirst(c, p)

\* While nothing is called off, sorted locks of products close no circle of waits,
\* neither among themselves nor with the cart, the lines or the orders of anyone:
\* whoever waits in a circle is a checkout at the entry '' of the index on
\* order_number, where circles do close.
OnlyNumbersClash == \A t \in Txns : OnCycle(t, WaitsFor) => pc[t] = "queue"

-----------------------------------------------------------------------------
(* Action properties. *)

\* A committed line moves only as _VENDOR_TRANSITIONS allows, or is called off
\* by its buyer; in particular nothing revives a cancelled line.
LegalMoves == {<<"PENDING", "CONFIRMED">>, <<"CONFIRMED", "READY">>}
              \cup {"PENDING", "CONFIRMED", "READY"} \X {"CANCELLED"}
Follows(old, new) ==
    new # old => IF old = NoRow THEN new.status = "PENDING"
                 ELSE new.qty = old.qty /\ <<old.status, new.status>> \in LegalMoves
LineLifecycle ==
    [][\A o \in OrderIds, p \in Products : Follows(committed[Line(o, p)], committed'[Line(o, p)])]_vars

\* A committed order that is cancelled or fulfilled stays so.
Closed(row) == row # NoRow /\ row.status \in {"CANCELLED", "FULFILLED"}
ClosedStaysClosed ==
    [][\A o \in OrderIds : Closed(committed[Order(o)]) => committed'[Order(o)] = committed[Order(o)]]_vars

-----------------------------------------------------------------------------
(* Refinement. *)

\* The committed rows as a Storefront.
Shop == INSTANCE Storefront WITH
    shelf <- [p \in Products |-> committed[Product(p)].stock],
    sold <- [o \in OrderIds |-> [p \in Products |-> UnitsSold(o, p)]],
    placed <- {o \in OrderIds : committed[Order(o)] # NoRow}

ImplementsStorefront == Shop!Spec

-----------------------------------------------------------------------------
(* The inductive invariant behind TypeOK and StockNeverNegative. *)

\* Rows are not deleted once they are committed (carts are emptied, not dropped).
RowsKept == \A r \in Rows : committed[r] # NoRow => db[r] # NoRow

\* A line comes with its order: held by the checkout that inserts both, or
\* committed with it (order_items.order_id); no line is added later.
LinesHaveOrders ==
    \A o \in OrderIds, p \in Products :
        /\ committed[Line(o, p)] # NoRow => committed[Order(o)] # NoRow
        /\ db[Line(o, p)] # NoRow =>
              /\ db[Order(o)] # NoRow
              /\ IF committed[Order(o)] = NoRow
                 THEN owner[Order(o)] = owner[Line(o, p)]
                 ELSE committed[Line(o, p)] # NoRow

\* What a checkout's session holds: the cart, its products and, of those it has
\* locked, the latest version.
CheckoutReads(t) ==
    /\ SeenCart(t) \in CartRow
    /\ committed[Cart(req[t].client)] # NoRow
    /\ \A p \in InBasket(t) : seen[t][Product(p)] \in ProductRow
    /\ \A p \in InBasket(t) : owner[Product(p)] = t => seen[t][Product(p)] = db[Product(p)]
    /\ pc[t] # "lock" => \A p \in InBasket(t) : owner[Product(p)] = t

\* What the session of an advance or a cancellation holds.
LineReads(t) ==
    /\ committed[Order(req[t].order)] # NoRow
    /\ pc[t] # "rollup" => req[t].item \in req[t].todo
    /\ \A p \in req[t].todo : /\ seen[t][Line(req[t].order, p)] \in LineRow
                               /\ committed[Line(req[t].order, p)] # NoRow

\* What a request relies on, by the step it is at.  The requests of Carts and
\* Payments, which are at other steps, take nothing from it but the first line.
RequestOK(t) ==
    /\ pc[t] = "idle" => \A r \in Rows : owner[r] # t
    /\ pc[t] \in {"lock", "insert", "queue", "place"} => req[t] \in CheckoutReq /\ CheckoutReads(t)
    /\ pc[t] \in {"restock", "mark", "rollup"} => req[t] \in LineReq /\ LineReads(t)
    /\ pc[t] = "edit" => req[t] \in EditReq /\ seen[t][Product(req[t].item)] \in ProductRow

StoreInv ==
    /\ RowsOK(db)
    /\ RowsOK(committed)
    /\ owner \in [Rows -> Txns \cup {Nobody}]
    /\ StockNeverNegative
    /\ UnlockedIsCommitted
    /\ RowsKept
    /\ LinesHaveOrders

\* Every slot has a step, a request and a session.
SlotsOK ==
    /\ pc = [t \in Txns |-> pc[t]]
    /\ req = [t \in Txns |-> req[t]]
    /\ seen = [t \in Txns |-> [r \in Rows |-> seen[t][r]]]

RequestsInv == SlotsOK /\ \A t \in Txns : RequestOK(t)

\* What every request on orders keeps, whatever other requests run beside it.
OrderInv == StoreInv /\ RequestsInv

IInv == TypeOK /\ OrderInv

-----------------------------------------------------------------------------
(* The inductive invariant behind NoUnitsLost, while vendors do not overwrite *)
(* the stock: what a request has done to the units of a product, by the step  *)
(* it is at.                                                                  *)

NoStockEdits == \A e \in Edits : e.stock = Unset

\* Units t has put on the shelf, and those it has put into a line, uncommitted.
Shelved(t, p) ==
    IF owner[Product(p)] = t THEN db[Product(p)].stock - committed[Product(p)].stock ELSE 0
Lined(t, o, p) ==
    IF owner[Line(o, p)] = t THEN UnitsIn(db, o, p) - UnitsIn(committed, o, p) ELSE 0

NoneLost(t, p) == Shelved(t, p) + SumFunction([o \in OrderIds |-> Lined(t, o, p)]) >= 0

NoLine(t, p) == \A o \in OrderIds : owner[Line(o, p)] # t

\* A line that is still to be called off or moved: its units are put back before
\* it is cancelled, and are those of its row, though they were read in a view.
ToMark(t, p) ==
    LET l == Line(req[t].order, p)
    IN  /\ NoLine(t, p)
        /\ seen[t][l].qty = committed[l].qty
        /\ Shelved(t, p) = IF pc[t] = "mark" /\ p = req[t].item /\ req[t].move = "CANCELLED"
                           THEN seen[t][l].qty ELSE 0

BalanceOK(t) ==
    /\ pc[t] = "restock" => req[t].move = "CANCELLED"
    /\ pc[t] = "mark" /\ req[t].move # "CANCELLED" => req[t].todo = {req[t].item}
    /\ pc[t] = "edit" => req[t].patch.stock = Unset
    /\ \A p \in Products :
          CASE pc[t] \in {"restock", "mark"} -> IF p \in req[t].todo THEN ToMark(t, p) ELSE NoneLost(t, p)
            [] pc[t] \in {"rollup", "commit"} -> NoneLost(t, p)
            [] OTHER -> NoLine(t, p) /\ Shelved(t, p) = 0

\* The quantity of a line never changes.
QtyKept ==
    \A o \in OrderIds, p \in Products :
        committed[Line(o, p)] # NoRow => db[Line(o, p)].qty = committed[Line(o, p)].qty

UnitsInv == QtyKept /\ NoUnitsLost /\ \A t \in Txns : BalanceOK(t)

-----------------------------------------------------------------------------
(* The inductive invariant behind EveryoneInformed: what a request has done  *)
(* to lines, it is about to say.                                             *)

NewsOK(t) ==
    /\ pc[t] \in {"restock", "mark"} /\ req[t].buyer => req[t].move = "CANCELLED"
    /\ \A o \in OrderIds, p \in Products :
          owner[Line(o, p)] = t => /\ pc[t] \in {"restock", "mark", "rollup", "commit"}
                                   /\ Informed(db, o, p, notices \cup outbox[t])

NewsInv == EveryoneInformed /\ \A t \in Txns : NewsOK(t)

-----------------------------------------------------------------------------
(* The inductive invariant behind SingleLineStatus.                          *)

\* The status an order takes from its only line.
StatusOf(s) == IF s = "READY" THEN "FULFILLED" ELSE s

\* Who holds the line of an order, or the order, is about to bring the two in
\* line or has done so; and who moves the line read an order that it changes.
StatusRequestOK(t, o, p) ==
    LET r == Line(o, p)
    IN  /\ owner[Order(o)] = t => pc[t] = "commit" /\ owner[r] = t
        /\ owner[r] = t => \/ pc[t] = "rollup" /\ req[t].order = o
                           \/ /\ pc[t] = "commit" /\ owner[Order(o)] = t
                              /\ db[Order(o)].status = StatusOf(db[r].status)
        /\ pc[t] \in {"restock", "mark", "rollup"} /\ req[t].order = o =>
              /\ LinesOf(seen[t], o) = {p}
              /\ req[t].buyer => req[t].move = "CANCELLED"
              /\ seen[t][Order(o)].status # StatusOf(req[t].move)
              /\ IF pc[t] = "rollup"
                 THEN owner[r] = t /\ seen[t][r].status = req[t].move /\ db[r].status = req[t].move
                 ELSE req[t].todo = {p}

\* An order that is not committed is as the checkout made it.
AsPlaced(o) ==
    committed[Order(o)] = NoRow =>
        /\ db[Order(o)] # NoRow => db[Order(o)].status = "PENDING"
        /\ \A p \in LinesOf(db, o) : db[Line(o, p)].status = "PENDING"

StatusInv ==
    \A o \in OrderIds :
        /\ AsPlaced(o)
        /\ \A p \in Products :
              LinesOf(committed, o) = {p} =>
                 /\ committed[Order(o)].status = StatusOf(committed[Line(o, p)].status)
                 /\ \A t \in Txns : StatusRequestOK(t, o, p)

-----------------------------------------------------------------------------
(* The inductive invariants behind the properties of one request at a time.  *)

OneSlot == \A t, u \in Txns : t = u

\* Behind StaysHonest, which no other request breaks: an edit works on the
\* product as it is.
EditReads(t) ==
    pc[t] = "edit" => Edits # {} /\ seen[t][Product(req[t].item)] = db[Product(req[t].item)]

HonestInv ==
    /\ \A p \in Products : HonestRow(committed[Product(p)]) => HonestRow(db[Product(p)])
    /\ \A t \in Txns : EditReads(t)

\* Behind CartSoldOnce: what is ordered and what is still in the cart.
Wanted(rows, c, p) == IF rows[Cart(c)] = NoRow THEN 0 ELSE rows[Cart(c)][p].qty
InBooks(rows, c, p) == Ordered(rows, c, p) + Wanted(rows, c, p) <= AtFirst(c, p)
CartReads(t) == pc[t] \in {"lock", "insert", "queue", "place"} => SeenCart(t) = db[Cart(req[t].client)]

BooksInv ==
    /\ \A c \in Clients, p \in Products : InBooks(committed, c, p) /\ InBooks(db, c, p)
    /\ \A t \in Txns : CartReads(t)

\* Behind the other three: an advance or a cancellation sees the lines of its
\* order as they are, moves none twice, and ends with the status they call for.
AsCommitted(r) == db[r] = committed[r]

MoveOK(t) ==
    LET o == req[t].order
    IN  /\ \A n \in OrderIds : AsCommitted(Order(n))
        /\ \A n \in OrderIds \ {o}, p \in Products : AsCommitted(Line(n, p))
        /\ \A p \in Products : seen[t][Line(o, p)] = db[Line(o, p)]
        /\ seen[t][Order(o)] = committed[Order(o)]
        /\ ~Closed(committed[Order(o)])
        /\ \A p \in req[t].todo : /\ AsCommitted(Line(o, p))
                                  /\ <<committed[Line(o, p)].status, req[t].move>> \in LegalMoves
        /\ pc[t] = "rollup" => req[t].todo = {}
        /\ req[t].buyer => req[t].move = "CANCELLED" /\ LiveLines(db, o) \subseteq req[t].todo

SerialOK(t) ==
    /\ pc[t] \in {"lock", "insert", "queue", "place", "edit"} =>
          /\ \A o \in OrderIds : AsCommitted(Order(o))
          /\ \A o \in OrderIds, p \in Products : AsCommitted(Line(o, p))
    /\ pc[t] \in {"insert", "queue", "place"} => InBasket(t) # {}
    /\ pc[t] \in {"restock", "mark", "rollup"} => MoveOK(t)
    /\ pc[t] = "commit" => \A o \in OrderIds : RolledUpIn(db, o)

SerialInv ==
    /\ StatusMatchesLines
    /\ \A o \in OrderIds : Closed(committed[Order(o)]) => AsCommitted(Order(o))
    /\ \A o \in OrderIds, p \in Products : Follows(committed[Line(o, p)], db[Line(o, p)])
    /\ \A t \in Txns : SerialOK(t)
=============================================================================
