--------------------------- MODULE CartProperties ---------------------------
(***************************************************************************)
(* What is asked of Carts.                                                 *)
(***************************************************************************)
EXTENDS Carts, OrderProperties

\* The cart quantities that were checked against the stock stay within it, when
\* two tabs of one client add to the same item at once too (nothing is put back
\* on the shelves here).
CartWithinStock ==
    \A c \in Clients : \A p \in ItemsOf(committed[Cart(c)]) : committed[Cart(c)][p].qty <= Shelf[p]

\* The orders of a client that a step commits.
NewOrders(c) ==
    {o \in OrderIds : /\ committed[Order(o)] = NoRow
                      /\ committed'[Order(o)] # NoRow
                      /\ committed'[Order(o)].client = c}

\* An item that leaves the cart with a checkout is on its order: one that another
\* tab put there after the cart was read is still there afterwards.  (An item
\* whose quantity was raised after that is taken as it is and ordered as it was.)
ItemsTakenAreOrdered ==
    [][\A c \in Clients : \A o \in NewOrders(c), p \in Products :
        /\ InCart(committed[Cart(c)], p)
        /\ ~InCart(committed'[Cart(c)], p)
        => committed'[Line(o, p)] # NoRow]_vars

-----------------------------------------------------------------------------
(* The inductive invariant behind ItemsTakenAreOrdered. *)

AskReq == [client : Clients, item : Products, qty : Nat]
DropReq == [client : Clients, items : SUBSET Products]

\* What a request on a cart relies on: the cart it read, or has just made, is there.
CartRequestOK(t) ==
    LET r == Cart(req[t].client)
    IN  /\ pc[t] \in {"create", "reread", "put"} => req[t] \in AskReq
        /\ pc[t] = "drop" => req[t] \in DropReq
        /\ pc[t] \in {"create", "put"} => seen[t][Product(req[t].item)] \in ProductRow
        /\ pc[t] \in {"put", "drop"} => /\ SeenCart(t) \in CartRow
                                        /\ db[r] # NoRow
                                        /\ committed[r] # NoRow \/ owner[r] = t

\* Who holds a cart has written it last, save a request that has just made it.
CartHolder(c) == \A t \in Txns : owner[Cart(c)] = t => pc[t] \in {"put", "commit"}

\* An order that is inserted and not committed.
Pending(o) == db[Order(o)] # NoRow /\ committed[Order(o)] = NoRow

\* Its checkout is over but for the commit, and holds the cart it has emptied.
PendingOK(o) ==
    Pending(o) =>
        LET c == db[Order(o)].client
        IN  /\ owner[Cart(c)] = owner[Order(o)]
            /\ \A t \in Txns : owner[Order(o)] = t => pc[t] = "commit"
            /\ \A p \in Products : InCart(committed[Cart(c)], p) /\ ~InCart(db[Cart(c)], p)
                                      => db[Line(o, p)] # NoRow

CartInv ==
    /\ \A t \in Txns : CartRequestOK(t)
    /\ \A c \in Clients : CartHolder(c)
    /\ \A o \in OrderIds : PendingOK(o)

-----------------------------------------------------------------------------
(* The inductive invariant behind OnlyNumbersClash, while nothing is called   *)
(* off: a cancellation holds a product while it waits for the next.          *)

NothingRestocks == "CANCELLED" \notin VendorMoves /\ ~BuyerCancels

\* A checkout has locked products of its basket, and those before all the others.
LocksInOrder(t) ==
    /\ InBasket(t) \ Locked(t) # {}
    /\ Locked(t) \subseteq InBasket(t)
    /\ \A p \in Locked(t), q \in InBasket(t) \ Locked(t) : p < q

\* What a request holds while it waits, and that orders are held by none that does.
WaitsOK(t) ==
    /\ pc[t] # "restock"
    /\ pc[t] = "mark" => req[t].todo = {req[t].item}
    /\ pc[t] \in {"mark", "edit"} => \A r \in Rows : owner[r] # t
    /\ pc[t] = "lock" => LocksInOrder(t)
    /\ \A o \in OrderIds : owner[Order(o)] = t => pc[t] = "commit"
    /\ owner[EmptyNumber] = t => pc[t] \in {"place", "commit"}

WaitsInv == \A t \in Txns : WaitsOK(t)

-----------------------------------------------------------------------------
(* The shop while nothing comes back on the shelves, where Storefront has    *)
(* only Place to offer and stock is what it was at the start, or less.       *)

NoReturns == NothingRestocks /\ \A e \in Edits : e.stock = Unset

CartsFit == \A c \in Clients, p \in Products : Carts[c] # NoRow => Carts[c][p] <= Shelf[p]

\* No request gives units back.
NothingReturns(t) ==
    /\ pc[t] # "restock"
    /\ pc[t] \in {"mark", "rollup"} => req[t].move # "CANCELLED"
    /\ pc[t] = "mark" => req[t].todo = {req[t].item}
    /\ pc[t] = "edit" => req[t].patch.stock = Unset

\* No version of a product or of a cart asks for more than there was.
WithinShelf(rows) ==
    \A p \in Products :
        /\ rows[Product(p)].stock <= Shelf[p]
        /\ \A c \in Clients : rows[Cart(c)] # NoRow => rows[Cart(c)][p].qty <= Shelf[p]

\* Nor does a request that is to put an item into a cart.
AsksWithin(t) ==
    LET p == req[t].item
    IN  /\ pc[t] \in {"create", "put"} => seen[t][Product(p)].stock <= Shelf[p]
        /\ pc[t] = "put" /\ InCart(SeenCart(t), p) => req[t].qty <= Shelf[p]

ScarceInv ==
    /\ \A t \in Txns : NothingReturns(t) /\ AsksWithin(t)
    /\ WithinShelf(db) /\ WithinShelf(committed)

\* What a pending order has taken: of its products, which it holds, exactly the
\* units of its lines.  Its checkout has no other.
PendingSale(o) ==
    Pending(o) =>
        /\ \E p \in Products : db[Line(o, p)] # NoRow
        /\ \A p \in Products : db[Line(o, p)] # NoRow =>
              /\ db[Line(o, p)].qty > 0 /\ db[Line(o, p)].status # "CANCELLED"
              /\ owner[Product(p)] = owner[Order(o)]
              /\ db[Product(p)].stock = committed[Product(p)].stock - db[Line(o, p)].qty
        /\ \A n \in OrderIds : Pending(n) /\ owner[Order(n)] = owner[Order(o)] => n = o

\* Units leave the shelf with a pending order, and with nothing else.
TakenBySale(p) ==
    db[Product(p)].stock # committed[Product(p)].stock =>
        \E o \in OrderIds : /\ Pending(o) /\ db[Line(o, p)] # NoRow
                            /\ owner[Order(o)] = owner[Product(p)]

\* A committed line is sold, for good.
SoldForGood(o, p) ==
    committed[Line(o, p)] # NoRow =>
        /\ db[Line(o, p)].qty = committed[Line(o, p)].qty
        /\ db[Line(o, p)].status # "CANCELLED" /\ committed[Line(o, p)].status # "CANCELLED"

\* A checkout that has all its locks has something to buy.
SomethingToBuy(t) == pc[t] \in {"insert", "queue", "place"} => InBasket(t) # {}

SalesInv ==
    /\ \A t \in Txns : SomethingToBuy(t)
    /\ \A o \in OrderIds : PendingSale(o)
    /\ \A p \in Products : TakenBySale(p)
    /\ \A o \in OrderIds, p \in Products : SoldForGood(o, p)

-----------------------------------------------------------------------------
(* What a comment of the code says and the code does not keep. *)

\* "Someone else won the race; the re-read below picks up their row": the view
\* of a request whose cart was refused has a cart.
CartIsFound == \A t \in Txns : pc[t] = "reread" => SeenCart(t) # NoRow
=============================================================================
