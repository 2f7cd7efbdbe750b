-------------------------------- MODULE Carts --------------------------------
(***************************************************************************)
(* The cart a client fills and checks out (modules/orders/service.py, the  *)
(* section "Cart"), its requests among those of Orders.                    *)
(*                                                                         *)
(* A cart and its items are one row here.  Their own rows would let two    *)
(* requests of one client on different items overlap, which ends as if one *)
(* had run after the other.  A request for a cart holds nothing else while *)
(* it waits for it, so no circle of waits goes through one.                *)
(***************************************************************************)
EXTENDS Orders

CONSTANTS
    Shoppers,  \* the clients of the instance who change their carts
    Amounts,   \* the quantities its clients ask for
    MaxItems   \* how often a product is put into a cart anew

ASSUME CartsAssumption == Shoppers \subseteq Clients /\ Amounts \subseteq Nat \ {0} /\ MaxItems \in Nat

NoItem == [id |-> 0, qty |-> 0]
EmptyCart == [p \in Products |-> NoItem]

InCart(row, p) == row # NoRow /\ row[p].qty > 0
ItemsOf(row) == {p \in Products : InCart(row, p)}

-----------------------------------------------------------------------------
(* What is asked. *)

\* qty is what the item is to hold in the end.
Ask(c, p, n) == [client |-> c, item |-> p, qty |-> n]

\* Its quantity and the stock are those of the request's view.
Fits(product, n) == product.status = "ACTIVE" /\ n <= product.stock

\* add_to_cart.  Without a cart in its view, the request creates one before it
\* looks at the product.
BeginAdd(t, c, p, n) ==
    LET row == committed[Cart(c)]
        desired == n + IF InCart(row, p) THEN row[p].qty ELSE 0
    IN  /\ row # NoRow => /\ Fits(committed[Product(p)], desired)
                          /\ InCart(row, p) \/ row[p].id < MaxItems
        /\ Begin(t, IF row = NoRow THEN "create" ELSE "put",
                 Ask(c, p, desired), {Cart(c), Product(p)})

\* update_cart_item: whatever the product's status.
BeginSet(t, c, p, n) ==
    LET row == committed[Cart(c)]
    IN  /\ InCart(row, p)
        /\ n <= committed[Product(p)].stock
        /\ n # row[p].qty
        /\ Begin(t, "put", Ask(c, p, n), {Cart(c), Product(p)})

\* remove_cart_item, and clear_cart: some of the items a view shows.
BeginDrop(t, c, items) ==
    /\ items # {}
    /\ Begin(t, "drop", [client |-> c, items |-> items], {Cart(c)})

BeginRemove(t, c, p) == InCart(committed[Cart(c)], p) /\ BeginDrop(t, c, {p})
BeginClear(t, c) == BeginDrop(t, c, ItemsOf(committed[Cart(c)]))

-----------------------------------------------------------------------------
(* What is written. *)

\* INSERT INTO carts, in a savepoint.
CreateCart(t) ==
    LET r == Cart(req[t].client)
    IN  /\ pc[t] = "create"
        /\ db[r] = NoRow
        /\ WriteRows(t, [x \in {r} |-> EmptyCart])
        /\ seen' = [seen EXCEPT ![t][r] = EmptyCart]
        /\ pc' = [pc EXCEPT ![t] = "put"]
        /\ UNCHANGED <<req, outbox, notices>>

\* The unique index on client_id refuses it, and the error is swallowed.
CartTaken(t) ==
    LET r == Cart(req[t].client)
    IN  /\ pc[t] = "create"
        /\ Grantable(t, r)
        /\ db[r] # NoRow
        /\ pc' = [pc EXCEPT ![t] = "reread"]
        /\ UNCHANGED <<db, committed, owner, req, seen, outbox, notices>>

\* scalar_one of a query that still reads the request's view, which has no cart.
RereadFails(t) == pc[t] = "reread" /\ SeenCart(t) = NoRow /\ Rollback(t)

\* The item a request read is still there; or the one it did not read still is not.
AsRead(t) ==
    LET now == db[Cart(req[t].client)][req[t].item]
        then == SeenCart(t)[req[t].item]
    IN  IF then.qty > 0 THEN now.qty > 0 /\ now.id = then.id ELSE now.qty = 0

PutSlip(t, item) ==   \* quantity = quantity + n, on the latest version
    [item EXCEPT !.qty = @ + req[t].qty - SeenCart(t)[req[t].item].qty]

\* UPDATE ... SET quantity of the item that was read, or INSERT of a new one.
Put(t, item) ==
    [id  |-> IF SeenCart(t)[req[t].item].qty > 0 THEN item.id ELSE item.id + 1,
     qty |-> req[t].qty]

PutItem(t) ==
    LET r == Cart(req[t].client)
    IN  /\ pc[t] = "put"
        /\ Fits(seen[t][Product(req[t].item)], req[t].qty) \/ InCart(SeenCart(t), req[t].item)
        /\ AsRead(t)
        /\ WriteRows(t, [x \in {r} |-> [db[x] EXCEPT ![req[t].item] = Put(t, @)]])
        /\ Finish(t)
        /\ UNCHANGED <<outbox, notices>>

\* A new cart, and a product that does not fit; or a stale item: the UPDATE
\* meets no row (StaleDataError), or the INSERT the unique index of cart and product.
RefuseItem(t) ==
    /\ pc[t] = "put"
    /\ Grantable(t, Cart(req[t].client))
    /\ \/ ~InCart(SeenCart(t), req[t].item) /\ ~Fits(seen[t][Product(req[t].item)], req[t].qty)
       \/ ~AsRead(t)
    /\ Rollback(t)

\* DELETE of items by the ids the view showed; one that is gone by now is no error.
DropItems(t) ==
    LET r == Cart(req[t].client)
    IN  /\ pc[t] = "drop"
        /\ WriteRows(t, [x \in {r} |-> WithoutItems(db[x], req[t].items, SeenCart(t))])
        /\ Finish(t)
        /\ UNCHANGED <<outbox, notices>>

-----------------------------------------------------------------------------

CartArrive(t) ==
    \E c \in Shoppers :
        \/ \E p \in Products, n \in Amounts : BeginAdd(t, c, p, n) \/ BeginSet(t, c, p, n)
        \/ \E p \in Products : BeginRemove(t, c, p)
        \/ BeginClear(t, c)

CartServe(t) ==
    \/ CreateCart(t) \/ CartTaken(t) \/ RereadFails(t)
    \/ PutItem(t) \/ RefuseItem(t)
    \/ DropItems(t)

CartNext == Next \/ \E t \in Txns : CartArrive(t) \/ CartServe(t)

CartSpec == Init /\ [][CartNext]_vars
=============================================================================
