------------------------------ MODULE CartProofs ------------------------------
(***************************************************************************)
(* The safety properties of Carts, for all clients, products, carts and    *)
(* numbers of slots; and what Orders promises, beside them.                *)
(***************************************************************************)
EXTENDS CartProperties, OrderProofs

-----------------------------------------------------------------------------
(* What a step of one slot leaves to the others. *)

\* No order becomes pending, and the checkout that ends is not pending any more.
StaysPending(t) == \A o \in OrderIds : Pending(o)' => Pending(o) /\ owner[Order(o)] # t

\* The step of t keeps away from the rows and the slots of the others.
Apart(t) ==
    /\ OthersUntouched(t)
    /\ Others(Rows, t)
    /\ Frame(t)

LEMMA OthersAsk ==
    ASSUME OrderInv, StoreInv', NEW t \in Txns, NEW u \in Txns \ {t}, Apart(t), CartRequestOK(u)
    PROVE  CartRequestOK(u)'
  <1>1. pc'[u] = pc[u] /\ req'[u] = req[u] /\ seen'[u] = seen[u]
    BY DEF Apart, OthersUntouched
  <1>2. CASE pc[u] \in {"put", "drop"}
    <2> DEFINE r == Cart(req[u].client)
    <2>1. r \in Rows
      BY <1>2, RowKinds DEF CartRequestOK, AskReq, DropReq
    <2>2. /\ db[r] # NoRow
          /\ committed[r] # NoRow \/ owner[r] = u
      BY <1>2 DEF CartRequestOK
    <2>3. CASE committed[r] # NoRow
      <3>1. committed'[r] # NoRow /\ db'[r] # NoRow
        BY <2>1, <2>3 DEF Apart, Frame, StoreInv, RowsKept
      <3> QED
        BY <1>1, <1>2, <3>1 DEF CartRequestOK, SeenCart
    <2>4. CASE owner[r] = u
      <3>1. owner'[r] = u /\ db'[r] = db[r]
        BY <2>1, <2>4, NobodyIsNoTxn DEF Apart, Others
      <3> QED
        BY <1>1, <1>2, <2>2, <3>1 DEF CartRequestOK, SeenCart
    <2> QED
      BY <2>2, <2>3, <2>4
  <1>3. CASE pc[u] \notin {"put", "drop"}
    BY <1>1, <1>3 DEF CartRequestOK
  <1> QED
    BY <1>2, <1>3

\* What a pending order relies on is held by its checkout.
LEMMA PendingStays ==
    ASSUME OrderInv, CartInv, NEW t \in Txns, Apart(t), NEW o \in OrderIds,
           Pending(o)' => Pending(o) /\ owner[Order(o)] # t
    PROVE  PendingOK(o)'
  <1> SUFFICES ASSUME Pending(o)' PROVE PendingOK(o)'
    BY DEF PendingOK
  <1> DEFINE w == owner[Order(o)]
             c == db[Order(o)].client
  <1>1. Pending(o) /\ w # t /\ PendingOK(o) /\ StoreInv
    BY DEF CartInv, OrderInv
  <1>2. Order(o) \in Rows /\ db[Order(o)] \in OrderRow
    BY <1>1, RowKinds DEF StoreInv, RowsOK, Pending
  <1>3. c \in Clients /\ Cart(c) \in Rows
    BY <1>2, RowKinds DEF OrderRow
  <1>4. w # Nobody /\ w \in Txns
    BY <1>1, <1>2 DEF StoreInv, UnlockedIsCommitted, RowsOK, Pending
  <1>5. \A r \in Rows : owner[r] = w => owner'[r] = w /\ db'[r] = db[r] /\ committed'[r] = committed[r]
    BY <1>1, <1>4 DEF Apart, Others
  <1>6. db'[Order(o)] = db[Order(o)] /\ owner'[Order(o)] = w
    BY <1>2, <1>5
  <1>7. /\ owner'[Cart(c)] = w /\ db'[Cart(c)] = db[Cart(c)]
        /\ committed'[Cart(c)] = committed[Cart(c)]
    BY <1>1, <1>3, <1>5 DEF PendingOK
  <1>8. pc[w] = "commit" /\ pc'[w] = "commit"
    BY <1>1, <1>4 DEF PendingOK, Apart, OthersUntouched
  <1>9. ASSUME NEW p \in Products, InCart(committed[Cart(c)], p)', ~InCart(db[Cart(c)], p)'
        PROVE  db'[Line(o, p)] # NoRow
    <2>1. InCart(committed[Cart(c)], p) /\ ~InCart(db[Cart(c)], p)
      BY <1>6, <1>7, <1>9 DEF InCart
    <2>2. db[Line(o, p)] # NoRow
      BY <1>1, <2>1 DEF PendingOK
    <2>3. owner[Line(o, p)] = w
      BY <1>1, <2>2 DEF StoreInv, LinesHaveOrders, Pending
    <2> QED
      BY <1>5, <2>2, <2>3, RowKinds
  <1> QED
    BY <1>6, <1>7, <1>8, <1>9 DEF PendingOK

\* Only a request that is to put an item or to commit has come to hold a cart.
LEMMA HolderStays ==
    ASSUME CartInv, OrderInv, NEW t \in Txns, Apart(t), NEW c \in Clients,
           owner'[Cart(c)] = t => pc'[t] \in {"put", "commit"}
    PROVE  CartHolder(c)'
  <1>1. CartHolder(c) /\ Cart(c) \in Rows
    BY RowKinds DEF CartInv
  <1>2. ASSUME NEW u \in Txns \ {t}, owner'[Cart(c)] = u PROVE pc'[u] \in {"put", "commit"}
    BY <1>1, <1>2, NobodyIsNoTxn DEF Apart, Others, OthersUntouched, CartHolder
  <1> QED
    BY <1>2 DEF CartHolder

\* A step that makes no order pending.
LEMMA StepKeepsCarts ==
    ASSUME OrderInv, OrderInv', CartInv, NEW t \in Txns, Apart(t), StaysPending(t),
           \A c \in Clients : owner'[Cart(c)] = t => pc'[t] \in {"put", "commit"},
           CartRequestOK(t)'
    PROVE  CartInv'
  <1>1. \A u \in Txns \ {t} : CartRequestOK(u)'
    BY OthersAsk DEF CartInv, OrderInv
  <1>2. \A c \in Clients : CartHolder(c)'
    BY HolderStays
  <1>3. \A o \in OrderIds : PendingOK(o)'
    BY PendingStays DEF StaysPending
  <1> QED
    BY <1>1, <1>2, <1>3 DEF CartInv

-----------------------------------------------------------------------------
(* The steps of Orders. *)

\* A request before its commit inserts no order, save a checkout.
LEMMA SilentStep ==
    ASSUME CartInv, NEW t \in Txns, pc[t] # "commit", committed' = committed,
           \A o \in OrderIds : committed[Order(o)] # NoRow \/ db'[Order(o)] = db[Order(o)]
    PROVE  StaysPending(t)
  BY DEF StaysPending, Pending, CartInv, PendingOK

LEMMA ApartFrom ==
    ASSUME StoreInv', RowsKept, NEW t \in Txns, Others(Rows, t), OthersUntouched(t),
           committed' = committed
    PROVE  Apart(t)
  BY NobodyIsNoTxn DEF Apart, Frame, Others, RowsKept

LEMMA BeginKeepsCarts ==
    ASSUME OrderInv, OrderInv', CartInv, NEW t \in Txns, NEW next, NEW what, NEW rows,
           Begin(t, next, what, rows), CartRequestOK(t)'
    PROVE  CartInv'
  <1>1. /\ pc[t] = "idle" /\ OthersUntouched(t)
        /\ UNCHANGED <<db, committed, owner>>
        /\ \A r \in Rows : owner[r] # t
    BY BeginReads
  <1>2. Others(Rows, t)
    BY <1>1, RowsStored, IdleEffect DEF OrderInv
  <1>3. Apart(t)
    BY <1>1, <1>2, ApartFrom DEF OrderInv, StoreInv
  <1>4. StaysPending(t)
    BY <1>1, SilentStep
  <1> QED
    BY <1>1, <1>3, <1>4, RowKinds, StepKeepsCarts

\* What is asked of a request of Orders that is not at a step of Carts: nothing.
LEMMA ElsewhereAsksNothing ==
    ASSUME NEW t \in Txns, pc[t] \notin {"create", "reread", "put", "drop"} PROVE CartRequestOK(t)
  BY DEF CartRequestOK

LEMMA ArriveKeepsCarts ==
    ASSUME OrderInv, CartInv, NEW t \in Txns, Arrive(t)
    PROVE  CartInv'
  <1>1. OrderInv'
    BY ArriveKeeps
  <1>2. ASSUME NEW next \in {"lock", "restock", "mark", "rollup", "edit"}, NEW what, NEW rows,
               Begin(t, next, what, rows)
        PROVE  CartInv'
    <2>1. pc'[t] = next
      BY <1>2, BeginReads
    <2>2. CartRequestOK(t)'
      BY <2>1 DEF CartRequestOK
    <2> QED
      BY <1>1, <1>2, <2>2, BeginKeepsCarts
  <1>3. ASSUME NEW c \in Clients, BeginCheckout(t, c) PROVE CartInv'
    BY <1>2, <1>3 DEF BeginCheckout
  <1>4. ASSUME NEW o \in OrderIds, NEW p \in Products, NEW m \in VendorMoves, BeginAdvance(t, o, p, m)
        PROVE  CartInv'
    BY <1>2, <1>4 DEF BeginAdvance
  <1>5. ASSUME NEW o \in OrderIds, NEW p \in Products, BeginCancel(t, o, p) PROVE CartInv'
    BY <1>2, <1>5 DEF BeginCancel
  <1>6. ASSUME NEW p \in Products, NEW e \in Edits, BeginEdit(t, p, e) PROVE CartInv'
    BY <1>2, <1>6 DEF BeginEdit
  <1> QED
    BY <1>3, <1>4, <1>5, <1>6 DEF Arrive

\* The steps that lock or write rows, save the one that inserts an order, touch
\* no cart and no order that is not committed.
LEMMA WorksOffCarts ==
    ASSUME OrderInv, NEW t \in Txns, Works(t), ~PlaceOrder(t)
    PROVE  /\ \A c \in Clients : db'[Cart(c)] = db[Cart(c)] /\ owner'[Cart(c)] = owner[Cart(c)]
           /\ \A o \in OrderIds : committed[Order(o)] # NoRow \/ db'[Order(o)] = db[Order(o)]
           /\ \A o \in OrderIds, p \in Products : db[Line(o, p)] = NoRow => db'[Line(o, p)] = NoRow
  <1>1. CASE LockProduct(t)
    BY <1>1, LockProductEffect, RowKinds
  <1>2. CASE Restock(t)
    BY <1>2, RestockEffect, RowKinds DEF WritesOne
  <1>3. CASE Mark(t)
    <2>1. PICK row : WritesOne(t, Line(req[t].order, req[t].item), row)
      BY <1>3, MarkEffect
    <2>2. /\ req[t] \in LineReq /\ committed[Line(req[t].order, req[t].item)] # NoRow
          /\ RowsKept
      BY <1>3 DEF OrderInv, StoreInv, RequestsInv, RequestOK, Mark, LineReads
    <2>3. db[Line(req[t].order, req[t].item)] # NoRow
      BY <2>2, RowKinds DEF RowsKept, LineReq
    <2> QED
      BY <2>1, <2>3, RowKinds DEF WritesOne
  <1>4. CASE SetOrderStatus(t)
    <2>1. committed[Order(req[t].order)] # NoRow
      BY <1>4 DEF OrderInv, RequestsInv, RequestOK, SetOrderStatus, LineReads
    <2>2. PICK row : \/ WritesOne(t, Order(req[t].order), row)
                     \/ UNCHANGED <<db, owner>>
      BY <1>4, SetOrderStatusEffect
    <2> QED
      BY <2>1, <2>2, RowKinds DEF WritesOne
  <1>5. CASE EditProduct(t)
    <2>1. PICK row : WritesOne(t, Product(req[t].item), row)
      BY <1>5, EditProductEffect
    <2> QED
      BY <2>1, RowKinds DEF WritesOne
  <1>6. CASE TakesNumber(t)
    BY <1>6, TakesNumberEffect, RowKinds
  <1> QED
    BY <1>1, <1>2, <1>3, <1>4, <1>5, <1>6 DEF Works

LEMMA WorksKeepCarts ==
    ASSUME OrderInv, OrderInv', CartInv, NEW t \in Txns, Works(t), ~PlaceOrder(t)
    PROVE  CartInv'
  <1>1. /\ pc[t] \in {"lock", "insert", "queue", "place", "restock", "mark", "rollup", "edit"}
        /\ pc'[t] \in {"lock", "insert", "queue", "place", "restock", "mark", "rollup", "commit"}
        /\ OthersUntouched(t) /\ Others(Rows, t) /\ committed' = committed
    BY WorksOnSlot, WorksOnOrders DEF OrderInv, RequestsInv, SlotsOK
  <1>2. Apart(t)
    BY <1>1, ApartFrom DEF OrderInv, StoreInv
  <1>3. StaysPending(t)
    BY <1>1, WorksOffCarts, SilentStep
  <1>4. \A c \in Clients : owner'[Cart(c)] # t
    BY <1>1, WorksOffCarts DEF CartInv, CartHolder
  <1>5. CartRequestOK(t)'
    BY <1>1 DEF CartRequestOK
  <1> QED
    BY <1>2, <1>3, <1>4, <1>5, StepKeepsCarts

\* The checkout that inserts an order has not held the cart before, so what it
\* takes from the cart's latest version is what it takes from the committed one.
LEMMA PlaceOrderKeepsCarts ==
    ASSUME OrderInv, OrderInv', CartInv, NEW t \in Txns, PlaceOrder(t)
    PROVE  CartInv'
  <1> DEFINE c == req[t].client
             written(o) == {Order(o), Cart(c)} \cup {Product(p) : p \in InBasket(t)}
                           \cup {Line(o, p) : p \in InBasket(t)}
  <1>1. PICK o \in Unused :
          /\ o \in OrderIds /\ committed[Order(o)] = NoRow /\ c \in Clients
          /\ \A r \in written(o) : owner[r] \in {t, Nobody} /\ owner'[r] = t
          /\ \A r \in Rows \ written(o) : db'[r] = db[r] /\ owner'[r] = owner[r]
          /\ db'[Order(o)] = [client |-> c, status |-> "PENDING"]
          /\ db'[Cart(c)] = Emptied(t, db[Cart(c)])
          /\ \A p \in InBasket(t) : db'[Line(o, p)] = [qty |-> Basket(t)[p], status |-> "PENDING"]
          /\ Others(Rows, t) /\ committed' = committed
    BY PlaceOrderEffect DEF Places
  <1>2. pc[t] = "place" /\ pc'[t] = "commit" /\ OthersUntouched(t)
    BY FinishKeeps DEF PlaceOrder, Finish, OrderInv, RequestsInv, SlotsOK
  <1>3. Apart(t)
    BY <1>1, <1>2, ApartFrom DEF OrderInv, StoreInv
  <1>4. \A u \in Txns : CartRequestOK(u)'
    <2>1. CartRequestOK(t)'
      BY <1>2 DEF CartRequestOK
    <2> QED
      BY <1>3, <2>1, OthersAsk DEF CartInv, OrderInv
  <1>5. \A d \in Clients : CartHolder(d)'
    BY <1>2, <1>3, HolderStays
  <1>6. ASSUME NEW n \in OrderIds \ {o} PROVE PendingOK(n)'
    <2>1. Order(n) \in Rows \ written(o)
      BY RowKinds
    <2>2. db'[Order(n)] = db[Order(n)]
      BY <1>1, <2>1
    <2>3. Pending(n)' => Pending(n) /\ owner[Order(n)] # t
      BY <1>1, <1>2, <2>2 DEF Pending, CartInv, PendingOK
    <2> QED
      BY <1>3, <2>3, PendingStays
  <1>7. PendingOK(o)'
    <2>1. owner[Cart(c)] = Nobody
      BY <1>1, <1>2 DEF CartInv, CartHolder
    <2>2. db[Cart(c)] = committed[Cart(c)]
      BY <1>1, <2>1, RowKinds DEF OrderInv, StoreInv, UnlockedIsCommitted, RowsOK
    <2>3. ASSUME NEW p \in Products, InCart(committed[Cart(c)], p), ~InCart(db'[Cart(c)], p)
          PROVE  db'[Line(o, p)] # NoRow
      <3>1. db'[Cart(c)] = WithoutItems(committed[Cart(c)], InBasket(t), SeenCart(t))
        BY <1>1, <2>2 DEF Emptied
      <3>2. committed[Cart(c)] \in CartRow
        BY <1>1, <2>3 DEF InCart, OrderInv, StoreInv, RowsOK
      <3>3. WithoutItems(committed[Cart(c)], InBasket(t), SeenCart(t)) # NoRow
        BY <3>2, NoRowIsNoValue DEF WithoutItems, CartRow, Item
      <3>4. p \in InBasket(t)
        BY <2>3, <3>1, <3>3 DEF InCart, WithoutItems
      <3>5. Basket(t)[p] \in Nat
        BY <1>2 DEF OrderInv, RequestsInv, RequestOK, CheckoutReads, Basket, CartRow, Item
      <3>6. [qty |-> Basket(t)[p], status |-> "PENDING"] \in LineRow
        BY <3>5 DEF LineRow, VendorItemStatus
      <3> QED
        BY <1>1, <3>4, <3>6, NoRowIsNoValue
    <2>4. db'[Order(o)].client = c /\ owner'[Order(o)] = t /\ owner'[Cart(c)] = t
      BY <1>1
    <2> QED
      BY <1>1, <1>2, <2>3, <2>4 DEF PendingOK
  <1> QED
    BY <1>4, <1>5, <1>6, <1>7 DEF CartInv

LEMMA RollbackKeepsCarts ==
    ASSUME OrderInv, CartInv, NEW t \in Txns, Rollback(t)
    PROVE  CartInv'
  <1>1. OrderInv'
    BY RollbackKeeps
  <1>2. /\ Others(Rows, t) /\ committed' = committed
        /\ \A r \in Rows : db'[r] = IF owner[r] = t THEN committed[r] ELSE db[r]
        /\ \A r \in Rows : owner'[r] # t
    BY RowsStored, RollbackEffect DEF Rollback, OrderInv
  <1>3. pc'[t] = "idle" /\ OthersUntouched(t)
    BY <1>2, ForgetKeeps DEF Rollback, Forget, OrderInv, RequestsInv, SlotsOK
  <1>4. Apart(t)
    BY <1>1, <1>2, <1>3, ApartFrom DEF OrderInv, StoreInv
  <1>5. StaysPending(t)
    BY <1>2, RowKinds DEF StaysPending, Pending
  <1>6. CartRequestOK(t)'
    BY <1>3 DEF CartRequestOK
  <1> QED
    BY <1>1, <1>2, <1>4, <1>5, <1>6, RowKinds, StepKeepsCarts

LEMMA CommitKeepsCarts ==
    ASSUME OrderInv, CartInv, NEW t \in Txns, Commit(t)
    PROVE  CartInv'
  <1>1. OrderInv'
    BY CommitKeeps
  <1>2. /\ Others(Rows, t) /\ db' = db
        /\ \A r \in Rows : committed'[r] = IF owner[r] = t THEN db[r] ELSE committed[r]
        /\ \A r \in Rows : owner'[r] # t
    BY RowsStored, CommitEffect DEF Commit, OrderInv
  <1>3. pc'[t] = "idle" /\ OthersUntouched(t)
    BY <1>2, ForgetKeeps DEF Commit, Forget, OrderInv, RequestsInv, SlotsOK
  <1>4. Apart(t)
    BY <1>3, <1>2, StoreCommit DEF Apart, OrderInv, Commit
  <1>5. StaysPending(t)
    BY <1>2, RowKinds DEF StaysPending, Pending, OrderInv, StoreInv, RowsKept
  <1>6. CartRequestOK(t)'
    BY <1>3 DEF CartRequestOK
  <1> QED
    BY <1>1, <1>2, <1>4, <1>5, <1>6, RowKinds, StepKeepsCarts

-----------------------------------------------------------------------------
(* The steps of Carts. *)

\* A step that writes nothing but one cart.
LEMMA CartWrite ==
    ASSUME OrderInv, NEW t \in Txns, NEW c \in Clients, NEW row \in CartRow,
           NEW new, new = [x \in {Cart(c)} |-> row], WriteRows(t, new),
           OthersUntouched(t)
    PROVE  /\ StoreInv' /\ WritesOne(t, Cart(c), row) /\ committed' = committed
           /\ Apart(t)
  <1>1. WritesOK(new)
    BY RowKinds DEF WritesOK
  <1>2. StoreInv' /\ Frame(t)
    BY <1>1, StoreWrite DEF OrderInv
  <1>3. WritesOne(t, Cart(c), row) /\ Others(Rows, t) /\ committed' = committed
    BY OneRowEffect DEF OrderInv
  <1> QED
    BY <1>2, <1>3 DEF Apart

\* It leaves the request at another step of Carts, or at its commit.
LEMMA CartWriteKeeps ==
    ASSUME OrderInv, CartInv, NEW t \in Txns, NEW c \in Clients, NEW row,
           pc[t] \in {"create", "put", "drop"}, pc'[t] \in {"put", "commit"},
           StoreInv', SlotsOK', WritesOne(t, Cart(c), row), committed' = committed, Apart(t),
           CartRequestOK(t)'
    PROVE  OrderInv' /\ CartInv'
  <1>1. RequestOK(t)'
    BY DEF RequestOK
  <1>2. OrderInv'
    BY <1>1, StepKeeps DEF Apart
  <1>3. StaysPending(t)
    BY SilentStep, RowKinds DEF WritesOne
  <1> QED
    BY <1>2, <1>3, StepKeepsCarts

LEMMA EmptyCartIsCart == EmptyCart \in CartRow
  BY DEF EmptyCart, NoItem, CartRow, Item

LEMMA CreateCartKeeps ==
    ASSUME OrderInv, CartInv, NEW t \in Txns, CreateCart(t)
    PROVE  OrderInv' /\ CartInv'
  <1> DEFINE c == req[t].client
  <1>1. /\ pc[t] = "create" /\ req[t] \in AskReq /\ c \in Clients /\ Cart(c) \in Rows
        /\ seen[t][Product(req[t].item)] \in ProductRow
        /\ SlotsOK
    BY RowKinds DEF CreateCart, CartInv, CartRequestOK, AskReq, OrderInv, RequestsInv
  <1>2. PICK new : new = [x \in {Cart(c)} |-> EmptyCart]
    OBVIOUS
  <1>3. WriteRows(t, new)
    BY <1>2 DEF CreateCart
  <1>4. /\ pc' = [pc EXCEPT ![t] = "put"] /\ req' = req
        /\ seen' = [seen EXCEPT ![t][Cart(c)] = EmptyCart]
    BY DEF CreateCart
  <1>5. OthersUntouched(t) /\ SlotsOK'
    BY <1>1, <1>4 DEF OthersUntouched, SlotsOK
  <1>6. /\ StoreInv' /\ WritesOne(t, Cart(c), EmptyCart) /\ committed' = committed
        /\ Apart(t)
    BY <1>1, <1>2, <1>3, <1>5, EmptyCartIsCart, CartWrite
  <1>7. CartRequestOK(t)'
    <2>1. pc'[t] = "put" /\ req'[t] = req[t]
      BY <1>1, <1>4 DEF SlotsOK
    <2>2. seen'[t][Product(req[t].item)] = seen[t][Product(req[t].item)]
      BY <1>1, <1>4, RowKinds DEF SlotsOK, AskReq
    <2>3. SeenCart(t)' = EmptyCart
      BY <1>1, <1>4, <2>1 DEF SlotsOK, SeenCart
    <2>4. db'[Cart(c)] = EmptyCart /\ owner'[Cart(c)] = t
      BY <1>1, <1>6 DEF WritesOne
    <2> QED
      BY <1>1, <2>1, <2>2, <2>3, <2>4, EmptyCartIsCart, NoRowIsNoValue DEF CartRequestOK
  <1>8. pc'[t] = "put"
    BY <1>1, <1>4 DEF SlotsOK
  <1> QED
    BY <1>1, <1>5, <1>6, <1>7, <1>8, CartWriteKeeps

LEMMA CartTakenKeeps ==
    ASSUME OrderInv, CartInv, NEW t \in Txns, CartTaken(t)
    PROVE  OrderInv' /\ CartInv'
  <1>1. /\ pc[t] = "create" /\ pc' = [pc EXCEPT ![t] = "reread"]
        /\ UNCHANGED <<db, committed, owner, req, seen>>
        /\ SlotsOK
    BY DEF CartTaken, OrderInv, RequestsInv
  <1>2. StoreInv' /\ Frame(t)
    BY <1>1, StoreIdle DEF OrderInv
  <1>3. OthersUntouched(t) /\ SlotsOK' /\ pc'[t] = "reread"
    BY <1>1 DEF OthersUntouched, SlotsOK
  <1>4. OrderInv'
    BY <1>2, <1>3, StepKeeps DEF RequestOK
  <1>5. Apart(t)
    BY <1>1, <1>2, <1>3, RowsStored, IdleEffect DEF Apart, OrderInv
  <1>6. StaysPending(t)
    BY <1>1, SilentStep
  <1>7. CartRequestOK(t)'
    BY <1>1, <1>3 DEF CartRequestOK, CartInv
  <1>8. \A c \in Clients : owner'[Cart(c)] # t
    BY <1>1 DEF CartInv, CartHolder
  <1> QED
    BY <1>4, <1>5, <1>6, <1>7, <1>8, StepKeepsCarts

LEMMA PutItemKeeps ==
    ASSUME OrderInv, CartInv, NEW t \in Txns, PutItem(t)
    PROVE  OrderInv' /\ CartInv'
  <1> DEFINE c == req[t].client
             p == req[t].item
             row == [db[Cart(c)] EXCEPT ![p] = Put(t, @)]
  <1>1. /\ pc[t] = "put" /\ req[t] \in AskReq /\ c \in Clients /\ p \in Products
        /\ db[Cart(c)] # NoRow /\ StoreInv
    BY DEF PutItem, CartInv, CartRequestOK, AskReq, OrderInv
  <1>2. db[Cart(c)] \in CartRow
    BY <1>1 DEF StoreInv, RowsOK
  <1>3. row \in CartRow
    <2>1. db[Cart(c)][p] \in Item
      BY <1>1, <1>2 DEF CartRow
    <2>2. Put(t, db[Cart(c)][p]) \in Item
      BY <1>1, <2>1 DEF Put, Item, AskReq
    <2> QED
      BY <1>1, <1>2, <2>2 DEF CartRow
  <1>4. PICK new : new = [x \in {Cart(c)} |-> row]
    OBVIOUS
  <1>5. WriteRows(t, new)
    BY <1>4 DEF PutItem
  <1>6. OthersUntouched(t) /\ SlotsOK' /\ pc'[t] = "commit"
    BY FinishKeeps DEF PutItem, Finish, OrderInv, RequestsInv, SlotsOK
  <1> HIDE DEF row
  <1>7. /\ StoreInv' /\ WritesOne(t, Cart(c), row) /\ committed' = committed
        /\ Apart(t)
    BY <1>1, <1>3, <1>4, <1>5, <1>6, CartWrite
  <1>8. CartRequestOK(t)'
    BY <1>6 DEF CartRequestOK
  <1> QED
    BY <1>1, <1>6, <1>7, <1>8, CartWriteKeeps

LEMMA DropItemsKeeps ==
    ASSUME OrderInv, CartInv, NEW t \in Txns, DropItems(t)
    PROVE  OrderInv' /\ CartInv'
  <1> DEFINE c == req[t].client
             row == WithoutItems(db[Cart(c)], req[t].items, SeenCart(t))
  <1>1. /\ pc[t] = "drop" /\ req[t] \in DropReq /\ c \in Clients
        /\ db[Cart(c)] # NoRow /\ StoreInv
    BY DEF DropItems, CartInv, CartRequestOK, DropReq, OrderInv
  <1>2. db[Cart(c)] \in CartRow
    BY <1>1 DEF StoreInv, RowsOK
  <1>3. row \in CartRow
    BY <1>2 DEF WithoutItems, CartRow, Item
  <1>4. PICK new : new = [x \in {Cart(c)} |-> row]
    OBVIOUS
  <1>5. WriteRows(t, new)
    BY <1>4 DEF DropItems
  <1>6. OthersUntouched(t) /\ SlotsOK' /\ pc'[t] = "commit"
    BY FinishKeeps DEF DropItems, Finish, OrderInv, RequestsInv, SlotsOK
  <1> HIDE DEF row
  <1>7. /\ StoreInv' /\ WritesOne(t, Cart(c), row) /\ committed' = committed
        /\ Apart(t)
    BY <1>1, <1>3, <1>4, <1>5, <1>6, CartWrite
  <1>8. CartRequestOK(t)'
    BY <1>6 DEF CartRequestOK
  <1> QED
    BY <1>1, <1>6, <1>7, <1>8, CartWriteKeeps

LEMMA CartServeKeeps ==
    ASSUME OrderInv, CartInv, NEW t \in Txns, CartServe(t)
    PROVE  OrderInv' /\ CartInv'
  BY CreateCartKeeps, CartTakenKeeps, PutItemKeeps, DropItemsKeeps, RollbackKeeps, RollbackKeepsCarts
     DEF CartServe, RereadFails, RefuseItem

\* A request on a cart begins.
LEMMA CartBeginKeeps ==
    ASSUME OrderInv, CartInv, NEW t \in Txns, NEW next \in {"create", "put", "drop"}, NEW what, NEW rows,
           Begin(t, next, what, rows), CartRequestOK(t)'
    PROVE  OrderInv' /\ CartInv'
  <1>1. pc'[t] = next
    BY BeginReads
  <1>2. RequestOK(t)'
    BY <1>1 DEF RequestOK
  <1>3. OrderInv'
    BY <1>2, BeginKeeps
  <1> QED
    BY <1>3, BeginKeepsCarts

LEMMA AskBegins ==
    ASSUME OrderInv, CartInv, NEW t \in Txns, NEW next \in {"create", "put"}, NEW c \in Clients,
           NEW p \in Products, NEW n \in Nat,
           next = "put" => committed[Cart(c)] # NoRow,
           Begin(t, next, Ask(c, p, n), {Cart(c), Product(p)})
    PROVE  OrderInv' /\ CartInv'
  <1>1. PICK what : what = Ask(c, p, n)
    OBVIOUS
  <1>2. what \in AskReq /\ what.client = c /\ what.item = p
    BY <1>1 DEF Ask, AskReq
  <1>3. /\ pc'[t] = next /\ req'[t] = what
        /\ \A r \in Rows : seen'[t][r] = IF r \in {Cart(c), Product(p)} THEN committed[r] ELSE NoRow
        /\ UNCHANGED <<db, committed, owner>>
    BY <1>1, BeginReads
  <1>4. seen'[t][Cart(c)] = committed[Cart(c)] /\ seen'[t][Product(p)] = committed[Product(p)]
    BY <1>3, RowKinds
  <1>5. /\ committed[Cart(c)] # NoRow => committed[Cart(c)] \in CartRow /\ db[Cart(c)] # NoRow
        /\ committed[Product(p)] \in ProductRow
    BY RowKinds DEF OrderInv, StoreInv, RowsOK, RowsKept
  <1>6. CartRequestOK(t)'
    BY <1>2, <1>3, <1>4, <1>5 DEF CartRequestOK, SeenCart
  <1> QED
    BY <1>1, <1>6, CartBeginKeeps

LEMMA DropBegins ==
    ASSUME OrderInv, CartInv, NEW t \in Txns, NEW c \in Clients, NEW items \in SUBSET Products,
           committed[Cart(c)] # NoRow, BeginDrop(t, c, items)
    PROVE  OrderInv' /\ CartInv'
  <1>1. PICK what : what = [client |-> c, items |-> items]
    OBVIOUS
  <1>2. what \in DropReq /\ what.client = c
    BY <1>1 DEF DropReq
  <1>3. Begin(t, "drop", what, {Cart(c)})
    BY <1>1 DEF BeginDrop
  <1>4. /\ pc'[t] = "drop" /\ req'[t] = what
        /\ \A r \in Rows : seen'[t][r] = IF r \in {Cart(c)} THEN committed[r] ELSE NoRow
        /\ UNCHANGED <<db, committed, owner>>
    BY <1>3, BeginReads
  <1>5. /\ seen'[t][Cart(c)] = committed[Cart(c)]
        /\ committed[Cart(c)] \in CartRow /\ db[Cart(c)] # NoRow
    BY <1>4, RowKinds DEF OrderInv, StoreInv, RowsOK, RowsKept
  <1>6. CartRequestOK(t)'
    BY <1>2, <1>4, <1>5 DEF CartRequestOK, SeenCart
  <1> QED
    BY <1>3, <1>6, CartBeginKeeps

LEMMA CartArriveKeeps ==
    ASSUME OrderInv, CartInv, NEW t \in Txns, CartArrive(t)
    PROVE  OrderInv' /\ CartInv'
  <1>1. PICK c \in Shoppers :
            \/ \E p \in Products, n \in Amounts : BeginAdd(t, c, p, n) \/ BeginSet(t, c, p, n)
            \/ \E p \in Products : BeginRemove(t, c, p)
            \/ BeginClear(t, c)
    BY DEF CartArrive
  <1>2. c \in Clients /\ Amounts \subseteq Nat
    BY CartsAssumption
  <1>3. ASSUME NEW p \in Products, NEW n \in Amounts, BeginAdd(t, c, p, n)
        PROVE  OrderInv' /\ CartInv'
    <2> DEFINE row == committed[Cart(c)]
               desired == n + IF InCart(row, p) THEN row[p].qty ELSE 0
               next == IF row = NoRow THEN "create" ELSE "put"
    <2>1. InCart(row, p) => row[p].qty \in Nat
      BY <1>2 DEF InCart, OrderInv, StoreInv, RowsOK, CartRow, Item
    <2>2. desired \in Nat
      BY <1>2, <2>1
    <2>3. Begin(t, next, Ask(c, p, desired), {Cart(c), Product(p)})
      BY <1>3 DEF BeginAdd
    <2> HIDE DEF desired
    <2> QED
      BY <1>2, <2>2, <2>3, AskBegins
  <1>4. ASSUME NEW p \in Products, NEW n \in Amounts, BeginSet(t, c, p, n)
        PROVE  OrderInv' /\ CartInv'
    <2>1. /\ committed[Cart(c)] # NoRow /\ n \in Nat
          /\ Begin(t, "put", Ask(c, p, n), {Cart(c), Product(p)})
      BY <1>2, <1>4 DEF BeginSet, InCart
    <2> QED
      BY <1>2, <2>1, AskBegins
  <1>5. ASSUME NEW p \in Products, BeginRemove(t, c, p) PROVE OrderInv' /\ CartInv'
    BY <1>2, <1>5, DropBegins DEF BeginRemove, InCart
  <1>6. CASE BeginClear(t, c)
    <2>1. /\ committed[Cart(c)] # NoRow /\ ItemsOf(committed[Cart(c)]) \in SUBSET Products
          /\ BeginDrop(t, c, ItemsOf(committed[Cart(c)]))
      BY <1>6 DEF BeginClear, BeginDrop, ItemsOf, InCart
    <2> QED
      BY <1>2, <2>1, DropBegins
  <1> QED
    BY <1>1, <1>3, <1>4, <1>5, <1>6

-----------------------------------------------------------------------------
(* What every step keeps, and what a commit does to a cart. *)

LEMMA CartInitially == Init => CartInv
  <1> SUFFICES ASSUME Init PROVE CartInv
    OBVIOUS
  <1>1. \A o \in OrderIds : db[Order(o)] = NoRow
    BY RowKinds DEF Init, InitStore, InitialRows, Order
  <1>2. \A r \in Rows : owner[r] = Nobody
    BY DEF Init, InitStore, InitialRows
  <1> QED
    BY <1>1, <1>2, RowKinds, NobodyIsNoTxn
       DEF Init, CartInv, CartRequestOK, CartHolder, PendingOK, Pending

LEMMA CartNextKeeps ==
    ASSUME OrderInv, CartInv, CartNext PROVE OrderInv' /\ CartInv'
  <1>1. CASE Next
    <2> PICK t \in Txns : Arrive(t) \/ Step(t) \/ Abort(t) \/ DeadlockVictim(t)
      BY <1>1 DEF Next
    <2>1. OrderInv'
      BY <1>1, NextKeeps
    <2>2. CASE Serve(t)
      BY <2>1, <2>2, WorksKeepCarts, PlaceOrderKeepsCarts, RollbackKeepsCarts
         DEF Serve, Works, TakesNumber, RefuseCheckout
    <2> QED
      BY <2>1, <2>2, ArriveKeepsCarts, CommitKeepsCarts, RollbackKeepsCarts
         DEF Step, Abort, DeadlockVictim
  <1>2. CASE \E t \in Txns : CartArrive(t) \/ CartServe(t)
    BY <1>2, CartArriveKeeps, CartServeKeeps
  <1> QED
    BY <1>1, <1>2 DEF CartNext

LEMMA CartStutterKeeps ==
    ASSUME CartInv, UNCHANGED vars PROVE CartInv'
  <1>1. \A t \in Txns : CartRequestOK(t)'
    BY DEF vars, CartInv, CartRequestOK, SeenCart
  <1>2. \A c \in Clients : CartHolder(c)'
    BY DEF vars, CartInv, CartHolder
  <1>3. \A o \in OrderIds : PendingOK(o)'
    BY DEF vars, CartInv, PendingOK, Pending, InCart
  <1> QED
    BY <1>1, <1>2, <1>3 DEF CartInv

LEMMA CartInductive == OrderInv /\ CartInv /\ [CartNext]_vars => OrderInv' /\ CartInv'
  <1>1. UNCHANGED vars => UNCHANGED <<db, committed, owner, pc, req, seen>>
    BY DEF vars
  <1> QED
    BY <1>1, CartNextKeeps, CartStutterKeeps, StutterKeeps

\* Only a commit changes what is committed.
LEMMA CommitsAlone ==
    ASSUME OrderInv, CartInv, [CartNext]_vars, committed' # committed
    PROVE  \E t \in Txns : Commit(t)
  <1>1. CASE Next
    <2> PICK t \in Txns : Arrive(t) \/ Step(t) \/ Abort(t) \/ DeadlockVictim(t)
      BY <1>1 DEF Next
    <2>1. Arrive(t) => committed' = committed
      BY DEF Arrive, BeginCheckout, BeginAdvance, BeginCancel, BeginEdit, Begin
    <2>2. Rollback(t) => committed' = committed
      BY DEF Rollback, RollbackTxn
    <2>3. Serve(t) => committed' = committed
      BY <2>2, WorksOnOrders DEF Serve, Works, TakesNumber, RefuseCheckout
    <2> QED
      BY <2>1, <2>2, <2>3 DEF Step, Abort, DeadlockVictim
  <1>2. ASSUME NEW t \in Txns, CartArrive(t) PROVE committed' = committed
    BY <1>2 DEF CartArrive, BeginAdd, BeginSet, BeginRemove, BeginClear, BeginDrop, Begin
  <1>3. ASSUME NEW t \in Txns, CartServe(t) PROVE committed' = committed
    BY <1>3 DEF CartServe, CreateCart, CartTaken, RereadFails, PutItem, RefuseItem, DropItems,
                WriteRows, Rollback, RollbackTxn
  <1> QED
    BY <1>1, <1>2, <1>3 DEF CartNext, vars

\* The order a commit makes known has held its cart since it emptied it.
LEMMA CommitTakesWhatItSold ==
    ASSUME OrderInv, CartInv, NEW t \in Txns, Commit(t),
           NEW c \in Clients, NEW o \in NewOrders(c), NEW p \in Products,
           InCart(committed[Cart(c)], p), ~InCart(committed'[Cart(c)], p)
    PROVE  committed'[Line(o, p)] # NoRow
  <1>1. \A r \in Rows : committed'[r] = IF owner[r] = t THEN db[r] ELSE committed[r]
    BY RowsStored, CommitEffect DEF Commit, OrderInv
  <1>2. /\ o \in OrderIds /\ committed[Order(o)] = NoRow /\ committed'[Order(o)] # NoRow
        /\ committed'[Order(o)].client = c
    BY DEF NewOrders
  <1>3. owner[Order(o)] = t /\ Pending(o) /\ db[Order(o)].client = c
    BY <1>1, <1>2, RowKinds DEF Pending
  <1>4. owner[Cart(c)] = t
    BY <1>2, <1>3 DEF CartInv, PendingOK
  <1>5. ~InCart(db[Cart(c)], p)
    BY <1>1, <1>4, RowKinds
  <1>6. db[Line(o, p)] # NoRow
    BY <1>2, <1>3, <1>5 DEF CartInv, PendingOK
  <1>7. owner[Line(o, p)] = t
    BY <1>2, <1>3, <1>6 DEF OrderInv, StoreInv, LinesHaveOrders
  <1> QED
    BY <1>1, <1>2, <1>6, <1>7, RowKinds

-----------------------------------------------------------------------------
(* The shop while nothing comes back: no version of a cart asks for more than  *)
(* there was.                                                                  *)

LEMMA ScarceStep ==
    ASSUME ScarceInv, NEW t \in Txns, OthersUntouched(t), NothingReturns(t)', AsksWithin(t)',
           WithinShelf(db)', WithinShelf(committed)'
    PROVE  ScarceInv'
  <1>1. ASSUME NEW u \in Txns \ {t} PROVE NothingReturns(u)' /\ AsksWithin(u)'
    BY <1>1 DEF OthersUntouched, ScarceInv, NothingReturns, AsksWithin, SeenCart
  <1> QED
    BY <1>1 DEF ScarceInv

\* A request that ends, with or without its writes.
LEMMA ScarceForget ==
    ASSUME OrderInv, ScarceInv, NEW t \in Txns, Rollback(t) \/ Commit(t)
    PROVE  ScarceInv'
  <1>1. /\ pc'[t] = "idle" /\ OthersUntouched(t)
        /\ \A r \in Rows : db'[r] \in {db[r], committed[r]} /\ committed'[r] \in {db[r], committed[r]}
    <2>1. StoreOK(Rows) /\ SlotsOK
      BY RowsStored DEF OrderInv, RequestsInv
    <2>2. CASE Rollback(t)
      <3>1. RollbackTxn(t) /\ Forget(t)
        BY <2>2 DEF Rollback
      <3>2. /\ committed' = committed /\ \A r \in Rows : owner'[r] # t
            /\ \A r \in Rows : db'[r] = IF owner[r] = t THEN committed[r] ELSE db[r]
        BY <2>1, <3>1, RollbackEffect
      <3>3. pc'[t] = "idle" /\ OthersUntouched(t)
        BY <2>1, <3>1, <3>2, ForgetKeeps DEF Forget, SlotsOK
      <3> QED
        BY <3>2, <3>3
    <2>3. CASE Commit(t)
      <3>1. CommitTxn(t) /\ Forget(t)
        BY <2>3 DEF Commit
      <3>2. /\ db' = db /\ \A r \in Rows : owner'[r] # t
            /\ \A r \in Rows : committed'[r] = IF owner[r] = t THEN db[r] ELSE committed[r]
        BY <2>1, <3>1, CommitEffect
      <3>3. pc'[t] = "idle" /\ OthersUntouched(t)
        BY <2>1, <3>1, <3>2, ForgetKeeps DEF Forget, SlotsOK
      <3> QED
        BY <3>2, <3>3
    <2> QED
      BY <2>2, <2>3
  <1>2. WithinShelf(db)' /\ WithinShelf(committed)'
    BY <1>1, RowKinds DEF ScarceInv, WithinShelf
  <1>3. NothingReturns(t)' /\ AsksWithin(t)'
    BY <1>1 DEF NothingReturns, AsksWithin
  <1> QED
    BY <1>1, <1>2, <1>3, ScarceStep

\* A request that begins.
LEMMA ScarceBegin ==
    ASSUME OrderInv, ScarceInv, NEW t \in Txns, NEW next, NEW what, NEW rows,
           Begin(t, next, what, rows), NothingReturns(t)', AsksWithin(t)'
    PROVE  ScarceInv'
  <1>1. OthersUntouched(t) /\ db' = db /\ committed' = committed
    BY BeginReads
  <1>2. WithinShelf(db)' /\ WithinShelf(committed)'
    BY <1>1 DEF ScarceInv, WithinShelf
  <1> QED
    BY <1>1, <1>2, ScarceStep

LEMMA ScarceArrive ==
    ASSUME OrderInv, NoReturns, ScarceInv, NEW t \in Txns, Arrive(t)
    PROVE  ScarceInv'
  <1>1. ASSUME NEW c \in Clients, BeginCheckout(t, c) PROVE ScarceInv'
    <2>1. PICK what, rows : Begin(t, "lock", what, rows)
      BY <1>1 DEF BeginCheckout
    <2>2. pc'[t] = "lock"
      BY <2>1, BeginReads
    <2> QED
      BY <2>1, <2>2, ScarceBegin DEF NothingReturns, AsksWithin
  <1>2. ASSUME NEW o \in OrderIds, NEW p \in Products, NEW m \in VendorMoves, BeginAdvance(t, o, p, m)
        PROVE  ScarceInv'
    <2>1. PICK what : what = [order |-> o, item |-> p, todo |-> {p}, move |-> m, buyer |-> FALSE]
      OBVIOUS
    <2>2. m # "CANCELLED" /\ what.move = m /\ what.todo = {p} /\ what.item = p
      BY <2>1 DEF NoReturns, NothingRestocks
    <2>3. Begin(t, "mark", what, OrderQuery(o))
      BY <1>2, <2>1, <2>2 DEF BeginAdvance
    <2>4. pc'[t] = "mark" /\ req'[t] = what
      BY <2>3, BeginReads
    <2> QED
      BY <2>2, <2>3, <2>4, ScarceBegin DEF NothingReturns, AsksWithin
  <1>3. ASSUME NEW p \in Products, NEW e \in Edits, BeginEdit(t, p, e) PROVE ScarceInv'
    <2>1. PICK what : what = [item |-> p, patch |-> e]
      OBVIOUS
    <2>2. Begin(t, "edit", what, {Product(p)}) /\ what.patch.stock = Unset
      BY <1>3, <2>1 DEF BeginEdit, NoReturns
    <2>3. pc'[t] = "edit" /\ req'[t] = what
      BY <2>2, BeginReads
    <2> QED
      BY <2>2, <2>3, ScarceBegin DEF NothingReturns, AsksWithin
  <1> QED
    BY <1>1, <1>2, <1>3 DEF Arrive, NoReturns, NothingRestocks

\* A step that raises no stock and overfills no cart.
LEMMA ScarceWrite ==
    ASSUME ScarceInv, NEW t \in Txns, OthersUntouched(t), committed' = committed,
           \A p \in Products : \/ db'[Product(p)] = db[Product(p)]
                               \/ db'[Product(p)].stock <= Shelf[p],
           \A c \in Clients : \/ db'[Cart(c)] = db[Cart(c)]
                              \/ \A p \in Products : db'[Cart(c)][p].qty <= Shelf[p],
           NothingReturns(t)', AsksWithin(t)'
    PROVE  ScarceInv'
  <1>1. WithinShelf(db)' /\ WithinShelf(committed)'
    BY DEF ScarceInv, WithinShelf
  <1> QED
    BY <1>1, ScarceStep

LEMMA ScarcePlace ==
    ASSUME OrderInv, ScarceInv, NEW t \in Txns, PlaceOrder(t)
    PROVE  ScarceInv'
  <1> DEFINE c == req[t].client
             written(o) == {Order(o), Cart(c)} \cup {Product(p) : p \in InBasket(t)}
                           \cup {Line(o, p) : p \in InBasket(t)}
  <1>1. PICK o \in Unused :
          /\ o \in OrderIds /\ committed[Order(o)] = NoRow /\ c \in Clients
          /\ \A r \in Rows \ written(o) : db'[r] = db[r] /\ owner'[r] = owner[r]
          /\ db'[Cart(c)] = Emptied(t, db[Cart(c)])
          /\ \A p \in InBasket(t) :
                /\ db'[Product(p)] = Sell(seen[t][Product(p)], Basket(t)[p])
                /\ db'[Line(o, p)] = [qty |-> Basket(t)[p], status |-> "PENDING"]
          /\ committed' = committed
    BY PlaceOrderEffect DEF Places
  <1>2. pc'[t] = "commit" /\ OthersUntouched(t) /\ pc[t] = "place"
    BY FinishKeeps DEF PlaceOrder, Finish, OrderInv, RequestsInv, SlotsOK
  <1>3. CheckoutReads(t) /\ StoreInv
    BY <1>2 DEF OrderInv, RequestsInv, RequestOK
  <1>4. \A p \in Products : Basket(t)[p] \in Nat
    BY <1>3 DEF CheckoutReads, Basket, CartRow, Item
  <1>5. ASSUME NEW p \in Products
        PROVE  db'[Product(p)] = db[Product(p)] \/ db'[Product(p)].stock <= Shelf[p]
    <2>1. CASE p \in InBasket(t)
      <3>1. db'[Product(p)].stock = db[Product(p)].stock - Basket(t)[p]
        <4>1. db'[Product(p)] = Sell(seen[t][Product(p)], Basket(t)[p])
          BY <1>1, <2>1
        <4>2. seen[t][Product(p)] = db[Product(p)]
          BY <1>2, <1>3, <2>1 DEF CheckoutReads
        <4> QED
          BY <4>1, <4>2 DEF Sell
      <3>2. db[Product(p)].stock \in Int /\ db[Product(p)].stock <= Shelf[p] /\ Shelf[p] \in Nat
        BY <1>3, OrdersAssumption DEF StoreInv, RowsOK, ProductRow, ScarceInv, WithinShelf
      <3>3. Basket(t)[p] \in Nat
        BY <1>4
      <3> QED
        BY <3>1, <3>2, <3>3
    <2>2. CASE p \notin InBasket(t)
      <3>1. Product(p) \in Rows \ written(o)
        BY <2>2, RowKinds
      <3> HIDE DEF written
      <3> QED
        BY <1>1, <3>1
    <2> QED
      BY <2>1, <2>2
  <1>6. ASSUME NEW d \in Clients
        PROVE  db'[Cart(d)] = db[Cart(d)] \/ \A p \in Products : db'[Cart(d)][p].qty <= Shelf[p]
    <2>1. CASE d = c
      <3>1. db[Cart(c)] # NoRow
        BY <1>1, <1>3, RowKinds DEF CheckoutReads, StoreInv, RowsKept
      <3>2. \A p \in Products : db[Cart(c)][p].qty <= Shelf[p] /\ 0 <= Shelf[p]
        BY <1>1, <3>1, OrdersAssumption DEF ScarceInv, WithinShelf
      <3>3. \A p \in Products : db'[Cart(c)][p].qty \in {0, db[Cart(c)][p].qty}
        BY <1>1 DEF Emptied, WithoutItems
      <3> QED
        BY <2>1, <3>2, <3>3
    <2>2. CASE d # c
      <3>1. Cart(d) \in Rows \ written(o)
        BY <2>2, RowKinds
      <3> HIDE DEF written
      <3> QED
        BY <1>1, <3>1
    <2> QED
      BY <2>1, <2>2
  <1>7. NothingReturns(t)' /\ AsksWithin(t)'
    BY <1>2 DEF NothingReturns, AsksWithin
  <1> QED
    BY <1>1, <1>2, <1>5, <1>6, <1>7, ScarceWrite

LEMMA ScarceWorks ==
    ASSUME OrderInv, ScarceInv, NEW t \in Txns, Works(t), ~PlaceOrder(t)
    PROVE  ScarceInv'
  <1>1. /\ OthersUntouched(t) /\ committed' = committed
        /\ \A c \in Clients : db'[Cart(c)] = db[Cart(c)]
        /\ ~Restock(t) /\ SlotsOK
    BY WorksOnSlot, WorksOnOrders, WorksOffCarts
       DEF ScarceInv, NothingReturns, Restock, OrderInv, RequestsInv
  <1>2. CASE LockProduct(t)
    <2>1. pc'[t] \in {"lock", "insert"} /\ db' = db
      BY <1>1, <1>2, LockProductEffect DEF LockProduct, SlotsOK
    <2>2. NothingReturns(t)' /\ AsksWithin(t)'
      BY <2>1 DEF NothingReturns, AsksWithin
    <2> QED
      BY <1>1, <2>1, <2>2, ScarceWrite
  <1>3. CASE Mark(t)
    <2>1. PICK row : WritesOne(t, Line(req[t].order, req[t].item), row)
      BY <1>3, MarkEffect
    <2>2. \A p \in Products : db'[Product(p)] = db[Product(p)]
      BY <2>1, RowKinds DEF WritesOne
    <2>3. req[t].todo \ {req[t].item} = {} /\ req[t].move # "CANCELLED" /\ req[t] \in LineReq
      BY <1>3 DEF Mark, ScarceInv, NothingReturns, OrderInv, RequestsInv, RequestOK
    <2>4. PICK what : what = [req[t] EXCEPT !.todo = {}]
      OBVIOUS
    <2>5. pc'[t] = "rollup" /\ req'[t] = what
      BY <1>1, <1>3, <2>3, <2>4 DEF Mark, SlotsOK
    <2>6. what.move = req[t].move
      BY <2>3, <2>4 DEF LineReq
    <2>7. NothingReturns(t)' /\ AsksWithin(t)'
      BY <2>3, <2>5, <2>6 DEF NothingReturns, AsksWithin
    <2> QED
      BY <1>1, <2>2, <2>7, ScarceWrite
  <1>4. CASE SetOrderStatus(t)
    <2>1. PICK row : WritesOne(t, Order(req[t].order), row) \/ db' = db
      BY <1>4, SetOrderStatusEffect
    <2>2. \A p \in Products : db'[Product(p)] = db[Product(p)]
      BY <2>1, RowKinds DEF WritesOne
    <2>3. pc'[t] = "commit"
      BY <1>1, <1>4 DEF SetOrderStatus, Finish, SlotsOK
    <2> QED
      BY <1>1, <2>2, <2>3, ScarceWrite DEF NothingReturns, AsksWithin
  <1>5. CASE EditProduct(t)
    <2> DEFINE r == Product(req[t].item)
               old == seen[t][r]
               edited == Patched(old, req[t].patch)
    <2>1. edited.stock = old.stock
      BY <1>5 DEF EditProduct, ScarceInv, NothingReturns, Patched, Honest
    <2>2. PICK status :
            WritesOne(t, r, [stock |-> IF edited.stock = old.stock THEN db[r].stock ELSE edited.stock,
                             status |-> status])
      BY <1>5, EditProductEffect
    <2> HIDE DEF edited
    <2>3. \A p \in Products : db'[Product(p)].stock = db[Product(p)].stock
      BY <2>1, <2>2, RowKinds DEF WritesOne
    <2>4. \A p \in Products : db'[Product(p)].stock <= Shelf[p]
      BY <2>3 DEF ScarceInv, WithinShelf
    <2>5. pc'[t] = "commit"
      BY <1>1, <1>5 DEF EditProduct, Finish, SlotsOK
    <2> QED
      BY <1>1, <2>4, <2>5, ScarceWrite DEF NothingReturns, AsksWithin
  <1>6. CASE TakesNumber(t)
    <2>1. pc'[t] \in {"queue", "place"} /\ db' = db
      BY <1>6, TakesNumberEffect
    <2>2. NothingReturns(t)' /\ AsksWithin(t)'
      BY <2>1 DEF NothingReturns, AsksWithin
    <2> QED
      BY <1>1, <2>1, <2>2, ScarceWrite
  <1> QED
    BY <1>1, <1>2, <1>3, <1>4, <1>5, <1>6 DEF Works

LEMMA ScarceNext ==
    ASSUME OrderInv, NoReturns, ScarceInv, Next
    PROVE  ScarceInv'
  <1> PICK t \in Txns : Arrive(t) \/ Step(t) \/ Abort(t) \/ DeadlockVictim(t)
    BY DEF Next
  <1> QED
    BY ScarceArrive, ScarcePlace, ScarceWorks, ScarceForget
       DEF Step, Serve, Works, TakesNumber, RefuseCheckout, Abort, DeadlockVictim

\* A request that is to put an item asks for what was there when it read it.
LEMMA ScarceAsks ==
    ASSUME OrderInv, ScarceInv, NEW t \in Txns, NEW next \in {"create", "put"},
           NEW c \in Clients, NEW p \in Products, NEW n \in Nat,
           next = "put" => n <= committed[Product(p)].stock,
           Begin(t, next, Ask(c, p, n), {Cart(c), Product(p)})
    PROVE  ScarceInv'
  <1>1. PICK what : what = Ask(c, p, n)
    OBVIOUS
  <1>2. what.client = c /\ what.item = p /\ what.qty = n
    BY <1>1 DEF Ask
  <1>3. /\ pc'[t] = next /\ req'[t] = what
        /\ \A r \in Rows : seen'[t][r] = IF r \in {Cart(c), Product(p)} THEN committed[r] ELSE NoRow
    BY <1>1, BeginReads
  <1>4. seen'[t][Product(p)] = committed[Product(p)]
    BY <1>3, RowKinds
  <1>5. /\ committed[Product(p)].stock <= Shelf[p] /\ Shelf[p] \in Nat
        /\ committed[Product(p)].stock \in Int
    BY OrdersAssumption DEF ScarceInv, WithinShelf, OrderInv, StoreInv, RowsOK, ProductRow
  <1>6. next = "put" => n <= Shelf[p]
    BY <1>5
  <1>7. NothingReturns(t)' /\ AsksWithin(t)'
    BY <1>2, <1>3, <1>4, <1>5, <1>6 DEF NothingReturns, AsksWithin
  <1> QED
    BY <1>1, <1>7, ScarceBegin

LEMMA ScarceDrop ==
    ASSUME OrderInv, ScarceInv, NEW t \in Txns, NEW c, NEW items, BeginDrop(t, c, items)
    PROVE  ScarceInv'
  <1>1. PICK what : Begin(t, "drop", what, {Cart(c)})
    BY DEF BeginDrop
  <1>2. pc'[t] = "drop"
    BY <1>1, BeginReads
  <1>3. NothingReturns(t)' /\ AsksWithin(t)'
    BY <1>2 DEF NothingReturns, AsksWithin
  <1> QED
    BY <1>1, <1>3, ScarceBegin

LEMMA ScarceCartArrive ==
    ASSUME OrderInv, ScarceInv, NEW t \in Txns, CartArrive(t)
    PROVE  ScarceInv'
  <1>1. PICK c \in Shoppers :
            \/ \E p \in Products, n \in Amounts : BeginAdd(t, c, p, n) \/ BeginSet(t, c, p, n)
            \/ \E p \in Products : BeginRemove(t, c, p)
            \/ BeginClear(t, c)
    BY DEF CartArrive
  <1>2. c \in Clients /\ Amounts \subseteq Nat
    BY CartsAssumption
  <1>3. ASSUME NEW p \in Products, NEW n \in Amounts, BeginAdd(t, c, p, n) PROVE ScarceInv'
    <2> DEFINE row == committed[Cart(c)]
               desired == n + IF InCart(row, p) THEN row[p].qty ELSE 0
               next == IF row = NoRow THEN "create" ELSE "put"
    <2>1. InCart(row, p) => row[p].qty \in Nat
      BY <1>2 DEF InCart, OrderInv, StoreInv, RowsOK, CartRow, Item
    <2>2. desired \in Nat
      BY <1>2, <2>1
    <2>3. /\ Begin(t, next, Ask(c, p, desired), {Cart(c), Product(p)})
          /\ next = "put" => desired <= committed[Product(p)].stock
      BY <1>3 DEF BeginAdd, Fits
    <2> HIDE DEF desired
    <2> QED
      BY <1>2, <2>2, <2>3, ScarceAsks
  <1>4. ASSUME NEW p \in Products, NEW n \in Amounts, BeginSet(t, c, p, n) PROVE ScarceInv'
    BY <1>2, <1>4, ScarceAsks DEF BeginSet
  <1> QED
    BY <1>1, <1>3, <1>4, ScarceDrop DEF BeginRemove, BeginClear

LEMMA ScarceCreate ==
    ASSUME OrderInv, CartInv, ScarceInv, NEW t \in Txns, CreateCart(t)
    PROVE  ScarceInv'
  <1> DEFINE c == req[t].client
             p == req[t].item
  <1>1. /\ pc[t] = "create" /\ req[t] \in AskReq /\ c \in Clients /\ p \in Products
        /\ Cart(c) \in Rows /\ SlotsOK
    BY RowKinds DEF CreateCart, CartInv, CartRequestOK, AskReq, OrderInv, RequestsInv
  <1>2. PICK new : new = [x \in {Cart(c)} |-> EmptyCart]
    OBVIOUS
  <1>3. WriteRows(t, new)
    BY <1>2 DEF CreateCart
  <1>4. WritesOne(t, Cart(c), EmptyCart) /\ committed' = committed
    BY <1>2, <1>3, OneRowEffect DEF OrderInv
  <1>5. /\ pc' = [pc EXCEPT ![t] = "put"] /\ req' = req
        /\ seen' = [seen EXCEPT ![t][Cart(c)] = EmptyCart]
    BY DEF CreateCart
  <1>6. /\ OthersUntouched(t) /\ pc'[t] = "put" /\ req'[t] = req[t]
        /\ seen'[t][Product(p)] = seen[t][Product(p)] /\ seen'[t][Cart(c)] = EmptyCart
    BY <1>1, <1>5, RowKinds DEF OthersUntouched, SlotsOK
  <1>7. \A q \in Products : EmptyCart[q].qty = 0 /\ Shelf[q] \in Nat
    BY OrdersAssumption DEF EmptyCart, NoItem
  <1>8. NothingReturns(t)' /\ AsksWithin(t)'
    <2>1. ~InCart(SeenCart(t), p)'
      BY <1>1, <1>6, <1>7 DEF SeenCart, InCart
    <2> QED
      BY <1>1, <1>6, <2>1 DEF NothingReturns, AsksWithin, ScarceInv
  <1>9. ASSUME NEW d \in Clients
        PROVE  db'[Cart(d)] = db[Cart(d)] \/ \A q \in Products : db'[Cart(d)][q].qty <= Shelf[q]
    BY <1>4, <1>7, RowKinds DEF WritesOne
  <1>10. \A q \in Products : db'[Product(q)] = db[Product(q)]
    BY <1>4, RowKinds DEF WritesOne
  <1> QED
    BY <1>4, <1>6, <1>8, <1>9, <1>10, ScarceWrite

\* The quantity a request puts was checked against the stock it read.
LEMMA ScarcePut ==
    ASSUME OrderInv, CartInv, ScarceInv, NEW t \in Txns, PutItem(t)
    PROVE  ScarceInv'
  <1> DEFINE c == req[t].client
             p == req[t].item
             row == [db[Cart(c)] EXCEPT ![p] = Put(t, @)]
  <1>1. /\ pc[t] = "put" /\ req[t] \in AskReq /\ c \in Clients /\ p \in Products
        /\ db[Cart(c)] \in CartRow /\ db[Cart(c)] # NoRow
        /\ seen[t][Product(p)] \in ProductRow
    BY DEF PutItem, CartInv, CartRequestOK, AskReq, OrderInv, StoreInv, RowsOK
  <1>2. PICK new : new = [x \in {Cart(c)} |-> row]
    OBVIOUS
  <1>3. WriteRows(t, new)
    BY <1>2 DEF PutItem
  <1>4. OthersUntouched(t) /\ pc'[t] = "commit"
    BY FinishKeeps DEF PutItem, Finish, OrderInv, RequestsInv, SlotsOK
  <1>5. req[t].qty <= Shelf[p]
    <2>1. CASE InCart(SeenCart(t), p)
      BY <1>1, <2>1 DEF ScarceInv, AsksWithin
    <2>2. CASE ~InCart(SeenCart(t), p)
      <3>1. req[t].qty <= seen[t][Product(p)].stock
        BY <2>2 DEF PutItem, Fits
      <3>2. seen[t][Product(p)].stock <= Shelf[p]
        BY <1>1 DEF ScarceInv, AsksWithin
      <3>3. req[t].qty \in Nat /\ seen[t][Product(p)].stock \in Int /\ Shelf[p] \in Nat
        BY <1>1, OrdersAssumption DEF AskReq, ProductRow
      <3> QED
        BY <3>1, <3>2, <3>3
    <2> QED
      BY <2>1, <2>2
  <1>6. \A q \in Products : row[q].qty <= Shelf[q]
    <2>1. row[p].qty = req[t].qty
      BY <1>1 DEF Put, CartRow
    <2>2. \A q \in Products \ {p} : row[q] = db[Cart(c)][q]
      BY <1>1 DEF CartRow
    <2> HIDE DEF row
    <2> QED
      BY <1>1, <1>5, <2>1, <2>2 DEF ScarceInv, WithinShelf
  <1> HIDE DEF row
  <1>7. WritesOne(t, Cart(c), row) /\ committed' = committed
    BY <1>2, <1>3, OneRowEffect DEF OrderInv
  <1>8. NothingReturns(t)' /\ AsksWithin(t)'
    BY <1>4 DEF NothingReturns, AsksWithin
  <1>9. ASSUME NEW d \in Clients
        PROVE  db'[Cart(d)] = db[Cart(d)] \/ \A q \in Products : db'[Cart(d)][q].qty <= Shelf[q]
    BY <1>6, <1>7, RowKinds DEF WritesOne
  <1>10. \A q \in Products : db'[Product(q)] = db[Product(q)]
    BY <1>7, RowKinds DEF WritesOne
  <1> QED
    BY <1>4, <1>7, <1>8, <1>9, <1>10, ScarceWrite

LEMMA ScarceDropItems ==
    ASSUME OrderInv, CartInv, ScarceInv, NEW t \in Txns, DropItems(t)
    PROVE  ScarceInv'
  <1> DEFINE c == req[t].client
             row == WithoutItems(db[Cart(c)], req[t].items, SeenCart(t))
  <1>1. pc[t] = "drop" /\ c \in Clients /\ db[Cart(c)] # NoRow
    BY DEF DropItems, CartInv, CartRequestOK, DropReq
  <1>2. PICK new : new = [x \in {Cart(c)} |-> row]
    OBVIOUS
  <1>3. WriteRows(t, new)
    BY <1>2 DEF DropItems
  <1>4. OthersUntouched(t) /\ pc'[t] = "commit"
    BY FinishKeeps DEF DropItems, Finish, OrderInv, RequestsInv, SlotsOK
  <1>5. \A q \in Products : row[q].qty <= Shelf[q]
    <2>1. \A q \in Products : row[q].qty \in {0, db[Cart(c)][q].qty}
      BY DEF WithoutItems
    <2>2. \A q \in Products : db[Cart(c)][q].qty <= Shelf[q] /\ 0 <= Shelf[q]
      BY <1>1, OrdersAssumption DEF ScarceInv, WithinShelf
    <2> HIDE DEF row
    <2> QED
      BY <2>1, <2>2
  <1> HIDE DEF row
  <1>6. WritesOne(t, Cart(c), row) /\ committed' = committed
    BY <1>2, <1>3, OneRowEffect DEF OrderInv
  <1>7. NothingReturns(t)' /\ AsksWithin(t)'
    BY <1>4 DEF NothingReturns, AsksWithin
  <1>8. ASSUME NEW d \in Clients
        PROVE  db'[Cart(d)] = db[Cart(d)] \/ \A q \in Products : db'[Cart(d)][q].qty <= Shelf[q]
    BY <1>5, <1>6, RowKinds DEF WritesOne
  <1>9. \A q \in Products : db'[Product(q)] = db[Product(q)]
    BY <1>6, RowKinds DEF WritesOne
  <1> QED
    BY <1>4, <1>6, <1>7, <1>8, <1>9, ScarceWrite

LEMMA ScarceTaken ==
    ASSUME OrderInv, ScarceInv, NEW t \in Txns, CartTaken(t)
    PROVE  ScarceInv'
  <1>1. /\ pc' = [pc EXCEPT ![t] = "reread"] /\ UNCHANGED <<db, committed, req, seen>>
        /\ SlotsOK
    BY DEF CartTaken, OrderInv, RequestsInv
  <1>2. OthersUntouched(t) /\ pc'[t] = "reread"
    BY <1>1 DEF OthersUntouched, SlotsOK
  <1> QED
    BY <1>1, <1>2, ScarceWrite DEF NothingReturns, AsksWithin

LEMMA ScarceInitially == ASSUME CartsFit, Init PROVE ScarceInv
  <1>1. db = InitialRows /\ committed = InitialRows
    BY DEF Init, InitStore
  <1>2. \A p \in Products : InitialRows[Product(p)].stock = Shelf[p] /\ Shelf[p] \in Nat
    BY RowKinds, OrdersAssumption DEF InitialRows, Product
  <1>3. \A c \in Clients : InitialRows[Cart(c)] # NoRow =>
            Carts[c] # NoRow /\ InitialRows[Cart(c)] = [p \in Products |-> [id |-> 0, qty |-> Carts[c][p]]]
    BY RowKinds DEF InitialRows, Cart
  <1>4. WithinShelf(InitialRows)
    <2>1. \A p \in Products : InitialRows[Product(p)].stock <= Shelf[p]
      BY <1>2
    <2>2. ASSUME NEW c \in Clients, NEW p \in Products, InitialRows[Cart(c)] # NoRow
          PROVE  InitialRows[Cart(c)][p].qty <= Shelf[p]
      <3>1. Carts[c] # NoRow /\ InitialRows[Cart(c)] = [q \in Products |-> [id |-> 0, qty |-> Carts[c][q]]]
        BY <1>3, <2>2
      <3>2. InitialRows[Cart(c)][p] = [id |-> 0, qty |-> Carts[c][p]]
        BY <3>1
      <3> QED
        BY <3>1, <3>2 DEF CartsFit
    <2> QED
      BY <2>1, <2>2 DEF WithinShelf
  <1>5. \A t \in Txns : NothingReturns(t) /\ AsksWithin(t)
    BY DEF Init, NothingReturns, AsksWithin
  <1> QED
    BY <1>1, <1>4, <1>5 DEF ScarceInv

LEMMA ScarceInductive ==
    ASSUME OrderInv, CartInv, NoReturns, ScarceInv, [CartNext]_vars PROVE ScarceInv'
  <1>1. ASSUME NEW t \in Txns, CartServe(t) PROVE ScarceInv'
    BY <1>1, ScarceCreate, ScarceTaken, ScarcePut, ScarceDropItems, ScarceForget
       DEF CartServe, RereadFails, RefuseItem
  <1>2. CASE UNCHANGED vars
    BY <1>2 DEF vars, ScarceInv, WithinShelf, NothingReturns, AsksWithin, SeenCart
  <1> QED
    BY <1>1, <1>2, ScarceNext, ScarceCartArrive DEF CartNext

-----------------------------------------------------------------------------
(* The shop while nothing comes back: units leave with orders, as Storefront   *)
(* has it.                                                                     *)

\* What another request's pending order consists of stays as it is.
LEMMA PendingFrame ==
    ASSUME OrderInv, StoreInv', NEW t \in Txns, Others(Rows, t),
           NEW o \in OrderIds, Pending(o), owner[Order(o)] # t
    PROVE  /\ owner[Order(o)] \in Txns /\ owner'[Order(o)] = owner[Order(o)] /\ Pending(o)'
           /\ \A p \in Products : db'[Line(o, p)] = db[Line(o, p)]
           /\ \A r \in Rows : owner[r] = owner[Order(o)] =>
                 owner'[r] = owner[r] /\ db'[r] = db[r] /\ committed'[r] = committed[r]
  <1> DEFINE w == owner[Order(o)]
  <1>1. StoreInv /\ Order(o) \in Rows
    BY RowKinds DEF OrderInv
  <1>2. w # Nobody /\ w \in Txns
    BY <1>1 DEF StoreInv, UnlockedIsCommitted, RowsOK, Pending
  <1>3. \A r \in Rows : owner[r] = w =>
            owner'[r] = w /\ db'[r] = db[r] /\ committed'[r] = committed[r]
    BY <1>2 DEF Others
  <1>4. owner'[Order(o)] = w /\ Pending(o)'
    BY <1>1, <1>3 DEF Pending
  <1>5. ASSUME NEW p \in Products PROVE db'[Line(o, p)] = db[Line(o, p)]
    <2>1. Line(o, p) \in Rows
      BY RowKinds
    <2>2. CASE db[Line(o, p)] # NoRow
      <3>1. owner[Line(o, p)] = w
        BY <1>1, <2>2 DEF StoreInv, LinesHaveOrders, Pending
      <3> QED
        BY <1>3, <2>1, <3>1
    <2>3. CASE db'[Line(o, p)] # NoRow
      <3>1. owner'[Line(o, p)] = w
        BY <1>4, <2>3 DEF StoreInv, LinesHaveOrders, Pending
      <3>2. owner[Line(o, p)] = w
        BY <1>2, <2>1, <3>1 DEF Others
      <3> QED
        BY <1>3, <2>1, <3>2
    <2> QED
      BY <2>2, <2>3
  <1> QED
    BY <1>2, <1>3, <1>4, <1>5

LEMMA PendingSaleStays ==
    ASSUME OrderInv, StoreInv', SalesInv, NEW t \in Txns, Others(Rows, t), NEW o \in OrderIds,
           Pending(o)' => Pending(o) /\ owner[Order(o)] # t
    PROVE  PendingSale(o)'
  <1> SUFFICES ASSUME Pending(o)' PROVE PendingSale(o)'
    BY DEF PendingSale
  <1> DEFINE w == owner[Order(o)]
  <1>1. /\ Pending(o) /\ w # t /\ w \in Txns /\ owner'[Order(o)] = w
        /\ \A p \in Products : db'[Line(o, p)] = db[Line(o, p)]
        /\ \A r \in Rows : owner[r] = w =>
              owner'[r] = w /\ db'[r] = db[r] /\ committed'[r] = committed[r]
    BY PendingFrame
  <1>2. PendingSale(o)
    BY DEF SalesInv
  <1>3. \E p \in Products : db'[Line(o, p)] # NoRow
    BY <1>1, <1>2 DEF PendingSale
  <1>4. ASSUME NEW p \in Products, db'[Line(o, p)] # NoRow
        PROVE  /\ db'[Line(o, p)].qty > 0 /\ db'[Line(o, p)].status # "CANCELLED"
               /\ owner'[Product(p)] = w
               /\ db'[Product(p)].stock = committed'[Product(p)].stock - db'[Line(o, p)].qty
    BY <1>1, <1>2, <1>4, RowKinds DEF PendingSale
  <1>5. ASSUME NEW n \in OrderIds, Pending(n)', owner'[Order(n)] = w PROVE n = o
    <2>1. owner[Order(n)] = w
      BY <1>1, <1>5, RowKinds, NobodyIsNoTxn DEF Others
    <2>2. Pending(n)
      BY <1>1, <1>5, <2>1, RowKinds DEF Pending
    <2> QED
      BY <1>1, <1>2, <2>1, <2>2 DEF PendingSale
  <1> QED
    BY <1>1, <1>3, <1>4, <1>5 DEF PendingSale

LEMMA TakenStays ==
    ASSUME OrderInv, StoreInv', SalesInv, NEW t \in Txns, Others(Rows, t), NEW p \in Products,
           db[Product(p)].stock # committed[Product(p)].stock, owner[Product(p)] # t
    PROVE  TakenBySale(p)'
  <1>1. PICK o \in OrderIds : /\ Pending(o) /\ db[Line(o, p)] # NoRow
                              /\ owner[Order(o)] = owner[Product(p)]
    BY DEF SalesInv, TakenBySale
  <1>2. /\ Pending(o)' /\ owner'[Order(o)] = owner[Order(o)]
        /\ db'[Line(o, p)] = db[Line(o, p)]
        /\ owner'[Product(p)] = owner[Product(p)]
    BY <1>1, PendingFrame, RowKinds
  <1> QED
    BY <1>1, <1>2 DEF TakenBySale

LEMMA OthersBuy ==
    ASSUME SalesInv, NEW t \in Txns, OthersUntouched(t), SomethingToBuy(t)'
    PROVE  \A u \in Txns : SomethingToBuy(u)'
  <1>1. ASSUME NEW u \in Txns \ {t} PROVE SomethingToBuy(u)'
    BY <1>1 DEF SalesInv, SomethingToBuy, OthersUntouched, InBasket, Basket, SeenCart
  <1> QED
    BY <1>1

\* A step that moves no units.
LEMMA SalesStep ==
    ASSUME OrderInv, StoreInv', CartInv, SalesInv, NEW t \in Txns, pc[t] # "commit",
           OthersUntouched(t), Others(Rows, t), committed' = committed, StaysPending(t),
           \A p \in Products : db'[Product(p)].stock = db[Product(p)].stock,
           \A o \in OrderIds, p \in Products : committed[Line(o, p)] # NoRow =>
               \/ db'[Line(o, p)] = db[Line(o, p)]
               \/ /\ db'[Line(o, p)].qty = db[Line(o, p)].qty
                  /\ db'[Line(o, p)].status # "CANCELLED",
           SomethingToBuy(t)'
    PROVE  SalesInv'
  <1>1. \A u \in Txns : SomethingToBuy(u)'
    BY OthersBuy
  <1>2. \A o \in OrderIds : PendingSale(o)'
    BY PendingSaleStays DEF StaysPending
  <1>3. ASSUME NEW p \in Products PROVE TakenBySale(p)'
    <2> SUFFICES ASSUME db'[Product(p)].stock # committed'[Product(p)].stock PROVE TakenBySale(p)'
      BY DEF TakenBySale
    <2>1. db[Product(p)].stock # committed[Product(p)].stock
      OBVIOUS
    <2>2. owner[Product(p)] # t
      BY <2>1 DEF SalesInv, TakenBySale, CartInv, PendingOK
    <2> QED
      BY <2>1, <2>2, TakenStays
  <1>4. \A o \in OrderIds, p \in Products : SoldForGood(o, p)'
    BY DEF SalesInv, SoldForGood
  <1> QED
    BY <1>1, <1>2, <1>3, <1>4 DEF SalesInv

LEMMA SalesBegin ==
    ASSUME OrderInv, OrderInv', CartInv, SalesInv, NEW t \in Txns, NEW next,
           next \notin {"insert", "queue", "place"}, NEW what, NEW rows,
           Begin(t, next, what, rows)
    PROVE  SalesInv'
  <1>1. /\ pc[t] = "idle" /\ pc'[t] = next /\ OthersUntouched(t)
        /\ UNCHANGED <<db, committed, owner>>
    BY BeginReads
  <1>2. Others(Rows, t)
    BY <1>1, RowsStored, IdleEffect DEF OrderInv
  <1>3. StaysPending(t)
    BY <1>1, SilentStep
  <1>4. SomethingToBuy(t)'
    BY <1>1 DEF SomethingToBuy
  <1> QED
    BY <1>1, <1>2, <1>3, <1>4, SalesStep DEF OrderInv

LEMMA SalesArrive ==
    ASSUME OrderInv, CartInv, SalesInv, NEW t \in Txns, Arrive(t)
    PROVE  SalesInv'
  <1>1. OrderInv'
    BY ArriveKeeps
  <1>2. \E next \in {"lock", "restock", "mark", "rollup", "edit"} :
            \E what, rows : Begin(t, next, what, rows)
    <2>1. ASSUME NEW c \in Clients, BeginCheckout(t, c) PROVE \E what, rows : Begin(t, "lock", what, rows)
      BY <2>1 DEF BeginCheckout
    <2>2. ASSUME NEW o \in OrderIds, NEW p \in Products, NEW m \in VendorMoves, BeginAdvance(t, o, p, m)
          PROVE  \E next \in {"restock", "mark"} : \E what, rows : Begin(t, next, what, rows)
      BY <2>2 DEF BeginAdvance
    <2>3. ASSUME NEW o \in OrderIds, NEW p \in Products, BeginCancel(t, o, p)
          PROVE  \E next \in {"restock", "rollup"} : \E what, rows : Begin(t, next, what, rows)
      BY <2>3 DEF BeginCancel
    <2>4. ASSUME NEW p \in Products, NEW e \in Edits, BeginEdit(t, p, e)
          PROVE  \E what, rows : Begin(t, "edit", what, rows)
      BY <2>4 DEF BeginEdit
    <2> QED
      BY <2>1, <2>2, <2>3, <2>4 DEF Arrive
  <1> QED
    BY <1>1, <1>2, SalesBegin

LEMMA SalesForget ==
    ASSUME OrderInv, CartInv, SalesInv, NEW t \in Txns, Rollback(t) \/ Commit(t)
    PROVE  SalesInv'
  <1>1. /\ Others(Rows, t) /\ StoreInv'
        /\ \A r \in Rows : /\ owner[r] = t => db'[r] = committed'[r]
                           /\ owner[r] # t => db'[r] = db[r] /\ committed'[r] = committed[r]
                           /\ committed'[r] \in {committed[r], db[r]}
    <2>1. CASE Rollback(t)
      <3>1. /\ Others(Rows, t) /\ committed' = committed
            /\ \A r \in Rows : db'[r] = IF owner[r] = t THEN committed[r] ELSE db[r]
        BY <2>1, RowsStored, RollbackEffect DEF Rollback, OrderInv
      <3>2. StoreInv'
        BY <2>1, RollbackKeeps DEF OrderInv
      <3> QED
        BY <3>1, <3>2
    <2>2. CASE Commit(t)
      <3>1. /\ Others(Rows, t) /\ db' = db
            /\ \A r \in Rows : committed'[r] = IF owner[r] = t THEN db[r] ELSE committed[r]
        BY <2>2, RowsStored, CommitEffect DEF Commit, OrderInv
      <3>2. StoreInv'
        BY <2>2, CommitKeeps DEF OrderInv
      <3> QED
        BY <3>1, <3>2
    <2> QED
      BY <2>1, <2>2
  <1>2. OthersUntouched(t) /\ pc'[t] = "idle"
    <2>1. \A r \in Rows : owner'[r] # t
      BY RowsStored, RollbackEffect, CommitEffect DEF Rollback, Commit, OrderInv
    <2> QED
      BY <2>1, ForgetKeeps DEF Rollback, Commit, Forget, OrderInv, RequestsInv, SlotsOK
  <1>3. \A u \in Txns : SomethingToBuy(u)'
    BY <1>2, OthersBuy DEF SomethingToBuy
  <1>4. ASSUME NEW o \in OrderIds PROVE PendingSale(o)'
    <2>1. Pending(o)' => Pending(o) /\ owner[Order(o)] # t
      BY <1>1, RowKinds DEF Pending
    <2> QED
      BY <1>1, <2>1, PendingSaleStays
  <1>5. ASSUME NEW p \in Products PROVE TakenBySale(p)'
    <2>1. CASE owner[Product(p)] = t
      BY <1>1, <2>1, RowKinds DEF TakenBySale
    <2>2. CASE owner[Product(p)] # t
      <3>1. db'[Product(p)] = db[Product(p)] /\ committed'[Product(p)] = committed[Product(p)]
        BY <1>1, <2>2, RowKinds
      <3>2. CASE db[Product(p)].stock # committed[Product(p)].stock
        BY <1>1, <2>2, <3>2, TakenStays
      <3> QED
        BY <3>1, <3>2 DEF TakenBySale
    <2> QED
      BY <2>1, <2>2
  <1>6. ASSUME NEW o \in OrderIds, NEW p \in Products PROVE SoldForGood(o, p)'
    <2> DEFINE l == Line(o, p)
    <2> SUFFICES ASSUME committed'[l] # NoRow
                 PROVE  /\ db'[l].qty = committed'[l].qty
                        /\ db'[l].status # "CANCELLED" /\ committed'[l].status # "CANCELLED"
      BY DEF SoldForGood
    <2>1. l \in Rows /\ SoldForGood(o, p)
      BY RowKinds DEF SalesInv
    <2>2. CASE committed[l] # NoRow
      BY <1>1, <2>1, <2>2 DEF SoldForGood
    <2>3. CASE committed[l] = NoRow
      <3>1. owner[l] = t /\ db[l] # NoRow /\ committed'[l] = db[l] /\ db'[l] = committed'[l]
        BY <1>1, <2>1, <2>3
      <3>2. Pending(o)
        BY <2>3, <3>1 DEF OrderInv, StoreInv, LinesHaveOrders, Pending
      <3> QED
        BY <3>1, <3>2 DEF SalesInv, PendingSale
    <2> QED
      BY <2>2, <2>3
  <1> QED
    BY <1>3, <1>4, <1>5, <1>6 DEF SalesInv

LEMMA SalesWorks ==
    ASSUME OrderInv, OrderInv', CartInv, ScarceInv, SalesInv, NEW t \in Txns, Works(t), ~PlaceOrder(t)
    PROVE  SalesInv'
  <1>1. /\ OthersUntouched(t) /\ Others(Rows, t) /\ committed' = committed
        /\ ~Restock(t) /\ SlotsOK /\ StoreInv'
        /\ pc[t] \in {"lock", "insert", "queue", "place", "restock", "mark", "rollup", "edit"}
    BY WorksOnSlot, WorksOnOrders DEF ScarceInv, NothingReturns, Restock, OrderInv, RequestsInv
  <1>2. StaysPending(t)
    BY <1>1, WorksOffCarts, SilentStep
  <1>3. CASE LockProduct(t)
    <2>1. db' = db
      BY <1>3, LockProductEffect
    <2> DEFINE n == NextProduct(t)
    <2>2. /\ pc' = [pc EXCEPT ![t] = IF InBasket(t) \ Locked(t) = {n} THEN "insert" ELSE "lock"]
          /\ seen' = [seen EXCEPT ![t][Product(n)] = db[Product(n)]]
          /\ req' = req
      BY <1>3 DEF LockProduct, Reread
    <2>3. req[t].client \in Clients
      BY <1>3 DEF OrderInv, RequestsInv, RequestOK, LockProduct, CheckoutReq
    <2> HIDE DEF n
    <2>4. SeenCart(t)' = SeenCart(t)
      BY <1>1, <2>2, <2>3, RowKinds DEF SeenCart, SlotsOK
    <2>5. InBasket(t)' = InBasket(t)
      BY <2>4 DEF InBasket, Basket
    <2>6. SomethingToBuy(t)'
      <3>1. pc'[t] # "lock" => InBasket(t) \ Locked(t) = {n}
        BY <1>1, <2>2 DEF SlotsOK
      <3>2. InBasket(t) \ Locked(t) = {n} => InBasket(t) # {}
        OBVIOUS
      <3> QED
        BY <2>5, <3>1, <3>2 DEF SomethingToBuy
    <2> QED
      BY <1>1, <1>2, <2>1, <2>6, SalesStep
  <1>4. CASE Mark(t)
    <2> DEFINE l == Line(req[t].order, req[t].item)
               row == [db[l] EXCEPT !.status = req[t].move]
    <2>1. WritesOne(t, l, row)
      BY <1>4, MarkEffect
    <2>2. req[t].move # "CANCELLED" /\ committed[l] # NoRow /\ req[t] \in LineReq
      BY <1>4 DEF Mark, ScarceInv, NothingReturns, OrderInv, RequestsInv, RequestOK, LineReads
    <2>3. l \in Rows /\ db[l] \in LineRow
      <3>1. req[t].order \in OrderIds /\ req[t].item \in Products
        BY <2>2 DEF LineReq
      <3>2. db[l] # NoRow
        BY <2>2, <3>1, RowKinds DEF OrderInv, StoreInv, RowsKept
      <3> QED
        BY <3>1, <3>2, RowKinds DEF OrderInv, StoreInv, RowsOK
    <2>4. row.qty = db[l].qty /\ row.status # "CANCELLED"
      BY <2>2, <2>3 DEF LineRow
    <2> HIDE DEF row
    <2>5. \A p \in Products : db'[Product(p)] = db[Product(p)]
      BY <2>1, RowKinds DEF WritesOne
    <2>6. ASSUME NEW o \in OrderIds, NEW p \in Products
          PROVE  \/ db'[Line(o, p)] = db[Line(o, p)]
                 \/ /\ db'[Line(o, p)].qty = db[Line(o, p)].qty
                    /\ db'[Line(o, p)].status # "CANCELLED"
      BY <2>1, <2>3, <2>4, RowKinds DEF WritesOne
    <2>7. pc'[t] \notin {"insert", "queue", "place"}
      BY <1>1, <1>4 DEF Mark, SlotsOK
    <2> QED
      BY <1>1, <1>2, <2>5, <2>6, <2>7, SalesStep DEF SomethingToBuy
  <1>5. CASE SetOrderStatus(t)
    <2>1. PICK row : WritesOne(t, Order(req[t].order), row) \/ db' = db
      BY <1>5, SetOrderStatusEffect
    <2>2. /\ \A p \in Products : db'[Product(p)] = db[Product(p)]
          /\ \A o \in OrderIds, p \in Products : db'[Line(o, p)] = db[Line(o, p)]
      BY <2>1, RowKinds DEF WritesOne
    <2>3. pc'[t] \notin {"insert", "queue", "place"}
      BY <1>1, <1>5 DEF SetOrderStatus, Finish, SlotsOK
    <2> QED
      BY <1>1, <1>2, <2>2, <2>3, SalesStep DEF SomethingToBuy
  <1>6. CASE EditProduct(t)
    <2> DEFINE r == Product(req[t].item)
               old == seen[t][r]
               edited == Patched(old, req[t].patch)
    <2>1. edited.stock = old.stock
      BY <1>6 DEF EditProduct, ScarceInv, NothingReturns, Patched, Honest
    <2>2. PICK status :
            WritesOne(t, r, [stock |-> IF edited.stock = old.stock THEN db[r].stock ELSE edited.stock,
                             status |-> status])
      BY <1>6, EditProductEffect
    <2> HIDE DEF edited
    <2>3. /\ \A p \in Products : db'[Product(p)].stock = db[Product(p)].stock
          /\ \A o \in OrderIds, p \in Products : db'[Line(o, p)] = db[Line(o, p)]
      BY <2>1, <2>2, RowKinds DEF WritesOne
    <2>4. pc'[t] \notin {"insert", "queue", "place"}
      BY <1>1, <1>6 DEF EditProduct, Finish, SlotsOK
    <2> QED
      BY <1>1, <1>2, <2>3, <2>4, SalesStep DEF SomethingToBuy
  <1>7. CASE TakesNumber(t)
    <2>1. pc[t] \in {"insert", "queue"} /\ UNCHANGED <<db, req, seen>>
      BY <1>7, TakesNumberEffect
    <2>2. InBasket(t)' = InBasket(t)
      BY <2>1 DEF InBasket, Basket, SeenCart
    <2>3. SomethingToBuy(t)'
      BY <2>1, <2>2 DEF SalesInv, SomethingToBuy
    <2> QED
      BY <1>1, <1>2, <2>1, <2>3, SalesStep
  <1> QED
    BY <1>1, <1>3, <1>4, <1>5, <1>6, <1>7 DEF Works

\* A checkout takes what its lines say, from the stock it has locked.
LEMMA SalesPlace ==
    ASSUME OrderInv, OrderInv', CartInv, SalesInv, NEW t \in Txns, PlaceOrder(t)
    PROVE  SalesInv'
  <1> DEFINE c == req[t].client
             written(o) == {Order(o), Cart(c)} \cup {Product(p) : p \in InBasket(t)}
                           \cup {Line(o, p) : p \in InBasket(t)}
  <1>1. PICK o \in Unused :
          /\ o \in OrderIds /\ committed[Order(o)] = NoRow /\ c \in Clients
          /\ \A r \in written(o) : owner[r] \in {t, Nobody} /\ owner'[r] = t
          /\ \A r \in Rows \ written(o) : db'[r] = db[r] /\ owner'[r] = owner[r]
          /\ db'[Order(o)] = [client |-> c, status |-> "PENDING"]
          /\ \A p \in InBasket(t) :
                /\ db'[Product(p)] = Sell(seen[t][Product(p)], Basket(t)[p])
                /\ db'[Line(o, p)] = [qty |-> Basket(t)[p], status |-> "PENDING"]
          /\ Others(Rows, t) /\ committed' = committed
    BY PlaceOrderEffect DEF Places
  <1>2. pc'[t] = "commit" /\ OthersUntouched(t) /\ pc[t] = "place"
    BY FinishKeeps DEF PlaceOrder, Finish, OrderInv, RequestsInv, SlotsOK
  <1>3. StoreInv /\ StoreInv' /\ CheckoutReads(t) /\ InBasket(t) # {} /\ db[Order(o)] = NoRow
    BY <1>2 DEF OrderInv, RequestsInv, RequestOK, SalesInv, SomethingToBuy, Unused
  <1>4. \A n \in OrderIds : Pending(n) => owner[Order(n)] # t
    BY <1>2 DEF CartInv, PendingOK
  <1>5. \A p \in Products : owner[Product(p)] = t => db[Product(p)].stock = committed[Product(p)].stock
    BY <1>4 DEF SalesInv, TakenBySale
  <1>6. ASSUME NEW n \in OrderIds \ {o}, Pending(n)'
        PROVE  Pending(n) /\ owner[Order(n)] # t
    <2>1. Order(n) \in Rows \ written(o)
      BY RowKinds
    <2> HIDE DEF written
    <2> QED
      BY <1>1, <1>4, <1>6, <2>1 DEF Pending
  <1>7. /\ Order(o) \in written(o)
        /\ \A p \in InBasket(t) : Product(p) \in written(o) /\ p \in Products
    BY DEF InBasket
  <1>8. /\ \A p \in Products \ InBasket(t) : /\ Product(p) \in Rows \ written(o)
                                              /\ Line(o, p) \in Rows \ written(o)
        /\ \A n \in OrderIds \ {o}, p \in Products : Line(n, p) \in Rows \ written(o)
    <2>1. ASSUME NEW p \in Products \ InBasket(t)
          PROVE  Product(p) \in Rows \ written(o) /\ Line(o, p) \in Rows \ written(o)
      BY <1>1, RowKinds
    <2>2. ASSUME NEW n \in OrderIds \ {o}, NEW p \in Products PROVE Line(n, p) \in Rows \ written(o)
      BY RowKinds
    <2> QED
      BY <2>1, <2>2
  <1> HIDE DEF written, c
  <1>9. \A p \in Products \ InBasket(t) : db'[Line(o, p)] = NoRow
    <2> SUFFICES ASSUME NEW p \in Products \ InBasket(t) PROVE db'[Line(o, p)] = NoRow
      OBVIOUS
    <2>1. db'[Line(o, p)] = db[Line(o, p)]
      BY <1>1, <1>8
    <2> QED
      BY <1>1, <1>3, <2>1 DEF StoreInv, LinesHaveOrders
  <1>10. ASSUME NEW p \in InBasket(t)
         PROVE  /\ db'[Line(o, p)] # NoRow
                /\ db'[Line(o, p)].qty > 0 /\ db'[Line(o, p)].status # "CANCELLED"
                /\ owner'[Product(p)] = t
                /\ db'[Product(p)].stock = committed'[Product(p)].stock - db'[Line(o, p)].qty
    <2>1. p \in Products /\ Basket(t)[p] > 0 /\ Basket(t)[p] \in Nat
      BY <1>3 DEF InBasket, CheckoutReads, Basket, CartRow, Item
    <2>2. db'[Line(o, p)] = [qty |-> Basket(t)[p], status |-> "PENDING"]
      BY <1>1
    <2>3. db'[Line(o, p)] # NoRow
      <3>1. [qty |-> Basket(t)[p], status |-> "PENDING"] \in LineRow
        BY <2>1 DEF LineRow, VendorItemStatus
      <3> QED
        BY <2>2, <3>1, NoRowIsNoValue
    <2>4. owner[Product(p)] = t /\ seen[t][Product(p)] = db[Product(p)]
      BY <1>2, <1>3 DEF CheckoutReads
    <2>5. db'[Product(p)] = Sell(db[Product(p)], Basket(t)[p])
      BY <1>1, <2>4
    <2>6. db'[Product(p)].stock = committed[Product(p)].stock - Basket(t)[p]
      BY <1>5, <2>1, <2>4, <2>5 DEF Sell
    <2> QED
      BY <1>1, <1>7, <2>1, <2>2, <2>3, <2>6
  <1>11. PendingSale(o)'
    <2>1. PICK p \in InBasket(t) : TRUE
      BY <1>3
    <2>2. \E q \in Products : db'[Line(o, q)] # NoRow
      BY <1>7, <1>10, <2>1
    <2>3. owner'[Order(o)] = t
      BY <1>1, <1>7
    <2>4. ASSUME NEW n \in OrderIds, Pending(n)', owner'[Order(n)] = t PROVE n = o
      <3> SUFFICES ASSUME n # o PROVE FALSE
        OBVIOUS
      <3>1. Pending(n) /\ owner[Order(n)] # t
        BY <1>6, <2>4
      <3>2. owner'[Order(n)] = owner[Order(n)]
        BY <1>1, <1>3, <3>1, PendingFrame
      <3> QED
        BY <2>4, <3>1, <3>2
    <2>5. \A q \in Products : db'[Line(o, q)] # NoRow => q \in InBasket(t)
      BY <1>9
    <2> QED
      BY <1>10, <2>2, <2>3, <2>4, <2>5 DEF PendingSale
  <1>12. \A n \in OrderIds : PendingSale(n)'
    <2>1. ASSUME NEW n \in OrderIds \ {o} PROVE PendingSale(n)'
      BY <1>1, <1>3, <1>6, PendingSaleStays
    <2> QED
      BY <1>11, <2>1
  <1>13. ASSUME NEW p \in Products PROVE TakenBySale(p)'
    <2>1. CASE p \in InBasket(t)
      <3>1. Pending(o)' /\ owner'[Order(o)] = t
        <4>1. db'[Order(o)] # NoRow
          BY <1>1, <1>3, <1>7, <1>10, <2>1 DEF StoreInv, LinesHaveOrders
        <4> QED
          BY <1>1, <1>7, <4>1 DEF Pending
      <3> QED
        BY <1>1, <1>10, <2>1, <3>1 DEF TakenBySale
    <2>2. CASE p \notin InBasket(t)
      <3>1. db'[Product(p)] = db[Product(p)] /\ committed'[Product(p)] = committed[Product(p)]
        BY <1>1, <1>8, <2>2
      <3>2. CASE db[Product(p)].stock # committed[Product(p)].stock
        BY <1>1, <1>3, <1>5, <3>2, TakenStays
      <3> QED
        BY <3>1, <3>2 DEF TakenBySale
    <2> QED
      BY <2>1, <2>2
  <1>14. ASSUME NEW n \in OrderIds, NEW p \in Products PROVE SoldForGood(n, p)'
    <2> SUFFICES ASSUME committed[Line(n, p)] # NoRow PROVE SoldForGood(n, p)'
      BY <1>1 DEF SoldForGood
    <2>1. n # o
      BY <1>1, <1>3 DEF StoreInv, LinesHaveOrders
    <2>2. db'[Line(n, p)] = db[Line(n, p)]
      BY <1>1, <1>8, <2>1
    <2> QED
      BY <1>1, <2>2 DEF SalesInv, SoldForGood
  <1>15. \A u \in Txns : SomethingToBuy(u)'
    BY <1>2, OthersBuy DEF SomethingToBuy
  <1> QED
    BY <1>12, <1>13, <1>14, <1>15 DEF SalesInv

\* The steps of Carts that write, write a cart.
LEMMA CartServeEffect ==
    ASSUME OrderInv, CartInv, NEW t \in Txns, CreateCart(t) \/ PutItem(t) \/ DropItems(t)
    PROVE  /\ \E row : WritesOne(t, Cart(req[t].client), row)
           /\ Others(Rows, t) /\ committed' = committed
           /\ OthersUntouched(t) /\ pc[t] \in {"create", "put", "drop"} /\ pc'[t] \in {"put", "commit"}
  <1> DEFINE r == Cart(req[t].client)
  <1>1. \E row, new : new = [x \in {r} |-> row] /\ WriteRows(t, new)
    <2>1. CASE CreateCart(t)
      <3>1. PICK new : new = [x \in {r} |-> EmptyCart]
        OBVIOUS
      <3> QED
        BY <2>1, <3>1 DEF CreateCart
    <2>2. CASE PutItem(t)
      <3>1. PICK row : row = [db[r] EXCEPT ![req[t].item] = Put(t, @)]
        OBVIOUS
      <3>2. PICK new : new = [x \in {r} |-> row]
        OBVIOUS
      <3>3. new = [x \in {r} |-> [db[x] EXCEPT ![req[t].item] = Put(t, @)]]
        BY <3>1, <3>2
      <3> QED
        BY <2>2, <3>2, <3>3 DEF PutItem
    <2>3. CASE DropItems(t)
      <3>1. PICK row : row = WithoutItems(db[r], req[t].items, SeenCart(t))
        OBVIOUS
      <3>2. PICK new : new = [x \in {r} |-> row]
        OBVIOUS
      <3>3. new = [x \in {r} |-> WithoutItems(db[x], req[t].items, SeenCart(t))]
        BY <3>1, <3>2
      <3> QED
        BY <2>3, <3>2, <3>3 DEF DropItems
    <2> QED
      BY <2>1, <2>2, <2>3
  <1>2. PICK row, new : new = [x \in {r} |-> row] /\ WriteRows(t, new)
    BY <1>1
  <1> HIDE DEF r
  <1>3. WritesOne(t, r, row) /\ Others(Rows, t) /\ committed' = committed
    BY <1>2, OneRowEffect DEF OrderInv
  <1>4. OthersUntouched(t) /\ pc[t] \in {"create", "put", "drop"} /\ pc'[t] \in {"put", "commit"}
    <2>1. SlotsOK
      BY DEF OrderInv, RequestsInv
    <2>2. CASE CreateCart(t)
      <3>1. /\ pc[t] = "create" /\ pc' = [pc EXCEPT ![t] = "put"] /\ req' = req
            /\ \E f : seen' = [seen EXCEPT ![t] = f]
        BY <2>2 DEF CreateCart
      <3> QED
        BY <2>1, <3>1 DEF OthersUntouched, SlotsOK
    <2>3. CASE PutItem(t)
      BY <2>1, <2>3, FinishKeeps DEF PutItem, Finish, SlotsOK
    <2>4. CASE DropItems(t)
      BY <2>1, <2>4, FinishKeeps DEF DropItems, Finish, SlotsOK
    <2> QED
      BY <2>2, <2>3, <2>4
  <1> QED
    BY <1>3, <1>4 DEF r

LEMMA SalesServeCart ==
    ASSUME OrderInv, OrderInv', CartInv, SalesInv, NEW t \in Txns, CartServe(t)
    PROVE  SalesInv'
  <1>1. CASE CreateCart(t) \/ PutItem(t) \/ DropItems(t)
    <2>1. PICK row : WritesOne(t, Cart(req[t].client), row)
      BY <1>1, CartServeEffect
    <2>2. /\ \A p \in Products : db'[Product(p)] = db[Product(p)]
          /\ \A o \in OrderIds : db'[Order(o)] = db[Order(o)]
          /\ \A o \in OrderIds, p \in Products : db'[Line(o, p)] = db[Line(o, p)]
      BY <2>1, RowKinds DEF WritesOne
    <2>3. /\ pc[t] # "commit" /\ pc'[t] \in {"put", "commit"} /\ OthersUntouched(t) /\ Others(Rows, t)
          /\ committed' = committed
      BY <1>1, CartServeEffect
    <2>4. StaysPending(t)
      BY <2>2, <2>3, SilentStep
    <2> QED
      BY <2>2, <2>3, <2>4, SalesStep DEF SomethingToBuy, OrderInv
  <1>2. CASE CartTaken(t)
    <2>1. /\ pc[t] = "create" /\ pc' = [pc EXCEPT ![t] = "reread"]
          /\ UNCHANGED <<db, committed, owner, req, seen>>
          /\ SlotsOK
      BY <1>2 DEF CartTaken, OrderInv, RequestsInv
    <2>2. OthersUntouched(t) /\ pc'[t] = "reread"
      BY <2>1 DEF OthersUntouched, SlotsOK
    <2>3. Others(Rows, t)
      BY <2>1, RowsStored, IdleEffect DEF OrderInv
    <2>4. StaysPending(t)
      BY <2>1, SilentStep
    <2> QED
      BY <2>1, <2>2, <2>3, <2>4, SalesStep DEF SomethingToBuy, OrderInv
  <1> QED
    BY <1>1, <1>2, SalesForget DEF CartServe, RereadFails, RefuseItem

LEMMA SalesArriveCart ==
    ASSUME OrderInv, OrderInv', CartInv, SalesInv, NEW t \in Txns, CartArrive(t)
    PROVE  SalesInv'
  <1>1. \E next \in {"create", "put", "drop"} : \E what, rows : Begin(t, next, what, rows)
    <2>1. ASSUME NEW c, NEW p, NEW n, BeginAdd(t, c, p, n)
          PROVE  \E next \in {"create", "put"} : \E what, rows : Begin(t, next, what, rows)
      BY <2>1 DEF BeginAdd
    <2>2. ASSUME NEW c, NEW p, NEW n, BeginSet(t, c, p, n)
          PROVE  \E what, rows : Begin(t, "put", what, rows)
      BY <2>2 DEF BeginSet
    <2>3. ASSUME NEW c, NEW items, BeginDrop(t, c, items)
          PROVE  \E what, rows : Begin(t, "drop", what, rows)
      BY <2>3 DEF BeginDrop
    <2> QED
      BY <2>1, <2>2, <2>3 DEF CartArrive, BeginRemove, BeginClear
  <1> QED
    BY <1>1, SalesBegin

LEMMA SalesInitially == Init => SalesInv
  <1> SUFFICES ASSUME Init PROVE SalesInv
    OBVIOUS
  <1>1. /\ \A o \in OrderIds : db[Order(o)] = NoRow
        /\ \A o \in OrderIds, p \in Products : committed[Line(o, p)] = NoRow
    BY RowKinds DEF Init, InitStore, InitialRows, Order, Line
  <1>2. db = committed /\ \A t \in Txns : pc[t] = "idle"
    BY DEF Init, InitStore
  <1> QED
    BY <1>1, <1>2 DEF SalesInv, SomethingToBuy, PendingSale, Pending, TakenBySale, SoldForGood

LEMMA SalesInductive ==
    ASSUME OrderInv, OrderInv', CartInv, ScarceInv, SalesInv, [CartNext]_vars PROVE SalesInv'
  <1>1. CASE Next
    <2> PICK t \in Txns : Arrive(t) \/ Step(t) \/ Abort(t) \/ DeadlockVictim(t)
      BY <1>1 DEF Next
    <2> QED
      BY SalesArrive, SalesPlace, SalesWorks, SalesForget
         DEF Step, Serve, Works, TakesNumber, RefuseCheckout, Abort, DeadlockVictim
  <1>2. ASSUME NEW t \in Txns, CartArrive(t) \/ CartServe(t) PROVE SalesInv'
    BY <1>2, SalesArriveCart, SalesServeCart
  <1>3. CASE UNCHANGED vars
    <2>1. \A t \in Txns : SomethingToBuy(t)'
      BY <1>3 DEF vars, SalesInv, SomethingToBuy, InBasket, Basket, SeenCart
    <2>2. \A o \in OrderIds : PendingSale(o)'
      BY <1>3 DEF vars, SalesInv, PendingSale, Pending
    <2>3. \A p \in Products : TakenBySale(p)'
      BY <1>3 DEF vars, SalesInv, TakenBySale, Pending
    <2>4. \A o \in OrderIds, p \in Products : SoldForGood(o, p)'
      BY <1>3 DEF vars, SalesInv, SoldForGood
    <2> QED
      BY <2>1, <2>2, <2>3, <2>4 DEF SalesInv
  <1> QED
    BY <1>1, <1>2, <1>3 DEF CartNext

-----------------------------------------------------------------------------
(* A commit as a step of Storefront. *)

\* What a commit makes of the units sold: of an order that was pending in it,
\* its lines, and of every other order what it was.
LEMMA CommitSells ==
    ASSUME OrderInv, SalesInv, NEW t \in Txns, Commit(t)
    PROVE  \A n \in OrderIds :
             IF Pending(n) /\ owner[Order(n)] = t
             THEN /\ committed[Order(n)] = NoRow /\ committed'[Order(n)] # NoRow
                  /\ \A p \in Products :
                        /\ UnitsSold(n, p) = 0
                        /\ UnitsSold(n, p)' = IF db[Line(n, p)] # NoRow THEN db[Line(n, p)].qty ELSE 0
             ELSE /\ committed[Order(n)] = NoRow <=> committed'[Order(n)] = NoRow
                  /\ \A p \in Products : UnitsSold(n, p)' = UnitsSold(n, p)
  <1>1. /\ StoreInv
        /\ \A r \in Rows : committed'[r] = IF owner[r] = t THEN db[r] ELSE committed[r]
    BY RowsStored, CommitEffect DEF Commit, OrderInv
  <1> TAKE n \in OrderIds
  <1>2. Order(n) \in Rows /\ \A p \in Products : Line(n, p) \in Rows
    BY RowKinds
  <1>3. ASSUME Pending(n), owner[Order(n)] = t
        PROVE  /\ committed[Order(n)] = NoRow /\ committed'[Order(n)] # NoRow
               /\ \A p \in Products :
                     /\ UnitsSold(n, p) = 0
                     /\ UnitsSold(n, p)' = IF db[Line(n, p)] # NoRow THEN db[Line(n, p)].qty ELSE 0
    <2>1. committed[Order(n)] = NoRow /\ committed'[Order(n)] # NoRow
      BY <1>1, <1>2, <1>3 DEF Pending
    <2>2. ASSUME NEW p \in Products
          PROVE  /\ UnitsSold(n, p) = 0
                 /\ UnitsSold(n, p)' = IF db[Line(n, p)] # NoRow THEN db[Line(n, p)].qty ELSE 0
      <3>1. committed[Line(n, p)] = NoRow
        BY <1>1, <2>1 DEF StoreInv, LinesHaveOrders
      <3>2. UnitsSold(n, p) = 0
        BY <3>1 DEF UnitsSold, UnitsIn, LiveLines, LinesOf
      <3>3. CASE db[Line(n, p)] = NoRow
        <4>1. committed'[Line(n, p)] = NoRow
          BY <1>1, <1>2, <3>1, <3>3
        <4> QED
          BY <3>2, <3>3, <4>1 DEF UnitsSold, UnitsIn, LiveLines, LinesOf
      <3>4. CASE db[Line(n, p)] # NoRow
        <4>1. owner[Line(n, p)] = t
          BY <1>1, <1>3, <2>1, <3>4 DEF StoreInv, LinesHaveOrders
        <4>2. committed'[Line(n, p)] = db[Line(n, p)]
          BY <1>1, <1>2, <4>1
        <4>3. db[Line(n, p)].status # "CANCELLED"
          BY <1>3, <3>4 DEF SalesInv, PendingSale
        <4> QED
          BY <3>2, <3>4, <4>2, <4>3 DEF UnitsSold, UnitsIn, LiveLines, LinesOf
      <3> QED
        BY <3>3, <3>4
    <2> QED
      BY <2>1, <2>2
  <1>4. ASSUME ~(Pending(n) /\ owner[Order(n)] = t)
        PROVE  /\ committed[Order(n)] = NoRow <=> committed'[Order(n)] = NoRow
               /\ \A p \in Products : UnitsSold(n, p)' = UnitsSold(n, p)
    <2>1. committed[Order(n)] = NoRow <=> committed'[Order(n)] = NoRow
      BY <1>1, <1>2, <1>4 DEF Pending, StoreInv, RowsKept
    <2>2. ASSUME NEW p \in Products PROVE UnitsSold(n, p)' = UnitsSold(n, p)
      <3>1. CASE committed[Line(n, p)] # NoRow
        <4>1. /\ db[Line(n, p)] # NoRow /\ db[Line(n, p)].qty = committed[Line(n, p)].qty
              /\ db[Line(n, p)].status # "CANCELLED" /\ committed[Line(n, p)].status # "CANCELLED"
          BY <1>1, <1>2, <3>1 DEF SalesInv, SoldForGood, StoreInv, RowsKept
        <4>2. committed'[Line(n, p)] \in {db[Line(n, p)], committed[Line(n, p)]}
          BY <1>1, <1>2
        <4> QED
          BY <3>1, <4>1, <4>2 DEF UnitsSold, UnitsIn, LiveLines, LinesOf
      <3>2. CASE committed[Line(n, p)] = NoRow
        <4>1. owner[Line(n, p)] = t => db[Line(n, p)] = NoRow
          BY <1>1, <1>4, <3>2 DEF StoreInv, LinesHaveOrders, Pending
        <4>2. committed'[Line(n, p)] = NoRow
          BY <1>1, <1>2, <3>2, <4>1
        <4> QED
          BY <3>2, <4>2 DEF UnitsSold, UnitsIn, LiveLines, LinesOf
      <3> QED
        BY <3>1, <3>2
    <2> QED
      BY <2>1, <2>2
  <1> QED
    BY <1>3, <1>4

\* The units an order that is not committed takes.
Taken(o) == [p \in Products |-> IF db[Line(o, p)] # NoRow THEN db[Line(o, p)].qty ELSE 0]

LEMMA CommitPlaces ==
    ASSUME OrderInv, SalesInv, NEW t \in Txns, Commit(t),
           NEW o \in OrderIds, Pending(o), owner[Order(o)] = t
    PROVE  Shop!Place(o, Taken(o)) /\ Taken(o) \in [Products -> Nat]
  <1>1. /\ StoreInv /\ StoreInv'
        /\ \A r \in Rows : committed'[r] = IF owner[r] = t THEN db[r] ELSE committed[r]
    BY RowsStored, CommitEffect, StoreCommit DEF Commit, OrderInv
  <1>2. \A n \in OrderIds : Pending(n) /\ owner[Order(n)] = t => n = o
    BY DEF SalesInv, PendingSale
  <1>3. \A p \in Products : Taken(o)[p] = IF db[Line(o, p)] # NoRow THEN db[Line(o, p)].qty ELSE 0
    BY DEF Taken
  <1>4. Taken(o) \in [Products -> Nat]
    <2>1. ASSUME NEW p \in Products PROVE Taken(o)[p] \in Nat
      <3>1. db[Line(o, p)] \in LineRow \cup {NoRow}
        BY <1>1 DEF StoreInv, RowsOK
      <3> QED
        BY <1>3, <3>1 DEF LineRow
    <2> QED
      BY <2>1 DEF Taken
  <1>5. \E p \in Products : Taken(o)[p] > 0
    BY <1>3 DEF SalesInv, PendingSale
  <1>6. ASSUME NEW p \in Products
        PROVE  /\ committed'[Product(p)].stock = committed[Product(p)].stock - Taken(o)[p]
               /\ Taken(o)[p] <= committed[Product(p)].stock
    <2>1. /\ committed[Product(p)].stock \in Int /\ db[Product(p)].stock \in Int
          /\ committed'[Product(p)].stock >= 0 /\ Taken(o)[p] \in Nat
          /\ committed[Product(p)].stock >= 0
      BY <1>1, <1>4 DEF StoreInv, RowsOK, ProductRow, StockNeverNegative
    <2>2. committed'[Product(p)].stock = committed[Product(p)].stock - Taken(o)[p]
      <3>1. CASE db[Line(o, p)] # NoRow
        <4>1. /\ owner[Product(p)] = t
              /\ db[Product(p)].stock = committed[Product(p)].stock - db[Line(o, p)].qty
          BY <3>1 DEF SalesInv, PendingSale
        <4> QED
          BY <1>1, <1>3, <3>1, <4>1, RowKinds
      <3>2. CASE db[Line(o, p)] = NoRow
        <4>1. owner[Product(p)] = t => db[Product(p)].stock = committed[Product(p)].stock
          BY <1>2, <3>2 DEF SalesInv, TakenBySale
        <4>2. committed'[Product(p)].stock = committed[Product(p)].stock
          BY <1>1, <4>1, RowKinds
        <4>3. Taken(o)[p] = 0
          BY <1>3, <3>2
        <4> QED
          BY <2>1, <4>2, <4>3
      <3> QED
        BY <3>1, <3>2
    <2> QED
      BY <2>1, <2>2
  <1>7. /\ committed[Order(o)] = NoRow /\ committed'[Order(o)] # NoRow
        /\ \A n \in OrderIds \ {o} : committed[Order(n)] = NoRow <=> committed'[Order(n)] = NoRow
    BY <1>2, CommitSells
  <1>8. /\ \A p \in Products : UnitsSold(o, p)' = Taken(o)[p]
        /\ \A n \in OrderIds \ {o}, p \in Products : UnitsSold(n, p)' = UnitsSold(n, p)
    BY <1>2, <1>3, CommitSells
  <1> DEFINE shelf == [p \in Products |-> committed[Product(p)].stock]
             units == [n \in OrderIds |-> [p \in Products |-> UnitsSold(n, p)]]
             there == {n \in OrderIds : committed[Order(n)] # NoRow}
  <1>9. o \notin there /\ there' = there \cup {o}
    BY <1>7
  <1>10. \A p \in Products : Taken(o)[p] <= shelf[p]
    BY <1>6
  <1>11. shelf' = [p \in Products |-> shelf[p] - Taken(o)[p]]
    BY <1>6
  <1>12. units' = [units EXCEPT ![o] = Taken(o)]
    <2>1. units'[o] = Taken(o)
      <3>1. units'[o] = [p \in Products |-> UnitsSold(o, p)']
        OBVIOUS
      <3>2. Taken(o) = [p \in Products |-> Taken(o)[p]]
        BY DEF Taken
      <3> QED
        BY <1>8, <3>1, <3>2
    <2>2. \A n \in OrderIds \ {o} : units'[n] = units[n]
      BY <1>8
    <2> QED
      BY <2>1, <2>2
  <1> QED
    BY <1>4, <1>5, <1>9, <1>10, <1>11, <1>12 DEF Shop!Place

\* Without a new order, a commit leaves the shelves and the units sold alone.
LEMMA CommitStutters ==
    ASSUME OrderInv, SalesInv, NEW t \in Txns, Commit(t),
           \A o \in OrderIds : ~(Pending(o) /\ owner[Order(o)] = t)
    PROVE  UNCHANGED Shop!stock
  <1>1. /\ StoreInv
        /\ \A r \in Rows : committed'[r] = IF owner[r] = t THEN db[r] ELSE committed[r]
    BY RowsStored, CommitEffect DEF Commit, OrderInv
  <1>2. \A p \in Products : committed'[Product(p)].stock = committed[Product(p)].stock
    <2> TAKE p \in Products
    <2>1. owner[Product(p)] = t => db[Product(p)].stock = committed[Product(p)].stock
      BY DEF SalesInv, TakenBySale
    <2> QED
      BY <1>1, <2>1, RowKinds
  <1>3. /\ \A n \in OrderIds : committed[Order(n)] = NoRow <=> committed'[Order(n)] = NoRow
        /\ \A n \in OrderIds, p \in Products : UnitsSold(n, p)' = UnitsSold(n, p)
    BY CommitSells
  <1> QED
    BY <1>2, <1>3 DEF Shop!stock

LEMMA StorefrontInit == Init => Shop!Init
  <1> SUFFICES ASSUME Init PROVE Shop!Init
    OBVIOUS
  <1>1. committed = InitialRows
    BY DEF Init, InitStore
  <1>2. \A p \in Products : committed[Product(p)].stock \in Nat
    BY <1>1, RowKinds, OrdersAssumption DEF InitialRows, Product
  <1>3. /\ \A o \in OrderIds : committed[Order(o)] = NoRow
        /\ \A o \in OrderIds, p \in Products : committed[Line(o, p)] = NoRow
    BY <1>1, RowKinds DEF InitialRows, Order, Line
  <1>4. \A o \in OrderIds, p \in Products : UnitsSold(o, p) = 0
    BY <1>3 DEF UnitsSold, UnitsIn, LiveLines, LinesOf
  <1> QED
    BY <1>2, <1>3, <1>4 DEF Shop!Init

LEMMA StorefrontNext ==
    ASSUME OrderInv, CartInv, SalesInv, [CartNext]_vars PROVE [Shop!Next]_(Shop!stock)
  <1>1. CASE committed' = committed
    <2>1. \A o \in OrderIds, p \in Products : UnitsSold(o, p)' = UnitsSold(o, p)
      BY <1>1 DEF UnitsSold, UnitsIn, LiveLines, LinesOf
    <2> QED
      BY <1>1, <2>1 DEF Shop!stock
  <1>2. CASE committed' # committed
    <2> PICK t \in Txns : Commit(t)
      BY <1>2, CommitsAlone
    <2>1. CASE \E o \in OrderIds : Pending(o) /\ owner[Order(o)] = t
      <3>1. PICK o \in OrderIds : Pending(o) /\ owner[Order(o)] = t
        BY <2>1
      <3>2. PICK basket : basket = Taken(o)
        OBVIOUS
      <3>3. Shop!Place(o, basket) /\ basket \in [Products -> Nat]
        BY <3>1, <3>2, CommitPlaces
      <3> DEFINE shelf == [p \in Products |-> committed[Product(p)].stock]
      <3>4. \A p \in Products : basket[p] <= shelf[p] /\ shelf[p] \in Int
        BY <3>3 DEF Shop!Place, OrderInv, StoreInv, RowsOK, ProductRow
      <3> HIDE DEF shelf
      <3>5. \A p \in Products : basket[p] \in 0..shelf[p]
        BY <3>3, <3>4
      <3>6. basket \in [Products -> UNION {0..shelf[p] : p \in Products}]
        BY <3>3, <3>5
      <3> QED
        BY <3>3, <3>6 DEF Shop!Next, shelf
    <2>2. CASE ~\E o \in OrderIds : Pending(o) /\ owner[Order(o)] = t
      BY <2>2, CommitStutters
    <2> QED
      BY <2>1, <2>2
  <1> QED
    BY <1>1, <1>2

-----------------------------------------------------------------------------
(* Waits, while nothing is called off. *)

LEMMA OthersWait ==
    ASSUME WaitsInv, NEW t \in Txns, OthersUntouched(t), Others(Rows, t), WaitsOK(t)'
    PROVE  WaitsInv'
  <1>1. ASSUME NEW u \in Txns \ {t} PROVE WaitsOK(u)'
    <2>1. /\ WaitsOK(u) /\ pc'[u] = pc[u] /\ req'[u] = req[u] /\ seen'[u] = seen[u]
          /\ \A r \in Rows : owner'[r] = u <=> owner[r] = u
      BY NobodyIsNoTxn DEF WaitsInv, OthersUntouched, Others
    <2>2. InBasket(u)' = InBasket(u) /\ Locked(u)' = Locked(u)
      BY <2>1, RowKinds DEF InBasket, Basket, SeenCart, Locked
    <2> QED
      BY <2>1, <2>2, RowKinds DEF WaitsOK, LocksInOrder
  <1> QED
    BY <1>1 DEF WaitsInv

\* A request that is at a step of its own kind, or at its end.
LEMMA WaitsElsewhere ==
    ASSUME NEW t \in Txns, pc'[t] \notin {"restock", "mark", "edit", "lock"},
           \A o \in OrderIds : owner'[Order(o)] = t => pc'[t] = "commit",
           owner'[EmptyNumber] = t => pc'[t] \in {"place", "commit"}
    PROVE  WaitsOK(t)'
  BY DEF WaitsOK

LEMMA WaitsForget ==
    ASSUME OrderInv, WaitsInv, NEW t \in Txns, Rollback(t) \/ Commit(t)
    PROVE  WaitsInv'
  <1>1. Others(Rows, t) /\ \A r \in Rows : owner'[r] # t
    BY RowsStored, RollbackEffect, CommitEffect DEF Rollback, Commit, OrderInv
  <1>2. OthersUntouched(t) /\ pc'[t] = "idle"
    BY <1>1, ForgetKeeps DEF Rollback, Commit, Forget, OrderInv, RequestsInv, SlotsOK
  <1>3. WaitsOK(t)'
    BY <1>1, <1>2, RowKinds, WaitsElsewhere
  <1> QED
    BY <1>1, <1>2, <1>3, OthersWait

LEMMA WaitsBegin ==
    ASSUME OrderInv, WaitsInv, NEW t \in Txns, NEW next, NEW what, NEW rows,
           Begin(t, next, what, rows), next # "restock",
           next = "lock" => InBasket(t)' # {},
           next = "mark" => what.todo = {what.item}
    PROVE  WaitsInv'
  <1>1. /\ pc'[t] = next /\ req'[t] = what /\ OthersUntouched(t)
        /\ UNCHANGED <<db, committed, owner>>
        /\ \A r \in Rows : owner'[r] # t
    BY BeginReads
  <1>2. Others(Rows, t)
    BY <1>1, RowsStored, IdleEffect DEF OrderInv
  <1>3. Locked(t)' = {}
    BY <1>1, RowKinds DEF Locked
  <1>4. WaitsOK(t)'
    BY <1>1, <1>3, RowKinds DEF WaitsOK, LocksInOrder
  <1> QED
    BY <1>1, <1>2, <1>4, OthersWait

LEMMA WaitsArrive ==
    ASSUME OrderInv, NothingRestocks, WaitsInv, NEW t \in Txns, Arrive(t)
    PROVE  WaitsInv'
  <1>1. ASSUME NEW c \in Clients, BeginCheckout(t, c) PROVE WaitsInv'
    <2> DEFINE wanted == {p \in Products : committed[Cart(c)][p].qty > 0}
    <2>1. PICK what : what = [client |-> c]
      OBVIOUS
    <2>2. PICK rows : rows = {Cart(c)} \cup {Product(p) : p \in wanted}
      OBVIOUS
    <2>3. Begin(t, "lock", what, rows) /\ wanted # {}
      BY <1>1, <2>1, <2>2 DEF BeginCheckout
    <2>4. req'[t] = what /\ seen'[t][Cart(c)] = committed[Cart(c)]
      BY <2>2, <2>3, BeginReads, RowKinds
    <2>5. InBasket(t)' = wanted
      BY <2>1, <2>4 DEF InBasket, Basket, SeenCart
    <2> QED
      BY <2>3, <2>5, WaitsBegin
  <1>2. ASSUME NEW o \in OrderIds, NEW p \in Products, NEW m \in VendorMoves, BeginAdvance(t, o, p, m)
        PROVE  WaitsInv'
    <2>1. PICK what : what = [order |-> o, item |-> p, todo |-> {p}, move |-> m, buyer |-> FALSE]
      OBVIOUS
    <2>2. what.todo = {p} /\ what.item = p /\ m # "CANCELLED"
      BY <2>1 DEF NothingRestocks
    <2>3. Begin(t, "mark", what, OrderQuery(o))
      BY <1>2, <2>1, <2>2 DEF BeginAdvance
    <2> QED
      BY <2>2, <2>3, WaitsBegin
  <1>3. ASSUME NEW p \in Products, NEW e \in Edits, BeginEdit(t, p, e) PROVE WaitsInv'
    BY <1>3, WaitsBegin DEF BeginEdit
  <1> QED
    BY <1>1, <1>2, <1>3 DEF Arrive, NothingRestocks

\* The next product the sorted SELECT ... FOR UPDATE locks is the least one left.
LEMMA NextIsLeast ==
    ASSUME NEW t \in Txns, InBasket(t) \ Locked(t) # {}
    PROVE  /\ NextProduct(t) \in InBasket(t) \ Locked(t)
           /\ \A q \in InBasket(t) \ Locked(t) : NextProduct(t) <= q
  <1> DEFINE left == InBasket(t) \ Locked(t)
  <1>1. left \subseteq Nat /\ left # {}
    BY OrdersAssumption DEF InBasket
  <1>2. \E p \in left : \A q \in left : p <= q
    <2> HIDE DEF left
    <2> QED
      BY <1>1, LeastOf
  <1> QED
    BY <1>2 DEF NextProduct

LEMMA WaitsLock ==
    ASSUME OrderInv, WaitsInv, NEW t \in Txns, LockProduct(t)
    PROVE  WaitsInv'
  <1> DEFINE n == NextProduct(t)
             left == InBasket(t) \ Locked(t)
  <1>1. /\ LocksInOrder(t) /\ SlotsOK /\ req[t] \in CheckoutReq /\ StoreInv
        /\ \A o \in OrderIds : owner[Order(o)] # t
        /\ owner[EmptyNumber] # t
    BY DEF LockProduct, WaitsInv, WaitsOK, OrderInv, RequestsInv, RequestOK
  <1>2. n \in left /\ \A q \in left : n <= q
    BY <1>1, NextIsLeast DEF LocksInOrder
  <1>3. /\ \A r \in Rows : owner'[r] = IF r = Product(n) THEN t ELSE owner[r]
        /\ Others(Rows, t)
    BY LockProductEffect
  <1>4. /\ pc' = [pc EXCEPT ![t] = IF left = {n} THEN "insert" ELSE "lock"]
        /\ seen' = [seen EXCEPT ![t][Product(n)] = db[Product(n)]]
        /\ req' = req
    BY DEF LockProduct, Reread
  <1>5. n \in Products /\ left \subseteq Products /\ left \subseteq Nat /\ Locked(t) \subseteq Products
    BY <1>2, OrdersAssumption DEF InBasket, Locked
  <1> HIDE DEF n
  <1>6. SeenCart(t)' = SeenCart(t)
    BY <1>1, <1>4, RowKinds DEF SeenCart, SlotsOK, CheckoutReq
  <1>7. InBasket(t)' = InBasket(t)
    BY <1>6 DEF InBasket, Basket
  <1>8. Locked(t)' = Locked(t) \cup {n}
    BY <1>3, <1>5, RowKinds DEF Locked
  <1>9. (InBasket(t) \ Locked(t))' = left \ {n}
    BY <1>7, <1>8
  <1>10. pc'[t] = "lock" => LocksInOrder(t)'
    <2> SUFFICES ASSUME pc'[t] = "lock" PROVE LocksInOrder(t)'
      OBVIOUS
    <2>1. left \ {n} # {}
      BY <1>1, <1>2, <1>4 DEF SlotsOK
    <2>2. Locked(t)' \subseteq InBasket(t)'
      BY <1>1, <1>2, <1>7, <1>8 DEF LocksInOrder
    <2>3. \A p \in Locked(t)', q \in left \ {n} : p < q
      <3>1. \A p \in Locked(t), q \in left : p < q
        BY <1>1 DEF LocksInOrder
      <3>2. \A q \in left \ {n} : n < q
        BY <1>2, <1>5
      <3> QED
        BY <1>8, <3>1, <3>2
    <2> QED
      BY <1>9, <2>1, <2>2, <2>3 DEF LocksInOrder
  <1>11. OthersUntouched(t) /\ pc'[t] \in {"lock", "insert"}
    BY <1>1, <1>4 DEF OthersUntouched, SlotsOK
  <1>12. owner'[EmptyNumber] # t /\ \A o \in OrderIds : owner'[Order(o)] # t
    BY <1>1, <1>3, RowKinds
  <1>13. WaitsOK(t)'
    BY <1>10, <1>11, <1>12 DEF WaitsOK
  <1> QED
    BY <1>3, <1>11, <1>13, OthersWait

LEMMA WaitsServe ==
    ASSUME OrderInv, WaitsInv, NEW t \in Txns, Serve(t)
    PROVE  WaitsInv'
  <1>1. SlotsOK /\ WaitsOK(t)
    BY DEF WaitsInv, OrderInv, RequestsInv
  <1>2. ASSUME Works(t), pc'[t] = "commit" PROVE WaitsInv'
    <2>1. OthersUntouched(t) /\ Others(Rows, t)
      BY <1>2, WorksOnSlot, WorksOnOrders
    <2>2. WaitsOK(t)'
      BY <1>2, WaitsElsewhere
    <2> QED
      BY <2>1, <2>2, OthersWait
  <1>3. CASE PlaceOrder(t) \/ SetOrderStatus(t) \/ EditProduct(t)
    BY <1>1, <1>2, <1>3 DEF PlaceOrder, SetOrderStatus, EditProduct, Finish, SlotsOK, Works
  <1>4. CASE Mark(t)
    <2>1. OthersUntouched(t) /\ Others(Rows, t)
      BY <1>4, WorksOnSlot, WorksOnOrders DEF Works
    <2>2. pc'[t] = "rollup"
      BY <1>1, <1>4 DEF Mark, WaitsOK, SlotsOK
    <2>3. PICK row : WritesOne(t, Line(req[t].order, req[t].item), row)
      BY <1>4, MarkEffect
    <2>4. owner'[EmptyNumber] # t /\ \A o \in OrderIds : owner'[Order(o)] # t
      <3>1. \A r \in Rows : owner[r] # t
        BY <1>1, <1>4 DEF WaitsOK, Mark
      <3>2. PICK l : l = Line(req[t].order, req[t].item)
        OBVIOUS
      <3>3. /\ EmptyNumber \in Rows /\ EmptyNumber # l
            /\ \A o \in OrderIds : Order(o) \in Rows /\ Order(o) # l
        BY <3>2, RowKinds
      <3>4. \A r \in Rows : r # l => owner'[r] = owner[r]
        BY <2>3, <3>2 DEF WritesOne
      <3> QED
        BY <3>1, <3>3, <3>4
    <2>5. WaitsOK(t)'
      BY <2>2, <2>4, WaitsElsewhere
    <2> QED
      BY <2>1, <2>5, OthersWait
  <1>5. ~Restock(t)
    BY <1>1 DEF Restock, WaitsOK
  <1>6. CASE TakesNumber(t)
    <2>1. /\ pc[t] \in {"insert", "queue"} /\ pc'[t] \in {"queue", "place"}
          /\ \A x \in Rows : x # EmptyNumber => owner'[x] = owner[x]
          /\ OthersUntouched(t) /\ Others(Rows, t)
      BY <1>6, TakesNumberEffect
    <2>2. \A o \in OrderIds : owner'[Order(o)] # t
      BY <1>1, <2>1, RowKinds DEF WaitsOK
    <2>3. owner'[EmptyNumber] = t => pc'[t] = "place"
      BY <1>1, <1>6, <2>1 DEF TakesNumber, FindNumber, InsertOrder, SlotsOK, WaitsOK
    <2>4. WaitsOK(t)'
      BY <2>1, <2>2, <2>3, WaitsElsewhere
    <2> QED
      BY <2>1, <2>4, OthersWait
  <1> QED
    BY <1>3, <1>4, <1>5, <1>6, WaitsLock, WaitsForget DEF Serve, TakesNumber, RefuseCheckout

LEMMA WaitsCart ==
    ASSUME OrderInv, CartInv, WaitsInv, NEW t \in Txns, CartArrive(t) \/ CartServe(t)
    PROVE  WaitsInv'
  <1>1. CASE CartArrive(t)
    <2>1. \E next \in {"create", "put", "drop"} : \E what, rows : Begin(t, next, what, rows)
      <3>1. ASSUME NEW c, NEW p, NEW n, BeginAdd(t, c, p, n)
            PROVE  \E next \in {"create", "put"} : \E what, rows : Begin(t, next, what, rows)
        BY <3>1 DEF BeginAdd
      <3>2. ASSUME NEW c, NEW p, NEW n, BeginSet(t, c, p, n)
            PROVE  \E what, rows : Begin(t, "put", what, rows)
        BY <3>2 DEF BeginSet
      <3>3. ASSUME NEW c, NEW items, BeginDrop(t, c, items)
            PROVE  \E what, rows : Begin(t, "drop", what, rows)
        BY <3>3 DEF BeginDrop
      <3> QED
        BY <1>1, <3>1, <3>2, <3>3 DEF CartArrive, BeginRemove, BeginClear
    <2> QED
      BY <2>1, WaitsBegin
  <1>2. CASE CreateCart(t) \/ PutItem(t) \/ DropItems(t)
    <2>1. PICK row : WritesOne(t, Cart(req[t].client), row)
      BY <1>2, CartServeEffect
    <2>2. /\ OthersUntouched(t) /\ Others(Rows, t)
          /\ pc[t] \in {"create", "put", "drop"} /\ pc'[t] \in {"put", "commit"}
      BY <1>2, CartServeEffect
    <2>3. owner'[EmptyNumber] # t /\ \A o \in OrderIds : owner'[Order(o)] # t
      BY <2>1, <2>2, RowKinds DEF WritesOne, WaitsInv, WaitsOK
    <2> QED
      BY <2>2, <2>3, WaitsElsewhere, OthersWait
  <1>3. CASE CartTaken(t)
    <2>1. /\ pc[t] = "create" /\ pc' = [pc EXCEPT ![t] = "reread"]
          /\ UNCHANGED <<db, committed, owner, req, seen>>
          /\ SlotsOK
      BY <1>3 DEF CartTaken, OrderInv, RequestsInv
    <2>2. OthersUntouched(t) /\ pc'[t] = "reread"
      BY <2>1 DEF OthersUntouched, SlotsOK
    <2>3. Others(Rows, t)
      BY <2>1, RowsStored, IdleEffect DEF OrderInv
    <2>4. owner'[EmptyNumber] # t /\ \A o \in OrderIds : owner'[Order(o)] # t
      BY <2>1 DEF WaitsInv, WaitsOK
    <2> QED
      BY <2>2, <2>3, <2>4, WaitsElsewhere, OthersWait
  <1> QED
    BY <1>1, <1>2, <1>3, WaitsForget DEF CartServe, RereadFails, RefuseItem

LEMMA WaitsInitially == Init => WaitsInv
  <1> SUFFICES ASSUME Init PROVE WaitsInv
    OBVIOUS
  <1>1. \A r \in Rows : owner[r] = Nobody
    BY DEF Init, InitStore, InitialRows
  <1> QED
    BY <1>1, RowKinds, NobodyIsNoTxn DEF Init, WaitsInv, WaitsOK

LEMMA WaitsInductive ==
    ASSUME OrderInv, CartInv, NothingRestocks, WaitsInv, [CartNext]_vars PROVE WaitsInv'
  <1>1. CASE Next
    <2> PICK t \in Txns : Arrive(t) \/ Step(t) \/ Abort(t) \/ DeadlockVictim(t)
      BY <1>1 DEF Next
    <2> QED
      BY WaitsArrive, WaitsServe, WaitsForget DEF Step, Abort, DeadlockVictim
  <1>2. CASE UNCHANGED vars
    <2>1. ASSUME NEW t \in Txns PROVE WaitsOK(t)'
      <3>1. InBasket(t)' = InBasket(t) /\ Locked(t)' = Locked(t)
        BY <1>2 DEF vars, InBasket, Basket, SeenCart, Locked
      <3> QED
        BY <1>2, <3>1 DEF vars, WaitsInv, WaitsOK, LocksInOrder
    <2> QED
      BY <2>1 DEF WaitsInv
  <1> QED
    BY <1>1, <1>2, WaitsCart DEF CartNext

\* Of the checkouts in a circle of waits, one that locks products would be waited
\* for by another such that waits for a lesser product.
LEMMA NoCircle ==
    ASSUME OrderInv, CartInv, WaitsInv PROVE OnlyNumbersClash
  <1> SUFFICES ASSUME NEW S \in SUBSET Txns,
                      \A u \in S : /\ \E v \in S : <<u, v>> \in WaitsFor
                                   /\ \E v \in S : <<v, u>> \in WaitsFor
               PROVE  \A u \in S : pc[u] = "queue"
    BY DEF OnlyNumbersClash, OnCycle
  <1>1. ASSUME NEW u \in S, pc[u] # "queue"
        PROVE  \E v \in S : \E r \in Wants(u) : owner[r] = v
    <2>1. PICK v \in S : <<u, v>> \in WaitsFor
      OBVIOUS
    <2> QED
      BY <1>1, <2>1 DEF WaitsFor, Clashes
  <1>2. ASSUME NEW u \in S, pc[u] # "queue"
        PROVE  \E v \in S : \E r \in Wants(v) : owner[r] = u
    <2>1. PICK v \in S : <<v, u>> \in WaitsFor
      OBVIOUS
    <2> QED
      BY <1>2, <2>1 DEF WaitsFor, Clashes
  <1>3. ASSUME NEW u \in S
        PROVE  pc[u] \in {"lock", "queue", "place", "mark", "rollup", "edit"}
    <2>1. Wants(u) # {} \/ pc[u] = "queue"
      BY <1>1
    <2>2. pc[u] # "restock"
      BY DEF WaitsInv, WaitsOK
    <2> QED
      BY <2>1, <2>2 DEF Wants
  <1>4. ASSUME NEW u \in S, pc[u] = "lock"
        PROVE  /\ Wants(u) = {Product(NextProduct(u))} /\ Product(NextProduct(u)) \in Rows
               /\ NextProduct(u) \in InBasket(u) \ Locked(u) /\ NextProduct(u) \in Nat
    <2>1. InBasket(u) \ Locked(u) # {}
      BY <1>4 DEF WaitsInv, WaitsOK, LocksInOrder
    <2>2. NextProduct(u) \in InBasket(u) \ Locked(u)
      BY <2>1, NextIsLeast
    <2>3. NextProduct(u) \in Products
      BY <2>2 DEF InBasket
    <2> QED
      BY <1>4, <2>2, <2>3, RowKinds, OrdersAssumption DEF Wants
  <1>5. ASSUME NEW u \in S PROVE pc[u] \notin {"place", "rollup"}
    <2>1. CASE pc[u] = "place"
      <3>1. PICK v \in S : \E r \in Wants(u) : owner[r] = v
        BY <1>1, <2>1
      <3>2. Wants(u) = {Cart(req[u].client)} /\ req[u].client \in Clients
        BY <2>1 DEF Wants, OrderInv, RequestsInv, RequestOK, CheckoutReq
      <3>3. pc[v] \in {"put", "commit"}
        BY <3>1, <3>2 DEF CartInv, CartHolder
      <3> QED
        BY <1>3, <3>3
    <2>2. CASE pc[u] = "rollup"
      <3>1. PICK v \in S : \E r \in Wants(u) : owner[r] = v
        BY <1>1, <2>2
      <3>2. Wants(u) \subseteq {Order(req[u].order)} /\ req[u].order \in OrderIds
        BY <2>2 DEF Wants, OrderInv, RequestsInv, RequestOK, LineReq
      <3>3. pc[v] = "commit"
        BY <3>1, <3>2 DEF WaitsInv, WaitsOK
      <3> QED
        BY <1>3, <3>3
    <2> QED
      BY <2>1, <2>2
  <1>6. ASSUME NEW u \in S PROVE Wants(u) \subseteq Rows
    <2>1. CASE pc[u] = "lock"
      BY <1>4, <2>1
    <2>2. CASE pc[u] = "mark"
      BY <2>2, RowKinds DEF Wants, OrderInv, RequestsInv, RequestOK, LineReq
    <2>3. CASE pc[u] = "edit"
      BY <2>3, RowKinds DEF Wants, OrderInv, RequestsInv, RequestOK, EditReq
    <2>4. CASE pc[u] = "queue"
      BY <2>4, RowKinds DEF Wants
    <2> QED
      BY <1>3, <1>5, <2>1, <2>2, <2>3, <2>4
  <1>7. ASSUME NEW u \in S PROVE pc[u] \in {"lock", "queue"}
    <2> SUFFICES ASSUME pc[u] # "queue" PROVE pc[u] = "lock"
      OBVIOUS
    <2>1. PICK v \in S : \E r \in Wants(v) : owner[r] = u
      BY <1>2
    <2>2. \E r \in Rows : owner[r] = u
      BY <1>6, <2>1
    <2>3. pc[u] \notin {"mark", "edit"}
      BY <2>2 DEF WaitsInv, WaitsOK
    <2> QED
      BY <1>3, <1>5, <2>3
  <1> DEFINE L == {u \in S : pc[u] = "lock"}
  <1>8. ASSUME NEW u \in L PROVE \E v \in L : NextProduct(v) < NextProduct(u)
    <2>1. PICK v \in S : \E r \in Wants(v) : owner[r] = u
      BY <1>2
    <2>2. pc[v] # "queue"
      <3>1. owner[EmptyNumber] # u
        BY <1>8 DEF WaitsInv, WaitsOK
      <3> QED
        BY <2>1, <3>1 DEF Wants
    <2>3. v \in L /\ owner[Product(NextProduct(v))] = u
      BY <1>4, <1>7, <2>1, <2>2
    <2>4. NextProduct(v) \in Locked(u)
      BY <1>4, <2>3 DEF Locked, InBasket
    <2>5. NextProduct(u) \in InBasket(u) \ Locked(u)
      BY <1>4
    <2>6. LocksInOrder(u)
      BY DEF WaitsInv, WaitsOK
    <2>7. NextProduct(v) < NextProduct(u)
      BY <2>4, <2>5, <2>6 DEF LocksInOrder
    <2> QED
      BY <2>3, <2>7
  <1>9. L = {}
    <2> SUFFICES ASSUME L # {} PROVE FALSE
      OBVIOUS
    <2> DEFINE N == {NextProduct(u) : u \in L}
    <2>1. N \subseteq Nat /\ N # {}
      BY <1>4
    <2>2. PICK n \in N : \A m \in N : n <= m
      <3> HIDE DEF N
      <3> QED
        BY <2>1, LeastOf
    <2>3. PICK u \in L : n = NextProduct(u)
      BY <2>2
    <2>4. PICK v \in L : NextProduct(v) < NextProduct(u)
      BY <1>8
    <2>5. n <= NextProduct(v) /\ n \in Nat /\ NextProduct(v) \in Nat
      BY <2>1, <2>2
    <2> HIDE DEF N, L
    <2> QED
      BY <2>3, <2>4, <2>5
  <1> QED
    BY <1>7, <1>9

-----------------------------------------------------------------------------
(* The theorems. *)

\* The invariant that carts keep beside orders: who holds a cart has written it
\* last, and a checkout that has emptied one holds it until it commits.
THEOREM CartInvariance == CartSpec => [](OrderInv /\ CartInv)
  <1>1. Init => OrderInv /\ CartInv
    BY Initially, CartInitially
  <1> QED
    BY <1>1, CartInductive, PTL DEF CartSpec

\* With clients filling their carts beside it, the shop still never sells a
\* unit it has not got.
THEOREM NeverOversoldFilling == CartSpec => []StockNeverNegative
  <1>1. OrderInv /\ CartInv => StockNeverNegative
    BY DEF OrderInv, StoreInv
  <1> QED
    BY <1>1, CartInvariance, PTL

\* An item that leaves a cart with a checkout is on the order it commits, whatever
\* other tabs put there, changed or dropped in the meantime.  (Items, and not their
\* quantities: one that is raised meanwhile is ordered as it was.)
THEOREM TakesWhatItSold == CartSpec => ItemsTakenAreOrdered
  <1>1. ASSUME OrderInv, CartInv, [CartNext]_vars, NEW c \in Clients, NEW o \in NewOrders(c),
               NEW p \in Products, InCart(committed[Cart(c)], p), ~InCart(committed'[Cart(c)], p)
        PROVE  committed'[Line(o, p)] # NoRow
    <2>1. committed' # committed
      BY <1>1
    <2> QED
      BY <1>1, <2>1, CommitsAlone, CommitTakesWhatItSold
  <1>2. OrderInv /\ CartInv /\ [CartNext]_vars =>
          [\A c \in Clients : \A o \in NewOrders(c), p \in Products :
              /\ InCart(committed[Cart(c)], p)
              /\ ~InCart(committed'[Cart(c)], p)
              => committed'[Line(o, p)] # NoRow]_vars
    BY <1>1
  <1> QED
    BY <1>2, CartInvariance, PTL DEF CartSpec, ItemsTakenAreOrdered

\* While no unit comes back, no cart ever holds more of a product than the shelf
\* held, however many tabs fill it at once: each put what it had checked.
THEOREM CartsWithinShelf ==
    ASSUME NoReturns, CartsFit PROVE CartSpec => []CartWithinStock
  <1>1. Init => OrderInv /\ CartInv /\ ScarceInv
    BY Initially, CartInitially, ScarceInitially
  <1>2. OrderInv /\ CartInv /\ ScarceInv /\ [CartNext]_vars => OrderInv' /\ CartInv' /\ ScarceInv'
    BY CartInductive, ScarceInductive
  <1>3. ScarceInv => CartWithinStock
    BY DEF ScarceInv, WithinShelf, CartWithinStock, ItemsOf, InCart
  <1> QED
    BY <1>1, <1>2, <1>3, PTL DEF CartSpec

\* While no unit comes back, the shop with its transactions, row locks, stale
\* reads and rollbacks is a Storefront: an order takes all its units off the
\* shelf at one moment, or none, and nothing else moves units.
THEOREM Refinement ==
    ASSUME NoReturns, CartsFit PROVE CartSpec => ImplementsStorefront
  <1>1. Init => OrderInv /\ CartInv /\ ScarceInv /\ SalesInv /\ Shop!Init
    BY Initially, CartInitially, ScarceInitially, SalesInitially, StorefrontInit
  <1>2. OrderInv /\ CartInv /\ ScarceInv /\ SalesInv /\ [CartNext]_vars
          => OrderInv' /\ CartInv' /\ ScarceInv' /\ SalesInv'
    BY CartInductive, ScarceInductive, SalesInductive
  <1>3. OrderInv /\ CartInv /\ SalesInv /\ [CartNext]_vars => [Shop!Next]_(Shop!stock)
    BY StorefrontNext
  <1> QED
    BY <1>1, <1>2, <1>3, PTL DEF CartSpec, ImplementsStorefront, Shop!Spec

\* While nothing is called off, locks of products, carts, lines and orders close no
\* circle of waits: checkouts lock their products in one order, and what else is
\* held is held by requests that wait for nothing more.  Whoever does wait in a
\* circle is a checkout that shares the lock of the order_number '' with another.
THEOREM QueuesNotCircles ==
    ASSUME NothingRestocks PROVE CartSpec => []OnlyNumbersClash
  <1>1. Init => OrderInv /\ CartInv /\ WaitsInv
    BY Initially, CartInitially, WaitsInitially
  <1>2. OrderInv /\ CartInv /\ WaitsInv /\ [CartNext]_vars => OrderInv' /\ CartInv' /\ WaitsInv'
    BY CartInductive, WaitsInductive
  <1>3. OrderInv /\ CartInv /\ WaitsInv => OnlyNumbersClash
    BY NoCircle
  <1> QED
    BY <1>1, <1>2, <1>3, PTL DEF CartSpec

=============================================================================
