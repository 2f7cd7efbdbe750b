----------------------------- MODULE StockProofs -----------------------------
(***************************************************************************)
(* No unit of stock is lost: for all clients, products, carts and numbers  *)
(* of slots and orders, with carts being filled beside the requests.       *)
(***************************************************************************)
EXTENDS CartProofs

-----------------------------------------------------------------------------
(* Units in lines, and in the hands of a request. *)

LEMMA UnitsType ==
    ASSUME NEW rows, RowsOK(rows), NEW o \in OrderIds, NEW p \in Products PROVE UnitsIn(rows, o, p) \in Nat
  BY DEF UnitsIn, LiveLines, LinesOf, RowsOK, LineRow

LEMMA HandType ==
    ASSUME StoreInv, NEW t \in Txns, NEW p \in Products
    PROVE  /\ Shelved(t, p) \in Int
           /\ \A o \in OrderIds : Lined(t, o, p) \in Int
           /\ [o \in OrderIds |-> Lined(t, o, p)] \in [OrderIds -> Int]
           /\ [o \in OrderIds |-> UnitsSold(o, p)] \in [OrderIds -> Int]
  <1>1. RowsOK(db) /\ RowsOK(committed)
    BY DEF StoreInv
  <1>2. Shelved(t, p) \in Int
    BY <1>1 DEF Shelved, RowsOK, ProductRow
  <1>3. \A o \in OrderIds : UnitsIn(db, o, p) \in Nat /\ UnitsIn(committed, o, p) \in Nat
    BY <1>1, UnitsType
  <1>4. \A o \in OrderIds : Lined(t, o, p) \in Int
    BY <1>3 DEF Lined
  <1> QED
    BY <1>2, <1>3, <1>4 DEF UnitsSold

\* What t has done to product p and its lines stays as it is.
HandKept(t, p) ==
    /\ Shelved(t, p)' = Shelved(t, p)
    /\ \A o \in OrderIds : /\ owner'[Line(o, p)] = t <=> owner[Line(o, p)] = t
                           /\ Lined(t, o, p)' = Lined(t, o, p)

LEMMA NoneLostKept ==
    ASSUME NEW t \in Txns, NEW p \in Products, HandKept(t, p)
    PROVE  (NoneLost(t, p) => NoneLost(t, p)') /\ (NoLine(t, p) => NoLine(t, p)')
  <1>1. [o \in OrderIds |-> Lined(t, o, p)'] = [o \in OrderIds |-> Lined(t, o, p)]
    BY DEF HandKept
  <1> QED
    BY <1>1 DEF NoneLost, NoLine, HandKept

\* With no line in its hands, a request has lost nothing if it has taken nothing.
LEMMA NoLineSum ==
    ASSUME NEW t \in Txns, NEW p \in Products, NoLine(t, p)
    PROVE  SumFunction([o \in OrderIds |-> Lined(t, o, p)]) = 0
  <1>1. [o \in OrderIds |-> Lined(t, o, p)] \in [OrderIds -> {0}]
    BY DEF NoLine, Lined
  <1> QED
    BY <1>1, SumZero, OrdersAssumption

\* A request that has taken up one line of the product, and what is on the shelf.
Took(t, o, p) ==
    /\ Lined(t, o, p) \in Int /\ Shelved(t, p) \in Int
    /\ \A n \in OrderIds \ {o} : owner[Line(n, p)] # t
    /\ Shelved(t, p) + Lined(t, o, p) >= 0

LEMMA TookLosesNone ==
    ASSUME NEW t \in Txns, NEW p \in Products, NEW o \in OrderIds, Took(t, o, p)'
    PROVE  NoneLost(t, p)'
  <1> DEFINE f == [n \in OrderIds |-> Lined(t, n, p)']
  <1>1. \A n \in OrderIds \ {o} : Lined(t, n, p)' = 0
    BY DEF Took, Lined
  <1>2. f \in [OrderIds -> Int] /\ f[o] = Lined(t, o, p)' /\ \A n \in OrderIds \ {o} : f[n] = 0
    BY <1>1 DEF Took
  <1> HIDE DEF f
  <1>3. SumFunction(f) = f[o]
    <2>1. IsFiniteSet(OrderIds)
      BY OrdersAssumption
    <2> QED
      BY <1>2, <2>1, SumOne
  <1> QED
    BY <1>2, <1>3 DEF NoneLost, Took, f

\* A step that leaves a slot's rows alone leaves its hands alone.
LEMMA OthersHands ==
    ASSUME OrderInv, NEW t \in Txns, NEW u \in Txns \ {t}, Others(Rows, t), NEW p \in Products
    PROVE  HandKept(u, p)
  <1>1. \A r \in Rows : /\ owner'[r] = u <=> owner[r] = u
                        /\ owner[r] = u => db'[r] = db[r] /\ committed'[r] = committed[r]
    BY NobodyIsNoTxn DEF Others
  <1>2. Shelved(u, p)' = Shelved(u, p)
    BY <1>1, RowKinds DEF Shelved
  <1>3. ASSUME NEW o \in OrderIds PROVE Lined(u, o, p)' = Lined(u, o, p)
    BY <1>1, RowKinds DEF Lined, UnitsIn, LiveLines, LinesOf
  <1> QED
    BY <1>1, <1>2, <1>3, RowKinds DEF HandKept

\* The quantities of committed lines stay.
QtyStays ==
    \A o \in OrderIds, p \in Products :
        committed[Line(o, p)] # NoRow => committed'[Line(o, p)].qty = committed[Line(o, p)].qty

LEMMA OthersBalance ==
    ASSUME OrderInv, NEW t \in Txns, NEW u \in Txns \ {t}, OthersUntouched(t), Others(Rows, t), QtyStays,
           BalanceOK(u)
    PROVE  BalanceOK(u)'
  <1>1. pc'[u] = pc[u] /\ req'[u] = req[u] /\ seen'[u] = seen[u]
    BY DEF OthersUntouched
  <1>2. \A p \in Products : HandKept(u, p)
    BY OthersHands
  <1>3. \A p \in Products : /\ NoneLost(u, p) => NoneLost(u, p)'
                            /\ NoLine(u, p) => NoLine(u, p)'
                            /\ Shelved(u, p)' = Shelved(u, p)
    BY <1>2, NoneLostKept DEF HandKept
  <1>4. ASSUME pc[u] \in {"restock", "mark"}, NEW p \in req[u].todo, p \in Products, ToMark(u, p) PROVE ToMark(u, p)'
    <2>1. req[u].order \in OrderIds /\ committed[Line(req[u].order, p)] # NoRow
      BY <1>4 DEF OrderInv, RequestsInv, RequestOK, LineReads, LineReq
    <2>2. committed'[Line(req[u].order, p)].qty = committed[Line(req[u].order, p)].qty
      BY <1>4, <2>1 DEF QtyStays
    <2> QED
      BY <1>1, <1>3, <1>4, <2>2 DEF ToMark
  <1>5. CASE pc[u] \in {"restock", "mark"}
    BY <1>1, <1>3, <1>4, <1>5 DEF BalanceOK
  <1>6. CASE pc[u] \in {"rollup", "commit"}
    BY <1>1, <1>3, <1>6 DEF BalanceOK
  <1>7. CASE pc[u] \notin {"restock", "mark", "rollup", "commit"}
    BY <1>1, <1>3, <1>7 DEF BalanceOK
  <1> QED
    BY <1>5, <1>6, <1>7

\* A step that commits nothing.
LEMMA UnitsStep ==
    ASSUME OrderInv, UnitsInv, NEW t \in Txns, OthersUntouched(t), Others(Rows, t), committed' = committed,
           \A o \in OrderIds, p \in Products :
               committed[Line(o, p)] # NoRow => db'[Line(o, p)].qty = db[Line(o, p)].qty,
           BalanceOK(t)'
    PROVE  UnitsInv'
  <1>1. QtyStays
    BY DEF QtyStays
  <1>2. \A u \in Txns : BalanceOK(u)'
    BY <1>1, OthersBalance DEF UnitsInv
  <1>3. QtyKept'
    BY DEF UnitsInv, QtyKept
  <1>4. NoUnitsLost'
    <2>1. \A p \in Products : Held(p)' = Held(p)
      BY DEF Held, UnitsSold
    <2> QED
      BY <2>1 DEF UnitsInv, NoUnitsLost
  <1> QED
    BY <1>2, <1>3, <1>4 DEF UnitsInv

-----------------------------------------------------------------------------
(* A request arrives. *)

\* Empty hands.
LEMMA HoldsNothing ==
    ASSUME NEW t \in Txns, \A r \in Rows : owner[r] # t, NEW p \in Products
    PROVE  NoLine(t, p) /\ Shelved(t, p) = 0 /\ NoneLost(t, p)
  <1>1. NoLine(t, p) /\ Shelved(t, p) = 0
    BY RowKinds DEF NoLine, Shelved
  <1> QED
    BY <1>1, NoLineSum DEF NoneLost

\* What the first steps of requests rely on.
Prepared(next, what, rows) ==
    /\ next = "restock" => what.move = "CANCELLED"
    /\ next = "mark" => what.move # "CANCELLED" /\ what.todo = {what.item}
    /\ next = "edit" => what.patch.stock = Unset
    /\ next \in {"restock", "mark"} =>
          /\ what.order \in OrderIds
          /\ \A p \in Products : Line(what.order, p) \in rows

LEMMA BeginUnits ==
    ASSUME OrderInv, UnitsInv, NEW t \in Txns, NEW next, NEW what, NEW rows,
           Begin(t, next, what, rows), Prepared(next, what, rows)
    PROVE  UnitsInv'
  <1>1. /\ pc'[t] = next /\ req'[t] = what
        /\ \A r \in Rows : seen'[t][r] = IF r \in rows THEN committed[r] ELSE NoRow
        /\ \A r \in Rows : owner[r] # t
        /\ UNCHANGED <<db, committed, owner>>
        /\ OthersUntouched(t)
    BY BeginReads
  <1>2. Others(Rows, t)
    BY <1>1 DEF Others
  <1>3. ASSUME NEW p \in Products PROVE NoLine(t, p)' /\ Shelved(t, p)' = 0 /\ NoneLost(t, p)'
    <2>1. HandKept(t, p)
      BY <1>1 DEF HandKept, Shelved, Lined, UnitsIn, LiveLines, LinesOf
    <2> QED
      BY <1>1, <2>1, HoldsNothing, NoneLostKept DEF HandKept
  <1>4. ASSUME next \in {"restock", "mark"}, NEW p \in Products, p \in what.todo PROVE ToMark(t, p)'
    <2>1. seen'[t][Line(what.order, p)] = committed[Line(what.order, p)]
      BY <1>1, <1>4, RowKinds DEF Prepared
    <2> QED
      BY <1>1, <1>3, <1>4, <2>1 DEF ToMark, Prepared
  <1>5. BalanceOK(t)'
    <2>1. CASE next \in {"restock", "mark"}
      BY <1>1, <1>3, <1>4, <2>1 DEF BalanceOK, Prepared
    <2>2. CASE next \notin {"restock", "mark"}
      BY <1>1, <1>3, <2>2 DEF BalanceOK, Prepared
    <2> QED
      BY <2>1, <2>2
  <1> QED
    BY <1>1, <1>2, <1>5, UnitsStep

LEMMA ArriveUnits ==
    ASSUME NoStockEdits, OrderInv, UnitsInv, NEW t \in Txns, Arrive(t)
    PROVE  UnitsInv'
  <1>1. ASSUME NEW c \in Clients, BeginCheckout(t, c) PROVE UnitsInv'
    <2>1. PICK what, rows : Begin(t, "lock", what, rows)
      BY <1>1 DEF BeginCheckout
    <2> QED
      BY <2>1, BeginUnits DEF Prepared
  <1>2. ASSUME NEW o \in OrderIds, NEW p \in Products, NEW m \in VendorMoves, BeginAdvance(t, o, p, m)
        PROVE  UnitsInv'
    <2>1. PICK what : what = [order |-> o, item |-> p, todo |-> {p}, move |-> m, buyer |-> FALSE]
      OBVIOUS
    <2>2. PICK next : next = IF m = "CANCELLED" THEN "restock" ELSE "mark"
      OBVIOUS
    <2>3. Begin(t, next, what, OrderQuery(o))
      BY <1>2, <2>1, <2>2 DEF BeginAdvance
    <2>4. Prepared(next, what, OrderQuery(o))
      BY <2>1, <2>2 DEF Prepared, OrderQuery
    <2> QED
      BY <2>3, <2>4, BeginUnits
  <1>3. ASSUME NEW o \in OrderIds, NEW p \in Products, BeginCancel(t, o, p) PROVE UnitsInv'
    <2>1. PICK what : what = [order |-> o, item |-> p, todo |-> LiveLines(committed, o),
                              move |-> "CANCELLED", buyer |-> TRUE]
      OBVIOUS
    <2>2. PICK next : next = IF LiveLines(committed, o) = {} THEN "rollup" ELSE "restock"
      OBVIOUS
    <2>3. Begin(t, next, what, OrderQuery(o))
      BY <1>3, <2>1, <2>2 DEF BeginCancel
    <2>4. Prepared(next, what, OrderQuery(o))
      BY <2>1, <2>2 DEF Prepared, OrderQuery
    <2> QED
      BY <2>3, <2>4, BeginUnits
  <1>4. ASSUME NEW p \in Products, NEW e \in Edits, BeginEdit(t, p, e) PROVE UnitsInv'
    <2>1. PICK what : what = [item |-> p, patch |-> e]
      OBVIOUS
    <2>2. Begin(t, "edit", what, {Product(p)})
      BY <1>4, <2>1 DEF BeginEdit
    <2>3. Prepared("edit", what, {Product(p)})
      BY <2>1 DEF Prepared, NoStockEdits
    <2> QED
      BY <2>2, <2>3, BeginUnits
  <1> QED
    BY <1>1, <1>2, <1>3, <1>4 DEF Arrive

-----------------------------------------------------------------------------
(* A request takes a step. *)

\* A step that leaves products' stock and lines as they are.
LEMMA HandsStay ==
    ASSUME OrderInv, NEW t \in Txns, committed' = committed, NEW p \in Products,
           db'[Product(p)].stock = db[Product(p)].stock,
           owner'[Product(p)] = owner[Product(p)] \/ owner[Product(p)] \in {t, Nobody},
           \A o \in OrderIds : /\ db'[Line(o, p)] = db[Line(o, p)]
                               /\ owner'[Line(o, p)] = owner[Line(o, p)]
    PROVE  HandKept(t, p) \/ (owner'[Product(p)] # t /\ owner[Product(p)] = t)
  <1>1. owner[Product(p)] = Nobody => db[Product(p)].stock - committed[Product(p)].stock = 0
    BY RowKinds DEF OrderInv, StoreInv, UnlockedIsCommitted, RowsOK, ProductRow
  <1>2. (owner'[Product(p)] # t /\ owner[Product(p)] = t) \/ Shelved(t, p)' = Shelved(t, p)
    BY <1>1, NobodyIsNoTxn DEF Shelved
  <1>3. \A o \in OrderIds : Lined(t, o, p)' = Lined(t, o, p)
    BY DEF Lined, UnitsIn, LiveLines, LinesOf
  <1> QED
    BY <1>2, <1>3 DEF HandKept

\* Where a request's hands are as they were, so is what is asked of them.
LEMMA BalanceStays ==
    ASSUME OrderInv, NEW t \in Txns, \A p \in Products : HandKept(t, p), BalanceOK(t),
           \/ /\ pc[t] \notin {"restock", "mark", "rollup", "commit"}
              /\ pc'[t] \notin {"restock", "mark", "rollup"}
              /\ pc'[t] = "edit" => req'[t].patch.stock = Unset
           \/ pc[t] = "rollup" /\ pc'[t] = "commit"
    PROVE  BalanceOK(t)'
  <1>1. \A p \in Products : /\ NoneLost(t, p) => NoneLost(t, p)'
                            /\ NoLine(t, p) => NoLine(t, p)'
                            /\ Shelved(t, p)' = Shelved(t, p)
    BY NoneLostKept DEF HandKept
  <1>2. CASE pc[t] = "rollup" /\ pc'[t] = "commit"
    BY <1>1, <1>2 DEF BalanceOK
  <1>3. CASE /\ pc[t] \notin {"restock", "mark", "rollup", "commit"}
             /\ pc'[t] \notin {"restock", "mark", "rollup"}
             /\ pc'[t] = "edit" => req'[t].patch.stock = Unset
    <2>1. \A p \in Products : NoLine(t, p) /\ Shelved(t, p) = 0
      BY <1>3 DEF BalanceOK
    <2>2. \A p \in Products : NoneLost(t, p)
      BY <2>1, NoLineSum DEF NoneLost
    <2> QED
      BY <1>1, <1>3, <2>1, <2>2 DEF BalanceOK
  <1> QED
    BY <1>2, <1>3

LEMMA LockUnits ==
    ASSUME OrderInv, UnitsInv, NEW t \in Txns, LockProduct(t) PROVE UnitsInv'
  <1> DEFINE n == NextProduct(t)
  <1>1. /\ \A x \in Rows : owner'[x] = IF x = Product(n) THEN t ELSE owner[x]
        /\ db' = db /\ committed' = committed /\ Others(Rows, t)
        /\ owner[Product(n)] \in {t, Nobody}
    BY LockProductEffect
  <1>2. OthersUntouched(t) /\ pc[t] = "lock" /\ pc'[t] \in {"lock", "insert"}
    <2>1. SlotsOK /\ pc' = [pc EXCEPT ![t] = IF InBasket(t) \ Locked(t) = {n} THEN "insert" ELSE "lock"]
      BY DEF LockProduct, OrderInv, RequestsInv
    <2> QED
      BY <2>1, WorksOnSlot DEF Works, LockProduct, SlotsOK
  <1> HIDE DEF n
  <1>3. ASSUME NEW p \in Products PROVE HandKept(t, p)
    BY <1>1, RowKinds, HandsStay
  <1>4. BalanceOK(t)'
    BY <1>2, <1>3, BalanceStays DEF UnitsInv
  <1> QED
    BY <1>1, <1>2, <1>4, UnitsStep

LEMMA TakesNumberUnits ==
    ASSUME OrderInv, UnitsInv, NEW t \in Txns, TakesNumber(t) PROVE UnitsInv'
  <1>1. /\ pc[t] \in {"insert", "queue"} /\ pc'[t] \in {"queue", "place"}
        /\ \A x \in Rows : x # EmptyNumber => owner'[x] = owner[x]
        /\ UNCHANGED <<db, committed, req, seen>>
        /\ Others(Rows, t) /\ OthersUntouched(t)
    BY TakesNumberEffect
  <1>2. ASSUME NEW p \in Products
        PROVE  /\ owner'[Product(p)] = owner[Product(p)]
               /\ \A o \in OrderIds : owner'[Line(o, p)] = owner[Line(o, p)]
    BY <1>1, RowKinds
  <1>3. \A p \in Products : HandKept(t, p)
    BY <1>1, <1>2, HandsStay
  <1>4. BalanceOK(t)'
    BY <1>1, <1>3, BalanceStays DEF UnitsInv
  <1> QED
    BY <1>1, <1>2, <1>4, UnitsStep

LEMMA SetOrderStatusUnits ==
    ASSUME OrderInv, UnitsInv, NEW t \in Txns, SetOrderStatus(t) PROVE UnitsInv'
  <1>1. PICK row : /\ WritesOne(t, Order(req[t].order), row) \/ UNCHANGED <<db, owner>>
                   /\ Others(Rows, t) /\ committed' = committed
    BY SetOrderStatusEffect
  <1>2. OthersUntouched(t) /\ pc[t] = "rollup" /\ pc'[t] = "commit"
    BY FinishKeeps DEF SetOrderStatus, Finish, OrderInv, RequestsInv, SlotsOK
  <1>3. ASSUME NEW p \in Products
        PROVE  /\ db'[Product(p)] = db[Product(p)] /\ owner'[Product(p)] = owner[Product(p)]
               /\ \A o \in OrderIds : /\ db'[Line(o, p)] = db[Line(o, p)]
                                      /\ owner'[Line(o, p)] = owner[Line(o, p)]
    BY <1>1, RowKinds DEF WritesOne
  <1>4. \A p \in Products : HandKept(t, p)
    BY <1>1, <1>3, HandsStay
  <1>5. BalanceOK(t)'
    BY <1>2, <1>4, BalanceStays DEF UnitsInv
  <1> QED
    BY <1>1, <1>2, <1>3, <1>5, UnitsStep

LEMMA EditUnits ==
    ASSUME OrderInv, UnitsInv, NEW t \in Txns, EditProduct(t) PROVE UnitsInv'
  <1> DEFINE r == Product(req[t].item)
             old == seen[t][r]
             edited == Patched(old, req[t].patch)
  <1>1. edited.stock = old.stock
    BY DEF EditProduct, UnitsInv, BalanceOK, Patched, Honest
  <1>2. PICK status :
            /\ WritesOne(t, r, [stock |-> IF edited.stock = old.stock THEN db[r].stock ELSE edited.stock,
                                status |-> status])
            /\ Others(Rows, t) /\ committed' = committed
    BY EditProductEffect
  <1>3. OthersUntouched(t) /\ pc[t] = "edit" /\ pc'[t] = "commit"
    BY FinishKeeps DEF EditProduct, Finish, OrderInv, RequestsInv, SlotsOK
  <1> HIDE DEF edited
  <1>4. ASSUME NEW p \in Products
        PROVE  /\ db'[Product(p)].stock = db[Product(p)].stock
               /\ owner'[Product(p)] = owner[Product(p)] \/ owner[Product(p)] \in {t, Nobody}
               /\ owner[Product(p)] = t => owner'[Product(p)] = t
               /\ \A o \in OrderIds : /\ db'[Line(o, p)] = db[Line(o, p)]
                                      /\ owner'[Line(o, p)] = owner[Line(o, p)]
    BY <1>1, <1>2, RowKinds DEF WritesOne
  <1>5. \A p \in Products : HandKept(t, p)
    BY <1>2, <1>4, HandsStay
  <1>6. BalanceOK(t)'
    BY <1>3, <1>5, BalanceStays DEF UnitsInv
  <1> QED
    BY <1>2, <1>3, <1>4, <1>6, UnitsStep

LEMMA RestockUnits ==
    ASSUME OrderInv, UnitsInv, NEW t \in Txns, Restock(t) PROVE UnitsInv'
  <1>0. PICK i, n : i = req[t].item /\ n = seen[t][Line(req[t].order, i)].qty
    OBVIOUS
  <1> DEFINE row == Returned(db[Product(i)], n)
  <1>1. /\ WritesOne(t, Product(i), row)
        /\ Others(Rows, t) /\ committed' = committed
    BY <1>0, RestockEffect
  <1>2. /\ pc[t] = "restock" /\ req[t] \in LineReq /\ LineReads(t) /\ SlotsOK
        /\ pc' = [pc EXCEPT ![t] = "mark"] /\ req' = req /\ seen' = seen
    BY DEF Restock, OrderInv, RequestsInv, RequestOK
  <1>3. pc'[t] = "mark" /\ OthersUntouched(t)
    BY <1>2, WorksOnSlot DEF Works, SlotsOK
  <1>4. /\ i \in Products /\ i \in req[t].todo /\ req[t].move = "CANCELLED"
        /\ ToMark(t, i) /\ n \in Nat
    BY <1>0, <1>2 DEF LineReq, LineReads, UnitsInv, BalanceOK, LineRow
  <1>5. /\ db[Product(i)].stock = committed[Product(i)].stock
        /\ db[Product(i)].stock \in Int /\ committed[Product(i)].stock \in Int
    <2>1. Shelved(t, i) = 0 /\ owner[Product(i)] \in {t, Nobody}
      BY <1>1, <1>2, <1>4 DEF ToMark, WritesOne
    <2>2. db[Product(i)] \in ProductRow /\ committed[Product(i)] \in ProductRow
      BY <1>4 DEF OrderInv, StoreInv, RowsOK
    <2>3. owner[Product(i)] = Nobody => db[Product(i)] = committed[Product(i)]
      BY <1>4, RowKinds DEF OrderInv, StoreInv, UnlockedIsCommitted, RowsOK
    <2> QED
      BY <2>1, <2>2, <2>3 DEF Shelved, ProductRow
  <1>6. row.stock = db[Product(i)].stock + n
    BY DEF Returned
  <1> HIDE DEF row
  <1>7. Shelved(t, i)' = n /\ NoLine(t, i)'
    BY <1>1, <1>4, <1>5, <1>6, RowKinds DEF WritesOne, Shelved, NoLine, ToMark
  <1>8. ASSUME NEW p \in Products \ {i} PROVE HandKept(t, p)
    BY <1>1, RowKinds, HandsStay DEF WritesOne
  <1>9. ASSUME NEW p \in req[t].todo, p \in Products PROVE ToMark(t, p)'
    <2>1. ToMark(t, p)
      BY <1>2, <1>9 DEF UnitsInv, BalanceOK
    <2>2. CASE p = i
      BY <1>0, <1>1, <1>2, <1>3, <1>4, <1>7, <2>1, <2>2 DEF ToMark
    <2>3. CASE p # i
      <3>1. NoLine(t, p)' /\ Shelved(t, p)' = Shelved(t, p)
        BY <1>8, <1>9, <2>1, <2>3, NoneLostKept DEF HandKept, ToMark
      <3> QED
        BY <1>0, <1>1, <1>2, <1>3, <2>1, <2>3, <3>1 DEF ToMark
    <2> QED
      BY <2>2, <2>3
  <1>10. ASSUME NEW p \in Products, p \notin req[t].todo PROVE NoneLost(t, p)'
    <2>1. NoneLost(t, p)
      BY <1>2, <1>10 DEF UnitsInv, BalanceOK
    <2> QED
      BY <1>4, <1>8, <1>10, <2>1, NoneLostKept
  <1>11. BalanceOK(t)'
    BY <1>2, <1>3, <1>4, <1>9, <1>10 DEF BalanceOK
  <1>12. \A o \in OrderIds, p \in Products : db'[Line(o, p)] = db[Line(o, p)]
    BY <1>1, RowKinds DEF WritesOne
  <1> QED
    BY <1>1, <1>3, <1>11, <1>12, UnitsStep

\* A line that is marked, after its units were put back if it is cancelled.
LEMMA MarkedTook ==
    ASSUME OrderInv, UnitsInv, NEW t \in Txns, Mark(t), NEW o, NEW i, o = req[t].order, i = req[t].item
    PROVE  Took(t, o, i)'
  <1> DEFINE l == Line(o, i)
             row == [db[l] EXCEPT !.status = req[t].move]
  <1>1. WritesOne(t, l, row) /\ Others(Rows, t) /\ committed' = committed
    BY MarkEffect
  <1>2. pc[t] = "mark" /\ req[t] \in LineReq /\ LineReads(t)
    BY DEF Mark, OrderInv, RequestsInv, RequestOK
  <1>3. i \in Products /\ o \in OrderIds /\ i \in req[t].todo /\ l \in Rows
    BY <1>2, RowKinds DEF LineReq, LineReads
  <1>4. /\ committed[l] \in LineRow /\ db[l] \in LineRow /\ committed[l] # NoRow
        /\ db[l].qty = committed[l].qty
        /\ NoLine(t, i) /\ seen[t][l].qty = committed[l].qty
        /\ Shelved(t, i) = IF req[t].move = "CANCELLED" THEN committed[l].qty ELSE 0
    <2>1. ToMark(t, i)
      BY <1>2, <1>3 DEF UnitsInv, BalanceOK
    <2>2. committed[l] # NoRow /\ db[l] # NoRow
      BY <1>2, <1>3 DEF LineReads, OrderInv, StoreInv, RowsKept
    <2> QED
      BY <1>2, <1>3, <2>1, <2>2 DEF ToMark, UnitsInv, QtyKept, OrderInv, StoreInv, RowsOK
  <1>5. /\ row.qty = committed[l].qty /\ row.status = req[t].move /\ row # NoRow
        /\ committed[l].qty \in Nat
    <2>1. row \in LineRow
      BY <1>2, <1>4 DEF LineRow, LineReq
    <2> QED
      BY <1>4, <2>1, NoRowIsNoValue DEF LineRow
  <1>6. db'[l] = row /\ owner'[l] = t
    BY <1>1, <1>3 DEF WritesOne
  <1>7. UnitsIn(db', o, i) = IF req[t].move = "CANCELLED" THEN 0 ELSE committed[l].qty
    <2> HIDE DEF row
    <2> QED
      BY <1>3, <1>5, <1>6 DEF UnitsIn, LiveLines, LinesOf
  <1>8. UnitsIn(committed, o, i) \in {0, committed[l].qty}
    BY DEF UnitsIn
  <1> HIDE DEF row
  <1>9. Lined(t, o, i)' = UnitsIn(db', o, i) - UnitsIn(committed, o, i)
    BY <1>1, <1>6 DEF Lined
  <1>10. Shelved(t, i)' = Shelved(t, i)
    BY <1>1, <1>3, RowKinds DEF Shelved, WritesOne
  <1>11. \A n \in OrderIds \ {o} : owner'[Line(n, i)] # t
    BY <1>1, <1>3, <1>4, RowKinds DEF WritesOne, NoLine
  <1>12. Lined(t, o, i)' \in Int /\ Shelved(t, i)' \in Int /\ Shelved(t, i)' + Lined(t, o, i)' >= 0
    BY <1>4, <1>5, <1>7, <1>8, <1>9, <1>10
  <1> QED
    BY <1>11, <1>12 DEF Took

LEMMA MarkUnits ==
    ASSUME OrderInv, UnitsInv, NEW t \in Txns, Mark(t) PROVE UnitsInv'
  <1>0. PICK i, o : i = req[t].item /\ o = req[t].order
    OBVIOUS
  <1> DEFINE l == Line(o, i)
             row == [db[l] EXCEPT !.status = req[t].move]
             left == req[t].todo \ {i}
  <1>1. WritesOne(t, l, row) /\ Others(Rows, t) /\ committed' = committed
    BY <1>0, MarkEffect
  <1>2. /\ pc[t] = "mark" /\ req[t] \in LineReq /\ LineReads(t) /\ SlotsOK
        /\ pc' = [pc EXCEPT ![t] = IF left = {} THEN "rollup" ELSE "restock"]
    BY <1>0 DEF Mark, OrderInv, RequestsInv, RequestOK
  <1>3. PICK what \in LineReq : /\ req' = [req EXCEPT ![t] = what]
                                /\ what.order = o /\ what.todo = left /\ what.move = req[t].move
    BY <1>0, <1>2, MarkRequest
  <1>4. OthersUntouched(t)
    BY WorksOnSlot DEF Works
  <1>5. /\ i \in Products /\ o \in OrderIds /\ i \in req[t].todo /\ l \in Rows
        /\ req[t].todo \subseteq Products
    BY <1>0, <1>2, RowKinds DEF LineReq, LineReads
  <1>6. pc'[t] = (IF left = {} THEN "rollup" ELSE "restock") /\ req'[t] = what
    BY <1>2, <1>3 DEF SlotsOK
  <1>7. ASSUME NEW q \in left PROVE seen'[t][Line(o, q)] = seen[t][Line(o, q)]
    <2>1. Line(o, q) # l /\ Line(o, q) \in Rows
      BY <1>5, RowKinds
    <2>2. PICK row2 : seen' = [seen EXCEPT ![t] = [@ EXCEPT ![l] = row2]]
      <3>1. PICK row2 : row2 = [seen[t][l] EXCEPT !.status = req[t].move]
        OBVIOUS
      <3> QED
        BY <1>0, <3>1 DEF Mark
    <2> HIDE DEF l
    <2> QED
      BY <1>2, <2>1, <2>2 DEF SlotsOK
  <1>8. NoneLost(t, i)'
    <2>1. Took(t, o, i)'
      BY <1>0, MarkedTook
    <2>2. NoneLost(t, i)'
      BY <1>5, <2>1, TookLosesNone
    <2> QED
      BY <2>2
  <1>9. ASSUME NEW p \in Products \ {i} PROVE HandKept(t, p)
    <2>1. /\ db'[Product(p)] = db[Product(p)] /\ owner'[Product(p)] = owner[Product(p)]
          /\ \A n \in OrderIds : /\ db'[Line(n, p)] = db[Line(n, p)]
                                 /\ owner'[Line(n, p)] = owner[Line(n, p)]
      BY <1>1, RowKinds DEF WritesOne
    <2> QED
      BY <1>1, <2>1, HandsStay
  <1>10. ASSUME NEW p \in Products, p \notin left PROVE NoneLost(t, p)'
    <2>1. CASE p = i
      BY <1>8, <2>1
    <2>2. CASE p # i
      <3>1. NoneLost(t, p)
        BY <1>2, <1>10, <2>2 DEF UnitsInv, BalanceOK
      <3> QED
        BY <1>9, <2>2, <3>1, NoneLostKept
    <2> QED
      BY <2>1, <2>2
  <1>11. ASSUME NEW p \in Products, p \in left PROVE ToMark(t, p)'
    <2>1. ToMark(t, p) /\ p # i
      BY <1>2, <1>11 DEF UnitsInv, BalanceOK
    <2>2. NoLine(t, p)' /\ Shelved(t, p)' = Shelved(t, p)
      BY <1>9, <1>11, <2>1, NoneLostKept DEF HandKept, ToMark
    <2>3. pc'[t] = "restock"
      BY <1>6, <1>11
    <2> QED
      BY <1>0, <1>1, <1>3, <1>6, <1>7, <1>11, <2>1, <2>2, <2>3 DEF ToMark
  <1>12. left # {} => req[t].move = "CANCELLED"
    BY <1>0, <1>2 DEF UnitsInv, BalanceOK
  <1>13. BalanceOK(t)'
    <2>1. \A p \in Products : p \in what.todo <=> p \in left
      BY <1>3
    <2>2. pc'[t] \in {"rollup", "restock"} /\ (pc'[t] = "restock" => what.move = "CANCELLED")
          /\ (pc'[t] = "rollup" => left = {})
      BY <1>3, <1>6, <1>12
    <2> HIDE DEF left
    <2> QED
      BY <1>6, <1>10, <1>11, <2>1, <2>2 DEF BalanceOK
  <1>14. ASSUME NEW n \in OrderIds, NEW p \in Products, committed[Line(n, p)] # NoRow
         PROVE  db'[Line(n, p)].qty = db[Line(n, p)].qty
    <2>1. CASE Line(n, p) = l
      <3>1. db[l] \in LineRow
        BY <1>5, <1>14, <2>1 DEF OrderInv, StoreInv, RowsKept, RowsOK
      <3>2. row.qty = db[l].qty
        BY <3>1 DEF LineRow
      <3> HIDE DEF row
      <3> QED
        BY <1>1, <1>5, <2>1, <3>2 DEF WritesOne
    <2>2. CASE Line(n, p) # l
      BY <1>1, <2>2, RowKinds DEF WritesOne
    <2> QED
      BY <2>1, <2>2
  <1> QED
    BY <1>1, <1>4, <1>13, <1>14, UnitsStep

LEMMA PlaceUnits ==
    ASSUME OrderInv, UnitsInv, NEW t \in Txns, PlaceOrder(t) PROVE UnitsInv'
  <1> DEFINE c == req[t].client
             written(o) == {Order(o), Cart(c)} \cup {Product(p) : p \in InBasket(t)}
                           \cup {Line(o, p) : p \in InBasket(t)}
  <1>0. PICK basket, items : basket = Basket(t) /\ items = InBasket(t)
    OBVIOUS
  <1>1. PICK o \in Unused :
          /\ o \in OrderIds /\ committed[Order(o)] = NoRow
          /\ \A r \in written(o) : owner[r] \in {t, Nobody} /\ owner'[r] = t
          /\ \A r \in Rows \ written(o) : db'[r] = db[r] /\ owner'[r] = owner[r]
          /\ \A p \in InBasket(t) :
                /\ db'[Product(p)] = Sell(seen[t][Product(p)], Basket(t)[p])
                /\ db'[Line(o, p)] = [qty |-> Basket(t)[p], status |-> "PENDING"]
          /\ Others(Rows, t) /\ committed' = committed
    BY PlaceOrderEffect DEF Places
  <1>2. /\ o \in OrderIds /\ committed[Order(o)] = NoRow
        /\ \A r \in written(o) : owner[r] \in {t, Nobody} /\ owner'[r] = t
        /\ \A r \in Rows \ written(o) : db'[r] = db[r] /\ owner'[r] = owner[r]
        /\ \A p \in items : /\ db'[Product(p)] = Sell(seen[t][Product(p)], basket[p])
                            /\ db'[Line(o, p)] = [qty |-> basket[p], status |-> "PENDING"]
        /\ Others(Rows, t) /\ committed' = committed
    BY <1>0, <1>1
  <1>3. /\ pc[t] = "place" /\ pc'[t] = "commit" /\ OthersUntouched(t)
        /\ CheckoutReads(t) /\ StoreInv
    BY FinishKeeps DEF PlaceOrder, Finish, OrderInv, RequestsInv, RequestOK, SlotsOK
  <1>4. \A p \in items : p \in Products /\ basket[p] \in Nat
    BY <1>0, <1>3 DEF InBasket, Basket, CheckoutReads, CartRow, Item
  <1>5. \A p \in Products : NoLine(t, p) /\ Shelved(t, p) = 0
    BY <1>3 DEF UnitsInv, BalanceOK
  <1>6. \A p \in Products : committed[Line(o, p)] = NoRow
    BY <1>2, <1>3 DEF StoreInv, LinesHaveOrders
  <1>7. \A p \in items : Product(p) \in written(o) /\ Line(o, p) \in written(o)
    BY <1>0
  <1>8. \A n \in OrderIds, p \in Products :
            n # o \/ p \notin items => Line(n, p) \in Rows \ written(o)
    BY <1>0, RowKinds
  <1>9. \A p \in Products : p \notin items => Product(p) \in Rows \ written(o)
    BY <1>0, RowKinds
  <1> HIDE DEF written
  <1>10. ASSUME NEW p \in Products, p \in items PROVE NoneLost(t, p)'
    <2>1. owner'[Product(p)] = t /\ owner'[Line(o, p)] = t
      BY <1>2, <1>7, <1>10
    <2>2. /\ seen[t][Product(p)] = db[Product(p)] /\ db[Product(p)] \in ProductRow
          /\ owner[Product(p)] = t /\ committed[Product(p)] \in ProductRow
      BY <1>0, <1>3, <1>10 DEF CheckoutReads, StoreInv, RowsOK
    <2>3. db[Product(p)].stock = committed[Product(p)].stock
      BY <1>5, <2>2 DEF Shelved, ProductRow
    <2>4. Shelved(t, p)' = -basket[p]
      <3>1. db'[Product(p)].stock = db[Product(p)].stock - basket[p]
        <4>1. db'[Product(p)] = Sell(db[Product(p)], basket[p])
          BY <1>2, <1>10, <2>2
        <4> QED
          BY <4>1 DEF Sell
      <3> QED
        BY <1>2, <1>4, <1>10, <2>1, <2>2, <2>3, <3>1 DEF Shelved, ProductRow
    <2>5. UnitsIn(db', o, p) = basket[p] /\ UnitsIn(committed, o, p) = 0
      <3>1. db'[Line(o, p)] # NoRow /\ db'[Line(o, p)].qty = basket[p] /\ db'[Line(o, p)].status = "PENDING"
        <4>1. [qty |-> basket[p], status |-> "PENDING"] \in LineRow
          BY <1>4, <1>10 DEF LineRow, VendorItemStatus
        <4> QED
          BY <1>2, <1>10, <4>1, NoRowIsNoValue
      <3> QED
        BY <1>6, <3>1 DEF UnitsIn, LiveLines, LinesOf
    <2>6. Lined(t, o, p)' = basket[p]
      BY <1>2, <1>4, <1>10, <2>1, <2>5 DEF Lined
    <2>7. \A n \in OrderIds \ {o} : owner'[Line(n, p)] # t
      BY <1>2, <1>5, <1>8 DEF NoLine
    <2>8. Took(t, o, p)'
      BY <1>4, <1>10, <2>4, <2>6, <2>7 DEF Took
    <2> QED
      BY <1>2, <2>8, TookLosesNone
  <1>11. ASSUME NEW p \in Products, p \notin items PROVE NoneLost(t, p)'
    <2>1. HandKept(t, p)
      BY <1>2, <1>8, <1>9, <1>11, HandsStay
    <2>2. NoneLost(t, p)
      BY <1>5, NoLineSum DEF NoneLost
    <2> QED
      BY <2>1, <2>2, NoneLostKept
  <1>12. BalanceOK(t)'
    BY <1>3, <1>10, <1>11 DEF BalanceOK
  <1>13. ASSUME NEW n \in OrderIds, NEW p \in Products, committed[Line(n, p)] # NoRow
         PROVE  db'[Line(n, p)].qty = db[Line(n, p)].qty
    BY <1>2, <1>6, <1>8, <1>13
  <1> QED
    BY <1>2, <1>3, <1>12, <1>13, UnitsStep

LEMMA CartServeUnits ==
    ASSUME OrderInv, CartInv, UnitsInv, NEW t \in Txns, CreateCart(t) \/ PutItem(t) \/ DropItems(t)
    PROVE  UnitsInv'
  <1>1. PICK row : WritesOne(t, Cart(req[t].client), row)
    BY CartServeEffect
  <1>2. /\ Others(Rows, t) /\ committed' = committed /\ OthersUntouched(t)
        /\ pc[t] \in {"create", "put", "drop"} /\ pc'[t] \in {"put", "commit"}
    BY CartServeEffect
  <1>3. ASSUME NEW p \in Products
        PROVE  /\ db'[Product(p)] = db[Product(p)] /\ owner'[Product(p)] = owner[Product(p)]
               /\ \A o \in OrderIds : /\ db'[Line(o, p)] = db[Line(o, p)]
                                      /\ owner'[Line(o, p)] = owner[Line(o, p)]
    BY <1>1, RowKinds DEF WritesOne
  <1>4. \A p \in Products : HandKept(t, p)
    BY <1>2, <1>3, HandsStay
  <1>5. BalanceOK(t)'
    BY <1>2, <1>4, BalanceStays DEF UnitsInv
  <1> QED
    BY <1>2, <1>3, <1>5, UnitsStep

LEMMA CartTakenUnits ==
    ASSUME OrderInv, UnitsInv, NEW t \in Txns, CartTaken(t) PROVE UnitsInv'
  <1>1. /\ pc[t] = "create" /\ pc' = [pc EXCEPT ![t] = "reread"]
        /\ UNCHANGED <<db, committed, owner, req, seen>>
        /\ SlotsOK
    BY DEF CartTaken, OrderInv, RequestsInv
  <1>2. OthersUntouched(t) /\ pc'[t] = "reread"
    BY <1>1 DEF OthersUntouched, SlotsOK
  <1>3. Others(Rows, t)
    BY <1>1, RowsStored, IdleEffect DEF OrderInv
  <1>4. \A p \in Products : HandKept(t, p)
    BY <1>1, HandsStay
  <1>5. BalanceOK(t)'
    BY <1>1, <1>2, <1>4, BalanceStays DEF UnitsInv
  <1> QED
    BY <1>1, <1>2, <1>3, <1>5, UnitsStep

-----------------------------------------------------------------------------
(* A request ends. *)

LEMMA EndsEmpty ==
    ASSUME NEW t \in Txns, pc'[t] = "idle", \A r \in Rows : owner'[r] # t
    PROVE  BalanceOK(t)'
  BY RowKinds DEF BalanceOK, NoLine, Shelved

LEMMA RollbackUnits ==
    ASSUME OrderInv, UnitsInv, NEW t \in Txns, Rollback(t) PROVE UnitsInv'
  <1>1. /\ Others(Rows, t) /\ committed' = committed
        /\ \A r \in Rows : db'[r] = IF owner[r] = t THEN committed[r] ELSE db[r]
        /\ \A r \in Rows : owner'[r] # t
    BY RowsStored, RollbackEffect DEF Rollback, OrderInv
  <1>2. OthersUntouched(t) /\ pc'[t] = "idle"
    BY <1>1, ForgetKeeps DEF Rollback, Forget, OrderInv, RequestsInv, SlotsOK
  <1>3. ASSUME NEW o \in OrderIds, NEW p \in Products, committed[Line(o, p)] # NoRow
        PROVE  db'[Line(o, p)].qty = db[Line(o, p)].qty
    BY <1>1, <1>3, RowKinds DEF UnitsInv, QtyKept
  <1> QED
    BY <1>1, <1>2, <1>3, EndsEmpty, UnitsStep

LEMMA CommitUnits ==
    ASSUME OrderInv, UnitsInv, NEW t \in Txns, Commit(t) PROVE UnitsInv'
  <1>1. /\ Others(Rows, t) /\ db' = db
        /\ \A r \in Rows : committed'[r] = IF owner[r] = t THEN db[r] ELSE committed[r]
        /\ \A r \in Rows : owner'[r] # t
        /\ pc[t] = "commit" /\ StoreInv
    BY RowsStored, CommitEffect DEF Commit, OrderInv
  <1>2. OthersUntouched(t) /\ pc'[t] = "idle"
    BY <1>1, ForgetKeeps DEF Commit, Forget, OrderInv, RequestsInv, SlotsOK
  <1>3. QtyStays /\ QtyKept'
    BY <1>1, RowKinds DEF UnitsInv, QtyKept, QtyStays
  <1>4. \A u \in Txns : BalanceOK(u)'
    BY <1>1, <1>2, <1>3, EndsEmpty, OthersBalance DEF UnitsInv
  <1>5. ASSUME NEW p \in Products PROVE committed'[Product(p)].stock + Held(p)' >= Shelf[p]
    <2> DEFINE old == [o \in OrderIds |-> UnitsSold(o, p)]
               own == [o \in OrderIds |-> Lined(t, o, p)]
               new == [o \in OrderIds |-> UnitsSold(o, p)']
    <2>1. IsFiniteSet(OrderIds) /\ Shelf[p] \in Nat
      BY OrdersAssumption
    <2>2. old \in [OrderIds -> Int] /\ own \in [OrderIds -> Int] /\ Shelved(t, p) \in Int
      BY <1>1, HandType
    <2>3. \A o \in OrderIds : UnitsSold(o, p)' = UnitsSold(o, p) + Lined(t, o, p)
      <3> TAKE o \in OrderIds
      <3>1. UnitsIn(db, o, p) \in Nat /\ UnitsIn(committed, o, p) \in Nat
        BY <1>1, UnitsType DEF StoreInv
      <3>2. committed'[Line(o, p)] = IF owner[Line(o, p)] = t THEN db[Line(o, p)] ELSE committed[Line(o, p)]
        BY <1>1, RowKinds
      <3>3. UnitsIn(committed', o, p) = IF owner[Line(o, p)] = t THEN UnitsIn(db, o, p)
                                        ELSE UnitsIn(committed, o, p)
        BY <3>2 DEF UnitsIn, LiveLines, LinesOf
      <3> QED
        BY <3>1, <3>3 DEF UnitsSold, Lined
    <2>4. new \in [OrderIds -> Int] /\ \A o \in OrderIds : new[o] = old[o] + own[o]
      <3>1. \A o \in OrderIds : UnitsSold(o, p) \in Int /\ Lined(t, o, p) \in Int
        BY <2>2
      <3> QED
        BY <2>3, <3>1
    <2>5. committed'[Product(p)].stock = committed[Product(p)].stock + Shelved(t, p)
          /\ committed[Product(p)].stock \in Int
      <3>1. db[Product(p)] \in ProductRow /\ committed[Product(p)] \in ProductRow
        BY <1>1 DEF StoreInv, RowsOK
      <3> QED
        BY <1>1, <3>1, RowKinds DEF Shelved, ProductRow
    <2>6. Shelved(t, p) + SumFunction(own) >= 0
      BY <1>1 DEF UnitsInv, BalanceOK, NoneLost
    <2>7. Held(p) = SumFunction(old) /\ Held(p)' = SumFunction(new)
      BY DEF Held
    <2> HIDE DEF old, own, new
    <2>8. SumFunction(new) = SumFunction(old) + SumFunction(own)
      BY <2>1, <2>2, <2>4, SumAdd
    <2>9. SumFunction(old) \in Int /\ SumFunction(own) \in Int
      BY <2>1, <2>2, SumType
    <2>10. committed[Product(p)].stock + SumFunction(old) >= Shelf[p]
      BY <2>7 DEF UnitsInv, NoUnitsLost
    <2> QED
      BY <2>1, <2>2, <2>5, <2>6, <2>7, <2>8, <2>9, <2>10
  <1> QED
    BY <1>3, <1>4, <1>5 DEF UnitsInv, NoUnitsLost

-----------------------------------------------------------------------------
(* No unit is lost. *)

LEMMA ConservedInitially == ASSUME Init PROVE StockConserved
  <1> SUFFICES ASSUME NEW p \in Products PROVE committed[Product(p)].stock + Held(p) = Shelf[p]
    BY DEF StockConserved
  <1>1. committed = InitialRows
    BY DEF Init, InitStore, InitialRows
  <1>2. /\ committed[Product(p)].stock = Shelf[p]
        /\ \A o \in OrderIds : committed[Line(o, p)] = NoRow
    BY <1>1, RowKinds DEF InitialRows, Product, Line
  <1>3. [o \in OrderIds |-> UnitsSold(o, p)] \in [OrderIds -> {0}]
    BY <1>2 DEF UnitsSold, UnitsIn, LiveLines, LinesOf
  <1>4. Held(p) = 0
    BY <1>3, SumZero, OrdersAssumption DEF Held
  <1> QED
    BY <1>2, <1>4, OrdersAssumption

LEMMA UnitsInitially == ASSUME Init PROVE UnitsInv
  <1>1. /\ db = InitialRows /\ committed = InitialRows /\ owner = [r \in Rows |-> Nobody]
        /\ \A t \in Txns : pc[t] = "idle"
    BY DEF Init, InitStore, InitialRows
  <1>2. \A t \in Txns : BalanceOK(t)
    BY <1>1, RowKinds, NobodyIsNoTxn DEF BalanceOK, NoLine, Shelved
  <1>3. QtyKept
    BY <1>1 DEF QtyKept
  <1>4. NoUnitsLost
    BY ConservedInitially, OrdersAssumption DEF StockConserved, NoUnitsLost
  <1> QED
    BY <1>2, <1>3, <1>4 DEF UnitsInv

LEMMA UnitsInductive ==
    ASSUME NoStockEdits, OrderInv, CartInv, UnitsInv, [CartNext]_vars PROVE UnitsInv'
  <1>1. CASE Next
    <2> PICK t \in Txns : Arrive(t) \/ Step(t) \/ Abort(t) \/ DeadlockVictim(t)
      BY <1>1 DEF Next
    <2> QED
      BY ArriveUnits, LockUnits, TakesNumberUnits, PlaceUnits, RestockUnits, MarkUnits, SetOrderStatusUnits,
         EditUnits, CommitUnits, RollbackUnits
         DEF Step, Serve, TakesNumber, RefuseCheckout, Abort, DeadlockVictim
  <1>2. ASSUME NEW t \in Txns, CartArrive(t) PROVE UnitsInv'
    <2>1. ASSUME NEW c, NEW p, NEW n, BeginAdd(t, c, p, n)
          PROVE  \E next \in {"create", "put"} : \E what, rows : Begin(t, next, what, rows)
      BY <2>1 DEF BeginAdd
    <2>2. ASSUME NEW c, NEW p, NEW n, BeginSet(t, c, p, n)
          PROVE  \E what, rows : Begin(t, "put", what, rows)
      BY <2>2 DEF BeginSet
    <2>3. ASSUME NEW c, NEW items, BeginDrop(t, c, items)
          PROVE  \E what, rows : Begin(t, "drop", what, rows)
      BY <2>3 DEF BeginDrop
    <2>4. PICK next \in {"create", "put", "drop"} : \E what, rows : Begin(t, next, what, rows)
      BY <1>2, <2>1, <2>2, <2>3 DEF CartArrive, BeginRemove, BeginClear
    <2> QED
      BY <2>4, BeginUnits DEF Prepared
  <1>3. ASSUME NEW t \in Txns, CartServe(t) PROVE UnitsInv'
    BY <1>3, CartServeUnits, CartTakenUnits, RollbackUnits DEF CartServe, RereadFails, RefuseItem
  <1>4. CASE UNCHANGED vars
    <2>1. /\ db' = db /\ committed' = committed /\ owner' = owner
          /\ pc' = pc /\ req' = req /\ seen' = seen
      BY <1>4 DEF vars
    <2>2. QtyKept'
      BY <2>1 DEF UnitsInv, QtyKept
    <2>3. \A p \in Products : Held(p)' = Held(p)
      BY <2>1 DEF Held, UnitsSold
    <2>4. NoUnitsLost'
      BY <2>1, <2>3 DEF UnitsInv, NoUnitsLost
    <2>5. ASSUME NEW t \in Txns, NEW p \in Products
          PROVE  /\ Shelved(t, p)' = Shelved(t, p) /\ NoLine(t, p)' = NoLine(t, p)
                 /\ NoneLost(t, p)' = NoneLost(t, p) /\ ToMark(t, p)' = ToMark(t, p)
      <3>1. [o \in OrderIds |-> Lined(t, o, p)'] = [o \in OrderIds |-> Lined(t, o, p)]
        BY <2>1 DEF Lined
      <3>2. Shelved(t, p)' = Shelved(t, p) /\ NoLine(t, p)' = NoLine(t, p)
        BY <2>1 DEF Shelved, NoLine
      <3> QED
        BY <2>1, <3>1, <3>2 DEF NoneLost, ToMark
    <2>6. \A t \in Txns : BalanceOK(t)'
      BY <2>1, <2>5 DEF UnitsInv, BalanceOK
    <2> QED
      BY <2>2, <2>4, <2>6 DEF UnitsInv
  <1> QED
    BY <1>1, <1>2, <1>3, <1>4 DEF CartNext

\* Whatever is refused, rolled back, cancelled twice or filled in other tabs, no
\* unit vanishes: shelf and live lines hold at least what there was, unless a
\* vendor overwrites the stock.
THEOREM UnitsAreKept ==
    ASSUME NoStockEdits PROVE CartSpec => []NoUnitsLost
  <1>1. Init => OrderInv /\ CartInv /\ UnitsInv
    BY Initially, CartInitially, UnitsInitially
  <1>2. (OrderInv /\ CartInv /\ UnitsInv) /\ [CartNext]_vars => (OrderInv /\ CartInv /\ UnitsInv)'
    BY CartInductive, UnitsInductive
  <1>3. OrderInv /\ CartInv /\ UnitsInv => NoUnitsLost
    BY DEF UnitsInv
  <1> QED
    BY <1>1, <1>2, <1>3, PTL DEF CartSpec

\* So too where no cart is filled, which is a shop of carts nobody touches.
THEOREM UnitsAreKeptSelling ==
    ASSUME NoStockEdits PROVE Spec => []NoUnitsLost
  <1>1. Init => OrderInv /\ CartInv /\ UnitsInv
    BY Initially, CartInitially, UnitsInitially
  <1>2. (OrderInv /\ CartInv /\ UnitsInv) /\ [Next]_vars => (OrderInv /\ CartInv /\ UnitsInv)'
    BY CartInductive, UnitsInductive DEF CartNext
  <1>3. OrderInv /\ CartInv /\ UnitsInv => NoUnitsLost
    BY DEF UnitsInv
  <1> QED
    BY <1>1, <1>2, <1>3, PTL DEF Spec

-----------------------------------------------------------------------------
(* While nothing comes back, none is sold twice either: what Storefront      *)
(* promises of each of its steps.                                            *)

\* Of two states of the shop: what is on the shelf and in orders adds up to the same.
Conserved(p) ==
    committed'[Product(p)].stock + Held(p)' = committed[Product(p)].stock + Held(p)

\* Of the orders, one changes what it holds, by what the shelf changes.
Exchanged(o, p) ==
    /\ \A n \in OrderIds \ {o} : UnitsSold(n, p)' = UnitsSold(n, p)
    /\ committed'[Product(p)].stock + UnitsSold(o, p)' = committed[Product(p)].stock + UnitsSold(o, p)

LEMMA ExchangeConserves ==
    ASSUME StoreInv, StoreInv', NEW o \in OrderIds, NEW p \in Products, Exchanged(o, p)
    PROVE  Conserved(p)
  <1> DEFINE old == [n \in OrderIds |-> UnitsSold(n, p)]
             new == [n \in OrderIds |-> UnitsSold(n, p)']
  <1>1. IsFiniteSet(OrderIds)
    BY OrdersAssumption
  <1>2. \A n \in OrderIds : UnitsSold(n, p) \in Int /\ UnitsSold(n, p)' \in Int
    BY UnitsType DEF StoreInv, UnitsSold
  <1>3. /\ old \in [OrderIds -> Int] /\ new \in [OrderIds -> Int]
        /\ old[o] = UnitsSold(o, p) /\ new[o] = UnitsSold(o, p)'
        /\ \A n \in OrderIds \ {o} : new[n] = old[n]
    BY <1>2 DEF Exchanged
  <1>4. committed[Product(p)].stock \in Int /\ committed'[Product(p)].stock \in Int
    BY DEF StoreInv, RowsOK, ProductRow
  <1>5. Held(p) = SumFunction(old) /\ Held(p)' = SumFunction(new)
    BY DEF Held
  <1> HIDE DEF old, new
  <1>6. SumFunction(new) = SumFunction(old) + (new[o] - old[o])
    BY <1>1, <1>3, SumChange
  <1>7. SumFunction(old) \in Int
    BY <1>1, <1>3, SumType
  <1> QED
    BY <1>2, <1>3, <1>4, <1>5, <1>6, <1>7 DEF Conserved, Exchanged

\* Storefront's Place, seen in the rows: a new order holds what left the shelf.
LEMMA PlaceConserves ==
    ASSUME OrderInv, OrderInv', NEW o \in OrderIds, NEW basket, Shop!Place(o, basket), NEW p \in Products
    PROVE  Conserved(p)
  <1>1. /\ committed[Order(o)] = NoRow
        /\ committed'[Product(p)].stock = committed[Product(p)].stock - basket[p]
        /\ UnitsSold(o, p)' = basket[p]
        /\ \A n \in OrderIds \ {o} : UnitsSold(n, p)' = UnitsSold(n, p)
    <2> DEFINE units == [n \in OrderIds |-> [q \in Products |-> UnitsSold(n, q)]]
               next == [n \in OrderIds |-> [q \in Products |-> UnitsSold(n, q)']]
    <2>1. next = [units EXCEPT ![o] = basket]
      BY DEF Shop!Place
    <2>2. next[o] = basket /\ \A n \in OrderIds \ {o} : next[n] = units[n]
      BY <2>1
    <2>3. next[o][p] = UnitsSold(o, p)'
      OBVIOUS
    <2>4. ASSUME NEW n \in OrderIds \ {o} PROVE UnitsSold(n, p)' = UnitsSold(n, p)
      <3>1. next[n][p] = UnitsSold(n, p)' /\ units[n][p] = UnitsSold(n, p)
        OBVIOUS
      <3> QED
        BY <2>2, <3>1
    <2> QED
      BY <2>2, <2>3, <2>4 DEF Shop!Place
  <1>2. UnitsSold(o, p) = 0
    BY <1>1, RowKinds DEF OrderInv, StoreInv, LinesHaveOrders, UnitsSold, UnitsIn, LiveLines, LinesOf
  <1>3. UnitsSold(o, p)' \in Nat /\ committed[Product(p)].stock \in Int
    BY UnitsType DEF OrderInv, StoreInv, UnitsSold, RowsOK, ProductRow
  <1>4. Exchanged(o, p)
    BY <1>1, <1>2, <1>3 DEF Exchanged
  <1> QED
    BY <1>4, ExchangeConserves DEF OrderInv

\* Storefront's CallOff: an order gives back what lines of it held.
LEMMA CallOffConserves ==
    ASSUME OrderInv, OrderInv', NEW o \in OrderIds, NEW lines, Shop!CallOff(o, lines), NEW p \in Products
    PROVE  Conserved(p)
  <1> DEFINE units == [n \in OrderIds |-> [q \in Products |-> UnitsSold(n, q)]]
             next == [n \in OrderIds |-> [q \in Products |-> UnitsSold(n, q)']]
  <1>1. /\ next = [units EXCEPT ![o] = [q \in Products |-> IF q \in lines THEN 0 ELSE units[o][q]]]
        /\ committed'[Product(p)].stock
             = committed[Product(p)].stock + IF p \in lines THEN units[o][p] ELSE 0
    BY DEF Shop!CallOff
  <1>2. /\ next[o] = [q \in Products |-> IF q \in lines THEN 0 ELSE units[o][q]]
        /\ \A n \in OrderIds \ {o} : next[n] = units[n]
    BY <1>1
  <1>3. UnitsSold(o, p)' = IF p \in lines THEN 0 ELSE UnitsSold(o, p)
    <2>1. next[o][p] = UnitsSold(o, p)' /\ units[o][p] = UnitsSold(o, p)
      OBVIOUS
    <2> QED
      BY <1>2, <2>1
  <1>4. ASSUME NEW n \in OrderIds \ {o} PROVE UnitsSold(n, p)' = UnitsSold(n, p)
    <2>1. next[n][p] = UnitsSold(n, p)' /\ units[n][p] = UnitsSold(n, p)
      OBVIOUS
    <2> QED
      BY <1>2, <2>1
  <1>5. UnitsSold(o, p) \in Nat /\ committed[Product(p)].stock \in Int
    BY UnitsType DEF OrderInv, StoreInv, UnitsSold, RowsOK, ProductRow
  <1>6. Exchanged(o, p)
    BY <1>1, <1>3, <1>4, <1>5 DEF Exchanged
  <1> QED
    BY <1>6, ExchangeConserves DEF OrderInv

\* So whatever implements Storefront keeps the units of each product.
LEMMA StorefrontConserves ==
    ASSUME OrderInv, OrderInv', StockConserved, [Shop!Next]_(Shop!stock) PROVE StockConserved'
  <1> SUFFICES ASSUME NEW p \in Products PROVE Conserved(p)
    BY DEF StockConserved, Conserved
  <1>1. CASE Shop!Next
    BY <1>1, PlaceConserves, CallOffConserves DEF Shop!Next
  <1>2. CASE UNCHANGED Shop!stock
    <2> DEFINE shelf == [q \in Products |-> committed[Product(q)].stock]
               units == [n \in OrderIds |-> [q \in Products |-> UnitsSold(n, q)]]
    <2>1. shelf' = shelf /\ units' = units
      BY <1>2 DEF Shop!stock
    <2>2. committed'[Product(p)].stock = committed[Product(p)].stock
      <3>1. shelf'[p] = committed'[Product(p)].stock /\ shelf[p] = committed[Product(p)].stock
        OBVIOUS
      <3> QED
        BY <2>1, <3>1
    <2>3. ASSUME NEW n \in OrderIds PROVE UnitsSold(n, p)' = UnitsSold(n, p)
      <3>1. units'[n][p] = UnitsSold(n, p)' /\ units[n][p] = UnitsSold(n, p)
        OBVIOUS
      <3> QED
        BY <2>1, <3>1
    <2>4. Held(p)' = Held(p)
      BY <2>3 DEF Held
    <2> QED
      BY <2>2, <2>4 DEF Conserved
  <1> QED
    BY <1>1, <1>2

\* While nothing comes back on the shelves, no unit is lost and none is sold
\* twice: shelf and live lines add up to what there was, at every moment.
THEOREM StockAddsUp ==
    ASSUME NoReturns, CartsFit PROVE CartSpec => []StockConserved
  <1>1. Init => OrderInv /\ CartInv /\ ScarceInv /\ SalesInv /\ StockConserved
    BY Initially, CartInitially, ScarceInitially, SalesInitially, ConservedInitially
  <1>2. (OrderInv /\ CartInv /\ ScarceInv /\ SalesInv /\ StockConserved) /\ [CartNext]_vars
          => (OrderInv /\ CartInv /\ ScarceInv /\ SalesInv /\ StockConserved)'
    BY CartInductive, ScarceInductive, SalesInductive, StorefrontNext, StorefrontConserves
  <1> QED
    BY <1>1, <1>2, PTL DEF CartSpec
=============================================================================
