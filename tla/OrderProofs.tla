----------------------------- MODULE OrderProofs -----------------------------
(***************************************************************************)
(* What holds of Orders for all clients, products, carts, stock levels,    *)
(* patches and numbers of slots: types, stock that is never negative, news *)
(* for everyone, and the status of orders of one line; and, for one slot,  *)
(* what a second request at work could break.                              *)
(***************************************************************************)
EXTENDS OrderProperties, ProofBasics

-----------------------------------------------------------------------------
(* Rows. *)

\* Rows of different kinds, and of different keys, are different rows.
LEMMA RowKinds ==
    /\ \A p \in Products : Product(p) \in Rows
    /\ \A c \in Clients : Cart(c) \in Rows
    /\ \A o \in OrderIds : Order(o) \in Rows
    /\ \A o \in OrderIds, p \in Products : Line(o, p) \in Rows
    /\ \A k \in PaymentIds : Payment(k) \in Rows
    /\ EmptyNumber \in Rows
    /\ \A p, c : Product(p) # Cart(c)
    /\ \A p, o : Product(p) # Order(o)
    /\ \A p, o, q : Product(p) # Line(o, q)
    /\ \A p, k : Product(p) # Payment(k)
    /\ \A c, o : Cart(c) # Order(o)
    /\ \A c, o, p : Cart(c) # Line(o, p)
    /\ \A c, k : Cart(c) # Payment(k)
    /\ \A o, n, p : Order(o) # Line(n, p)
    /\ \A o, k : Order(o) # Payment(k)
    /\ \A o, p, k : Line(o, p) # Payment(k)
    /\ \A p : Product(p) # EmptyNumber
    /\ \A c : Cart(c) # EmptyNumber
    /\ \A o : Order(o) # EmptyNumber
    /\ \A o, p : Line(o, p) # EmptyNumber
    /\ \A k : Payment(k) # EmptyNumber
    /\ \A p, q : Product(p) = Product(q) => p = q
    /\ \A c, d : Cart(c) = Cart(d) => c = d
    /\ \A o, n : Order(o) = Order(n) => o = n
    /\ \A j, k : Payment(j) = Payment(k) => j = k
    /\ \A o, n, p, q : Line(o, p) = Line(n, q) => o = n /\ p = q
  BY DEF Rows, Product, Cart, Order, Line, Payment, EmptyNumber

\* What a step of t leaves alone: the rows other transactions hold, and the
\* existence of committed rows.
Frame(t) ==
    \A r \in Rows :
        /\ owner[r] \notin {t, Nobody} => owner'[r] = owner[r] /\ db'[r] = db[r]
        /\ owner'[r] \notin {t, Nobody} => owner[r] = owner'[r]
        /\ committed[r] # NoRow => committed'[r] # NoRow

\* Versions a transaction may write.
WritesOK(new) ==
    /\ new = [r \in DOMAIN new |-> new[r]]
    /\ EmptyNumber \notin DOMAIN new
    /\ \A p \in Products : Product(p) \in DOMAIN new =>
            new[Product(p)] \in ProductRow /\ new[Product(p)].stock >= 0
    /\ \A c \in Clients : Cart(c) \in DOMAIN new => new[Cart(c)] \in CartRow
    /\ \A o \in OrderIds : Order(o) \in DOMAIN new =>
            /\ new[Order(o)] \in OrderRow
            /\ committed[Order(o)] # NoRow \/ db[Order(o)] = NoRow
    /\ \A o \in OrderIds, p \in Products : Line(o, p) \in DOMAIN new =>
            /\ new[Line(o, p)] \in LineRow
            /\ \/ committed[Line(o, p)] # NoRow
               \/ Order(o) \in DOMAIN new /\ committed[Order(o)] = NoRow
    /\ \A k \in PaymentIds : Payment(k) \in DOMAIN new => new[Payment(k)] \in PaymentRow

LEMMA StoreWrite ==
    ASSUME StoreInv, NEW t \in Txns, NEW new, WriteRows(t, new), WritesOK(new)
    PROVE  StoreInv' /\ Frame(t)
  <1>1. /\ db' = [r \in Rows |-> IF r \in DOMAIN new THEN new[r] ELSE db[r]]
        /\ owner' = [r \in Rows |-> IF r \in DOMAIN new THEN t ELSE owner[r]]
        /\ committed' = committed
        /\ \A r \in DOMAIN new : owner[r] \in {t, Nobody}
    BY DEF WriteRows, Grantable, StoreInv, RowsOK
  <1>2. RowsOK(db)'
    BY <1>1, RowKinds DEF RowsOK, WritesOK, StoreInv
  <1>3. RowsOK(committed)' /\ owner' \in [Rows -> Txns \cup {Nobody}]
    BY <1>1 DEF RowsOK, StoreInv
  <1>4. StockNeverNegative'
    BY <1>1, RowKinds DEF StockNeverNegative, WritesOK, StoreInv
  <1>5. UnlockedIsCommitted'
    BY <1>1, NobodyIsNoTxn DEF UnlockedIsCommitted, StoreInv, RowsOK
  <1>6. RowsKept'
    <2> SUFFICES ASSUME NEW r \in Rows, committed[r] # NoRow PROVE db'[r] # NoRow
      BY <1>1 DEF RowsKept
    <2>1. db[r] # NoRow
      BY DEF StoreInv, RowsKept
    <2>2. r \in DOMAIN new => new[r] # NoRow
      <3>1. CASE \E p \in Products : r = Product(p)
        BY <3>1, NoRowIsNoValue DEF WritesOK
      <3>2. CASE \E c \in Clients : r = Cart(c)
        BY <3>2, NoRowIsNoValue DEF WritesOK
      <3>3. CASE \E o \in OrderIds : r = Order(o)
        BY <3>3, NoRowIsNoValue DEF WritesOK
      <3>4. CASE \E o \in OrderIds, p \in Products : r = Line(o, p)
        BY <3>4, NoRowIsNoValue DEF WritesOK
      <3>5. CASE \E k \in PaymentIds : r = Payment(k)
        BY <3>5, NoRowIsNoValue DEF WritesOK
      <3>6. CASE r = EmptyNumber
        BY <3>6 DEF WritesOK
      <3> QED
        BY <3>1, <3>2, <3>3, <3>4, <3>5, <3>6 DEF Rows
    <2> QED
      BY <2>1, <2>2, <1>1
  <1>7. LinesHaveOrders'
    <2> SUFFICES ASSUME NEW o \in OrderIds, NEW p \in Products, db'[Line(o, p)] # NoRow
                 PROVE  /\ db'[Order(o)] # NoRow
                        /\ IF committed[Order(o)] = NoRow
                           THEN owner'[Order(o)] = owner'[Line(o, p)]
                           ELSE committed[Line(o, p)] # NoRow
      BY <1>1 DEF LinesHaveOrders, StoreInv
    <2>1. Order(o) \in Rows /\ Line(o, p) \in Rows
      BY RowKinds
    <2>2. committed[Order(o)] # NoRow => db'[Order(o)] # NoRow
      BY <1>1, <1>6, <2>1 DEF RowsKept
    <2>3. Order(o) \in DOMAIN new => db'[Order(o)] # NoRow
      BY <1>1, <2>1, NoRowIsNoValue DEF WritesOK
    <2>4. CASE Line(o, p) \in DOMAIN new
      BY <1>1, <2>1, <2>2, <2>3, <2>4 DEF WritesOK, StoreInv, LinesHaveOrders
    <2>5. CASE Line(o, p) \notin DOMAIN new
      BY <1>1, <2>1, <2>2, <2>3, <2>5 DEF WritesOK, StoreInv, LinesHaveOrders
    <2> QED
      BY <2>4, <2>5
  <1>8. Frame(t)
    BY <1>1, NobodyIsNoTxn DEF Frame
  <1> QED
    BY <1>2, <1>3, <1>4, <1>5, <1>6, <1>7, <1>8 DEF StoreInv

LEMMA StoreLock ==
    ASSUME StoreInv, NEW t \in Txns, NEW r, LockRow(t, r)
    PROVE  StoreInv' /\ Frame(t)
  <1>1. /\ owner' = [x \in Rows |-> IF x = r THEN t ELSE owner[x]]
        /\ owner[r] \in {t, Nobody}
        /\ UNCHANGED <<db, committed>>
    BY DEF LockRow, Grantable, StoreInv
  <1>2. RowsOK(db)' /\ RowsOK(committed)' /\ owner' \in [Rows -> Txns \cup {Nobody}]
    BY <1>1 DEF StoreInv, RowsOK
  <1>3. StockNeverNegative' /\ RowsKept'
    BY <1>1 DEF StoreInv, StockNeverNegative, RowsKept
  <1>4. UnlockedIsCommitted'
    BY <1>1, NobodyIsNoTxn DEF StoreInv, UnlockedIsCommitted, RowsOK
  <1>5. LinesHaveOrders'
    BY <1>1, RowKinds DEF StoreInv, LinesHaveOrders, UnlockedIsCommitted, RowsOK
  <1>6. Frame(t)
    BY <1>1, NobodyIsNoTxn DEF Frame
  <1> QED
    BY <1>2, <1>3, <1>4, <1>5, <1>6 DEF StoreInv

LEMMA StoreCommit ==
    ASSUME StoreInv, NEW t \in Txns, CommitTxn(t)
    PROVE  StoreInv' /\ Frame(t)
  <1>1. /\ committed' = [r \in Rows |-> IF owner[r] = t THEN db[r] ELSE committed[r]]
        /\ owner' = [r \in Rows |-> IF owner[r] = t THEN Nobody ELSE owner[r]]
        /\ db' = db
    BY DEF CommitTxn, Release, StoreInv, RowsOK
  <1>2. RowsOK(db)' /\ owner' \in [Rows -> Txns \cup {Nobody}]
    BY <1>1 DEF StoreInv, RowsOK
  <1>3. RowsOK(committed)'
    BY <1>1, RowKinds DEF StoreInv, RowsOK
  <1>4. StockNeverNegative'
    BY <1>1, RowKinds DEF StoreInv, StockNeverNegative
  <1>5. RowsKept'
    BY <1>1 DEF StoreInv, RowsKept
  <1>6. UnlockedIsCommitted'
    BY <1>1 DEF StoreInv, UnlockedIsCommitted, RowsOK
  <1>7. LinesHaveOrders'
    BY <1>1, RowKinds DEF StoreInv, LinesHaveOrders, RowsKept
  <1>8. Frame(t)
    BY <1>1 DEF Frame, StoreInv, RowsKept
  <1> QED
    BY <1>2, <1>3, <1>4, <1>5, <1>6, <1>7, <1>8 DEF StoreInv

LEMMA StoreRollback ==
    ASSUME StoreInv, NEW t \in Txns, RollbackTxn(t)
    PROVE  StoreInv' /\ Frame(t)
  <1>1. /\ db' = [r \in Rows |-> IF owner[r] = t THEN committed[r] ELSE db[r]]
        /\ owner' = [r \in Rows |-> IF owner[r] = t THEN Nobody ELSE owner[r]]
        /\ committed' = committed
    BY DEF RollbackTxn, Release, StoreInv, RowsOK
  <1>2. RowsOK(committed)' /\ owner' \in [Rows -> Txns \cup {Nobody}]
    BY <1>1 DEF StoreInv, RowsOK
  <1>3. RowsOK(db)'
    BY <1>1, RowKinds DEF StoreInv, RowsOK
  <1>4. StockNeverNegative'
    BY <1>1, RowKinds DEF StoreInv, StockNeverNegative
  <1>5. RowsKept'
    BY <1>1 DEF StoreInv, RowsKept
  <1>6. UnlockedIsCommitted'
    BY <1>1 DEF StoreInv, UnlockedIsCommitted, RowsOK
  <1>7. LinesHaveOrders'
    BY <1>1, RowKinds DEF StoreInv, LinesHaveOrders, RowsKept
  <1>8. Frame(t)
    BY <1>1 DEF Frame
  <1> QED
    BY <1>2, <1>3, <1>4, <1>5, <1>6, <1>7, <1>8 DEF StoreInv

LEMMA StoreIdle ==
    ASSUME StoreInv, UNCHANGED <<db, committed, owner>>
    PROVE  StoreInv' /\ \A t \in Txns : Frame(t)
  <1>1. RowsOK(db)' /\ RowsOK(committed)' /\ owner' \in [Rows -> Txns \cup {Nobody}]
    BY DEF StoreInv, RowsOK
  <1>2. StockNeverNegative' /\ UnlockedIsCommitted' /\ RowsKept'
    BY DEF StoreInv, StockNeverNegative, UnlockedIsCommitted, RowsKept
  <1>3. LinesHaveOrders'
    BY DEF StoreInv, LinesHaveOrders
  <1> QED
    BY <1>1, <1>2, <1>3 DEF StoreInv, Frame

-----------------------------------------------------------------------------
(* Requests. *)

\* A step of one slot leaves what the others rely on.
LEMMA OthersKeep ==
    ASSUME OrderInv, NEW t \in Txns, NEW u \in Txns \ {t}, Frame(t),
           pc'[u] = pc[u], req'[u] = req[u], seen'[u] = seen[u]
    PROVE  RequestOK(u)'
  <1>1. RequestOK(u) /\ StoreInv
    BY DEF OrderInv, RequestsInv
  <1>2. CASE pc[u] \in {"lock", "insert", "queue", "place"}
    <2>1. InBasket(u)' = InBasket(u) /\ SeenCart(u)' = SeenCart(u)
      BY DEF InBasket, Basket, SeenCart
    <2>2. \A p \in InBasket(u) : Product(p) \in Rows
      BY RowKinds DEF InBasket
    <2>3. Cart(req[u].client) \in Rows
      BY <1>1, <1>2, RowKinds DEF RequestOK, CheckoutReq
    <2> QED
      BY <1>1, <1>2, <2>1, <2>2, <2>3, NobodyIsNoTxn DEF RequestOK, CheckoutReads, Frame
  <1>3. CASE pc[u] \in {"restock", "mark", "rollup"}
    <2>1. req[u] \in LineReq
      BY <1>1, <1>3 DEF RequestOK
    <2> QED
      BY <1>1, <1>3, <2>1, RowKinds DEF RequestOK, LineReads, LineReq, Frame
  <1>4. CASE pc[u] \notin {"lock", "insert", "queue", "place", "restock", "mark", "rollup"}
    BY <1>1, <1>4, NobodyIsNoTxn DEF RequestOK, Frame
  <1> QED
    BY <1>2, <1>3, <1>4

\* The slots other than t stay where they are.
OthersUntouched(t) ==
    \A u \in Txns \ {t} : pc'[u] = pc[u] /\ req'[u] = req[u] /\ seen'[u] = seen[u]

LEMMA StepKeeps ==
    ASSUME OrderInv, NEW t \in Txns, OthersUntouched(t), Frame(t),
           StoreInv', SlotsOK', RequestOK(t)'
    PROVE  OrderInv'
  <1>1. \A u \in Txns \ {t} : RequestOK(u)'
    BY OthersKeep DEF OthersUntouched
  <1>2. \A u \in Txns : RequestOK(u)'
    BY <1>1
  <1> QED
    BY <1>2 DEF OrderInv, RequestsInv

\* The end of a request, whatever its outcome.
LEMMA ForgetKeeps ==
    ASSUME OrderInv, NEW t \in Txns, Forget(t), \A r \in Rows : owner'[r] # t
    PROVE  OthersUntouched(t) /\ SlotsOK' /\ RequestOK(t)'
  <1>1. SlotsOK
    BY DEF OrderInv, RequestsInv
  <1>2. pc'[t] = "idle" /\ OthersUntouched(t)
    BY <1>1 DEF Forget, OthersUntouched, SlotsOK
  <1>3. SlotsOK'
    BY <1>1 DEF Forget, SlotsOK, NothingSeen
  <1> QED
    BY <1>2, <1>3 DEF RequestOK

LEMMA FinishKeeps ==
    ASSUME OrderInv, NEW t \in Txns, Finish(t)
    PROVE  OthersUntouched(t) /\ SlotsOK' /\ RequestOK(t)'
  <1>1. SlotsOK
    BY DEF OrderInv, RequestsInv
  <1>2. pc'[t] = "commit" /\ OthersUntouched(t)
    BY <1>1 DEF Finish, OthersUntouched, SlotsOK
  <1>3. SlotsOK'
    BY <1>1 DEF Finish, SlotsOK, NothingSeen
  <1> QED
    BY <1>2, <1>3 DEF RequestOK

LEMMA RollbackKeeps ==
    ASSUME OrderInv, NEW t \in Txns, Rollback(t)
    PROVE  OrderInv'
  <1>1. StoreInv' /\ Frame(t)
    BY StoreRollback DEF OrderInv, Rollback
  <1>2. \A r \in Rows : owner'[r] # t
    BY NobodyIsNoTxn DEF OrderInv, Rollback, RollbackTxn, Release, StoreInv
  <1> QED
    BY <1>1, <1>2, ForgetKeeps, StepKeeps DEF Rollback

LEMMA CommitKeeps ==
    ASSUME OrderInv, NEW t \in Txns, Commit(t)
    PROVE  OrderInv'
  <1>1. StoreInv' /\ Frame(t)
    BY StoreCommit DEF OrderInv, Commit
  <1>2. \A r \in Rows : owner'[r] # t
    BY NobodyIsNoTxn DEF OrderInv, Commit, CommitTxn, Release, StoreInv
  <1> QED
    BY <1>1, <1>2, ForgetKeeps, StepKeeps DEF Commit

\* A request that begins has read committed rows and holds no lock.
LEMMA BeginKeeps ==
    ASSUME OrderInv, NEW t \in Txns, NEW next, NEW what, NEW rows,
           Begin(t, next, what, rows), RequestOK(t)'
    PROVE  OrderInv'
  <1>1. StoreInv /\ SlotsOK
    BY DEF OrderInv, RequestsInv
  <1>2. StoreInv' /\ Frame(t)
    BY <1>1, StoreIdle DEF Begin
  <1>3. OthersUntouched(t)
    BY <1>1 DEF Begin, OthersUntouched, SlotsOK
  <1>4. ReadView(rows) = [r \in Rows |-> ReadView(rows)[r]]
    BY <1>1 DEF ReadView, StoreInv, RowsOK
  <1>5. SlotsOK'
    BY <1>1, <1>4 DEF Begin, SlotsOK
  <1> QED
    BY <1>2, <1>3, <1>5, StepKeeps

\* What a request of any kind has in its hands once it has begun.
LEMMA BeginReads ==
    ASSUME OrderInv, NEW t \in Txns, NEW next, NEW what, NEW rows, Begin(t, next, what, rows)
    PROVE  /\ pc[t] = "idle" /\ pc'[t] = next /\ req'[t] = what
           /\ \A r \in Rows : seen'[t][r] = IF r \in rows THEN committed[r] ELSE NoRow
           /\ \A r \in Rows : owner[r] # t
           /\ UNCHANGED <<db, committed, owner, outbox, notices>>
           /\ OthersUntouched(t)
  BY DEF OrderInv, RequestsInv, SlotsOK, RequestOK, Begin, ReadView, StoreInv, RowsOK, OthersUntouched

-----------------------------------------------------------------------------
(* The steps. *)

LEMMA BeginCheckoutKeeps ==
    ASSUME OrderInv, NEW t \in Txns, NEW c \in Clients, BeginCheckout(t, c)
    PROVE  OrderInv'
  <1> DEFINE what == [client |-> c]
             wanted == {p \in Products : committed[Cart(c)][p].qty > 0}
             rows == {Cart(c)} \cup {Product(p) : p \in wanted}
  <1>1. Begin(t, "lock", what, rows)
    BY DEF BeginCheckout
  <1>2. what \in CheckoutReq
    BY DEF CheckoutReq
  <1>3. /\ pc'[t] = "lock" /\ req'[t] = what
        /\ \A r \in Rows : seen'[t][r] = IF r \in rows THEN committed[r] ELSE NoRow
        /\ \A r \in Rows : owner[r] # t
        /\ UNCHANGED <<db, committed, owner>>
    <2> HIDE DEF what, rows
    <2> QED
      BY <1>1, BeginReads
  <1>4. seen'[t][Cart(c)] = committed[Cart(c)] /\ committed[Cart(c)] \in CartRow
    BY <1>3, RowKinds DEF OrderInv, BeginCheckout, StoreInv, RowsOK
  <1>5. InBasket(t)' = wanted /\ SeenCart(t)' = committed[Cart(c)]
    BY <1>3, <1>4 DEF InBasket, Basket, SeenCart
  <1>6. \A p \in wanted : seen'[t][Product(p)] \in ProductRow
    <2>1. \A p \in wanted : p \in Products /\ Product(p) \in rows
      OBVIOUS
    <2> HIDE DEF rows, wanted
    <2> QED
      BY <1>3, <2>1, RowKinds DEF OrderInv, StoreInv, RowsOK
  <1>7. \A p \in wanted : owner[Product(p)] # t
    BY <1>3, RowKinds
  <1>8. committed'[Cart(c)] # NoRow
    BY <1>3 DEF BeginCheckout
  <1>9. RequestOK(t)'
    BY <1>2, <1>3, <1>4, <1>5, <1>6, <1>7, <1>8 DEF RequestOK, CheckoutReads
  <1> HIDE DEF what, rows
  <1> QED
    BY <1>1, <1>9, BeginKeeps

LEMMA LineReqReads ==
    ASSUME OrderInv, NEW t \in Txns, NEW next \in {"restock", "mark", "rollup"},
           NEW what \in LineReq, Begin(t, next, what, OrderQuery(what.order)),
           committed[Order(what.order)] # NoRow,
           next # "rollup" => what.item \in what.todo,
           \A p \in what.todo : committed[Line(what.order, p)] # NoRow
    PROVE  OrderInv'
  <1>1. /\ pc'[t] = next /\ req'[t] = what
        /\ \A r \in Rows : r \in OrderQuery(what.order) => seen'[t][r] = committed[r]
        /\ UNCHANGED <<db, committed, owner>>
    BY BeginReads
  <1>2. \A p \in what.todo : /\ p \in Products
                             /\ Line(what.order, p) \in Rows
                             /\ committed[Line(what.order, p)] \in LineRow
    BY RowKinds DEF OrderInv, LineReq, StoreInv, RowsOK
  <1>3. \A p \in what.todo : seen'[t][Line(what.order, p)] = committed[Line(what.order, p)]
    BY <1>1, <1>2 DEF OrderQuery
  <1>4. RequestOK(t)'
    BY <1>1, <1>2, <1>3 DEF RequestOK, LineReads
  <1> QED
    BY <1>4, BeginKeeps

LEMMA BeginAdvanceKeeps ==
    ASSUME OrderInv, NEW t \in Txns, NEW o \in OrderIds, NEW p \in Products, NEW m \in VendorMoves,
           BeginAdvance(t, o, p, m)
    PROVE  OrderInv'
  <1> DEFINE what == [order |-> o, item |-> p, todo |-> {p}, move |-> m, buyer |-> FALSE]
             next == IF m = "CANCELLED" THEN "restock" ELSE "mark"
  <1>1. what \in LineReq
    BY OrdersAssumption DEF LineReq
  <1>2. Begin(t, next, what, OrderQuery(what.order))
    BY DEF BeginAdvance
  <1>3. committed[Line(o, p)] # NoRow /\ committed[Order(o)] # NoRow
    BY DEF BeginAdvance, OrderInv, StoreInv, LinesHaveOrders
  <1>4. what.order = o /\ what.item = p /\ what.todo = {p} /\ next \in {"restock", "mark"}
    OBVIOUS
  <1> HIDE DEF what, next
  <1> QED
    BY <1>1, <1>2, <1>3, <1>4, LineReqReads

LEMMA BeginCancelKeeps ==
    ASSUME OrderInv, NEW t \in Txns, NEW o \in OrderIds, NEW p \in Products, BeginCancel(t, o, p)
    PROVE  OrderInv'
  <1> DEFINE live == LiveLines(committed, o)
             what == [order |-> o, item |-> p, todo |-> live, move |-> "CANCELLED", buyer |-> TRUE]
             next == IF live = {} THEN "rollup" ELSE "restock"
  <1>1. live \subseteq Products /\ \A q \in live : committed[Line(o, q)] # NoRow
    BY DEF LiveLines, LinesOf
  <1>2. what \in LineReq
    BY <1>1 DEF LineReq, VendorItemStatus
  <1>3. Begin(t, next, what, OrderQuery(what.order)) /\ committed[Order(o)] # NoRow
    BY DEF BeginCancel, Cancellable
  <1>4. /\ what.order = o /\ what.item = p /\ what.todo = live
        /\ next \in {"restock", "rollup"} /\ (next = "restock" => p \in live)
    BY DEF BeginCancel, Cancellable
  <1> HIDE DEF what, next, live
  <1> QED
    BY <1>1, <1>2, <1>3, <1>4, LineReqReads

LEMMA BeginEditKeeps ==
    ASSUME OrderInv, NEW t \in Txns, NEW p \in Products, NEW e \in Edits, BeginEdit(t, p, e)
    PROVE  OrderInv'
  <1> DEFINE what == [item |-> p, patch |-> e]
  <1>1. what \in EditReq
    BY OrdersAssumption DEF EditReq
  <1>2. Begin(t, "edit", what, {Product(p)})
    BY DEF BeginEdit
  <1>3. /\ pc'[t] = "edit" /\ req'[t] = what /\ what.item = p
        /\ seen'[t][Product(p)] = committed[Product(p)]
    <2>1. what.item = p
      OBVIOUS
    <2> HIDE DEF what
    <2> QED
      BY <1>2, <2>1, BeginReads, RowKinds
  <1>4. seen'[t][Product(p)] \in ProductRow
    BY <1>3, RowKinds DEF OrderInv, StoreInv, RowsOK
  <1> HIDE DEF what
  <1>5. RequestOK(t)'
    BY <1>1, <1>3, <1>4 DEF RequestOK
  <1> QED
    BY <1>2, <1>5, BeginKeeps

LEMMA LockProductKeeps ==
    ASSUME OrderInv, NEW t \in Txns, LockProduct(t)
    PROVE  OrderInv'
  <1> DEFINE n == NextProduct(t)
             new == IF InBasket(t) \ Locked(t) = {n} THEN "insert" ELSE "lock"
  <1>1. /\ pc[t] = "lock" /\ LockRow(t, Product(n))
        /\ seen' = [seen EXCEPT ![t][Product(n)] = db[Product(n)]]
        /\ pc' = [pc EXCEPT ![t] = new]
        /\ UNCHANGED <<req, outbox, notices>>
    BY DEF LockProduct, Reread
  <1> HIDE DEF n
  <1>2. StoreInv /\ SlotsOK /\ CheckoutReads(t) /\ req[t] \in CheckoutReq
    BY <1>1 DEF OrderInv, RequestsInv, RequestOK
  <1>3. StoreInv' /\ Frame(t)
    BY <1>1, <1>2, StoreLock
  <1>4. OthersUntouched(t)
    BY <1>1, <1>2 DEF OthersUntouched, SlotsOK
  <1>5. SlotsOK'
    BY <1>1, <1>2 DEF SlotsOK
  <1>6. \A r \in Rows : seen'[t][r] = IF r = Product(n) THEN db[r] ELSE seen[t][r]
    BY <1>1, <1>2 DEF SlotsOK
  <1>7. SeenCart(t)' = SeenCart(t) /\ InBasket(t)' = InBasket(t)
    <2>1. Cart(req[t].client) \in Rows /\ Cart(req[t].client) # Product(n)
      BY <1>2, RowKinds DEF CheckoutReq
    <2>2. SeenCart(t)' = SeenCart(t)
      BY <1>1, <1>6, <2>1 DEF SeenCart
    <2> QED
      BY <2>2 DEF InBasket, Basket
  <1>8. \A r \in Rows : owner'[r] = IF r = Product(n) THEN t ELSE owner[r]
    BY <1>1, <1>2 DEF LockRow, StoreInv
  <1>9. db' = db
    BY <1>1 DEF LockRow
  <1>10. \A p \in InBasket(t) : /\ seen'[t][Product(p)] \in ProductRow
                                /\ owner'[Product(p)] = t => seen'[t][Product(p)] = db'[Product(p)]
    BY <1>2, <1>6, <1>8, <1>9, RowKinds DEF CheckoutReads, InBasket, StoreInv, RowsOK
  <1>11. pc'[t] # "lock" => \A p \in InBasket(t) : owner'[Product(p)] = t
    BY <1>1, <1>2, <1>8, RowKinds DEF InBasket, Locked, SlotsOK
  <1>12. CheckoutReads(t)'
    BY <1>1, <1>2, <1>7, <1>10, <1>11 DEF CheckoutReads, LockRow
  <1>13. RequestOK(t)'
    BY <1>1, <1>2, <1>12 DEF RequestOK, SlotsOK
  <1> QED
    BY <1>3, <1>4, <1>5, <1>13, StepKeeps

\* A checkout on its way to the entry '' of the index on order_number.
TakesNumber(t) == FindNumber(t) \/ InsertOrder(t)

LEMMA TakesNumberKeeps ==
    ASSUME OrderInv, NEW t \in Txns, TakesNumber(t)
    PROVE  OrderInv'
  <1>1. /\ pc[t] \in {"insert", "queue"} /\ UNCHANGED <<db, committed, req, seen>>
        /\ \E next \in {"queue", "place"} : pc' = [pc EXCEPT ![t] = next]
    BY DEF TakesNumber, FindNumber, InsertOrder, LockRow
  <1>2. StoreInv /\ SlotsOK /\ CheckoutReads(t) /\ req[t] \in CheckoutReq
    BY <1>1 DEF OrderInv, RequestsInv, RequestOK
  <1>3. /\ StoreInv' /\ Frame(t)
        /\ \A r \in Rows : r # EmptyNumber => owner'[r] = owner[r]
    <2>1. CASE FindNumber(t)
      BY <1>2, <2>1, StoreIdle DEF FindNumber
    <2>2. CASE InsertOrder(t)
      <3>1. LockRow(t, EmptyNumber)
        BY <2>2 DEF InsertOrder
      <3>2. \A r \in Rows : r # EmptyNumber => owner'[r] = owner[r]
        BY <1>2, <3>1 DEF LockRow, StoreInv
      <3> QED
        BY <1>2, <3>1, <3>2, StoreLock
    <2> QED
      BY <2>1, <2>2 DEF TakesNumber
  <1>4. SlotsOK' /\ OthersUntouched(t) /\ pc'[t] \in {"queue", "place"}
    BY <1>1, <1>2 DEF SlotsOK, OthersUntouched
  <1>5. SeenCart(t)' = SeenCart(t) /\ InBasket(t)' = InBasket(t)
    BY <1>1 DEF SeenCart, InBasket, Basket
  <1>6. \A p \in InBasket(t) : owner'[Product(p)] = owner[Product(p)]
    BY <1>3, RowKinds DEF InBasket
  <1>7. CheckoutReads(t)'
    BY <1>1, <1>2, <1>5, <1>6 DEF CheckoutReads
  <1>8. RequestOK(t)'
    BY <1>1, <1>2, <1>4, <1>7 DEF RequestOK
  <1> QED
    BY <1>3, <1>4, <1>8, StepKeeps

\* The versions a checkout writes are versions it may write: this is where the
\* locks, the re-read under them and the check of every line meet.
LEMMA CheckoutWritesOK ==
    ASSUME OrderInv, NEW t \in Txns, pc[t] = "place", NEW o \in Unused,
           \A p \in InBasket(t) : Buyable(seen[t][Product(p)], Basket(t)[p]),
           NEW new, new = CheckoutWrites(t, o)
    PROVE  WritesOK(new)
  <1> DEFINE c == req[t].client
             written == {Order(o), Cart(c)} \cup {Product(p) : p \in InBasket(t)}
                        \cup {Line(o, p) : p \in InBasket(t)}
  <1>1. /\ StoreInv /\ CheckoutReads(t) /\ c \in Clients
        /\ o \in OrderIds /\ db[Order(o)] = NoRow
    BY DEF OrderInv, RequestsInv, RequestOK, CheckoutReq, Unused
  <1>11. committed[Order(o)] = NoRow
    BY <1>1, RowKinds DEF StoreInv, RowsKept
  <1>2. Basket(t) \in [Products -> Nat]
    BY <1>1 DEF CheckoutReads, CartRow, Item, Basket
  <1>3. /\ DOMAIN new = written
        /\ new = [r \in written |-> new[r]]
        /\ new[Order(o)] = [client |-> c, status |-> "PENDING"]
        /\ new[Cart(c)] = Emptied(t, db[Cart(c)])
        /\ \A p \in InBasket(t) :
             /\ new[Product(p)] = Sell(seen[t][Product(p)], Basket(t)[p])
             /\ new[Line(o, p)] = [qty |-> Basket(t)[p], status |-> "PENDING"]
    BY DEF CheckoutWrites, Product, Line, Order, Cart
  <1> HIDE DEF written
  <1>4. ASSUME NEW p \in InBasket(t)
        PROVE  new[Product(p)] \in ProductRow /\ new[Product(p)].stock >= 0
    <2>1. /\ seen[t][Product(p)] \in ProductRow
          /\ seen[t][Product(p)].stock >= Basket(t)[p]
          /\ Basket(t)[p] \in Nat
      BY <1>1, <1>2 DEF InBasket, CheckoutReads, Buyable
    <2>2. new[Product(p)] = Sell(seen[t][Product(p)], Basket(t)[p])
      BY <1>3
    <2> QED
      BY <2>1, <2>2 DEF Sell, ProductRow, ProductStatus
  <1>5. new[Cart(c)] \in CartRow
    <2>1. db[Cart(c)] \in CartRow
      BY <1>1, RowKinds DEF CheckoutReads, StoreInv, RowsOK, RowsKept
    <2> QED
      BY <1>3, <2>1 DEF Emptied, WithoutItems, CartRow, Item
  <1>6. new[Order(o)] \in OrderRow
    BY <1>1, <1>3 DEF OrderRow, OrderStatus
  <1>7. ASSUME NEW p \in InBasket(t) PROVE new[Line(o, p)] \in LineRow
    <2>1. Basket(t)[p] \in Nat
      BY <1>2 DEF InBasket
    <2>2. new[Line(o, p)] = [qty |-> Basket(t)[p], status |-> "PENDING"]
      BY <1>3
    <2> QED
      BY <2>1, <2>2 DEF LineRow, VendorItemStatus
  <1> HIDE DEF c
  <1>8. \A p \in Products : Product(p) \in DOMAIN new => p \in InBasket(t)
    BY <1>3, RowKinds DEF written
  <1>9. \A n \in OrderIds, p \in Products :
            Line(n, p) \in DOMAIN new => n = o /\ p \in InBasket(t)
    BY <1>3, RowKinds DEF written
  <1>10. /\ Order(o) \in DOMAIN new
         /\ \A n \in OrderIds : Order(n) \in DOMAIN new => n = o
         /\ \A d \in Clients : Cart(d) \in DOMAIN new => d = c
         /\ \A k \in PaymentIds : Payment(k) \in DOMAIN new => new[Payment(k)] \in PaymentRow
         /\ EmptyNumber \notin DOMAIN new
    BY <1>3, RowKinds DEF written
  <1> QED
    BY <1>1, <1>3, <1>4, <1>5, <1>6, <1>7, <1>8, <1>9, <1>10, <1>11 DEF WritesOK

LEMMA PlaceOrderKeeps ==
    ASSUME OrderInv, NEW t \in Txns, PlaceOrder(t)
    PROVE  OrderInv'
  <1>1. PICK o \in Unused : WriteRows(t, CheckoutWrites(t, o))
    BY DEF PlaceOrder
  <1>2. PICK new : new = CheckoutWrites(t, o)
    OBVIOUS
  <1>3. WritesOK(new)
    BY <1>2, CheckoutWritesOK DEF PlaceOrder
  <1>4. StoreInv' /\ Frame(t)
    BY <1>1, <1>2, <1>3, StoreWrite DEF OrderInv
  <1> QED
    BY <1>4, FinishKeeps, StepKeeps DEF PlaceOrder

LEMMA RestockKeeps ==
    ASSUME OrderInv, NEW t \in Txns, Restock(t)
    PROVE  OrderInv'
  <1> DEFINE p == req[t].item
             o == req[t].order
             r == Product(p)
             row == Returned(db[r], seen[t][Line(o, p)].qty)
  <1>1. /\ StoreInv /\ SlotsOK /\ LineReads(t) /\ req[t] \in LineReq
        /\ pc[t] = "restock" /\ pc' = [pc EXCEPT ![t] = "mark"]
        /\ UNCHANGED <<req, seen>>
    BY DEF OrderInv, Restock, RequestsInv, RequestOK
  <1>2. p \in Products /\ p \in req[t].todo /\ db[r] \in ProductRow /\ db[r].stock >= 0
    BY <1>1 DEF LineReq, LineReads, StoreInv, RowsOK, StockNeverNegative
  <1>3. seen[t][Line(o, p)].qty \in Nat
    BY <1>1, <1>2 DEF LineReads, LineRow
  <1>4. row \in ProductRow /\ row.stock >= 0
    BY <1>2, <1>3 DEF Returned, ProductRow, ProductStatus
  <1>5. PICK new : new = [x \in {r} |-> row]
    OBVIOUS
  <1>6. WriteRows(t, new)
    BY <1>5 DEF Restock
  <1> HIDE DEF row
  <1>7. WritesOK(new)
    BY <1>2, <1>4, <1>5, RowKinds DEF WritesOK
  <1>8. StoreInv' /\ Frame(t)
    BY <1>1, <1>6, <1>7, StoreWrite
  <1>9. SlotsOK' /\ OthersUntouched(t)
    BY <1>1 DEF SlotsOK, OthersUntouched
  <1>10. committed' = committed
    BY <1>6 DEF WriteRows
  <1>11. RequestOK(t)'
    BY <1>1, <1>10 DEF RequestOK, LineReads, SlotsOK
  <1> QED
    BY <1>8, <1>9, <1>11, StepKeeps

\* What is left of a request on lines once one of them is marked.
LEMMA MarkRequest ==
    ASSUME NEW t \in Txns, req[t] \in LineReq, Mark(t)
    PROVE  \E what \in LineReq :
               /\ req' = [req EXCEPT ![t] = what]
               /\ what.order = req[t].order /\ what.todo = req[t].todo \ {req[t].item}
               /\ what.move = req[t].move /\ what.buyer = req[t].buyer
               /\ what.todo = {} \/ what.item \in what.todo
  <1> DEFINE left == req[t].todo \ {req[t].item}
  <1>1. left \subseteq Products
    BY DEF LineReq
  <1>2. CASE left = {}
    <2>1. PICK what : what = [req[t] EXCEPT !.todo = {}]
      OBVIOUS
    <2>2. req' = [req EXCEPT ![t] = what]
      BY <1>2, <2>1 DEF Mark
    <2>3. /\ what \in LineReq /\ what.order = req[t].order /\ what.todo = {} /\ what.move = req[t].move
          /\ what.buyer = req[t].buyer
      BY <2>1 DEF LineReq
    <2> QED
      BY <1>2, <2>2, <2>3
  <1>3. CASE left # {}
    <2>1. PICK q \in left : req' = [req EXCEPT ![t] = [req[t] EXCEPT !.todo = left, !.item = q]]
      BY <1>3 DEF Mark
    <2> HIDE DEF left
    <2>2. PICK what : what = [req[t] EXCEPT !.todo = left, !.item = q]
      OBVIOUS
    <2>3. req' = [req EXCEPT ![t] = what]
      BY <2>1, <2>2, Zenon
    <2>4. /\ what \in LineReq /\ what.order = req[t].order /\ what.todo = left /\ what.item = q
          /\ what.move = req[t].move /\ what.buyer = req[t].buyer
      BY <1>1, <2>1, <2>2 DEF LineReq
    <2> USE DEF left
    <2> QED
      BY <2>3, <2>4
  <1> QED
    BY <1>2, <1>3

LEMMA MarkKeeps ==
    ASSUME OrderInv, NEW t \in Txns, Mark(t)
    PROVE  OrderInv'
  <1> DEFINE p == req[t].item
             o == req[t].order
             r == Line(o, p)
             left == req[t].todo \ {p}
             row == [db[r] EXCEPT !.status = req[t].move]
  <1>1. /\ StoreInv /\ SlotsOK /\ LineReads(t) /\ req[t] \in LineReq /\ pc[t] = "mark"
        /\ pc' = [pc EXCEPT ![t] = IF left = {} THEN "rollup" ELSE "restock"]
    BY DEF OrderInv, Mark, RequestsInv, RequestOK
  <1>2. o \in OrderIds /\ p \in Products /\ r \in Rows /\ req[t].move \in VendorItemStatus
    BY <1>1, RowKinds DEF LineReq
  <1>3. db[r] \in LineRow /\ committed[Order(o)] # NoRow /\ committed[r] # NoRow
    BY <1>1, <1>2 DEF LineReads, StoreInv, RowsOK, RowsKept
  <1>4. row \in LineRow
    BY <1>2, <1>3 DEF LineRow
  <1>5. PICK new : new = [x \in {r} |-> row]
    OBVIOUS
  <1>6. WriteRows(t, new) /\ committed' = committed
    BY <1>5 DEF Mark, WriteRows
  <1>7. WritesOK(new)
    <2> HIDE DEF row, p, o
    <2> QED
      BY <1>2, <1>3, <1>4, <1>5, RowKinds DEF WritesOK
  <1>8. StoreInv' /\ Frame(t)
    BY <1>1, <1>6, <1>7, StoreWrite
  <1>9. /\ req[t] \in LineReq /\ left \subseteq Products
        /\ t \in Txns /\ req[t].order = o
    BY <1>1 DEF LineReq
  <1>10. PICK what \in LineReq : /\ req' = [req EXCEPT ![t] = what]
                                 /\ what.order = o /\ what.todo = left
                                 /\ left = {} \/ what.item \in left
    BY <1>1, MarkRequest
  <1>11. PICK row2 : seen' = [seen EXCEPT ![t] = [@ EXCEPT ![r] = row2]]
    <2>1. PICK row2 : row2 = [seen[t][r] EXCEPT !.status = req[t].move]
      OBVIOUS
    <2> QED
      BY <2>1 DEF Mark
  <1> HIDE DEF row
  <1>13. OthersUntouched(t)
    BY <1>1, <1>10, <1>11 DEF OthersUntouched, SlotsOK
  <1>14. SlotsOK'
    BY <1>1, <1>10, <1>11 DEF SlotsOK
  <1>15. \A q \in left : seen'[t][Line(o, q)] = seen[t][Line(o, q)]
    <2> SUFFICES ASSUME NEW q \in left PROVE seen'[t][Line(o, q)] = seen[t][Line(o, q)]
      OBVIOUS
    <2>1. Line(o, q) # r /\ Line(o, q) \in Rows
      BY <1>1, <1>2, RowKinds DEF LineReq
    <2> HIDE DEF r
    <2> QED
      BY <1>1, <1>11, <2>1 DEF SlotsOK
  <1>16. RequestOK(t)'
    <2>1. pc'[t] = (IF left = {} THEN "rollup" ELSE "restock") /\ req'[t] = what
      BY <1>1, <1>10 DEF SlotsOK
    <2>2. \A q \in left : seen[t][Line(o, q)] \in LineRow /\ committed[Line(o, q)] # NoRow
      BY <1>1 DEF LineReads
    <2> HIDE DEF left
    <2>3. \A q \in left : seen'[t][Line(o, q)] \in LineRow /\ committed'[Line(o, q)] # NoRow
      BY <1>6, <1>15, <2>2
    <2>4. committed'[Order(o)] # NoRow
      BY <1>3, <1>6
    <2>5. pc'[t] # "rollup" => what.item \in left
      BY <1>10, <2>1
    <2> HIDE DEF o
    <2>6. LineReads(t)'
      BY <1>10, <2>1, <2>3, <2>4, <2>5 DEF LineReads
    <2> QED
      BY <1>10, <2>1, <2>6 DEF RequestOK
  <1> QED
    BY <1>8, <1>13, <1>14, <1>16, StepKeeps

LEMMA SetOrderStatusKeeps ==
    ASSUME OrderInv, NEW t \in Txns, SetOrderStatus(t)
    PROVE  OrderInv'
  <1> DEFINE o == req[t].order
             r == Order(o)
             row == [db[r] EXCEPT !.status = NewOrderStatus(t)]
  <1>1. StoreInv /\ SlotsOK /\ LineReads(t) /\ req[t] \in LineReq
    BY DEF OrderInv, SetOrderStatus, RequestsInv, RequestOK
  <1>2. o \in OrderIds /\ r \in Rows /\ committed[r] # NoRow /\ db[r] \in OrderRow
    BY <1>1, RowKinds DEF LineReq, LineReads, StoreInv, RowsOK, RowsKept
  <1>3. NewOrderStatus(t) \in OrderStatus
    BY DEF NewOrderStatus, RollUpStatus, OrderStatus
  <1>4. row \in OrderRow
    BY <1>2, <1>3 DEF OrderRow
  <1>5. StoreInv' /\ Frame(t)
    <2>1. CASE OrderDiffers(t)
      <3>1. PICK new : new = [x \in {r} |-> row]
        OBVIOUS
      <3>2. WriteRows(t, new)
        BY <2>1, <3>1 DEF SetOrderStatus
      <3> HIDE DEF row, o
      <3>3. WritesOK(new)
        BY <1>2, <1>4, <3>1, RowKinds DEF WritesOK
      <3> QED
        BY <1>1, <3>2, <3>3, StoreWrite
    <2>2. CASE ~OrderDiffers(t)
      BY <1>1, <2>2, StoreIdle DEF SetOrderStatus
    <2> QED
      BY <2>1, <2>2
  <1> QED
    BY <1>1, <1>5, FinishKeeps, StepKeeps DEF SetOrderStatus

LEMMA EditProductKeeps ==
    ASSUME OrderInv, NEW t \in Txns, EditProduct(t)
    PROVE  OrderInv'
  <1> DEFINE p == req[t].item
             r == Product(p)
             old == seen[t][r]
             edited == Patched(old, req[t].patch)
             row == [stock  |-> IF edited.stock = old.stock THEN db[r].stock ELSE edited.stock,
                     status |-> IF edited.status = old.status THEN db[r].status ELSE edited.status]
  <1>1. /\ StoreInv /\ SlotsOK /\ req[t] \in EditReq /\ old \in ProductRow
    BY DEF OrderInv, EditProduct, RequestsInv, RequestOK
  <1>2. p \in Products /\ db[r] \in ProductRow /\ db[r].stock >= 0
    BY <1>1 DEF EditReq, StoreInv, RowsOK, StockNeverNegative
  <1>3. /\ edited.status \in ProductStatus
        /\ edited.stock = old.stock \/ edited.stock \in Nat
    BY <1>1 DEF Patched, Honest, EditReq, ProductRow, ProductStatus
  <1>4. row \in ProductRow /\ row.stock >= 0
    BY <1>2, <1>3 DEF ProductRow
  <1>5. PICK new : new = [x \in {r} |-> row]
    OBVIOUS
  <1>6. WriteRows(t, new)
    BY <1>5 DEF EditProduct
  <1> HIDE DEF row, p
  <1>7. WritesOK(new)
    BY <1>2, <1>4, <1>5, RowKinds DEF WritesOK
  <1>8. StoreInv' /\ Frame(t)
    BY <1>1, <1>6, <1>7, StoreWrite
  <1> QED
    BY <1>1, <1>8, FinishKeeps, StepKeeps DEF EditProduct

-----------------------------------------------------------------------------
(* What each step of a request changes. *)

LEMMA RowsStored == ASSUME StoreInv PROVE StoreOK(Rows)
  BY DEF StoreInv, StoreOK, RowsOK

\* The step writes and locks one row.
WritesOne(t, r, row) ==
    /\ owner[r] \in {t, Nobody}
    /\ \A x \in Rows : /\ db'[x] = IF x = r THEN row ELSE db[x]
                       /\ owner'[x] = IF x = r THEN t ELSE owner[x]

LEMMA OneRowEffect ==
    ASSUME StoreInv, NEW t \in Txns, NEW r, NEW row, NEW new, new = [x \in {r} |-> row], WriteRows(t, new)
    PROVE  WritesOne(t, r, row) /\ Others(Rows, t) /\ committed' = committed
  BY RowsStored, WriteEffect DEF WritesOne

LEMMA RestockEffect ==
    ASSUME OrderInv, NEW t \in Txns, Restock(t)
    PROVE  LET r == Product(req[t].item)
           IN  /\ WritesOne(t, r, Returned(db[r], seen[t][Line(req[t].order, req[t].item)].qty))
               /\ Others(Rows, t) /\ committed' = committed
  <1> DEFINE r == Product(req[t].item)
             row == Returned(db[r], seen[t][Line(req[t].order, req[t].item)].qty)
  <1>1. PICK new : new = [x \in {r} |-> row]
    OBVIOUS
  <1>2. WriteRows(t, new)
    BY <1>1 DEF Restock
  <1> HIDE DEF row
  <1>3. WritesOne(t, r, row) /\ Others(Rows, t) /\ committed' = committed
    BY <1>1, <1>2, OneRowEffect DEF OrderInv
  <1> QED
    BY <1>3 DEF row

LEMMA MarkEffect ==
    ASSUME OrderInv, NEW t \in Txns, Mark(t)
    PROVE  LET r == Line(req[t].order, req[t].item)
           IN  /\ WritesOne(t, r, [db[r] EXCEPT !.status = req[t].move])
               /\ Others(Rows, t) /\ committed' = committed
  <1> DEFINE r == Line(req[t].order, req[t].item)
             row == [db[r] EXCEPT !.status = req[t].move]
  <1>1. PICK new : new = [x \in {r} |-> row]
    OBVIOUS
  <1>2. WriteRows(t, new)
    BY <1>1 DEF Mark
  <1> HIDE DEF row
  <1>3. WritesOne(t, r, row) /\ Others(Rows, t) /\ committed' = committed
    BY <1>1, <1>2, OneRowEffect DEF OrderInv
  <1> QED
    BY <1>3 DEF row

LEMMA SetOrderStatusEffect ==
    ASSUME OrderInv, NEW t \in Txns, SetOrderStatus(t)
    PROVE  LET r == Order(req[t].order)
           IN  /\ IF OrderDiffers(t)
                  THEN WritesOne(t, r, [db[r] EXCEPT !.status = NewOrderStatus(t)])
                  ELSE UNCHANGED <<db, owner>>
               /\ Others(Rows, t) /\ committed' = committed
  <1> DEFINE r == Order(req[t].order)
             row == [db[r] EXCEPT !.status = NewOrderStatus(t)]
  <1>1. PICK new : new = [x \in {r} |-> row]
    OBVIOUS
  <1>2. CASE OrderDiffers(t)
    <2>1. WriteRows(t, new)
      BY <1>1, <1>2 DEF SetOrderStatus
    <2> HIDE DEF row
    <2>2. WritesOne(t, r, row) /\ Others(Rows, t) /\ committed' = committed
      BY <1>1, <2>1, OneRowEffect DEF OrderInv
    <2> QED
      BY <1>2, <2>2 DEF row
  <1>3. CASE ~OrderDiffers(t)
    BY <1>3, RowsStored, IdleEffect DEF SetOrderStatus, OrderInv
  <1> QED
    BY <1>2, <1>3

LEMMA EditProductEffect ==
    ASSUME OrderInv, NEW t \in Txns, EditProduct(t)
    PROVE  LET r == Product(req[t].item)
               old == seen[t][r]
               edited == Patched(old, req[t].patch)
           IN  /\ WritesOne(t, r, [stock  |-> IF edited.stock = old.stock THEN db[r].stock ELSE edited.stock,
                                   status |-> IF edited.status = old.status THEN db[r].status
                                              ELSE edited.status])
               /\ Others(Rows, t) /\ committed' = committed
  <1> DEFINE r == Product(req[t].item)
             old == seen[t][r]
             edited == Patched(old, req[t].patch)
             row == [stock  |-> IF edited.stock = old.stock THEN db[r].stock ELSE edited.stock,
                     status |-> IF edited.status = old.status THEN db[r].status ELSE edited.status]
  <1>1. PICK new : new = [x \in {r} |-> row]
    OBVIOUS
  <1>2. WriteRows(t, new)
    BY <1>1 DEF EditProduct
  <1> HIDE DEF row
  <1>3. WritesOne(t, r, row) /\ Others(Rows, t) /\ committed' = committed
    BY <1>1, <1>2, OneRowEffect DEF OrderInv
  <1> QED
    BY <1>3 DEF row

LEMMA LockProductEffect ==
    ASSUME OrderInv, NEW t \in Txns, LockProduct(t)
    PROVE  /\ \A x \in Rows : owner'[x] = IF x = Product(NextProduct(t)) THEN t ELSE owner[x]
           /\ db' = db /\ committed' = committed /\ Others(Rows, t)
           /\ owner[Product(NextProduct(t))] \in {t, Nobody}
  <1> DEFINE r == Product(NextProduct(t))
  <1>1. LockRow(t, r)
    BY DEF LockProduct
  <1> HIDE DEF r
  <1>2. /\ \A x \in Rows : owner'[x] = IF x = r THEN t ELSE owner[x]
        /\ db' = db /\ committed' = committed /\ Others(Rows, t)
        /\ owner[r] \in {t, Nobody}
    BY <1>1, RowsStored, LockEffect DEF OrderInv
  <1> QED
    BY <1>2 DEF r

LEMMA TakesNumberEffect ==
    ASSUME OrderInv, NEW t \in Txns, TakesNumber(t)
    PROVE  /\ pc[t] \in {"insert", "queue"} /\ pc'[t] \in {"queue", "place"}
           /\ \E next \in {"queue", "place"} : pc' = [pc EXCEPT ![t] = next]
           /\ \A x \in Rows : x # EmptyNumber => owner'[x] = owner[x]
           /\ UNCHANGED <<db, committed, req, seen, outbox, notices>>
           /\ Others(Rows, t) /\ OthersUntouched(t)
  <1>1. /\ pc[t] \in {"insert", "queue"} /\ UNCHANGED <<db, committed, req, seen, outbox, notices>>
        /\ \E next \in {"queue", "place"} : pc' = [pc EXCEPT ![t] = next]
    BY DEF TakesNumber, FindNumber, InsertOrder, LockRow
  <1>2. pc'[t] \in {"queue", "place"} /\ OthersUntouched(t)
    BY <1>1 DEF OrderInv, RequestsInv, SlotsOK, OthersUntouched
  <1>3. CASE FindNumber(t)
    BY <1>1, <1>2, <1>3, RowsStored, IdleEffect DEF FindNumber, OrderInv
  <1>4. CASE InsertOrder(t)
    <2>1. LockRow(t, EmptyNumber)
      BY <1>4 DEF InsertOrder
    <2>2. Others(Rows, t) /\ \A x \in Rows : owner'[x] = IF x = EmptyNumber THEN t ELSE owner[x]
      BY <2>1, RowsStored, LockEffect DEF OrderInv
    <2> QED
      BY <1>1, <1>2, <2>2
  <1> QED
    BY <1>3, <1>4 DEF TakesNumber

\* A checkout writes its order, the cart, and the products and lines of its basket.
Places(t, o) ==
    LET c == req[t].client
        written == {Order(o), Cart(c)} \cup {Product(p) : p \in InBasket(t)}
                   \cup {Line(o, p) : p \in InBasket(t)}
    IN  /\ o \in OrderIds /\ committed[Order(o)] = NoRow /\ c \in Clients
        /\ \A r \in written : owner[r] \in {t, Nobody} /\ owner'[r] = t
        /\ \A r \in Rows \ written : db'[r] = db[r] /\ owner'[r] = owner[r]
        /\ db'[Order(o)] = [client |-> c, status |-> "PENDING"]
        /\ db'[Cart(c)] = Emptied(t, db[Cart(c)])
        /\ \A p \in InBasket(t) :
              /\ db'[Product(p)] = Sell(seen[t][Product(p)], Basket(t)[p])
              /\ db'[Line(o, p)] = [qty |-> Basket(t)[p], status |-> "PENDING"]
        /\ outbox' = [outbox EXCEPT ![t] = ToVendors(t, o)]
        /\ Others(Rows, t) /\ committed' = committed

LEMMA PlaceOrderEffect ==
    ASSUME OrderInv, NEW t \in Txns, PlaceOrder(t) PROVE \E o \in Unused : Places(t, o)
  <1> DEFINE c == req[t].client
             written(o) == {Order(o), Cart(c)} \cup {Product(p) : p \in InBasket(t)}
                           \cup {Line(o, p) : p \in InBasket(t)}
  <1>1. PICK o \in Unused : /\ WriteRows(t, CheckoutWrites(t, o))
                            /\ outbox' = [outbox EXCEPT ![t] = ToVendors(t, o)]
    BY DEF PlaceOrder
  <1>2. PICK new : new = CheckoutWrites(t, o)
    OBVIOUS
  <1>3. /\ DOMAIN new = written(o)
        /\ new[Order(o)] = [client |-> c, status |-> "PENDING"]
        /\ new[Cart(c)] = Emptied(t, db[Cart(c)])
        /\ \A p \in InBasket(t) :
             /\ new[Product(p)] = Sell(seen[t][Product(p)], Basket(t)[p])
             /\ new[Line(o, p)] = [qty |-> Basket(t)[p], status |-> "PENDING"]
    BY <1>2 DEF CheckoutWrites, Product, Line, Order, Cart
  <1>4. /\ o \in OrderIds /\ db[Order(o)] = NoRow /\ c \in Clients
        /\ StoreInv
    BY DEF OrderInv, RequestsInv, RequestOK, CheckoutReq, Unused, PlaceOrder
  <1>5. committed[Order(o)] = NoRow
    BY <1>4, RowKinds DEF StoreInv, RowsKept
  <1>6. written(o) \subseteq Rows
    BY <1>4, RowKinds DEF InBasket
  <1>7. /\ Others(Rows, t) /\ committed' = committed
        /\ \A r \in Rows : db'[r] = IF r \in DOMAIN new THEN new[r] ELSE db[r]
        /\ \A r \in Rows : owner'[r] = IF r \in DOMAIN new THEN t ELSE owner[r]
        /\ \A r \in DOMAIN new : owner[r] \in {t, Nobody}
    BY <1>1, <1>2, <1>4, RowsStored, WriteEffect
  <1>8. \A r \in written(o) : db'[r] = new[r] /\ owner'[r] = t /\ owner[r] \in {t, Nobody}
    BY <1>3, <1>6, <1>7
  <1>9. \A r \in Rows \ written(o) : db'[r] = db[r] /\ owner'[r] = owner[r]
    BY <1>3, <1>7
  <1>10. /\ db'[Order(o)] = [client |-> c, status |-> "PENDING"]
         /\ db'[Cart(c)] = Emptied(t, db[Cart(c)])
         /\ \A p \in InBasket(t) :
              /\ db'[Product(p)] = Sell(seen[t][Product(p)], Basket(t)[p])
              /\ db'[Line(o, p)] = [qty |-> Basket(t)[p], status |-> "PENDING"]
    BY <1>3, <1>8
  <1> QED
    BY <1>1, <1>4, <1>5, <1>7, <1>8, <1>9, <1>10 DEF Places

\* The steps of Orders that lock or write.
Works(t) == \/ LockProduct(t) \/ TakesNumber(t) \/ PlaceOrder(t)
            \/ Restock(t) \/ Mark(t) \/ SetOrderStatus(t) \/ EditProduct(t)

\* They write no attempt, and commit nothing.
LEMMA WorksOnOrders ==
    ASSUME OrderInv, NEW t \in Txns, Works(t)
    PROVE  /\ Others(Rows, t) /\ committed' = committed
           /\ \A k \in PaymentIds : /\ db'[Payment(k)] = db[Payment(k)]
                                    /\ owner'[Payment(k)] = owner[Payment(k)]
  <1>1. CASE LockProduct(t)
    BY <1>1, LockProductEffect, RowKinds
  <1>2. CASE PlaceOrder(t)
    <2> DEFINE written(o) == {Order(o), Cart(req[t].client)} \cup {Product(p) : p \in InBasket(t)}
                             \cup {Line(o, p) : p \in InBasket(t)}
    <2>1. PICK o \in Unused : Places(t, o)
      BY <1>2, PlaceOrderEffect
    <2>2. /\ \A r \in Rows \ written(o) : db'[r] = db[r] /\ owner'[r] = owner[r]
          /\ Others(Rows, t) /\ committed' = committed
      BY <2>1 DEF Places
    <2>3. \A k \in PaymentIds : Payment(k) \in Rows \ written(o)
      BY RowKinds
    <2> HIDE DEF written
    <2> QED
      BY <2>2, <2>3
  <1>3. CASE Restock(t)
    BY <1>3, RestockEffect, RowKinds DEF WritesOne
  <1>4. CASE Mark(t)
    <2>1. PICK row : /\ WritesOne(t, Line(req[t].order, req[t].item), row)
                     /\ Others(Rows, t) /\ committed' = committed
      BY <1>4, MarkEffect
    <2> QED
      BY <2>1, RowKinds DEF WritesOne
  <1>5. CASE SetOrderStatus(t)
    <2>1. Others(Rows, t) /\ committed' = committed
      BY <1>5, SetOrderStatusEffect
    <2>2. \/ \E row : WritesOne(t, Order(req[t].order), row)
          \/ db' = db /\ owner' = owner
      BY <1>5, SetOrderStatusEffect
    <2>3. CASE db' = db /\ owner' = owner
      BY <2>1, <2>3
    <2>4. ASSUME NEW row, WritesOne(t, Order(req[t].order), row)
          PROVE  \A k \in PaymentIds : /\ db'[Payment(k)] = db[Payment(k)]
                                       /\ owner'[Payment(k)] = owner[Payment(k)]
      BY <2>4, RowKinds DEF WritesOne
    <2> QED
      BY <2>1, <2>2, <2>3, <2>4
  <1>6. CASE EditProduct(t)
    <2>1. PICK row : /\ WritesOne(t, Product(req[t].item), row)
                     /\ Others(Rows, t) /\ committed' = committed
      BY <1>6, EditProductEffect
    <2> QED
      BY <2>1, RowKinds DEF WritesOne
  <1>7. CASE TakesNumber(t)
    BY <1>7, TakesNumberEffect, RowKinds
  <1> QED
    BY <1>1, <1>2, <1>3, <1>4, <1>5, <1>6, <1>7 DEF Works

\* Where they start and where they go.
LEMMA WorksOnSlot ==
    ASSUME OrderInv, NEW t \in Txns, Works(t)
    PROVE  /\ pc[t] \in {"lock", "insert", "queue", "place", "restock", "mark", "rollup", "edit"}
           /\ \E next \in {"lock", "insert", "queue", "place", "restock", "mark", "rollup", "commit"} :
                  pc' = [pc EXCEPT ![t] = next]
           /\ OthersUntouched(t)
           /\ notices' = notices
           /\ \/ outbox' = outbox
              \/ \E o \in OrderIds : outbox' = [outbox EXCEPT ![t] = ToVendors(t, o)]
              \/ outbox' = [outbox EXCEPT ![t] = outbox[t] \cup Told(t)]
  <1>1. SlotsOK
    BY DEF OrderInv, RequestsInv
  <1>2. CASE LockProduct(t)
    BY <1>1, <1>2 DEF LockProduct, OthersUntouched, SlotsOK
  <1>3. CASE PlaceOrder(t)
    BY <1>1, <1>3 DEF PlaceOrder, Finish, OthersUntouched, SlotsOK, Unused
  <1>4. CASE Restock(t)
    BY <1>1, <1>4 DEF Restock, OthersUntouched, SlotsOK
  <1>5. CASE Mark(t)
    <2>1. req[t] \in LineReq
      BY <1>5 DEF OrderInv, RequestsInv, RequestOK, Mark
    <2>2. PICK what \in LineReq : req' = [req EXCEPT ![t] = what]
      BY <1>5, <2>1, MarkRequest
    <2> QED
      BY <1>1, <1>5, <2>2 DEF Mark, OthersUntouched, SlotsOK
  <1>6. CASE SetOrderStatus(t)
    BY <1>1, <1>6 DEF SetOrderStatus, Finish, OthersUntouched, SlotsOK
  <1>7. CASE EditProduct(t)
    BY <1>1, <1>7 DEF EditProduct, Finish, OthersUntouched, SlotsOK
  <1>8. CASE TakesNumber(t)
    BY <1>8, TakesNumberEffect
  <1> QED
    BY <1>2, <1>3, <1>4, <1>5, <1>6, <1>7, <1>8 DEF Works

-----------------------------------------------------------------------------
(* What every composition starts from, and each step keeps. *)

LEMMA Initially == Init => OrderInv
  <1> SUFFICES ASSUME Init PROVE OrderInv
    OBVIOUS
  <1>1. db = InitialRows /\ committed = InitialRows /\ owner = [r \in Rows |-> Nobody]
    BY DEF Init, InitStore, InitialRows
  <1>2. /\ \A p \in Products : InitialRows[Product(p)] = [stock |-> Shelf[p], status |-> ShelfStatus[p]]
        /\ \A c \in Clients : InitialRows[Cart(c)] =
                IF Carts[c] = NoRow THEN NoRow
                ELSE [p \in Products |-> [id |-> 0, qty |-> Carts[c][p]]]
        /\ \A o \in OrderIds : InitialRows[Order(o)] = NoRow
        /\ \A o \in OrderIds, p \in Products : InitialRows[Line(o, p)] = NoRow
        /\ \A k \in PaymentIds : InitialRows[Payment(k)] = NoRow
        /\ InitialRows[EmptyNumber] = NoRow
    BY RowKinds DEF InitialRows, Product, Cart, Order, Line, Payment, EmptyNumber
  <1>3. InitialRows = [r \in Rows |-> InitialRows[r]]
    BY DEF InitialRows
  <1>4. RowsOK(InitialRows) /\ \A p \in Products : InitialRows[Product(p)].stock >= 0
    <2>1. \A p \in Products : InitialRows[Product(p)] \in ProductRow /\ InitialRows[Product(p)].stock >= 0
      <3> TAKE p \in Products
      <3>1. Shelf[p] \in Nat /\ ShelfStatus[p] \in ProductStatus
        BY OrdersAssumption
      <3>2. InitialRows[Product(p)] = [stock |-> Shelf[p], status |-> ShelfStatus[p]]
        BY <1>2
      <3> QED
        BY <3>1, <3>2 DEF ProductRow
    <2>2. \A c \in Clients : InitialRows[Cart(c)] \in CartRow \cup {NoRow}
      <3> TAKE c \in Clients
      <3>1. CASE Carts[c] = NoRow
        BY <1>2, <3>1
      <3>2. CASE Carts[c] # NoRow
        <4>1. Carts[c] \in [Products -> Nat]
          BY <3>2, OrdersAssumption
        <4>2. InitialRows[Cart(c)] = [p \in Products |-> [id |-> 0, qty |-> Carts[c][p]]]
          BY <1>2, <3>2
        <4>3. \A p \in Products : [id |-> 0, qty |-> Carts[c][p]] \in Item
          BY <4>1 DEF Item
        <4> QED
          BY <4>2, <4>3 DEF CartRow
      <3> QED
        BY <3>1, <3>2
    <2> QED
      BY <1>2, <1>3, <2>1, <2>2 DEF RowsOK
  <1>5. StoreInv
    <2>1. RowsOK(db) /\ RowsOK(committed) /\ owner \in [Rows -> Txns \cup {Nobody}]
      BY <1>1, <1>4
    <2>2. StockNeverNegative /\ UnlockedIsCommitted /\ RowsKept
      BY <1>1, <1>4 DEF StockNeverNegative, UnlockedIsCommitted, RowsKept
    <2>3. LinesHaveOrders
      BY <1>1, <1>2 DEF LinesHaveOrders
    <2> QED
      BY <2>1, <2>2, <2>3 DEF StoreInv
  <1>6. RequestsInv
    <2>1. SlotsOK
      BY DEF Init, SlotsOK, NothingSeen
    <2>2. \A t \in Txns : RequestOK(t)
      BY <1>1, NobodyIsNoTxn DEF Init, RequestOK
    <2> QED
      BY <2>1, <2>2 DEF RequestsInv
  <1> QED
    BY <1>5, <1>6 DEF OrderInv

LEMMA ArriveKeeps == ASSUME OrderInv, NEW t \in Txns, Arrive(t) PROVE OrderInv'
  BY BeginCheckoutKeeps, BeginAdvanceKeeps, BeginCancelKeeps, BeginEditKeeps DEF Arrive

LEMMA ServeKeeps == ASSUME OrderInv, NEW t \in Txns, Serve(t) PROVE OrderInv'
  BY LockProductKeeps, TakesNumberKeeps, PlaceOrderKeeps, RollbackKeeps, RestockKeeps, MarkKeeps,
     SetOrderStatusKeeps, EditProductKeeps
     DEF Serve, RefuseCheckout, TakesNumber

LEMMA StutterKeeps ==
    ASSUME OrderInv, UNCHANGED <<db, committed, owner, pc, req, seen>> PROVE OrderInv'
  <1>1. StoreInv'
    BY StoreIdle DEF OrderInv
  <1>2. SlotsOK'
    BY DEF OrderInv, RequestsInv, SlotsOK
  <1>3. \A t \in Txns : RequestOK(t)'
    <2> TAKE t \in Txns
    <2>1. InBasket(t)' = InBasket(t)
      BY DEF InBasket, Basket, SeenCart
    <2> QED
      BY <2>1 DEF OrderInv, RequestsInv, RequestOK, CheckoutReads, LineReads, SeenCart
  <1> QED
    BY <1>1, <1>2, <1>3 DEF OrderInv, RequestsInv

LEMMA NextKeeps == ASSUME OrderInv, Next PROVE OrderInv'
  <1> PICK t \in Txns : Arrive(t) \/ Step(t) \/ Abort(t) \/ DeadlockVictim(t)
    BY DEF Next
  <1> QED
    BY ArriveKeeps, ServeKeeps, CommitKeeps, RollbackKeeps DEF Step, Abort, DeadlockVictim

-----------------------------------------------------------------------------
(* Types: what a slot is at, what it was asked, what it tells. *)

Steps == {"idle", "lock", "insert", "queue", "place", "restock", "mark", "rollup", "edit", "commit"}

Ranges ==
    /\ pc \in [Txns -> Steps]
    /\ req \in [Txns -> CheckoutReq \cup LineReq \cup EditReq \cup {NoRow}]
    /\ outbox \in [Txns -> SUBSET Notice]
    /\ notices \subseteq Notice

LEMMA TypesFromParts == ASSUME OrderInv, Ranges PROVE TypeOK
  BY DEF OrderInv, StoreInv, RequestsInv, SlotsOK, RequestOK, Ranges, Steps, TypeOK

LEMMA ToldIsNotice ==
    ASSUME NEW t \in Txns, req[t] \in LineReq PROVE Told(t) \subseteq Notice
  BY DEF Told, Notice, LineReq

LEMMA ToVendorsIsNotice ==
    ASSUME NEW t \in Txns, NEW o \in OrderIds PROVE ToVendors(t, o) \subseteq Notice
  BY OrdersAssumption DEF ToVendors, Notice, InBasket

LEMMA MarkRanges ==
    ASSUME OrderInv, Ranges, NEW t \in Txns, Mark(t) PROVE Ranges'
  <1>1. req[t] \in LineReq /\ t \in Txns
    BY DEF OrderInv, RequestsInv, RequestOK, Mark
  <1>2. Told(t) \subseteq Notice
    BY <1>1, ToldIsNotice
  <1>3. outbox' \in [Txns -> SUBSET Notice] /\ notices' \subseteq Notice
    BY <1>2 DEF Mark, Ranges
  <1>4. pc' \in [Txns -> Steps]
    BY DEF Mark, Ranges, Steps
  <1>5. PICK what \in LineReq : req' = [req EXCEPT ![t] = what]
    BY <1>1, MarkRequest DEF Mark
  <1> QED
    BY <1>3, <1>4, <1>5 DEF Ranges

LEMMA NextRanges ==
    ASSUME OrderInv, OrderInv', Ranges, Next PROVE Ranges'
  <1> PICK t \in Txns : Arrive(t) \/ Step(t) \/ Abort(t) \/ DeadlockVictim(t)
    BY DEF Next
  <1>1. ASSUME NEW next \in Steps, NEW what, NEW rows, Begin(t, next, what, rows),
               what \in CheckoutReq \cup LineReq \cup EditReq
        PROVE  Ranges'
    BY <1>1 DEF Begin, Ranges
  <1>2. CASE Arrive(t)
    <2>1. ASSUME NEW c \in Clients, BeginCheckout(t, c) PROVE Ranges'
      BY <1>1, <2>1 DEF BeginCheckout, CheckoutReq, Steps
    <2>2. ASSUME NEW o \in OrderIds, NEW p \in Products, NEW m \in VendorMoves, BeginAdvance(t, o, p, m)
          PROVE  Ranges'
      BY <1>1, <2>2, OrdersAssumption DEF BeginAdvance, LineReq, Steps
    <2>3. ASSUME NEW o \in OrderIds, NEW p \in Products, BeginCancel(t, o, p) PROVE Ranges'
      BY <1>1, <2>3 DEF BeginCancel, LineReq, Steps, LiveLines, LinesOf, VendorItemStatus
    <2>4. ASSUME NEW p \in Products, NEW e \in Edits, BeginEdit(t, p, e) PROVE Ranges'
      BY <1>1, <2>4, OrdersAssumption DEF BeginEdit, EditReq, Steps
    <2> QED
      BY <1>2, <2>1, <2>2, <2>3, <2>4 DEF Arrive
  <1>3. CASE LockProduct(t)
    BY <1>3 DEF LockProduct, Ranges, Steps
  <1>4. CASE PlaceOrder(t)
    <2>1. PICK o \in OrderIds : outbox' = [outbox EXCEPT ![t] = ToVendors(t, o)]
      BY <1>4 DEF PlaceOrder, Unused
    <2> QED
      BY <1>4, <2>1, ToVendorsIsNotice DEF PlaceOrder, Finish, Ranges, Steps
  <1>5. CASE Restock(t)
    BY <1>5 DEF Restock, Ranges, Steps
  <1>6. CASE SetOrderStatus(t) \/ EditProduct(t)
    BY <1>6 DEF SetOrderStatus, EditProduct, Finish, Ranges, Steps
  <1>7. CASE Rollback(t)
    BY <1>7 DEF Rollback, Forget, Ranges, Steps
  <1>8. CASE Commit(t)
    BY <1>8 DEF Commit, Forget, Ranges, Steps
  <1>9. CASE TakesNumber(t)
    BY <1>9, TakesNumberEffect DEF Ranges, Steps
  <1> QED
    BY <1>2, <1>3, <1>4, <1>5, <1>6, <1>7, <1>8, <1>9, MarkRanges
       DEF Step, Serve, RefuseCheckout, Abort, DeadlockVictim, TakesNumber

-----------------------------------------------------------------------------
(* News: what has been done to lines has been said, or is about to be. *)

LEMMA MoreIsSaid ==
    ASSUME NEW rows, NEW o, NEW p, NEW said, NEW more, said \subseteq more, Informed(rows, o, p, said)
    PROVE  Informed(rows, o, p, more)
  BY DEF Informed

\* t keeps the others' outboxes, and no news is taken back.
SaidBeside(t) ==
    /\ \A u \in Txns \ {t} : outbox'[u] = outbox[u]
    /\ notices \subseteq notices'

LEMMA OthersNews ==
    ASSUME OrderInv, NEW t \in Txns, NEW u \in Txns \ {t}, NewsOK(u),
           Others(Rows, t), OthersUntouched(t), SaidBeside(t)
    PROVE  NewsOK(u)'
  <1>1. pc'[u] = pc[u] /\ req'[u] = req[u]
    BY DEF OthersUntouched
  <1>2. ASSUME NEW o \in OrderIds, NEW p \in Products, owner'[Line(o, p)] = u
        PROVE  /\ pc[u] \in {"restock", "mark", "rollup", "commit"}
               /\ Informed(db, o, p, notices \cup outbox[u])'
    <2>1. owner[Line(o, p)] = u /\ db'[Line(o, p)] = db[Line(o, p)]
      BY <1>2, RowKinds, NobodyIsNoTxn DEF Others
    <2>2. notices \cup outbox[u] \subseteq (notices \cup outbox[u])'
      BY DEF SaidBeside
    <2> QED
      BY <2>1, <2>2 DEF NewsOK, Informed
  <1> QED
    BY <1>1, <1>2 DEF NewsOK

\* A step that commits nothing has only its own news to care for.
LEMMA NewsStep ==
    ASSUME OrderInv, NewsInv, NEW t \in Txns, Others(Rows, t), OthersUntouched(t), SaidBeside(t),
           committed' = committed, NewsOK(t)'
    PROVE  NewsInv'
  <1>1. \A u \in Txns : NewsOK(u)'
    BY OthersNews DEF NewsInv
  <1>2. EveryoneInformed'
    BY DEF NewsInv, EveryoneInformed, Informed, LinesOf, SaidBeside
  <1> QED
    BY <1>1, <1>2 DEF NewsInv

\* So a step that leaves its lines and its outbox alone.
LEMMA NewsKept ==
    ASSUME OrderInv, NewsInv, NEW t \in Txns, Others(Rows, t), OthersUntouched(t),
           UNCHANGED <<committed, outbox, notices>>,
           \A o \in OrderIds, p \in Products : /\ db'[Line(o, p)] = db[Line(o, p)]
                                               /\ owner'[Line(o, p)] = owner[Line(o, p)],
           \/ /\ pc[t] \in {"lock", "insert", "queue", "edit"}
              /\ pc'[t] \in {"lock", "insert", "queue", "place", "commit"}
           \/ pc[t] = "restock" /\ pc'[t] = "mark" /\ req'[t] = req[t]
           \/ pc[t] = "rollup" /\ pc'[t] = "commit"
    PROVE  NewsInv'
  <1>1. NewsOK(t)
    BY DEF NewsInv
  <1>2. NewsOK(t)'
    BY <1>1 DEF NewsOK, Informed
  <1> QED
    BY <1>2, NewsStep DEF SaidBeside

LEMMA BeginNews ==
    ASSUME OrderInv, NewsInv, NEW t \in Txns, NEW next, NEW what, NEW rows, Begin(t, next, what, rows),
           next \in {"restock", "mark"} => ~what.buyer \/ what.move = "CANCELLED"
    PROVE  NewsInv'
  <1>1. /\ pc'[t] = next /\ req'[t] = what
        /\ \A r \in Rows : owner[r] # t
        /\ UNCHANGED <<db, committed, owner, outbox, notices>>
        /\ OthersUntouched(t)
    BY BeginReads
  <1>2. Others(Rows, t)
    BY <1>1, RowsStored, IdleEffect DEF OrderInv
  <1>3. NewsOK(t)'
    BY <1>1, RowKinds DEF NewsOK
  <1> QED
    BY <1>1, <1>2, <1>3, NewsStep DEF SaidBeside

LEMMA ArriveNews ==
    ASSUME OrderInv, NewsInv, NEW t \in Txns, Arrive(t) PROVE NewsInv'
  <1>1. ASSUME NEW c \in Clients, BeginCheckout(t, c) PROVE NewsInv'
    <2>1. PICK what, rows : Begin(t, "lock", what, rows)
      BY <1>1 DEF BeginCheckout
    <2> QED
      BY <2>1, BeginNews
  <1>2. ASSUME NEW o \in OrderIds, NEW p \in Products, NEW m \in VendorMoves, BeginAdvance(t, o, p, m)
        PROVE  NewsInv'
    <2>1. PICK what : what = [order |-> o, item |-> p, todo |-> {p}, move |-> m, buyer |-> FALSE]
      OBVIOUS
    <2>2. \E next, rows : Begin(t, next, what, rows)
      BY <1>2, <2>1 DEF BeginAdvance
    <2> QED
      BY <2>1, <2>2, BeginNews
  <1>3. ASSUME NEW o \in OrderIds, NEW p \in Products, BeginCancel(t, o, p) PROVE NewsInv'
    <2>1. PICK what : what = [order |-> o, item |-> p, todo |-> LiveLines(committed, o),
                              move |-> "CANCELLED", buyer |-> TRUE]
      OBVIOUS
    <2>2. \E next, rows : Begin(t, next, what, rows)
      BY <1>3, <2>1 DEF BeginCancel
    <2> QED
      BY <2>1, <2>2, BeginNews
  <1>4. ASSUME NEW p \in Products, NEW e \in Edits, BeginEdit(t, p, e) PROVE NewsInv'
    <2>1. PICK what, rows : Begin(t, "edit", what, rows)
      BY <1>4 DEF BeginEdit
    <2> QED
      BY <2>1, BeginNews
  <1> QED
    BY <1>1, <1>2, <1>3, <1>4 DEF Arrive

\* The vendors of a new order hear of it with its lines.
LEMMA PlaceNews ==
    ASSUME OrderInv, NewsInv, outbox = [u \in Txns |-> outbox[u]], NEW t \in Txns, PlaceOrder(t)
    PROVE  NewsInv'
  <1> DEFINE c == req[t].client
             written(o) == {Order(o), Cart(c)} \cup {Product(p) : p \in InBasket(t)}
                           \cup {Line(o, p) : p \in InBasket(t)}
  <1>1. PICK o \in Unused :
            /\ o \in OrderIds
            /\ \A r \in Rows \ written(o) : db'[r] = db[r] /\ owner'[r] = owner[r]
            /\ \A p \in InBasket(t) :
                  /\ db'[Product(p)] = Sell(seen[t][Product(p)], Basket(t)[p])
                  /\ db'[Line(o, p)] = [qty |-> Basket(t)[p], status |-> "PENDING"]
            /\ outbox' = [outbox EXCEPT ![t] = ToVendors(t, o)]
            /\ Others(Rows, t) /\ committed' = committed
    BY PlaceOrderEffect DEF Places
  <1>2. /\ pc[t] = "place" /\ pc'[t] = "commit" /\ OthersUntouched(t) /\ notices' = notices
    BY WorksOnSlot DEF Works, PlaceOrder, Finish, OrderInv, RequestsInv, SlotsOK
  <1>3. \A n \in OrderIds, p \in Products :
            Line(n, p) \in written(o) => n = o /\ p \in InBasket(t)
    BY RowKinds
  <1> HIDE DEF written
  <1>4. \A n \in OrderIds, p \in Products : owner[Line(n, p)] # t
    BY <1>2 DEF NewsInv, NewsOK
  <1>5. outbox'[t] = ToVendors(t, o) /\ SaidBeside(t)
    BY <1>1, <1>2 DEF SaidBeside
  <1>6. ASSUME NEW n \in OrderIds, NEW p \in Products, owner'[Line(n, p)] = t
        PROVE  Informed(db, n, p, notices \cup outbox[t])'
    <2>1. n = o /\ p \in InBasket(t)
      BY <1>1, <1>3, <1>4, <1>6, RowKinds
    <2>2. db'[Line(n, p)].status = "PENDING"
      <3>1. PICK qty : qty = Basket(t)[p]
        OBVIOUS
      <3>2. db'[Line(n, p)] = [qty |-> qty, status |-> "PENDING"]
        BY <1>1, <2>1, <3>1
      <3> QED
        BY <3>2
    <2>3. PaymentsEnabled \/ Announced(n, VendorOf[p]) \in outbox'[t]
      BY <1>5, <2>1 DEF ToVendors
    <2> QED
      BY <2>2, <2>3 DEF Informed
  <1>7. NewsOK(t)'
    BY <1>2, <1>6 DEF NewsOK
  <1> QED
    BY <1>1, <1>2, <1>5, <1>7, NewsStep

\* Who moves a line tells the other side.
LEMMA MarkNews ==
    ASSUME OrderInv, NewsInv, outbox = [u \in Txns |-> outbox[u]], NEW t \in Txns, Mark(t)
    PROVE  NewsInv'
  <1>0. PICK o, p, r : o = req[t].order /\ p = req[t].item /\ r = Line(o, p)
    OBVIOUS
  <1>1. /\ StoreInv /\ LineReads(t) /\ req[t] \in LineReq /\ pc[t] = "mark" /\ NewsOK(t)
        /\ SlotsOK
    BY DEF OrderInv, Mark, RequestsInv, RequestOK, NewsInv
  <1>2. /\ o \in OrderIds /\ p \in Products /\ r \in Rows
        /\ committed[r] # NoRow /\ db[r] \in LineRow
    <2>1. o \in OrderIds /\ p \in Products /\ r \in Rows /\ committed[r] # NoRow
      BY <1>0, <1>1, RowKinds DEF LineReq, LineReads
    <2> QED
      BY <1>0, <1>1, <2>1 DEF StoreInv, RowsOK, RowsKept
  <1>3. /\ WritesOne(t, r, [db[r] EXCEPT !.status = req[t].move])
        /\ Others(Rows, t) /\ committed' = committed
    BY <1>0, MarkEffect
  <1>4. PICK what \in LineReq : /\ req' = [req EXCEPT ![t] = what]
                              /\ what.move = req[t].move /\ what.buyer = req[t].buyer
    BY <1>1, MarkRequest
  <1>5. /\ pc'[t] \in {"rollup", "restock"} /\ OthersUntouched(t) /\ notices' = notices
        /\ outbox' = [outbox EXCEPT ![t] = @ \cup Told(t)]
    BY <1>1, WorksOnSlot DEF Works, Mark, SlotsOK
  <1>6. outbox'[t] = outbox[t] \cup Told(t) /\ SaidBeside(t)
    BY <1>5 DEF SaidBeside
  <1>7. /\ req'[t].move = req[t].move /\ req'[t].buyer = req[t].buyer
        /\ req[t].buyer => req[t].move = "CANCELLED"
    BY <1>1, <1>4 DEF NewsOK, SlotsOK
  <1>8. Informed(db, o, p, notices \cup outbox[t])'
    <2>1. db'[r].status = req[t].move
      BY <1>2, <1>3 DEF WritesOne, LineRow
    <2>2. PaymentsEnabled \/ Announced(o, VendorOf[p]) \in notices
      BY <1>0, <1>2 DEF NewsInv, EveryoneInformed, LinesOf, Informed
    <2>3. \/ Moved(o, p, req[t].move) \in Told(t)
          \/ req[t].move = "CANCELLED" /\ CalledOff(o, p) \in Told(t)
      BY <1>0, <1>7 DEF Told
    <2>4. (notices \cup outbox[t])' = notices \cup outbox[t] \cup Told(t)
      BY <1>5, <1>6
    <2> QED
      BY <1>0, <2>1, <2>2, <2>3, <2>4 DEF Informed
  <1>9. ASSUME NEW n \in OrderIds, NEW q \in Products, owner'[Line(n, q)] = t, Line(n, q) # r
        PROVE  Informed(db, n, q, notices \cup outbox[t])'
    <2>1. owner[Line(n, q)] = t /\ db'[Line(n, q)] = db[Line(n, q)]
      BY <1>3, <1>9, RowKinds DEF WritesOne
    <2> QED
      BY <1>1, <1>5, <1>6, <2>1 DEF NewsOK, Informed
  <1>10. \A n \in OrderIds, q \in Products : Line(n, q) = r => n = o /\ q = p
    BY <1>0, RowKinds
  <1>11. \A n \in OrderIds, q \in Products :
            owner'[Line(n, q)] = t => Informed(db, n, q, notices \cup outbox[t])'
    <2> TAKE n \in OrderIds, q \in Products
    <2>1. CASE Line(n, q) = r
      <3>1. n = o /\ q = p
        BY <1>10, <2>1
      <3> QED
        BY <1>8, <3>1
    <2>2. CASE Line(n, q) # r
      BY <1>9, <2>2
    <2> QED
      BY <2>1, <2>2
  <1>12. NewsOK(t)'
    BY <1>5, <1>7, <1>11 DEF NewsOK
  <1> QED
    BY <1>3, <1>5, <1>6, <1>12, NewsStep

LEMMA RollbackNews ==
    ASSUME OrderInv, NewsInv, outbox = [u \in Txns |-> outbox[u]], NEW t \in Txns, Rollback(t)
    PROVE  NewsInv'
  <1>1. Others(Rows, t) /\ committed' = committed /\ \A r \in Rows : owner'[r] # t
    BY RowsStored, RollbackEffect DEF Rollback, OrderInv
  <1>2. pc'[t] = "idle" /\ OthersUntouched(t) /\ SaidBeside(t)
    BY DEF Rollback, Forget, OrderInv, RequestsInv, SlotsOK, OthersUntouched, SaidBeside
  <1>3. NewsOK(t)'
    BY <1>1, <1>2, RowKinds DEF NewsOK
  <1> QED
    BY <1>1, <1>2, <1>3, NewsStep

\* A commit makes lines and news known at once.
LEMMA CommitNews ==
    ASSUME OrderInv, NewsInv, outbox = [u \in Txns |-> outbox[u]], NEW t \in Txns, Commit(t)
    PROVE  NewsInv'
  <1>1. /\ Others(Rows, t) /\ db' = db /\ \A r \in Rows : owner'[r] # t
        /\ \A r \in Rows : committed'[r] = IF owner[r] = t THEN db[r] ELSE committed[r]
    BY RowsStored, CommitEffect DEF Commit, OrderInv
  <1>2. /\ pc'[t] = "idle" /\ OthersUntouched(t) /\ SaidBeside(t)
        /\ notices' = notices \cup outbox[t]
    BY DEF Commit, Forget, OrderInv, RequestsInv, SlotsOK, OthersUntouched, SaidBeside
  <1>3. ASSUME NEW o \in OrderIds, NEW p \in LinesOf(committed, o)'
        PROVE  Informed(committed, o, p, notices)'
    <2>1. p \in Products
      BY <1>3 DEF LinesOf
    <2>2. CASE owner[Line(o, p)] = t
      <3>1. Informed(db, o, p, notices') /\ committed'[Line(o, p)] = db[Line(o, p)]
        BY <1>1, <1>2, <2>1, <2>2, RowKinds DEF NewsInv, NewsOK
      <3> QED
        BY <3>1 DEF Informed
    <2>3. CASE owner[Line(o, p)] # t
      <3>1. committed'[Line(o, p)] = committed[Line(o, p)]
        BY <1>1, <2>1, <2>3, RowKinds
      <3>2. Informed(committed, o, p, notices)
        BY <1>3, <2>1, <3>1 DEF NewsInv, EveryoneInformed, LinesOf
      <3> QED
        BY <1>2, <3>1, <3>2 DEF Informed
    <2> QED
      BY <2>2, <2>3
  <1>4. NewsOK(t)'
    BY <1>1, <1>2, RowKinds DEF NewsOK
  <1>5. \A u \in Txns : NewsOK(u)'
    BY <1>1, <1>2, <1>4, OthersNews DEF NewsInv
  <1> QED
    BY <1>3, <1>5 DEF NewsInv, EveryoneInformed

LEMMA NextNews ==
    ASSUME OrderInv, Ranges, NewsInv, Next PROVE NewsInv'
  <1> PICK t \in Txns : Arrive(t) \/ Step(t) \/ Abort(t) \/ DeadlockVictim(t)
    BY DEF Next
  <1>1. outbox = [u \in Txns |-> outbox[u]] /\ SlotsOK
    BY DEF Ranges, OrderInv, RequestsInv
  <1>2. CASE LockProduct(t)
    <2>1. /\ pc[t] = "lock" /\ pc'[t] \in {"lock", "insert"}
          /\ OthersUntouched(t) /\ UNCHANGED <<outbox, notices>>
      BY <1>1, <1>2, WorksOnSlot DEF Works, LockProduct, SlotsOK
    <2>2. /\ \A x \in Rows : owner'[x] = IF x = Product(NextProduct(t)) THEN t ELSE owner[x]
          /\ db' = db /\ committed' = committed /\ Others(Rows, t)
      BY <1>2, LockProductEffect
    <2> QED
      BY <2>1, <2>2, RowKinds, NewsKept
  <1>3. CASE Restock(t)
    <2>1. /\ pc[t] = "restock" /\ pc'[t] = "mark" /\ req' = req
          /\ OthersUntouched(t) /\ UNCHANGED <<outbox, notices>>
      BY <1>1, <1>3, WorksOnSlot DEF Works, Restock, SlotsOK
    <2>2. PICK row : WritesOne(t, Product(req[t].item), row) /\ Others(Rows, t) /\ committed' = committed
      BY <1>3, RestockEffect
    <2>3. \A o \in OrderIds, p \in Products : /\ db'[Line(o, p)] = db[Line(o, p)]
                                              /\ owner'[Line(o, p)] = owner[Line(o, p)]
      BY <2>2, RowKinds DEF WritesOne
    <2> QED
      BY <2>1, <2>2, <2>3, NewsKept
  <1>4. CASE SetOrderStatus(t)
    <2>1. /\ pc[t] = "rollup" /\ pc'[t] = "commit"
          /\ OthersUntouched(t) /\ UNCHANGED <<outbox, notices>>
      BY <1>1, <1>4, WorksOnSlot DEF Works, SetOrderStatus, Finish, SlotsOK
    <2>2. /\ Others(Rows, t) /\ committed' = committed
          /\ \/ \E row : WritesOne(t, Order(req[t].order), row)
             \/ UNCHANGED <<db, owner>>
      BY <1>4, SetOrderStatusEffect
    <2>3. \A o \in OrderIds, p \in Products : /\ db'[Line(o, p)] = db[Line(o, p)]
                                              /\ owner'[Line(o, p)] = owner[Line(o, p)]
      BY <2>2, RowKinds DEF WritesOne
    <2> QED
      BY <2>1, <2>2, <2>3, NewsKept
  <1>5. CASE EditProduct(t)
    <2>1. /\ pc[t] = "edit" /\ pc'[t] = "commit"
          /\ OthersUntouched(t) /\ UNCHANGED <<outbox, notices>>
      BY <1>1, <1>5, WorksOnSlot DEF Works, EditProduct, Finish, SlotsOK
    <2>2. PICK row : WritesOne(t, Product(req[t].item), row) /\ Others(Rows, t) /\ committed' = committed
      BY <1>5, EditProductEffect
    <2>3. \A o \in OrderIds, p \in Products : /\ db'[Line(o, p)] = db[Line(o, p)]
                                              /\ owner'[Line(o, p)] = owner[Line(o, p)]
      BY <2>2, RowKinds DEF WritesOne
    <2> QED
      BY <2>1, <2>2, <2>3, NewsKept
  <1>6. CASE TakesNumber(t)
    BY <1>6, TakesNumberEffect, RowKinds, NewsKept
  <1> QED
    BY <1>1, <1>2, <1>3, <1>4, <1>5, <1>6, ArriveNews, PlaceNews, MarkNews, RollbackNews, CommitNews
       DEF Step, Serve, RefuseCheckout, Abort, DeadlockVictim, TakesNumber

LEMMA NewsInitially == Init => NewsInv
  <1> SUFFICES ASSUME Init PROVE NewsInv
    OBVIOUS
  <1>1. committed = InitialRows /\ owner = [r \in Rows |-> Nobody] /\ \A t \in Txns : pc[t] = "idle"
    BY DEF Init, InitStore, InitialRows
  <1>2. \A o \in OrderIds, p \in Products : committed[Line(o, p)] = NoRow
    BY <1>1, RowKinds DEF InitialRows, Line
  <1> QED
    BY <1>1, <1>2, RowKinds, NobodyIsNoTxn DEF NewsInv, EveryoneInformed, NewsOK, LinesOf

-----------------------------------------------------------------------------
(* Orders of one line: the lock of the line lines the roll-ups up. *)

LEMMA RollOne ==
    ASSUME NEW view, NEW o, NEW p, LinesOf(view, o) = {p}, view[Line(o, p)].status \in VendorItemStatus
    PROVE  RollUpStatus(view, o) = StatusOf(view[Line(o, p)].status)
  <1> DEFINE s == view[Line(o, p)].status
  <1>1. LiveLines(view, o) = IF s = "CANCELLED" THEN {} ELSE {p}
    BY DEF LiveLines
  <1>2. {view[Line(o, q)].status : q \in LiveLines(view, o)} = IF s = "CANCELLED" THEN {} ELSE {s}
    BY <1>1
  <1> QED
    BY <1>2 DEF RollUpStatus, StatusOf, VendorItemStatus

LEMMA RolledUpOne ==
    ASSUME StoreInv, NEW o \in OrderIds, NEW p \in Products, LinesOf(committed, o) = {p},
           committed[Order(o)].status = StatusOf(committed[Line(o, p)].status)
    PROVE  RolledUp(o)
  <1> DEFINE s == committed[Line(o, p)].status
             live == LiveLines(committed, o)
             In(S) == {q \in live : committed[Line(o, q)].status \in S}
  <1>1. s \in VendorItemStatus
    BY DEF StoreInv, RowsOK, LineRow, LinesOf
  <1>2. live = IF s = "CANCELLED" THEN {} ELSE {p}
    BY DEF LiveLines
  <1>3. \A S : In(S) = IF s # "CANCELLED" /\ s \in S THEN {p} ELSE {}
    BY <1>2
  <1>4. committed[Order(o)].status = StatusOf(s)
    OBVIOUS
  <1> HIDE DEF s, live, In
  <1>5. LET status == committed[Order(o)].status
        IN  /\ status = "CANCELLED" <=> live = {}
            /\ status = "FULFILLED" <=> live # {} /\ In({"READY"}) = live
            /\ status = "PENDING" <=> live # {} /\ In({"PENDING"}) = live
            /\ status = "CONFIRMED" <=> In({"READY"}) # live /\ In({"CONFIRMED", "READY"}) # {}
    BY <1>1, <1>2, <1>3, <1>4 DEF StatusOf, VendorItemStatus
  <1> QED
    BY <1>5 DEF RolledUp, RolledUpIn, live, In

LEMMA OneLineStatus == ASSUME StoreInv, StatusInv PROVE SingleLineStatus
  <1> SUFFICES ASSUME NEW o \in OrderIds, Cardinality(LinesOf(committed, o)) = 1 PROVE RolledUp(o)
    BY DEF SingleLineStatus
  <1>1. IsFiniteSet(LinesOf(committed, o))
    BY OrdersAssumption, FS_Subset DEF LinesOf
  <1>2. PICK p : LinesOf(committed, o) = {p}
    BY <1>1, FS_Singleton
  <1>3. p \in Products
    BY <1>2 DEF LinesOf
  <1> QED
    BY <1>2, <1>3, RolledUpOne DEF StatusInv

\* A line that is committed is a line of a committed order.
LEMMA OnlyLines ==
    ASSUME StoreInv, NEW o \in OrderIds, NEW p, LinesOf(committed, o) = {p}
    PROVE  /\ p \in Products /\ Order(o) \in Rows /\ Line(o, p) \in Rows
           /\ committed[Order(o)] # NoRow /\ committed[Line(o, p)] \in LineRow
  <1>1. p \in Products /\ committed[Line(o, p)] # NoRow
    BY DEF LinesOf
  <1> QED
    BY <1>1, RowKinds DEF StoreInv, RowsOK, LinesHaveOrders

LEMMA OthersStatus ==
    ASSUME OrderInv, NEW t \in Txns, NEW u \in Txns \ {t}, NEW o \in OrderIds, NEW p \in Products,
           StatusRequestOK(u, o, p), Others(Rows, t), OthersUntouched(t)
    PROVE  StatusRequestOK(u, o, p)'
  <1>1. pc'[u] = pc[u] /\ req'[u] = req[u] /\ seen'[u] = seen[u]
    BY DEF OthersUntouched
  <1>2. ASSUME NEW r \in {Order(o), Line(o, p)}
        PROVE  owner'[r] = u <=> owner[r] = u
    BY RowKinds, NobodyIsNoTxn DEF Others
  <1>3. ASSUME NEW r \in {Order(o), Line(o, p)}, owner[r] = u
        PROVE  db'[r] = db[r]
    BY <1>3, RowKinds, NobodyIsNoTxn DEF Others
  <1>4. LinesOf(seen[u], o)' = LinesOf(seen[u], o)
    BY <1>1 DEF LinesOf
  <1> QED
    BY <1>1, <1>2, <1>3, <1>4 DEF StatusRequestOK

\* What a step of t that commits nothing has to care for.
LEMMA StatusStep ==
    ASSUME OrderInv, StatusInv, NEW t \in Txns, Others(Rows, t), OthersUntouched(t),
           committed' = committed, \A o \in OrderIds : AsPlaced(o)',
           \A o \in OrderIds, p \in Products : LinesOf(committed, o) = {p} => StatusRequestOK(t, o, p)'
    PROVE  StatusInv'
  <1> SUFFICES ASSUME NEW o \in OrderIds, NEW p \in Products, LinesOf(committed, o)' = {p}
               PROVE  /\ (committed[Order(o)].status = StatusOf(committed[Line(o, p)].status))'
                      /\ \A u \in Txns : StatusRequestOK(u, o, p)'
    BY DEF StatusInv
  <1>1. LinesOf(committed, o) = {p}
    BY DEF LinesOf
  <1>2. /\ committed[Order(o)].status = StatusOf(committed[Line(o, p)].status)
        /\ \A u \in Txns : StatusRequestOK(u, o, p)
    BY <1>1 DEF StatusInv
  <1>3. \A u \in Txns \ {t} : StatusRequestOK(u, o, p)'
    BY <1>2, OthersStatus
  <1> QED
    BY <1>1, <1>2, <1>3 DEF StatusOf

\* Orders and lines are as they were.
OrdersStay ==
    \A o \in OrderIds : /\ db'[Order(o)] = db[Order(o)] /\ owner'[Order(o)] = owner[Order(o)]
                        /\ \A p \in Products : /\ db'[Line(o, p)] = db[Line(o, p)]
                                               /\ owner'[Line(o, p)] = owner[Line(o, p)]

LEMMA StatusKept ==
    ASSUME OrderInv, StatusInv, NEW t \in Txns, Others(Rows, t), OthersUntouched(t),
           committed' = committed, OrdersStay,
           \/ /\ pc[t] \in {"lock", "insert", "queue", "edit"}
              /\ pc'[t] \in {"lock", "insert", "queue", "place", "commit"}
           \/ pc[t] = "restock" /\ pc'[t] = "mark" /\ req'[t] = req[t] /\ seen'[t] = seen[t]
    PROVE  StatusInv'
  <1>1. \A o \in OrderIds : AsPlaced(o)'
    BY DEF StatusInv, AsPlaced, OrdersStay, LinesOf
  <1>2. ASSUME NEW o \in OrderIds, NEW p \in Products, LinesOf(committed, o) = {p}
        PROVE  StatusRequestOK(t, o, p)'
    <2>1. StatusRequestOK(t, o, p)
      BY <1>2 DEF StatusInv
    <2>2. owner[Order(o)] # t /\ owner[Line(o, p)] # t
      BY <2>1 DEF StatusRequestOK
    <2>3. owner'[Order(o)] # t /\ owner'[Line(o, p)] # t
      BY <2>2 DEF OrdersStay
    <2>4. CASE pc[t] = "restock"
      <3>1. LinesOf(seen[t], o)' = LinesOf(seen[t], o)
        BY <2>4 DEF LinesOf
      <3> QED
        BY <2>1, <2>3, <2>4, <3>1 DEF StatusRequestOK
    <2>5. CASE pc[t] # "restock"
      BY <2>3, <2>5 DEF StatusRequestOK
    <2> QED
      BY <2>4, <2>5
  <1> QED
    BY <1>1, <1>2, StatusStep

\* What a request that moves lines has read of an order of one line.
Moves(next, what, rows) ==
    next \in {"restock", "mark", "rollup"} =>
        /\ what.order \in OrderIds /\ rows = OrderQuery(what.order)
        /\ what.buyer => what.move = "CANCELLED"
        /\ \A p \in Products :
              LinesOf(committed, what.order) = {p} =>
                  /\ next # "rollup" /\ what.todo = {p}
                  /\ committed[Order(what.order)].status # StatusOf(what.move)

LEMMA BeginStatus ==
    ASSUME OrderInv, StatusInv, NEW t \in Txns, NEW next, NEW what, NEW rows,
           Begin(t, next, what, rows), next # "commit", Moves(next, what, rows)
    PROVE  StatusInv'
  <1>1. /\ pc'[t] = next /\ req'[t] = what
        /\ \A r \in Rows : seen'[t][r] = IF r \in rows THEN committed[r] ELSE NoRow
        /\ \A r \in Rows : owner[r] # t
        /\ UNCHANGED <<db, committed, owner>>
        /\ OthersUntouched(t)
    BY BeginReads
  <1>2. Others(Rows, t)
    BY <1>1, RowsStored, IdleEffect DEF OrderInv
  <1>3. \A o \in OrderIds : AsPlaced(o)'
    BY <1>1 DEF StatusInv, AsPlaced, LinesOf
  <1>4. ASSUME NEW o \in OrderIds, NEW p \in Products, LinesOf(committed, o) = {p}
        PROVE  StatusRequestOK(t, o, p)'
    <2>1. owner'[Order(o)] # t /\ owner'[Line(o, p)] # t
      BY <1>1, RowKinds
    <2>2. ASSUME next \in {"restock", "mark", "rollup"}, what.order = o
          PROVE  /\ LinesOf(seen[t], o)' = {p} /\ next # "rollup" /\ what.todo = {p}
                 /\ what.buyer => what.move = "CANCELLED"
                 /\ seen'[t][Order(o)].status # StatusOf(what.move)
      <3>1. rows = OrderQuery(o)
        BY <2>2 DEF Moves
      <3>2. /\ seen'[t][Order(o)] = committed[Order(o)]
            /\ \A q \in Products : seen'[t][Line(o, q)] = committed[Line(o, q)]
        BY <1>1, <3>1, RowKinds DEF OrderQuery
      <3>3. LinesOf(seen[t], o)' = LinesOf(committed, o)
        BY <3>2 DEF LinesOf
      <3> QED
        BY <1>4, <2>2, <3>2, <3>3 DEF Moves
    <2> QED
      BY <1>1, <2>1, <2>2 DEF StatusRequestOK
  <1> QED
    BY <1>1, <1>2, <1>3, <1>4, StatusStep

LEMMA ArriveStatus ==
    ASSUME OrderInv, StatusInv, NEW t \in Txns, Arrive(t) PROVE StatusInv'
  <1>1. ASSUME NEW c \in Clients, BeginCheckout(t, c) PROVE StatusInv'
    <2>1. PICK what, rows : Begin(t, "lock", what, rows)
      BY <1>1 DEF BeginCheckout
    <2> QED
      BY <2>1, BeginStatus DEF Moves
  <1>2. ASSUME NEW o \in OrderIds, NEW p \in Products, NEW m \in VendorMoves, BeginAdvance(t, o, p, m)
        PROVE  StatusInv'
    <2>1. PICK what : what = [order |-> o, item |-> p, todo |-> {p}, move |-> m, buyer |-> FALSE]
      OBVIOUS
    <2>2. PICK next : next = IF m = "CANCELLED" THEN "restock" ELSE "mark"
      OBVIOUS
    <2>3. Begin(t, next, what, OrderQuery(o))
      BY <1>2, <2>1, <2>2 DEF BeginAdvance
    <2>4. ASSUME NEW q \in Products, LinesOf(committed, o) = {q}
          PROVE  p = q /\ committed[Order(o)].status # StatusOf(m)
      <3>1. p = q
        BY <1>2, <2>4 DEF BeginAdvance, LinesOf
      <3>2. PICK s \in VendorItemStatus : s = committed[Line(o, p)].status
        BY <2>4, <3>1, OnlyLines DEF OrderInv, LineRow
      <3>3. committed[Order(o)].status = StatusOf(s)
        BY <2>4, <3>1, <3>2 DEF StatusInv
      <3>4. m \in VendorTransitions[s]
        BY <1>2, <3>2 DEF BeginAdvance
      <3>5. StatusOf(s) # StatusOf(m)
        BY <3>2, <3>4 DEF VendorTransitions, VendorItemStatus, StatusOf
      <3> QED
        BY <3>1, <3>3, <3>5
    <2>5. Moves(next, what, OrderQuery(o))
      BY <2>1, <2>2, <2>4 DEF Moves
    <2> QED
      BY <2>2, <2>3, <2>5, BeginStatus
  <1>3. ASSUME NEW o \in OrderIds, NEW p \in Products, BeginCancel(t, o, p) PROVE StatusInv'
    <2>1. PICK what : what = [order |-> o, item |-> p, todo |-> LiveLines(committed, o),
                              move |-> "CANCELLED", buyer |-> TRUE]
      OBVIOUS
    <2>2. PICK next : next = IF LiveLines(committed, o) = {} THEN "rollup" ELSE "restock"
      OBVIOUS
    <2>3. Begin(t, next, what, OrderQuery(o))
      BY <1>3, <2>1, <2>2 DEF BeginCancel
    <2>4. ASSUME NEW q \in Products, LinesOf(committed, o) = {q}
          PROVE  LiveLines(committed, o) = {q} /\ committed[Order(o)].status # "CANCELLED"
      <3>1. committed[Order(o)].status # "CANCELLED"
        BY <1>3 DEF BeginCancel, Cancellable
      <3>2. committed[Line(o, q)].status # "CANCELLED"
        BY <2>4, <3>1 DEF StatusInv, StatusOf
      <3> QED
        BY <2>4, <3>1, <3>2 DEF LiveLines
    <2>5. Moves(next, what, OrderQuery(o))
      BY <2>1, <2>2, <2>4 DEF Moves, StatusOf
    <2> QED
      BY <2>2, <2>3, <2>5, BeginStatus
  <1>4. ASSUME NEW p \in Products, NEW e \in Edits, BeginEdit(t, p, e) PROVE StatusInv'
    <2>1. PICK what, rows : Begin(t, "edit", what, rows)
      BY <1>4 DEF BeginEdit
    <2> QED
      BY <2>1, BeginStatus DEF Moves
  <1> QED
    BY <1>1, <1>2, <1>3, <1>4 DEF Arrive

LEMMA PlaceStatus ==
    ASSUME OrderInv, StatusInv, NEW t \in Txns, PlaceOrder(t) PROVE StatusInv'
  <1> DEFINE c == req[t].client
             written(o) == {Order(o), Cart(c)} \cup {Product(p) : p \in InBasket(t)}
                           \cup {Line(o, p) : p \in InBasket(t)}
  <1>1. PICK o \in Unused :
            /\ o \in OrderIds /\ committed[Order(o)] = NoRow
            /\ \A r \in Rows \ written(o) : db'[r] = db[r] /\ owner'[r] = owner[r]
            /\ db'[Order(o)] = [client |-> c, status |-> "PENDING"]
            /\ \A p \in InBasket(t) :
                  /\ db'[Product(p)] = Sell(seen[t][Product(p)], Basket(t)[p])
                  /\ db'[Line(o, p)] = [qty |-> Basket(t)[p], status |-> "PENDING"]
            /\ Others(Rows, t) /\ committed' = committed
    BY PlaceOrderEffect DEF Places
  <1>2. pc[t] = "place" /\ pc'[t] = "commit" /\ OthersUntouched(t) /\ StoreInv
    BY WorksOnSlot DEF Works, PlaceOrder, Finish, OrderInv, RequestsInv, SlotsOK
  <1>3. db'[Order(o)].status = "PENDING"
    <2>1. PICK buyer : buyer = c
      OBVIOUS
    <2>2. db'[Order(o)] = [client |-> buyer, status |-> "PENDING"]
      BY <1>1, <2>1
    <2> QED
      BY <2>2
  <1>4. \A p \in InBasket(t) : db'[Line(o, p)].status = "PENDING"
    <2> TAKE p \in InBasket(t)
    <2>1. PICK qty : qty = Basket(t)[p]
      OBVIOUS
    <2>2. db'[Line(o, p)] = [qty |-> qty, status |-> "PENDING"]
      BY <1>1, <2>1
    <2> QED
      BY <2>2
  <1>5. \A p \in Products \ InBasket(t) : Line(o, p) \in Rows \ written(o)
    BY <1>1, RowKinds
  <1>6. \A n \in OrderIds \ {o} : /\ Order(n) \in Rows \ written(o)
                                  /\ \A p \in Products : Line(n, p) \in Rows \ written(o)
    BY RowKinds
  <1> HIDE DEF written
  <1>7. \A p \in Products \ InBasket(t) : db'[Line(o, p)] = NoRow
    <2>1. db[Order(o)] = NoRow
      BY DEF Unused
    <2>2. \A p \in Products : db[Line(o, p)] = NoRow
      BY <1>1, <1>2, <2>1 DEF StoreInv, LinesHaveOrders
    <2> QED
      BY <1>1, <1>5, <2>2
  <1>8. AsPlaced(o)'
    BY <1>3, <1>4, <1>7 DEF AsPlaced, LinesOf
  <1>9. ASSUME NEW n \in OrderIds \ {o} PROVE AsPlaced(n)'
    <2>1. AsPlaced(n)
      BY DEF StatusInv
    <2>2. db'[Order(n)] = db[Order(n)] /\ \A p \in Products : db'[Line(n, p)] = db[Line(n, p)]
      BY <1>1, <1>6
    <2> QED
      BY <1>1, <2>1, <2>2 DEF AsPlaced, LinesOf
  <1>10. ASSUME NEW n \in OrderIds, NEW p \in Products, LinesOf(committed, n) = {p}
         PROVE  StatusRequestOK(t, n, p)'
    <2>1. n # o
      BY <1>1, <1>2, <1>10, OnlyLines
    <2>2. owner[Order(n)] # t /\ owner[Line(n, p)] # t
      BY <1>2, <1>10 DEF StatusInv, StatusRequestOK
    <2>3. owner'[Order(n)] # t /\ owner'[Line(n, p)] # t
      BY <1>1, <1>6, <2>1, <2>2
    <2> QED
      BY <1>2, <2>3 DEF StatusRequestOK
  <1>11. \A n \in OrderIds : AsPlaced(n)'
    BY <1>8, <1>9
  <1> QED
    BY <1>1, <1>2, <1>10, <1>11, StatusStep

\* A step that writes one row of a committed order.
LEMMA PlacedStay ==
    ASSUME OrderInv, StatusInv, NEW t \in Txns, NEW o \in OrderIds, NEW p \in Products, NEW r, NEW row,
           r \in {Order(o), Line(o, p)}, WritesOne(t, r, row), committed[Order(o)] # NoRow,
           committed' = committed
    PROVE  \A n \in OrderIds : AsPlaced(n)'
  <1> TAKE n \in OrderIds
  <1>1. CASE committed[Order(n)] = NoRow
    <2>1. /\ db'[Order(n)] = db[Order(n)]
          /\ \A q \in Products : db'[Line(n, q)] = db[Line(n, q)]
      BY <1>1, RowKinds DEF WritesOne
    <2> QED
      BY <2>1 DEF StatusInv, AsPlaced, LinesOf
  <1>2. CASE committed[Order(n)] # NoRow
    BY <1>2 DEF AsPlaced
  <1> QED
    BY <1>1, <1>2

LEMMA MarkStatus ==
    ASSUME OrderInv, StatusInv, NEW t \in Txns, Mark(t) PROVE StatusInv'
  <1>0. PICK o, p, r : o = req[t].order /\ p = req[t].item /\ r = Line(o, p)
    OBVIOUS
  <1>1. /\ StoreInv /\ LineReads(t) /\ req[t] \in LineReq /\ pc[t] = "mark" /\ SlotsOK
    BY DEF OrderInv, Mark, RequestsInv, RequestOK
  <1>2. /\ o \in OrderIds /\ p \in Products /\ r \in Rows /\ committed[r] # NoRow
        /\ committed[Order(o)] # NoRow /\ p \in req[t].todo /\ seen[t][r] \in LineRow
    BY <1>0, <1>1, RowKinds DEF LineReq, LineReads
  <1>3. db[r] \in LineRow
    BY <1>0, <1>1, <1>2 DEF StoreInv, RowsOK, RowsKept
  <1>4. /\ WritesOne(t, r, [db[r] EXCEPT !.status = req[t].move])
        /\ Others(Rows, t) /\ committed' = committed
    BY <1>0, MarkEffect
  <1>5. PICK what \in LineReq : /\ req' = [req EXCEPT ![t] = what]
                                /\ what.order = o /\ what.todo = req[t].todo \ {p}
                                /\ what.move = req[t].move /\ what.buyer = req[t].buyer
    BY <1>0, <1>1, MarkRequest
  <1>6. OthersUntouched(t) /\ req'[t] = what
    BY <1>1, <1>5, WorksOnSlot DEF Works, SlotsOK
  <1>7. /\ pc'[t] = IF req[t].todo \ {p} = {} THEN "rollup" ELSE "restock"
        /\ seen' = [seen EXCEPT ![t][r].status = req[t].move]
    BY <1>0, <1>1 DEF Mark, SlotsOK
  <1>8. /\ seen'[t][r] = [seen[t][r] EXCEPT !.status = req[t].move]
        /\ \A x \in Rows \ {r} : seen'[t][x] = seen[t][x]
    BY <1>1, <1>2, <1>7 DEF SlotsOK
  <1>9. /\ owner'[r] = t /\ db'[r].status = req[t].move /\ seen'[t][r].status = req[t].move
        /\ seen'[t][r] # NoRow
    <2>1. [seen[t][r] EXCEPT !.status = req[t].move] \in LineRow
      BY <1>1, <1>2 DEF LineRow, LineReq
    <2> QED
      BY <1>2, <1>3, <1>4, <1>8, <2>1, NoRowIsNoValue DEF WritesOne, LineRow
  <1>10. \A n \in OrderIds : AsPlaced(n)'
    BY <1>0, <1>2, <1>4, PlacedStay
  <1>11. ASSUME NEW n \in OrderIds, NEW q \in Products, LinesOf(committed, n) = {q}
         PROVE  StatusRequestOK(t, n, q)'
    <2>1. StatusRequestOK(t, n, q)
      BY <1>11 DEF StatusInv
    <2>2. owner[Order(n)] # t /\ owner[Line(n, q)] # t
      BY <1>1, <2>1 DEF StatusRequestOK
    <2>3. owner'[Order(n)] # t
      BY <1>0, <1>4, <2>2, RowKinds DEF WritesOne
    <2>4. CASE n = o
      <3>1. q = p /\ Line(n, q) = r
        BY <1>0, <1>2, <1>11, <2>4 DEF LinesOf
      <3>2. /\ LinesOf(seen[t], n) = {q} /\ req[t].todo = {q}
            /\ req[t].buyer => req[t].move = "CANCELLED"
            /\ seen[t][Order(n)].status # StatusOf(req[t].move)
        BY <1>0, <1>1, <2>1, <2>4 DEF StatusRequestOK
      <3>3. pc'[t] = "rollup"
        BY <1>7, <3>1, <3>2
      <3>4. LinesOf(seen[t], n)' = {q}
        <4>1. \A x \in Products \ {q} : seen'[t][Line(n, x)] = seen[t][Line(n, x)]
          BY <1>8, <3>1, RowKinds
        <4> QED
          BY <1>9, <3>1, <3>2, <4>1 DEF LinesOf
      <3>5. seen'[t][Order(n)] = seen[t][Order(n)]
        BY <1>0, <1>8, RowKinds
      <3> QED
        BY <1>5, <1>6, <1>9, <2>3, <2>4, <3>1, <3>2, <3>3, <3>4, <3>5 DEF StatusRequestOK
    <2>5. CASE n # o
      <3>1. owner'[Line(n, q)] # t
        BY <1>0, <1>4, <2>2, <2>5, RowKinds DEF WritesOne
      <3> QED
        BY <1>5, <1>6, <2>3, <2>5, <3>1 DEF StatusRequestOK
    <2> QED
      BY <2>4, <2>5
  <1> QED
    BY <1>4, <1>6, <1>10, <1>11, StatusStep

LEMMA RollUpBrings ==
    ASSUME OrderInv, StatusInv, NEW t \in Txns, SetOrderStatus(t) PROVE StatusInv'
  <1>0. PICK o, r, status : o = req[t].order /\ r = Order(o) /\ status = NewOrderStatus(t)
    OBVIOUS
  <1>1. /\ StoreInv /\ LineReads(t) /\ req[t] \in LineReq /\ pc[t] = "rollup" /\ pc'[t] = "commit"
        /\ OthersUntouched(t)
    BY WorksOnSlot DEF OrderInv, SetOrderStatus, RequestsInv, RequestOK, Works, Finish, SlotsOK
  <1>2. o \in OrderIds /\ r \in Rows /\ committed[r] # NoRow
    BY <1>0, <1>1, RowKinds DEF LineReq, LineReads
  <1>3. db[r] \in OrderRow
    BY <1>0, <1>1, <1>2 DEF StoreInv, RowsOK, RowsKept
  <1>4. /\ IF OrderDiffers(t) THEN WritesOne(t, r, [db[r] EXCEPT !.status = status])
                              ELSE UNCHANGED <<db, owner>>
        /\ Others(Rows, t) /\ committed' = committed
    BY <1>0, SetOrderStatusEffect
  <1>5. \A n \in OrderIds : AsPlaced(n)'
    <2>1. CASE Products = {}
      <3>1. ASSUME NEW n \in OrderIds, committed[Order(n)] = NoRow
            PROVE  db'[Order(n)] = db[Order(n)]
        BY <1>0, <1>2, <1>4, <3>1, RowKinds DEF WritesOne
      <3> QED
        BY <1>4, <2>1, <3>1 DEF StatusInv, AsPlaced, LinesOf
    <2>2. CASE Products # {} /\ OrderDiffers(t)
      BY <1>0, <1>2, <1>4, <2>2, PlacedStay
    <2>3. CASE ~OrderDiffers(t)
      BY <1>4, <2>3 DEF StatusInv, AsPlaced, LinesOf
    <2> QED
      BY <2>1, <2>2, <2>3
  <1>6. ASSUME NEW n \in OrderIds, NEW q \in Products, LinesOf(committed, n) = {q}
        PROVE  StatusRequestOK(t, n, q)'
    <2>1. StatusRequestOK(t, n, q)
      BY <1>6 DEF StatusInv
    <2>2. owner[Order(n)] # t /\ (owner[Line(n, q)] = t => n = o)
      BY <1>0, <1>1, <2>1 DEF StatusRequestOK
    <2>3. owner'[Line(n, q)] = owner[Line(n, q)] /\ db'[Line(n, q)] = db[Line(n, q)]
      BY <1>0, <1>4, RowKinds DEF WritesOne
    <2>4. CASE n # o
      <3>1. owner'[Order(n)] # t
        BY <1>0, <1>4, <2>2, <2>4, RowKinds DEF WritesOne
      <3> QED
        BY <1>1, <2>2, <2>3, <2>4, <3>1 DEF StatusRequestOK
    <2>5. CASE n = o
      <3>1. /\ LinesOf(seen[t], n) = {q} /\ (req[t].buyer => req[t].move = "CANCELLED")
            /\ seen[t][Order(n)].status # StatusOf(req[t].move)
            /\ owner[Line(n, q)] = t /\ seen[t][Line(n, q)].status = req[t].move
            /\ db[Line(n, q)].status = req[t].move
        BY <1>0, <1>1, <2>1, <2>5 DEF StatusRequestOK
      <3>2. req[t].move \in VendorItemStatus
        BY <1>1 DEF LineReq
      <3>3. status = StatusOf(req[t].move)
        <4>1. CASE req[t].buyer
          BY <1>0, <3>1, <4>1 DEF NewOrderStatus, StatusOf
        <4>2. CASE ~req[t].buyer
          <5>1. status = RollUpStatus(seen[t], n)
            BY <1>0, <2>5, <4>2 DEF NewOrderStatus
          <5>2. RollUpStatus(seen[t], n) = StatusOf(seen[t][Line(n, q)].status)
            BY <3>1, <3>2, RollOne
          <5> QED
            BY <3>1, <5>1, <5>2
        <4> QED
          BY <4>1, <4>2
      <3>4. OrderDiffers(t)
        BY <1>0, <2>5, <3>1, <3>3 DEF OrderDiffers
      <3>5. owner'[r] = t /\ db'[r].status = status
        BY <1>2, <1>3, <1>4, <3>4 DEF WritesOne, OrderRow
      <3> QED
        BY <1>0, <1>1, <2>3, <2>5, <3>1, <3>3, <3>5 DEF StatusRequestOK
    <2> QED
      BY <2>4, <2>5
  <1> QED
    BY <1>1, <1>4, <1>5, <1>6, StatusStep

LEMMA RollbackStatus ==
    ASSUME OrderInv, StatusInv, NEW t \in Txns, Rollback(t) PROVE StatusInv'
  <1>1. /\ Others(Rows, t) /\ committed' = committed /\ \A r \in Rows : owner'[r] # t
        /\ \A r \in Rows : db'[r] = IF owner[r] = t THEN committed[r] ELSE db[r]
    BY RowsStored, RollbackEffect DEF Rollback, OrderInv
  <1>2. pc'[t] = "idle" /\ OthersUntouched(t)
    BY DEF Rollback, Forget, OrderInv, RequestsInv, SlotsOK, OthersUntouched
  <1>3. ASSUME NEW n \in OrderIds PROVE AsPlaced(n)'
    <2>1. CASE committed[Order(n)] = NoRow
      <3>1. \A p \in Products : committed[Line(n, p)] = NoRow
        BY <2>1 DEF OrderInv, StoreInv, LinesHaveOrders
      <3>2. AsPlaced(n)
        BY DEF StatusInv
      <3>3. db'[Order(n)] \in {db[Order(n)], NoRow}
        BY <1>1, <2>1, RowKinds
      <3>4. \A p \in Products : db'[Line(n, p)] \in {db[Line(n, p)], NoRow}
        BY <1>1, <3>1, RowKinds
      <3> QED
        BY <2>1, <3>2, <3>3, <3>4 DEF AsPlaced, LinesOf
    <2>2. CASE committed[Order(n)] # NoRow
      BY <1>1, <2>2 DEF AsPlaced
    <2> QED
      BY <2>1, <2>2
  <1>4. \A o \in OrderIds, p \in Products : StatusRequestOK(t, o, p)'
    BY <1>1, <1>2, RowKinds DEF StatusRequestOK
  <1> QED
    BY <1>1, <1>2, <1>3, <1>4, StatusStep

\* A commit makes the order and its line known at once.
LEMMA CommitStatus ==
    ASSUME OrderInv, StatusInv, NEW t \in Txns, Commit(t) PROVE StatusInv'
  <1>1. /\ Others(Rows, t) /\ db' = db /\ \A r \in Rows : owner'[r] # t
        /\ \A r \in Rows : owner'[r] = IF owner[r] = t THEN Nobody ELSE owner[r]
        /\ \A r \in Rows : committed'[r] = IF owner[r] = t THEN db[r] ELSE committed[r]
    BY RowsStored, CommitEffect DEF Commit, OrderInv
  <1>2. pc[t] = "commit" /\ pc'[t] = "idle" /\ OthersUntouched(t) /\ StoreInv
    BY DEF Commit, Forget, OrderInv, RequestsInv, SlotsOK, OthersUntouched
  <1>3. ASSUME NEW n \in OrderIds PROVE AsPlaced(n)'
    <2>1. committed'[Order(n)] = NoRow => committed[Order(n)] = NoRow
      BY <1>1, <1>2, RowKinds DEF StoreInv, RowsKept
    <2> QED
      BY <1>1, <2>1 DEF StatusInv, AsPlaced, LinesOf
  <1>4. ASSUME NEW o \in OrderIds, NEW p \in Products, LinesOf(committed, o)' = {p}
        PROVE  /\ (committed[Order(o)].status = StatusOf(committed[Line(o, p)].status))'
               /\ \A u \in Txns : StatusRequestOK(u, o, p)'
    <2>1. committed'[Line(o, p)] # NoRow
      BY <1>4 DEF LinesOf
    <2>2. CASE committed[Order(o)] # NoRow
      <3>1. \A q \in Products : committed'[Line(o, q)] # NoRow <=> committed[Line(o, q)] # NoRow
        BY <1>1, <1>2, <2>2, RowKinds DEF StoreInv, RowsKept, LinesHaveOrders
      <3>2. LinesOf(committed, o) = {p}
        BY <1>4, <3>1 DEF LinesOf
      <3>3. /\ committed[Order(o)].status = StatusOf(committed[Line(o, p)].status)
            /\ \A u \in Txns : StatusRequestOK(u, o, p)
        BY <3>2 DEF StatusInv
      <3>4. committed'[Order(o)].status = StatusOf(committed'[Line(o, p)].status)
        <4>1. CASE owner[Line(o, p)] = t
          <5>1. owner[Order(o)] = t /\ db[Order(o)].status = StatusOf(db[Line(o, p)].status)
            BY <1>2, <3>3, <4>1 DEF StatusRequestOK
          <5> QED
            BY <1>1, <4>1, <5>1, RowKinds
        <4>2. CASE owner[Line(o, p)] # t
          <5>1. owner[Order(o)] # t
            BY <3>3, <4>2 DEF StatusRequestOK
          <5> QED
            BY <1>1, <3>3, <4>2, <5>1, RowKinds
        <4> QED
          BY <4>1, <4>2
      <3>5. StatusRequestOK(t, o, p)'
        BY <1>1, <1>2, RowKinds DEF StatusRequestOK
      <3>6. \A u \in Txns \ {t} : StatusRequestOK(u, o, p)'
        BY <1>1, <1>2, <3>3, OthersStatus
      <3> QED
        BY <3>4, <3>5, <3>6 DEF StatusOf
    <2>3. CASE committed[Order(o)] = NoRow
      <3>1. committed[Line(o, p)] = NoRow
        BY <1>2, <2>3 DEF StoreInv, LinesHaveOrders
      <3>2. owner[Line(o, p)] = t /\ db[Line(o, p)] # NoRow /\ committed'[Line(o, p)] = db[Line(o, p)]
        BY <1>1, <2>1, <3>1, RowKinds
      <3>3. owner[Order(o)] = t /\ db[Order(o)] # NoRow
        BY <1>2, <2>3, <3>2 DEF StoreInv, LinesHaveOrders
      <3>4. db[Order(o)].status = "PENDING" /\ db[Line(o, p)].status = "PENDING"
        BY <2>3, <3>2, <3>3 DEF StatusInv, AsPlaced, LinesOf
      <3>5. committed'[Order(o)] = db[Order(o)]
        BY <1>1, <3>3, RowKinds
      <3>6. owner'[Order(o)] = Nobody /\ owner'[Line(o, p)] = Nobody
        BY <1>1, <3>2, <3>3, RowKinds
      <3>7. ASSUME NEW u \in Txns PROVE StatusRequestOK(u, o, p)'
        <4>1. CASE u = t
          BY <1>1, <1>2, <4>1, RowKinds DEF StatusRequestOK
        <4>2. CASE u # t
          <5>1. pc'[u] = pc[u] /\ req'[u] = req[u]
            BY <1>2, <4>2 DEF OthersUntouched
          <5>2. pc[u] \in {"restock", "mark", "rollup"} => req[u].order # o
            BY <2>3 DEF OrderInv, RequestsInv, RequestOK, LineReads
          <5> QED
            BY <3>6, <5>1, <5>2, NobodyIsNoTxn DEF StatusRequestOK
        <4> QED
          BY <4>1, <4>2
      <3> QED
        BY <3>2, <3>4, <3>5, <3>7 DEF StatusOf
    <2> QED
      BY <2>2, <2>3
  <1> QED
    BY <1>3, <1>4 DEF StatusInv

LEMMA NextStatus == ASSUME OrderInv, StatusInv, Next PROVE StatusInv'
  <1> PICK t \in Txns : Arrive(t) \/ Step(t) \/ Abort(t) \/ DeadlockVictim(t)
    BY DEF Next
  <1>1. SlotsOK
    BY DEF OrderInv, RequestsInv
  <1>2. CASE LockProduct(t)
    <2>1. pc[t] = "lock" /\ pc'[t] \in {"lock", "insert"} /\ OthersUntouched(t)
      BY <1>1, <1>2, WorksOnSlot DEF Works, LockProduct, SlotsOK
    <2>2. /\ \A x \in Rows : owner'[x] = IF x = Product(NextProduct(t)) THEN t ELSE owner[x]
          /\ db' = db /\ committed' = committed /\ Others(Rows, t)
      BY <1>2, LockProductEffect
    <2>3. OrdersStay
      BY <2>2, RowKinds DEF OrdersStay
    <2> QED
      BY <2>1, <2>2, <2>3, StatusKept
  <1>3. CASE Restock(t)
    <2>1. /\ pc[t] = "restock" /\ pc'[t] = "mark" /\ req' = req /\ seen' = seen /\ OthersUntouched(t)
      BY <1>1, <1>3, WorksOnSlot DEF Works, Restock, SlotsOK
    <2>2. PICK row : WritesOne(t, Product(req[t].item), row) /\ Others(Rows, t) /\ committed' = committed
      BY <1>3, RestockEffect
    <2>3. OrdersStay
      BY <2>2, RowKinds DEF WritesOne, OrdersStay
    <2> QED
      BY <2>1, <2>2, <2>3, StatusKept
  <1>4. CASE EditProduct(t)
    <2>1. pc[t] = "edit" /\ pc'[t] = "commit" /\ OthersUntouched(t)
      BY <1>1, <1>4, WorksOnSlot DEF Works, EditProduct, Finish, SlotsOK
    <2>2. PICK row : WritesOne(t, Product(req[t].item), row) /\ Others(Rows, t) /\ committed' = committed
      BY <1>4, EditProductEffect
    <2>3. OrdersStay
      BY <2>2, RowKinds DEF WritesOne, OrdersStay
    <2> QED
      BY <2>1, <2>2, <2>3, StatusKept
  <1>5. CASE TakesNumber(t)
    <2>1. OrdersStay
      BY <1>5, TakesNumberEffect, RowKinds DEF OrdersStay
    <2> QED
      BY <1>5, <2>1, TakesNumberEffect, StatusKept
  <1> QED
    BY <1>2, <1>3, <1>4, <1>5, ArriveStatus, PlaceStatus, MarkStatus, RollUpBrings, RollbackStatus, CommitStatus
       DEF Step, Serve, RefuseCheckout, Abort, DeadlockVictim, TakesNumber

LEMMA StatusInitially == Init => StatusInv
  <1> SUFFICES ASSUME Init PROVE StatusInv
    OBVIOUS
  <1>1. db = InitialRows /\ committed = InitialRows
    BY DEF Init, InitStore, InitialRows
  <1>2. /\ \A o \in OrderIds : InitialRows[Order(o)] = NoRow
        /\ \A o \in OrderIds, p \in Products : InitialRows[Line(o, p)] = NoRow
    BY RowKinds DEF InitialRows, Order, Line
  <1> QED
    BY <1>1, <1>2 DEF StatusInv, AsPlaced, LinesOf

LEMMA StatusStutters ==
    ASSUME StatusInv, UNCHANGED <<db, committed, owner, pc, req, seen>> PROVE StatusInv'
  <1>1. \A o \in OrderIds : AsPlaced(o)' /\ LinesOf(committed, o)' = LinesOf(committed, o)
    BY DEF StatusInv, AsPlaced, LinesOf
  <1>2. ASSUME NEW t \in Txns, NEW o \in OrderIds, NEW p \in Products, StatusRequestOK(t, o, p)
        PROVE  StatusRequestOK(t, o, p)'
    <2>1. LinesOf(seen[t], o)' = LinesOf(seen[t], o)
      BY DEF LinesOf
    <2> QED
      BY <1>2, <2>1 DEF StatusRequestOK
  <1> QED
    BY <1>1, <1>2 DEF StatusInv, StatusOf

-----------------------------------------------------------------------------
(* The theorems. *)

\* The invariant that the row locks and the re-read under them keep.
THEOREM Invariance == Spec => []IInv
  <1>1. Init => OrderInv /\ Ranges
    BY Initially DEF Init, Ranges, Steps
  <1>2. OrderInv /\ Ranges /\ [Next]_vars => OrderInv' /\ Ranges'
    <2> SUFFICES ASSUME OrderInv, Ranges, [Next]_vars PROVE OrderInv' /\ Ranges'
      OBVIOUS
    <2>1. CASE Next
      BY <2>1, NextKeeps, NextRanges
    <2>2. CASE UNCHANGED vars
      BY <2>2, StutterKeeps DEF vars, Ranges
    <2> QED
      BY <2>1, <2>2
  <1>3. OrderInv /\ Ranges => IInv
    BY TypesFromParts DEF IInv
  <1> QED
    BY <1>1, <1>2, <1>3, PTL DEF Spec

\* Every row, request and notification has its type, in every reachable state.
THEOREM TypeCorrect == Spec => []TypeOK
  <1>1. IInv => TypeOK
    BY DEF IInv
  <1> QED
    BY <1>1, Invariance, PTL

\* No interleaving of checkouts, cancellations, edits, rollbacks and deadlocks
\* makes a product's stock negative, committed or not.
THEOREM NeverOversold == Spec => []StockNeverNegative
  <1>1. IInv => StockNeverNegative
    BY DEF IInv, OrderInv, StoreInv
  <1> QED
    BY <1>1, Invariance, PTL
\* Whatever is refused, overtaken or rolled back, who did not make a change is
\* told of it: vendors of an order, the buyer of a vendor's move, the vendor of a
\* line called off.
THEOREM NobodyLeftOut == Spec => []EveryoneInformed
  <1>1. Init => OrderInv /\ Ranges /\ NewsInv
    BY Initially, NewsInitially DEF Init, Ranges, Steps
  <1>2. OrderInv /\ Ranges /\ NewsInv /\ [Next]_vars => OrderInv' /\ Ranges' /\ NewsInv'
    <2> SUFFICES ASSUME OrderInv, Ranges, NewsInv, [Next]_vars PROVE OrderInv' /\ Ranges' /\ NewsInv'
      OBVIOUS
    <2>1. CASE Next
      BY <2>1, NextKeeps, NextRanges, NextNews
    <2>2. CASE UNCHANGED vars
      <3>1. NewsInv'
        BY <2>2 DEF vars, NewsInv, NewsOK, EveryoneInformed, Informed, LinesOf
      <3> QED
        BY <2>2, <3>1, StutterKeeps DEF vars, Ranges
    <2> QED
      BY <2>1, <2>2
  <1>3. NewsInv => EveryoneInformed
    BY DEF NewsInv
  <1> QED
    BY <1>1, <1>2, <1>3, PTL DEF Spec

\* An order of one line has the status its line gives it, however requests on it
\* overlap: who moves the line keeps it until the order is in line with it.
THEOREM OneLineFollowed == Spec => []SingleLineStatus
  <1>1. Init => OrderInv /\ StatusInv
    BY Initially, StatusInitially
  <1>2. OrderInv /\ StatusInv /\ [Next]_vars => OrderInv' /\ StatusInv'
    BY NextKeeps, NextStatus, StutterKeeps, StatusStutters DEF vars
  <1>3. OrderInv /\ StatusInv => SingleLineStatus
    BY OneLineStatus DEF OrderInv
  <1> QED
    BY <1>1, <1>2, <1>3, PTL DEF Spec

-----------------------------------------------------------------------------
(* One slot: a request finds all as it was committed, and commits all.       *)

LEMMA IdleRows ==
    ASSUME OrderInv, OneSlot, NEW t \in Txns, pc[t] = "idle"
    PROVE  \A r \in Rows : db[r] = committed[r]
  BY DEF OneSlot, OrderInv, RequestsInv, RequestOK, StoreInv, UnlockedIsCommitted, RowsOK

LEMMA OneCommits ==
    ASSUME OrderInv, OneSlot, NEW t \in Txns, Commit(t)
    PROVE  /\ \A r \in Rows : committed'[r] = db[r] /\ db'[r] = db[r]
           /\ pc[t] = "commit" /\ pc'[t] = "idle" /\ OthersUntouched(t)
  <1>1. StoreInv /\ SlotsOK /\ CommitTxn(t)
    BY DEF OrderInv, RequestsInv, Commit
  <1>2. /\ db' = db
        /\ \A r \in Rows : committed'[r] = IF owner[r] = t THEN db[r] ELSE committed[r]
    BY <1>1, RowsStored, CommitEffect
  <1>3. \A r \in Rows : owner[r] # t => db[r] = committed[r]
    BY <1>1 DEF OneSlot, StoreInv, UnlockedIsCommitted, RowsOK
  <1>4. pc[t] = "commit" /\ pc'[t] = "idle" /\ OthersUntouched(t)
    BY <1>1 DEF Commit, Forget, SlotsOK, OthersUntouched
  <1> QED
    BY <1>2, <1>3, <1>4

LEMMA OneRollsBack ==
    ASSUME OrderInv, OneSlot, NEW t \in Txns, Rollback(t)
    PROVE  /\ \A r \in Rows : committed'[r] = committed[r] /\ db'[r] = committed[r]
           /\ pc'[t] = "idle" /\ OthersUntouched(t)
  <1>1. StoreInv /\ SlotsOK /\ RollbackTxn(t)
    BY DEF OrderInv, RequestsInv, Rollback
  <1>2. /\ committed' = committed
        /\ \A r \in Rows : db'[r] = IF owner[r] = t THEN committed[r] ELSE db[r]
    BY <1>1, RowsStored, RollbackEffect
  <1>3. \A r \in Rows : owner[r] # t => db[r] = committed[r]
    BY <1>1 DEF OneSlot, StoreInv, UnlockedIsCommitted, RowsOK
  <1>4. pc'[t] = "idle" /\ OthersUntouched(t)
    BY <1>1 DEF Rollback, Forget, SlotsOK, OthersUntouched
  <1> QED
    BY <1>2, <1>3, <1>4

-----------------------------------------------------------------------------
(* Status and stock of a product. *)

LEMMA SellHonest ==
    ASSUME NEW row \in ProductRow, NEW n \in Nat, Buyable(row, n) PROVE HonestRow(Sell(row, n))
  BY DEF ProductRow, Buyable, Sell, HonestRow

LEMMA ReturnedHonest ==
    ASSUME NEW row \in ProductRow, row.stock >= 0, HonestRow(row), NEW n \in Nat
    PROVE  HonestRow(Returned(row, n))
  BY DEF ProductRow, Returned, HonestRow

LEMMA PatchedHonest ==
    ASSUME NEW old \in ProductRow, old.stock >= 0, NEW patch,
           patch \in [stock : Nat \cup {Unset}, status : ProductStatus \cup {Unset}]
    PROVE  HonestRow(Patched(old, patch))
  <1>1. PICK n \in Nat : n = IF patch.stock = Unset THEN old.stock ELSE patch.stock
    BY DEF ProductRow
  <1>2. PICK s : s = IF patch.status = Unset THEN old.status ELSE patch.status
    OBVIOUS
  <1>3. Patched(old, patch) = Honest([stock |-> n, status |-> s])
    BY <1>1, <1>2 DEF Patched
  <1>4. /\ Honest([stock |-> n, status |-> s]).stock = n
        /\ Honest([stock |-> n, status |-> s]).status =
              IF n = 0 /\ s = "ACTIVE" THEN "OUT_OF_STOCK"
              ELSE IF n > 0 /\ s = "OUT_OF_STOCK" THEN "ACTIVE" ELSE s
    BY DEF Honest
  <1> QED
    BY <1>3, <1>4 DEF HonestRow

\* A step keeps what the edits of the other slots read: there are no other slots, or
\* no edits.
LEMMA HonestStep ==
    ASSUME OneSlot \/ Edits = {}, HonestInv, NEW t \in Txns, OthersUntouched(t), EditReads(t)',
           \A p \in Products : HonestRow(committed'[Product(p)]) => HonestRow(db'[Product(p)])
    PROVE  HonestInv'
  <1>1. ASSUME NEW u \in Txns \ {t} PROVE EditReads(u)'
    <2>1. Edits = {} /\ pc[u] # "edit"
      BY DEF OneSlot, HonestInv, EditReads
    <2> QED
      BY <2>1 DEF OthersUntouched, EditReads
  <1> QED
    BY <1>1 DEF HonestInv

LEMMA BeginHonest ==
    ASSUME OrderInv, OneSlot \/ Edits = {}, HonestInv, NEW t \in Txns, NEW next, NEW what, NEW rows,
           Begin(t, next, what, rows),
           next = "edit" => /\ Edits # {} /\ what.item \in Products
                            /\ Product(what.item) \in rows
    PROVE  HonestInv'
  <1>1. /\ pc[t] = "idle" /\ pc'[t] = next /\ req'[t] = what
        /\ \A r \in Rows : seen'[t][r] = IF r \in rows THEN committed[r] ELSE NoRow
        /\ UNCHANGED <<db, committed>> /\ OthersUntouched(t)
    BY BeginReads
  <1>2. EditReads(t)'
    <2>1. CASE next = "edit"
      <3>1. Product(what.item) \in Rows /\ OneSlot
        BY <2>1, RowKinds
      <3>2. db[Product(what.item)] = committed[Product(what.item)]
        BY <1>1, <3>1, IdleRows
      <3> QED
        BY <1>1, <2>1, <3>1, <3>2 DEF EditReads
    <2> QED
      BY <1>1, <2>1 DEF EditReads
  <1> QED
    BY <1>1, <1>2, HonestStep DEF HonestInv

LEMMA ArriveHonest ==
    ASSUME OrderInv, OneSlot \/ Edits = {}, HonestInv, NEW t \in Txns, Arrive(t) PROVE HonestInv'
  <1>1. ASSUME NEW c \in Clients, BeginCheckout(t, c) PROVE HonestInv'
    BY <1>1, BeginHonest DEF BeginCheckout
  <1>2. ASSUME NEW o \in OrderIds, NEW p \in Products, NEW m \in VendorMoves, BeginAdvance(t, o, p, m)
        PROVE  HonestInv'
    BY <1>2, BeginHonest DEF BeginAdvance
  <1>3. ASSUME NEW o \in OrderIds, NEW p \in Products, BeginCancel(t, o, p) PROVE HonestInv'
    BY <1>3, BeginHonest DEF BeginCancel
  <1>4. ASSUME NEW p \in Products, NEW e \in Edits, BeginEdit(t, p, e) PROVE HonestInv'
    <2>1. Begin(t, "edit", [item |-> p, patch |-> e], {Product(p)})
      BY <1>4 DEF BeginEdit
    <2> QED
      BY <2>1, BeginHonest
  <1> QED
    BY <1>1, <1>2, <1>3, <1>4 DEF Arrive

\* Checkouts, restocks and edits leave an honest row honest.
LEMMA WorksHonest ==
    ASSUME OrderInv, OneSlot \/ Edits = {}, HonestInv, NEW t \in Txns, Works(t) PROVE HonestInv'
  <1>1. /\ OthersUntouched(t) /\ committed' = committed /\ StoreInv /\ RequestOK(t)
    BY WorksOnSlot, WorksOnOrders DEF OrderInv, RequestsInv
  <1>2. EditReads(t)'
    <2>1. pc'[t] # "edit"
      BY WorksOnSlot DEF OrderInv, RequestsInv, SlotsOK
    <2> QED
      BY <2>1 DEF EditReads
  <1>3. \A p \in Products : db[Product(p)] \in ProductRow /\ db[Product(p)].stock >= 0
    BY <1>1 DEF StoreInv, RowsOK, StockNeverNegative
  <1>4. ASSUME NEW p \in Products, HonestRow(db[Product(p)]) PROVE HonestRow(db'[Product(p)])
    <2>1. CASE LockProduct(t) \/ TakesNumber(t)
      BY <1>4, <2>1, LockProductEffect, TakesNumberEffect
    <2>2. CASE PlaceOrder(t)
      <3>1. PICK o \in Unused : Places(t, o)
        BY <2>2, PlaceOrderEffect
      <3>2. CASE p \in InBasket(t)
        <4>1. db'[Product(p)] = Sell(seen[t][Product(p)], Basket(t)[p])
          BY <3>1, <3>2 DEF Places
        <4>2. Buyable(seen[t][Product(p)], Basket(t)[p])
          BY <2>2, <3>2 DEF PlaceOrder
        <4>3. CheckoutReads(t)
          BY <1>1, <2>2 DEF PlaceOrder, RequestOK
        <4>4. seen[t][Product(p)] \in ProductRow /\ SeenCart(t)[p] \in Item
          BY <3>2, <4>3 DEF CheckoutReads, CartRow
        <4>5. Basket(t)[p] \in Nat
          BY <4>4 DEF Basket, Item
        <4> QED
          BY <4>1, <4>2, <4>4, <4>5, SellHonest
      <3>3. CASE p \notin InBasket(t)
        <4>1. db'[Product(p)] = db[Product(p)]
          BY <3>1, <3>3, RowKinds DEF Places
        <4> QED
          BY <1>4, <4>1
      <3> QED
        BY <3>2, <3>3
    <2>3. CASE Restock(t)
      <3>1. PICK n : n = seen[t][Line(req[t].order, req[t].item)].qty
        OBVIOUS
      <3>2. n \in Nat
        BY <1>1, <2>3, <3>1 DEF Restock, RequestOK, LineReads, LineRow
      <3>3. WritesOne(t, Product(req[t].item), Returned(db[Product(req[t].item)], n))
        BY <2>3, <3>1, RestockEffect
      <3>4. db'[Product(p)] \in {db[Product(p)], Returned(db[Product(p)], n)}
        BY <3>3, RowKinds DEF WritesOne
      <3> QED
        BY <1>3, <1>4, <3>2, <3>4, ReturnedHonest
    <2>4. CASE Mark(t)
      <3>1. PICK row : WritesOne(t, Line(req[t].order, req[t].item), row)
        BY <2>4, MarkEffect
      <3> QED
        BY <1>4, <3>1, RowKinds DEF WritesOne
    <2>5. CASE SetOrderStatus(t)
      <3>1. db' = db \/ \E row : WritesOne(t, Order(req[t].order), row)
        BY <2>5, SetOrderStatusEffect
      <3> QED
        BY <1>4, <3>1, RowKinds DEF WritesOne
    <2>6. CASE EditProduct(t)
      <3> DEFINE r == Product(req[t].item)
                 new == Patched(seen[t][r], req[t].patch)
      <3>1. PICK row : /\ row = [stock  |-> IF new.stock = seen[t][r].stock THEN db[r].stock ELSE new.stock,
                                 status |-> IF new.status = seen[t][r].status THEN db[r].status ELSE new.status]
                       /\ WritesOne(t, r, row)
        BY <2>6, EditProductEffect
      <3>2. pc[t] = "edit" /\ req[t] \in EditReq
        BY <1>1, <2>6 DEF EditProduct, RequestOK
      <3>3. /\ seen[t][r] = db[r] /\ req[t].item \in Products
            /\ req[t].patch \in [stock : Nat \cup {Unset}, status : ProductStatus \cup {Unset}]
        BY <3>2 DEF HonestInv, EditReads, EditReq
      <3>4. HonestRow(new)
        BY <1>3, <3>3, PatchedHonest
      <3>5. row.stock = new.stock /\ row.status = new.status
        BY <3>1, <3>3
      <3>6. HonestRow(row)
        BY <3>4, <3>5 DEF HonestRow
      <3> QED
        BY <1>3, <1>4, <3>1, <3>6, RowKinds DEF WritesOne
    <2> QED
      BY <2>1, <2>2, <2>3, <2>4, <2>5, <2>6 DEF Works
  <1> QED
    BY <1>1, <1>2, <1>4, HonestStep DEF HonestInv

LEMMA NextHonest ==
    ASSUME OrderInv, OneSlot \/ Edits = {}, HonestInv, Next PROVE HonestInv'
  <1> PICK t \in Txns : Arrive(t) \/ Step(t) \/ Abort(t) \/ DeadlockVictim(t)
    BY DEF Next
  <1>1. CASE Commit(t)
    <2>1. /\ db' = db
          /\ \A r \in Rows : committed'[r] = IF owner[r] = t THEN db[r] ELSE committed[r]
      BY <1>1, RowsStored, CommitEffect DEF Commit, OrderInv
    <2>2. OthersUntouched(t) /\ EditReads(t)'
      BY <1>1 DEF OrderInv, RequestsInv, SlotsOK, Commit, Forget, OthersUntouched, EditReads
    <2> QED
      BY <2>1, <2>2, HonestStep, RowKinds DEF HonestInv
  <1>2. CASE Rollback(t)
    <2>1. /\ committed' = committed
          /\ \A r \in Rows : db'[r] = IF owner[r] = t THEN committed[r] ELSE db[r]
      BY <1>2, RowsStored, RollbackEffect DEF Rollback, OrderInv
    <2>2. OthersUntouched(t) /\ EditReads(t)'
      BY <1>2 DEF OrderInv, RequestsInv, SlotsOK, Rollback, Forget, OthersUntouched, EditReads
    <2> QED
      BY <2>1, <2>2, HonestStep, RowKinds DEF HonestInv
  <1> QED
    BY <1>1, <1>2, ArriveHonest, WorksHonest
       DEF Step, Serve, RefuseCheckout, Abort, DeadlockVictim, Works, TakesNumber

LEMMA HonestInitially == Init => HonestInv
  BY DEF Init, InitStore, HonestInv, EditReads

-----------------------------------------------------------------------------
(* One cart, one order. *)

LEMMA OrderedNat ==
    ASSUME NEW rows, RowsOK(rows), NEW o \in OrderIds, NEW c, NEW p \in Products
    PROVE  OrderedIn(rows, o, c, p) \in Nat
  BY DEF OrderedIn, LinesOf, RowsOK, LineRow

\* Two stores whose orders hold the same units, and whose carts hold the same.
SameBooks(rows, next) ==
    /\ \A o \in OrderIds : /\ next[Order(o)] = NoRow <=> rows[Order(o)] = NoRow
                           /\ next[Order(o)].client = rows[Order(o)].client
    /\ \A o \in OrderIds, p \in Products :
          /\ next[Line(o, p)] = NoRow <=> rows[Line(o, p)] = NoRow
          /\ next[Line(o, p)].qty = rows[Line(o, p)].qty
    /\ \A c \in Clients : next[Cart(c)] = rows[Cart(c)]

LEMMA BooksSame ==
    ASSUME NEW rows, NEW next, SameBooks(rows, next), NEW c \in Clients, NEW p \in Products,
           InBooks(rows, c, p)
    PROVE  InBooks(next, c, p)
  <1>1. \A o \in OrderIds : OrderedIn(next, o, c, p) = OrderedIn(rows, o, c, p)
    BY DEF SameBooks, OrderedIn, LinesOf
  <1>2. [o \in OrderIds |-> OrderedIn(next, o, c, p)] = [o \in OrderIds |-> OrderedIn(rows, o, c, p)]
    BY <1>1
  <1>3. Ordered(next, c, p) = Ordered(rows, c, p)
    BY <1>2 DEF Ordered
  <1>4. Wanted(next, c, p) = Wanted(rows, c, p)
    BY DEF SameBooks, Wanted
  <1> QED
    BY <1>3, <1>4 DEF InBooks

LEMMA SameRows ==
    ASSUME NEW rows, NEW next, \A r \in Rows : next[r] = rows[r] PROVE SameBooks(rows, next)
  BY RowKinds DEF SameBooks

LEMMA BooksStep ==
    ASSUME OneSlot, BooksInv, NEW t \in Txns, CartReads(t)',
           \A c \in Clients, p \in Products : InBooks(committed', c, p) /\ InBooks(db', c, p)
    PROVE  BooksInv'
  BY DEF OneSlot, BooksInv, InBooks, Ordered, OrderedIn, LinesOf, Wanted

\* A request that is not a checkout needs nothing of its cart.
LEMMA BeginBooks ==
    ASSUME OrderInv, OneSlot, BooksInv, NEW t \in Txns, NEW next, NEW what, NEW rows,
           Begin(t, next, what, rows),
           next \in {"lock", "insert", "queue", "place"} => what.client \in Clients /\ Cart(what.client) \in rows
    PROVE  BooksInv'
  <1>1. /\ pc[t] = "idle" /\ pc'[t] = next /\ req'[t] = what
        /\ \A r \in Rows : seen'[t][r] = IF r \in rows THEN committed[r] ELSE NoRow
        /\ UNCHANGED <<db, committed>> /\ OthersUntouched(t)
    BY BeginReads
  <1>2. CartReads(t)'
    <2>1. CASE next \in {"lock", "insert", "queue", "place"}
      <3>1. Cart(what.client) \in Rows
        BY <2>1, RowKinds
      <3>2. db[Cart(what.client)] = committed[Cart(what.client)]
        BY <1>1, <3>1, IdleRows
      <3> QED
        BY <1>1, <2>1, <3>1, <3>2 DEF CartReads, SeenCart
    <2> QED
      BY <1>1, <2>1 DEF CartReads
  <1> QED
    BY <1>1, <1>2, BooksStep DEF BooksInv

LEMMA ArriveBooks ==
    ASSUME OrderInv, OneSlot, BooksInv, NEW t \in Txns, Arrive(t) PROVE BooksInv'
  <1>1. ASSUME NEW c \in Clients, BeginCheckout(t, c) PROVE BooksInv'
    <2>1. PICK rows : Begin(t, "lock", [client |-> c], rows) /\ Cart(c) \in rows
      BY <1>1 DEF BeginCheckout
    <2> QED
      BY <2>1, BeginBooks
  <1>2. ASSUME NEW o \in OrderIds, NEW p \in Products, NEW m \in VendorMoves, BeginAdvance(t, o, p, m)
        PROVE  BooksInv'
    BY <1>2, BeginBooks DEF BeginAdvance
  <1>3. ASSUME NEW o \in OrderIds, NEW p \in Products, BeginCancel(t, o, p) PROVE BooksInv'
    BY <1>3, BeginBooks DEF BeginCancel
  <1>4. ASSUME NEW p \in Products, NEW e \in Edits, BeginEdit(t, p, e) PROVE BooksInv'
    BY <1>4, BeginBooks DEF BeginEdit
  <1> QED
    BY <1>1, <1>2, <1>3, <1>4 DEF Arrive

\* What a checkout puts into its order it takes out of its cart.
LEMMA PlaceBooks ==
    ASSUME OrderInv, OrderInv', OneSlot, BooksInv, NEW t \in Txns, PlaceOrder(t) PROVE BooksInv'
  <1> DEFINE cc == req[t].client
  <1>1. PICK o \in Unused : Places(t, o)
    BY PlaceOrderEffect
  <1>2. /\ pc[t] = "place" /\ pc'[t] = "commit" /\ StoreInv /\ StoreInv'
        /\ CheckoutReads(t) /\ req[t] \in CheckoutReq
    BY DEF PlaceOrder, Finish, OrderInv, RequestsInv, SlotsOK, RequestOK
  <1>3. /\ o \in OrderIds /\ cc \in Clients /\ committed' = committed /\ db[Order(o)] = NoRow
    BY <1>1 DEF Places, Unused
  <1>4. /\ SeenCart(t) = db[Cart(cc)] /\ db[Cart(cc)] \in CartRow
        /\ db[Cart(cc)] # NoRow /\ db'[Cart(cc)] # NoRow
    <2>1. SeenCart(t) = db[Cart(cc)] /\ SeenCart(t) \in CartRow /\ committed[Cart(cc)] # NoRow
      BY <1>2 DEF BooksInv, CartReads, CheckoutReads
    <2> QED
      BY <1>2, <1>3, <2>1, RowKinds DEF StoreInv, RowsKept
  <1>5. \A p \in Products : db[Line(o, p)] = NoRow
    BY <1>2, <1>3 DEF StoreInv, LinesHaveOrders
  <1>6. /\ \A n \in OrderIds \ {o} : db'[Order(n)] = db[Order(n)]
        /\ \A n \in OrderIds \ {o}, p \in Products : db'[Line(n, p)] = db[Line(n, p)]
        /\ \A c \in Clients \ {cc} : db'[Cart(c)] = db[Cart(c)]
        /\ \A p \in Products \ InBasket(t) : db'[Line(o, p)] = NoRow
    BY <1>1, <1>5, RowKinds DEF Places
  <1>7. /\ db'[Order(o)] = [client |-> cc, status |-> "PENDING"]
        /\ db'[Cart(cc)] = Emptied(t, db[Cart(cc)])
        /\ \A p \in InBasket(t) : db'[Line(o, p)] = [qty |-> Basket(t)[p], status |-> "PENDING"]
    BY <1>1 DEF Places
  <1>8. /\ db'[Order(o)] # NoRow
        /\ \A p \in InBasket(t) : db'[Line(o, p)] # NoRow
    <2>1. [client |-> cc, status |-> "PENDING"] \in OrderRow
      BY <1>3 DEF OrderRow, OrderStatus
    <2>2. ASSUME NEW p \in InBasket(t) PROVE [qty |-> Basket(t)[p], status |-> "PENDING"] \in LineRow
      BY <1>4, <2>2 DEF InBasket, Basket, CartRow, Item, LineRow, VendorItemStatus
    <2> QED
      BY <1>7, <2>1, <2>2, NoRowIsNoValue
  <1>9. ASSUME NEW c \in Clients, NEW p \in Products PROVE InBooks(db', c, p)
    <2> DEFINE f == [n \in OrderIds |-> OrderedIn(db, n, c, p)]
               g == [n \in OrderIds |-> OrderedIn(db', n, c, p)]
               sold == IF c = cc /\ p \in InBasket(t) THEN Basket(t)[p] ELSE 0
    <2>1. f \in [OrderIds -> Int] /\ g \in [OrderIds -> Int]
      BY <1>2, OrderedNat DEF StoreInv
    <2>2. \A n \in OrderIds \ {o} : OrderedIn(db', n, c, p) = OrderedIn(db, n, c, p)
      BY <1>6 DEF OrderedIn, LinesOf
    <2>3. OrderedIn(db, o, c, p) = 0
      BY <1>3 DEF OrderedIn
    <2>4. OrderedIn(db', o, c, p) = sold
      <3>1. db'[Order(o)] # NoRow /\ db'[Order(o)].client = cc
        BY <1>7, <1>8
      <3>2. p \in LinesOf(db', o) <=> p \in InBasket(t)
        BY <1>6, <1>8 DEF LinesOf
      <3>3. ASSUME p \in InBasket(t) PROVE db'[Line(o, p)].qty = Basket(t)[p]
        <4>1. db'[Line(o, p)] = [qty |-> Basket(t)[p], status |-> "PENDING"]
          BY <1>7, <3>3
        <4> QED
          BY <4>1
      <3> QED
        BY <3>1, <3>2, <3>3 DEF OrderedIn
    <2>5. SumFunction(g) = SumFunction(f) + (g[o] - f[o])
      <3>1. \A n \in OrderIds \ {o} : g[n] = f[n]
        BY <2>2
      <3>2. IsFiniteSet(OrderIds) /\ o \in OrderIds
        BY <1>3, OrdersAssumption
      <3> HIDE DEF f, g
      <3> QED
        BY <2>1, <3>1, <3>2, SumChange
    <2>6. g[o] = sold /\ f[o] = 0
      BY <1>3, <2>3, <2>4
    <2>7. Ordered(db', c, p) = SumFunction(g) /\ Ordered(db, c, p) = SumFunction(f)
      BY DEF Ordered
    <2>8. SumFunction(f) \in Int
      BY <2>1, SumType, OrdersAssumption
    <2>9. /\ Wanted(db, c, p) \in Nat
          /\ Wanted(db', c, p) = Wanted(db, c, p) - sold
      <3>1. CASE c # cc
        <4>1. db'[Cart(c)] = db[Cart(c)]
          BY <1>6, <3>1
        <4> QED
          BY <1>2, <3>1, <4>1 DEF Wanted, StoreInv, RowsOK, CartRow, Item
      <3>2. CASE c = cc
        <4>1. db'[Cart(c)][p] = IF p \in InBasket(t) THEN [id |-> db[Cart(c)][p].id, qty |-> 0]
                                ELSE db[Cart(c)][p]
          BY <1>4, <1>7, <3>2 DEF Emptied, WithoutItems
        <4>2. db[Cart(c)][p].qty \in Nat
          BY <1>4, <3>2 DEF CartRow, Item
        <4>3. Basket(t)[p] = db[Cart(c)][p].qty
          BY <1>4, <3>2 DEF Basket
        <4> QED
          BY <1>4, <3>2, <4>1, <4>2, <4>3 DEF Wanted
      <3> QED
        BY <3>1, <3>2
    <2>10. InBooks(db, c, p)
      BY DEF BooksInv
    <2>11. sold \in Int
      <3>1. Basket(t)[p] \in Nat
        BY <1>4 DEF Basket, CartRow, Item
      <3> QED
        BY <3>1
    <2> HIDE DEF f, g, sold
    <2>12. Ordered(db', c, p) + Wanted(db', c, p) = Ordered(db, c, p) + Wanted(db, c, p)
      BY <2>5, <2>6, <2>7, <2>8, <2>9, <2>11
    <2> QED
      BY <2>10, <2>12 DEF InBooks
  <1>10. CartReads(t)'
    BY <1>2 DEF CartReads
  <1>11. \A c \in Clients, p \in Products : InBooks(committed', c, p)
    BY <1>3 DEF BooksInv
  <1> QED
    BY <1>9, <1>10, <1>11, BooksStep

\* No other step moves units into orders or out of carts.
LEMMA WorksBooks ==
    ASSUME OrderInv, OrderInv', OneSlot, BooksInv, NEW t \in Txns, Works(t) PROVE BooksInv'
  <1>1. /\ OthersUntouched(t) /\ committed' = committed /\ StoreInv /\ RequestOK(t) /\ SlotsOK
    BY WorksOnSlot, WorksOnOrders DEF OrderInv, RequestsInv
  <1>2. \A c \in Clients, p \in Products : InBooks(committed', c, p)
    BY <1>1 DEF BooksInv
  <1>3. ASSUME SameBooks(db, db'), pc'[t] \notin {"lock", "insert", "queue", "place"} PROVE BooksInv'
    <2>1. \A c \in Clients, p \in Products : InBooks(db', c, p)
      BY <1>3, BooksSame DEF BooksInv
    <2>2. CartReads(t)'
      BY <1>3 DEF CartReads
    <2> QED
      BY <1>2, <2>1, <2>2, BooksStep
  <1>4. CASE LockProduct(t)
    <2> DEFINE n == NextProduct(t)
    <2>1. db' = db /\ req' = req /\ seen' = [seen EXCEPT ![t][Product(n)] = db[Product(n)]]
      BY <1>4, LockProductEffect DEF LockProduct, Reread
    <2> HIDE DEF n
    <2>2. pc[t] = "lock" /\ req[t].client \in Clients
      BY <1>1, <1>4 DEF LockProduct, RequestOK, CheckoutReq
    <2>3. Cart(req[t].client) \in Rows /\ Cart(req[t].client) # Product(n)
      BY <2>2, RowKinds
    <2>4. SeenCart(t)' = SeenCart(t)
      BY <1>1, <2>1, <2>3 DEF SeenCart, SlotsOK
    <2>5. CartReads(t)'
      BY <2>1, <2>2, <2>4 DEF BooksInv, CartReads
    <2> QED
      BY <1>2, <2>1, <2>5, BooksStep DEF BooksInv
  <1>5. CASE PlaceOrder(t)
    BY <1>5, PlaceBooks
  <1>6. CASE Restock(t)
    <2>1. PICK row : WritesOne(t, Product(req[t].item), row)
      BY <1>6, RestockEffect
    <2>2. pc'[t] = "mark"
      BY <1>1, <1>6 DEF Restock, SlotsOK
    <2> QED
      BY <1>3, <2>1, <2>2, RowKinds DEF WritesOne, SameBooks
  <1>7. CASE Mark(t)
    <2> DEFINE r == Line(req[t].order, req[t].item)
    <2>1. PICK row : row = [db[r] EXCEPT !.status = req[t].move] /\ WritesOne(t, r, row)
      BY <1>7, MarkEffect
    <2>2. /\ r \in Rows /\ committed[r] # NoRow
          /\ req[t].item \in Products /\ req[t].order \in OrderIds
      BY <1>1, <1>7, RowKinds DEF Mark, RequestOK, LineReads, LineReq
    <2>3. db[r] \in LineRow /\ db[r] # NoRow
      BY <1>1, <2>2 DEF StoreInv, RowsKept, RowsOK
    <2>4. row.qty = db[r].qty
      BY <2>1, <2>3 DEF LineRow
    <2>5. db'[r] = row /\ db'[r] # NoRow
      BY <1>1, <2>1, <2>2 DEF WritesOne, OrderInv, StoreInv, RowsKept
    <2>6. \A x \in Rows \ {r} : db'[x] = db[x]
      BY <2>1 DEF WritesOne
    <2> HIDE DEF r
    <2>7. \A x \in Rows : (db'[x] = NoRow <=> db[x] = NoRow) /\ db'[x].qty = db[x].qty
      BY <2>3, <2>4, <2>5, <2>6
    <2>8. /\ \A c \in Clients : db'[Cart(c)] = db[Cart(c)]
          /\ \A o \in OrderIds : db'[Order(o)] = db[Order(o)]
      BY <2>6, RowKinds DEF r
    <2>9. pc'[t] \in {"rollup", "restock"}
      BY <1>1, <1>7 DEF Mark, SlotsOK
    <2> QED
      BY <1>3, <2>7, <2>8, <2>9, RowKinds DEF SameBooks
  <1>8. CASE SetOrderStatus(t)
    <2> DEFINE r == Order(req[t].order)
    <2>1. pc'[t] = "commit"
      BY <1>1, <1>8 DEF SetOrderStatus, Finish, SlotsOK
    <2>2. CASE db' = db
      BY <1>3, <2>1, <2>2, RowKinds DEF SameBooks
    <2>3. CASE WritesOne(t, r, [db[r] EXCEPT !.status = NewOrderStatus(t)])
      <3>1. PICK row : row = [db[r] EXCEPT !.status = NewOrderStatus(t)] /\ WritesOne(t, r, row)
        BY <2>3
      <3>2. r \in Rows /\ committed[r] # NoRow /\ req[t].order \in OrderIds
        BY <1>1, <1>8, RowKinds DEF SetOrderStatus, RequestOK, LineReads, LineReq
      <3>3. db[r] \in OrderRow /\ db[r] # NoRow
        BY <1>1, <3>2 DEF StoreInv, RowsKept, RowsOK
      <3>4. row.client = db[r].client
        BY <3>1, <3>3 DEF OrderRow
      <3>5. db'[r] = row /\ db'[r] # NoRow
        BY <1>1, <3>1, <3>2 DEF WritesOne, OrderInv, StoreInv, RowsKept
      <3>6. \A x \in Rows \ {r} : db'[x] = db[x]
        BY <3>1 DEF WritesOne
      <3> HIDE DEF r
      <3>7. \A x \in Rows : (db'[x] = NoRow <=> db[x] = NoRow) /\ db'[x].client = db[x].client
        BY <3>3, <3>4, <3>5, <3>6
      <3>8. /\ \A c \in Clients : db'[Cart(c)] = db[Cart(c)]
            /\ \A o \in OrderIds, p \in Products : db'[Line(o, p)] = db[Line(o, p)]
        BY <3>6, RowKinds DEF r
      <3> QED
        BY <1>3, <2>1, <3>7, <3>8, RowKinds DEF SameBooks
    <2> QED
      BY <1>8, <2>2, <2>3, SetOrderStatusEffect
  <1>9. CASE EditProduct(t)
    <2>1. PICK row : WritesOne(t, Product(req[t].item), row)
      BY <1>9, EditProductEffect
    <2>2. pc'[t] = "commit"
      BY <1>1, <1>9 DEF EditProduct, Finish, SlotsOK
    <2> QED
      BY <1>3, <2>1, <2>2, RowKinds DEF WritesOne, SameBooks
  <1>10. CASE TakesNumber(t)
    <2>1. pc[t] \in {"insert", "queue"} /\ UNCHANGED <<db, req, seen>>
      BY <1>10, TakesNumberEffect
    <2>2. CartReads(t)'
      BY <2>1 DEF BooksInv, CartReads, SeenCart
    <2> QED
      BY <1>2, <2>1, <2>2, BooksStep DEF BooksInv
  <1> QED
    BY <1>4, <1>5, <1>6, <1>7, <1>8, <1>9, <1>10 DEF Works

LEMMA NextBooks ==
    ASSUME OrderInv, OrderInv', OneSlot, BooksInv, Next PROVE BooksInv'
  <1> PICK t \in Txns : Arrive(t) \/ Step(t) \/ Abort(t) \/ DeadlockVictim(t)
    BY DEF Next
  <1>1. CASE Commit(t)
    <2>1. (\A r \in Rows : committed'[r] = db[r] /\ db'[r] = db[r]) /\ pc'[t] = "idle"
      BY <1>1, OneCommits
    <2>2. SameBooks(db, committed') /\ SameBooks(db, db')
      BY <2>1, SameRows
    <2>3. CartReads(t)'
      BY <2>1 DEF CartReads
    <2> QED
      BY <2>2, <2>3, BooksSame, BooksStep DEF BooksInv
  <1>2. CASE Rollback(t)
    <2>1. (\A r \in Rows : committed'[r] = committed[r] /\ db'[r] = committed[r]) /\ pc'[t] = "idle"
      BY <1>2, OneRollsBack
    <2>2. SameBooks(committed, committed') /\ SameBooks(committed, db')
      BY <2>1, SameRows
    <2>3. CartReads(t)'
      BY <2>1 DEF CartReads
    <2> QED
      BY <2>2, <2>3, BooksSame, BooksStep DEF BooksInv
  <1> QED
    BY <1>1, <1>2, ArriveBooks, WorksBooks
       DEF Step, Serve, RefuseCheckout, Abort, DeadlockVictim, Works, TakesNumber

LEMMA BooksInitially == Init => BooksInv
  <1> SUFFICES ASSUME Init PROVE BooksInv
    OBVIOUS
  <1>1. db = InitialRows /\ committed = InitialRows
    BY DEF Init, InitStore, InitialRows
  <1>2. ASSUME NEW c \in Clients, NEW p \in Products PROVE InBooks(InitialRows, c, p)
    <2>1. \A o \in OrderIds : InitialRows[Order(o)] = NoRow
      BY RowKinds DEF InitialRows, Order
    <2>2. [o \in OrderIds |-> OrderedIn(InitialRows, o, c, p)] \in [OrderIds -> {0}]
      BY <2>1 DEF OrderedIn
    <2>3. Ordered(InitialRows, c, p) = 0
      BY <2>2, SumZero, OrdersAssumption DEF Ordered
    <2>4. InitialRows[Cart(c)] = IF Carts[c] = NoRow THEN NoRow
                                 ELSE [q \in Products |-> [id |-> 0, qty |-> Carts[c][q]]]
      BY RowKinds DEF InitialRows, Cart
    <2>5. Wanted(InitialRows, c, p) <= AtFirst(c, p) /\ AtFirst(c, p) \in Nat
          /\ Wanted(InitialRows, c, p) \in Nat
      <3>1. Carts[c] = NoRow \/ Carts[c][p] \in Nat
        BY OrdersAssumption
      <3>2. CASE Carts[c] = NoRow
        BY <2>4, <3>2 DEF Wanted, AtFirst
      <3>3. CASE Carts[c] # NoRow
        <4>1. InitialRows[Cart(c)][p].qty = Carts[c][p]
          BY <2>4, <3>3
        <4> QED
          BY <3>1, <3>3, <4>1 DEF Wanted, AtFirst
      <3> QED
        BY <3>2, <3>3
    <2> QED
      BY <2>3, <2>5 DEF InBooks
  <1> QED
    BY <1>1, <1>2 DEF Init, BooksInv, CartReads

LEMMA BooksAreKept == ASSUME StoreInv, BooksInv PROVE CartSoldOnce
  <1> SUFFICES ASSUME NEW c \in Clients, NEW p \in Products PROVE Ordered(committed, c, p) <= AtFirst(c, p)
    BY DEF CartSoldOnce
  <1>1. Wanted(committed, c, p) \in Nat
    BY DEF Wanted, StoreInv, RowsOK, CartRow, Item
  <1>2. [o \in OrderIds |-> OrderedIn(committed, o, c, p)] \in [OrderIds -> Nat]
    BY OrderedNat DEF StoreInv
  <1>3. Ordered(committed, c, p) \in Nat
    BY <1>2, SumType, OrdersAssumption DEF Ordered
  <1>4. AtFirst(c, p) \in Nat
    BY OrdersAssumption DEF AtFirst
  <1> QED
    BY <1>1, <1>3, <1>4 DEF BooksInv, InBooks

-----------------------------------------------------------------------------
(* Lines and the status of their order. *)

\* An order that has the status its lines roll up to is told apart by it.
LEMMA RollUpRolls ==
    ASSUME NEW rows, NEW o, \A p \in LinesOf(rows, o) : rows[Line(o, p)].status \in VendorItemStatus,
           rows[Order(o)].status = RollUpStatus(rows, o)
    PROVE  RolledUpIn(rows, o)
  <1> DEFINE live == LiveLines(rows, o)
             In(S) == {p \in live : rows[Line(o, p)].status \in S}
             status == rows[Order(o)].status
  <1>1. PICK all : all = {rows[Line(o, p)].status : p \in live}
    OBVIOUS
  <1>2. all \subseteq {"PENDING", "CONFIRMED", "READY"}
    BY <1>1 DEF LiveLines, VendorItemStatus
  <1>3. live = {} <=> all = {}
    BY <1>1
  <1>4. \A S : (In(S) = live <=> all \subseteq S) /\ (In(S) # {} <=> all \cap S # {})
    BY <1>1
  <1>5. status = IF all = {} THEN "CANCELLED" ELSE IF all = {"READY"} THEN "FULFILLED"
                 ELSE IF all \cap {"CONFIRMED", "READY"} # {} THEN "CONFIRMED" ELSE "PENDING"
    BY <1>1 DEF RollUpStatus
  <1> HIDE DEF live, In, status
  <1>6. status = "CANCELLED" <=> live = {}
    BY <1>3, <1>5
  <1>7. status = "FULFILLED" <=> live # {} /\ In({"READY"}) = live
    BY <1>3, <1>4, <1>5
  <1>8. status = "PENDING" <=> live # {} /\ In({"PENDING"}) = live
    BY <1>2, <1>3, <1>4, <1>5
  <1>9. status = "CONFIRMED" <=> In({"READY"}) # live /\ In({"CONFIRMED", "READY"}) # {}
    BY <1>2, <1>4, <1>5
  <1> QED
    BY <1>6, <1>7, <1>8, <1>9 DEF RolledUpIn, live, In, status

\* Two stores that hold the same order.
SameOrder(rows, next, o) ==
    next[Order(o)] = rows[Order(o)] /\ \A p \in Products : next[Line(o, p)] = rows[Line(o, p)]

LEMMA RolledUpSame ==
    ASSUME NEW rows, NEW next, NEW o, SameOrder(rows, next, o), RolledUpIn(rows, o)
    PROVE  RolledUpIn(next, o)
  <1>1. LinesOf(next, o) = LinesOf(rows, o)
    BY DEF SameOrder, LinesOf
  <1>2. LiveLines(next, o) = LiveLines(rows, o) /\ LiveLines(rows, o) \subseteq Products
    BY <1>1 DEF SameOrder, LiveLines, LinesOf
  <1>3. \A S : {p \in LiveLines(next, o) : next[Line(o, p)].status \in S}
               = {p \in LiveLines(rows, o) : rows[Line(o, p)].status \in S}
    BY <1>2 DEF SameOrder
  <1> QED
    BY <1>2, <1>3 DEF RolledUpIn, SameOrder

LEMMA SameRowsSameOrder ==
    ASSUME NEW rows, NEW next, \A r \in Rows : next[r] = rows[r], NEW o \in OrderIds
    PROVE  SameOrder(rows, next, o)
  BY RowKinds DEF SameOrder

LEMMA SerialStep ==
    ASSUME OneSlot, SerialInv, NEW t \in Txns, SerialOK(t)', committed' = committed,
           \A o \in OrderIds : Closed(committed[Order(o)]) => db'[Order(o)] = committed[Order(o)],
           \A o \in OrderIds, p \in Products : Follows(committed[Line(o, p)], db'[Line(o, p)])
    PROVE  SerialInv'
  <1>1. \A u \in Txns : SerialOK(u)'
    BY DEF OneSlot
  <1>2. StatusMatchesLines'
    <2>1. \A o \in OrderIds : SameOrder(committed, committed', o) /\ RolledUpIn(committed, o)
      BY DEF SameOrder, SerialInv, StatusMatchesLines, RolledUp
    <2>2. \A o \in OrderIds : RolledUpIn(committed', o)
      BY <2>1, RolledUpSame
    <2> QED
      BY <2>2 DEF StatusMatchesLines, RolledUp
  <1> QED
    BY <1>1, <1>2 DEF SerialInv, AsCommitted

LEMMA ArriveSerial ==
    ASSUME OrderInv, OneSlot, SerialInv, NEW t \in Txns, Arrive(t) PROVE SerialInv'
  <1>1. StoreInv /\ \A r \in Rows : pc[t] = "idle" => db[r] = committed[r]
    BY IdleRows DEF OrderInv
  <1>2. \A o \in OrderIds, p \in Products : committed[Line(o, p)] \in LineRow \cup {NoRow}
    BY <1>1 DEF StoreInv, RowsOK
  <1>3. ASSUME NEW next, NEW what, NEW rows, Begin(t, next, what, rows), SerialOK(t)' PROVE SerialInv'
    <2>1. pc[t] = "idle" /\ db' = db /\ committed' = committed
      BY <1>3 DEF Begin
    <2> QED
      BY <1>1, <1>3, <2>1, SerialStep, RowKinds DEF SerialInv
  <1>4. ASSUME NEW next \in {"lock", "edit"}, NEW what, NEW rows, Begin(t, next, what, rows)
        PROVE  SerialInv'
    <2>1. pc[t] = "idle" /\ pc'[t] = next /\ db' = db /\ committed' = committed
      BY <1>4, BeginReads
    <2>2. SerialOK(t)'
      BY <1>1, <2>1, RowKinds DEF SerialOK, AsCommitted
    <2> QED
      BY <1>3, <1>4, <2>2
  <1>5. ASSUME NEW next \in {"restock", "mark", "rollup"}, NEW what \in LineReq,
               Begin(t, next, what, OrderQuery(what.order)),
               ~Closed(committed[Order(what.order)]),
               \A p \in what.todo : <<committed[Line(what.order, p)].status, what.move>> \in LegalMoves,
               next = "rollup" => what.todo = {},
               what.buyer => what.move = "CANCELLED" /\ LiveLines(committed, what.order) \subseteq what.todo
        PROVE  SerialInv'
    <2>1. /\ pc[t] = "idle" /\ pc'[t] = next /\ req'[t] = what
          /\ db' = db /\ committed' = committed
          /\ \A r \in Rows : seen'[t][r] = IF r \in OrderQuery(what.order) THEN committed[r] ELSE NoRow
      BY <1>5, BeginReads
    <2>2. what.order \in OrderIds /\ what.todo \subseteq Products
      BY DEF LineReq
    <2>3. /\ \A n \in OrderIds : db'[Order(n)] = committed'[Order(n)]
          /\ \A n \in OrderIds, p \in Products : db'[Line(n, p)] = committed'[Line(n, p)]
      BY <1>1, <2>1, RowKinds
    <2>4. /\ \A p \in Products : seen'[t][Line(what.order, p)] = committed[Line(what.order, p)]
          /\ seen'[t][Order(what.order)] = committed[Order(what.order)]
      BY <2>1, <2>2, RowKinds DEF OrderQuery
    <2>5. LiveLines(db', what.order) = LiveLines(committed, what.order)
      BY <2>1, <2>2, <2>3 DEF LiveLines, LinesOf
    <2>6. MoveOK(t)'
      BY <1>5, <2>1, <2>2, <2>3, <2>4, <2>5 DEF MoveOK, AsCommitted
    <2>7. SerialOK(t)'
      BY <2>1, <2>6 DEF SerialOK
    <2> QED
      BY <1>3, <1>5, <2>7
  <1>6. ASSUME NEW c \in Clients, BeginCheckout(t, c) PROVE SerialInv'
    BY <1>4, <1>6 DEF BeginCheckout
  <1>7. ASSUME NEW o \in OrderIds, NEW p \in Products, NEW m \in VendorMoves, BeginAdvance(t, o, p, m)
        PROVE  SerialInv'
    <2>1. PICK what : what = [order |-> o, item |-> p, todo |-> {p}, move |-> m, buyer |-> FALSE]
      OBVIOUS
    <2>2. PICK next \in {"restock", "mark"} : Begin(t, next, what, OrderQuery(o))
      BY <1>7, <2>1 DEF BeginAdvance
    <2>3. /\ what \in LineReq /\ what.order = o /\ what.todo = {p} /\ what.move = m /\ ~what.buyer
      BY <2>1, OrdersAssumption DEF LineReq
    <2>4. PICK s : s = committed[Line(o, p)].status
      OBVIOUS
    <2>5. /\ committed[Line(o, p)] # NoRow /\ s \in VendorItemStatus /\ m \in VendorTransitions[s]
      BY <1>2, <1>7, <2>4 DEF BeginAdvance, LineRow
    <2>6. <<s, m>> \in LegalMoves /\ s \in {"PENDING", "CONFIRMED"}
      BY <2>5 DEF VendorTransitions, VendorItemStatus, LegalMoves
    <2>7. ~Closed(committed[Order(o)])
      <3>1. p \in LiveLines(committed, o)
        BY <2>4, <2>5, <2>6 DEF LiveLines, LinesOf
      <3>2. {q \in LiveLines(committed, o) : committed[Line(o, q)].status \in {"READY"}}
            # LiveLines(committed, o)
        BY <2>4, <2>6, <3>1
      <3> QED
        BY <3>1, <3>2 DEF SerialInv, StatusMatchesLines, RolledUp, RolledUpIn, Closed
    <2> QED
      BY <1>5, <2>2, <2>3, <2>4, <2>6, <2>7
  <1>8. ASSUME NEW o \in OrderIds, NEW p \in Products, BeginCancel(t, o, p) PROVE SerialInv'
    <2> DEFINE live == LiveLines(committed, o)
    <2>1. PICK what : what = [order |-> o, item |-> p, todo |-> live, move |-> "CANCELLED", buyer |-> TRUE]
      OBVIOUS
    <2>2. PICK next : /\ next = IF live = {} THEN "rollup" ELSE "restock"
                      /\ Begin(t, next, what, OrderQuery(o))
      BY <1>8, <2>1 DEF BeginCancel
    <2>3. what \in LineReq
      BY <2>1 DEF LineReq, VendorItemStatus, LiveLines, LinesOf
    <2>4. what.order = o /\ what.todo = live /\ what.move = "CANCELLED"
      BY <2>1
    <2>5. ~Closed(committed[Order(o)])
      BY <1>8 DEF BeginCancel, Cancellable, Closed
    <2>6. \A q \in live : <<committed[Line(o, q)].status, "CANCELLED">> \in LegalMoves
      <3> TAKE q \in live
      <3>1. PICK s : s = committed[Line(o, q)].status
        OBVIOUS
      <3>2. s \in {"PENDING", "CONFIRMED", "READY"}
        BY <1>2, <3>1 DEF LiveLines, LinesOf, LineRow, VendorItemStatus
      <3>3. <<s, "CANCELLED">> \in LegalMoves
        BY <3>2 DEF LegalMoves
      <3> QED
        BY <3>1, <3>3
    <2> HIDE DEF live
    <2>7. next \in {"restock", "rollup"} /\ (next = "rollup" => what.todo = {})
      BY <2>2, <2>4
    <2> USE DEF live
    <2> QED
      BY <1>5, <2>2, <2>3, <2>4, <2>5, <2>6, <2>7
  <1>9. ASSUME NEW p \in Products, NEW e \in Edits, BeginEdit(t, p, e) PROVE SerialInv'
    BY <1>4, <1>9 DEF BeginEdit
  <1> QED
    BY <1>6, <1>7, <1>8, <1>9 DEF Arrive

\* A lock, a restock and an edit write neither orders nor lines.
LEMMA ElsewhereSerial ==
    ASSUME OneSlot, SerialInv, NEW t \in Txns, SerialOK(t)', committed' = committed,
           \A o \in OrderIds : SameOrder(db, db', o)
    PROVE  SerialInv'
  <1>1. /\ \A o \in OrderIds : db'[Order(o)] = db[Order(o)]
        /\ \A o \in OrderIds, p \in Products : db'[Line(o, p)] = db[Line(o, p)]
    BY DEF SameOrder
  <1> QED
    BY <1>1, SerialStep DEF SerialInv, AsCommitted

LEMMA LockSerial ==
    ASSUME OrderInv, OneSlot, SerialInv, NEW t \in Txns, LockProduct(t) PROVE SerialInv'
  <1> DEFINE n == NextProduct(t)
  <1>1. /\ pc' = [pc EXCEPT ![t] = IF InBasket(t) \ Locked(t) = {n} THEN "insert" ELSE "lock"]
        /\ seen' = [seen EXCEPT ![t][Product(n)] = db[Product(n)]]
        /\ req' = req /\ db' = db /\ committed' = committed
    BY LockProductEffect DEF LockProduct, Reread
  <1> HIDE DEF n
  <1>2. pc[t] = "lock" /\ req[t].client \in Clients /\ SlotsOK
    BY DEF LockProduct, OrderInv, RequestsInv, RequestOK, CheckoutReq
  <1>3. Cart(req[t].client) \in Rows /\ Cart(req[t].client) # Product(n)
    BY <1>2, RowKinds
  <1>4. SeenCart(t)' = SeenCart(t)
    BY <1>1, <1>2, <1>3 DEF SeenCart, SlotsOK
  <1>5. InBasket(t)' = InBasket(t)
    BY <1>4 DEF InBasket, Basket
  <1>6. pc'[t] = "insert" => InBasket(t)' # {}
    <2>1. pc'[t] = "insert" => InBasket(t) \ Locked(t) = {n}
      BY <1>1, <1>2 DEF SlotsOK
    <2>2. InBasket(t) \ Locked(t) = {n} => InBasket(t) # {}
      OBVIOUS
    <2> QED
      BY <1>5, <2>1, <2>2
  <1>7. pc'[t] \in {"lock", "insert"}
    BY <1>1, <1>2 DEF SlotsOK
  <1>8. /\ \A o \in OrderIds : AsCommitted(Order(o))
        /\ \A o \in OrderIds, p \in Products : AsCommitted(Line(o, p))
    BY <1>2 DEF SerialInv, SerialOK
  <1>9. SerialOK(t)'
    BY <1>1, <1>6, <1>7, <1>8 DEF SerialOK, AsCommitted
  <1> QED
    BY <1>1, <1>9, ElsewhereSerial DEF SameOrder

LEMMA NumberSerial ==
    ASSUME OrderInv, OneSlot, SerialInv, NEW t \in Txns, TakesNumber(t) PROVE SerialInv'
  <1>1. /\ pc[t] \in {"insert", "queue"} /\ pc'[t] \in {"queue", "place"}
        /\ UNCHANGED <<db, committed, req, seen>>
    BY TakesNumberEffect
  <1>2. InBasket(t)' = InBasket(t)
    BY <1>1 DEF InBasket, Basket, SeenCart
  <1>3. SerialOK(t)'
    BY <1>1, <1>2 DEF SerialInv, SerialOK, AsCommitted
  <1> QED
    BY <1>1, <1>3, ElsewhereSerial DEF SameOrder

\* A new order starts with all its lines, and PENDING like them.
LEMMA PlaceSerial ==
    ASSUME OrderInv, OneSlot, SerialInv, NEW t \in Txns, PlaceOrder(t) PROVE SerialInv'
  <1>1. PICK o \in Unused : Places(t, o)
    BY PlaceOrderEffect
  <1>2. /\ pc[t] = "place" /\ pc'[t] = "commit" /\ StoreInv /\ SerialOK(t)
    BY DEF PlaceOrder, Finish, OrderInv, RequestsInv, SlotsOK, SerialInv
  <1>3. /\ o \in OrderIds /\ committed' = committed /\ db[Order(o)] = NoRow /\ committed[Order(o)] = NoRow
        /\ InBasket(t) # {} /\ InBasket(t) \subseteq Products
    BY <1>1, <1>2 DEF Places, Unused, SerialOK, InBasket
  <1>4. \A p \in Products : db[Line(o, p)] = NoRow /\ committed[Line(o, p)] = NoRow
    BY <1>2, <1>3 DEF StoreInv, LinesHaveOrders
  <1>5. \A n \in OrderIds \ {o} : SameOrder(committed, db', n)
    <2> TAKE n \in OrderIds \ {o}
    <2>1. db'[Order(n)] = db[Order(n)] /\ \A p \in Products : db'[Line(n, p)] = db[Line(n, p)]
      BY <1>1, RowKinds DEF Places
    <2> QED
      BY <1>2, <2>1 DEF SerialOK, AsCommitted, SameOrder
  <1>6. /\ db'[Order(o)] = [client |-> req[t].client, status |-> "PENDING"]
        /\ \A p \in InBasket(t) : db'[Line(o, p)] = [qty |-> Basket(t)[p], status |-> "PENDING"]
        /\ \A p \in Products \ InBasket(t) : db'[Line(o, p)] = NoRow
    BY <1>1, <1>4, RowKinds DEF Places
  <1>7. \A p \in InBasket(t) : db'[Line(o, p)].status = "PENDING" /\ db'[Line(o, p)] # NoRow
    <2> TAKE p \in InBasket(t)
    <2>1. CheckoutReads(t) /\ p \in Products
      BY <1>2, <1>3 DEF OrderInv, RequestsInv, RequestOK
    <2>2. Basket(t)[p] \in Nat
      BY <2>1 DEF CheckoutReads, Basket, CartRow, Item
    <2>3. [qty |-> Basket(t)[p], status |-> "PENDING"] \in LineRow
      BY <2>2 DEF LineRow, VendorItemStatus
    <2> QED
      BY <1>6, <2>3, NoRowIsNoValue
  <1>8. RolledUpIn(db', o)
    <2>1. LinesOf(db', o) = InBasket(t)
      BY <1>3, <1>6, <1>7 DEF LinesOf
    <2>2. LiveLines(db', o) = InBasket(t)
      BY <1>7, <2>1 DEF LiveLines
    <2>3. {db'[Line(o, p)].status : p \in LiveLines(db', o)} = {"PENDING"}
      BY <1>3, <1>7, <2>2
    <2>4. RollUpStatus(db', o) = "PENDING"
      BY <2>3 DEF RollUpStatus
    <2>5. db'[Order(o)].status = "PENDING"
      BY <1>6
    <2> QED
      BY <1>7, <2>1, <2>4, <2>5, RollUpRolls DEF VendorItemStatus
  <1>9. \A n \in OrderIds : RolledUpIn(db', n)
    <2>1. \A n \in OrderIds : RolledUpIn(committed, n)
      BY DEF SerialInv, StatusMatchesLines, RolledUp
    <2> QED
      BY <1>5, <1>8, <2>1, RolledUpSame
  <1>10. SerialOK(t)'
    BY <1>2, <1>9 DEF SerialOK
  <1>11. \A n \in OrderIds : Closed(committed[Order(n)]) => db'[Order(n)] = committed[Order(n)]
    BY <1>3, <1>5 DEF SameOrder, Closed
  <1>12. \A n \in OrderIds, p \in Products : Follows(committed[Line(n, p)], db'[Line(n, p)])
    BY <1>4, <1>5, <1>6, <1>7 DEF SameOrder, Follows
  <1> QED
    BY <1>3, <1>10, <1>11, <1>12, SerialStep

LEMMA RestockSerial ==
    ASSUME OrderInv, OneSlot, SerialInv, NEW t \in Txns, Restock(t) PROVE SerialInv'
  <1>1. /\ pc[t] = "restock" /\ pc'[t] = "mark" /\ req' = req /\ seen' = seen /\ SerialOK(t)
        /\ req[t].order \in OrderIds /\ req[t].todo \subseteq Products
    BY DEF Restock, OrderInv, RequestsInv, SlotsOK, SerialInv, RequestOK, LineReq
  <1>2. PICK row : WritesOne(t, Product(req[t].item), row) /\ committed' = committed
    BY RestockEffect
  <1>3. \A o \in OrderIds : SameOrder(db, db', o)
    BY <1>2, RowKinds DEF WritesOne, SameOrder
  <1>4. LiveLines(db', req[t].order) = LiveLines(db, req[t].order)
    BY <1>1, <1>3 DEF SameOrder, LiveLines, LinesOf
  <1>5. /\ \A n \in OrderIds : db'[Order(n)] = db[Order(n)]
        /\ \A n \in OrderIds, p \in Products : db'[Line(n, p)] = db[Line(n, p)]
    BY <1>3 DEF SameOrder
  <1>6. MoveOK(t)'
    BY <1>1, <1>2, <1>4, <1>5 DEF SerialOK, MoveOK, AsCommitted
  <1>7. SerialOK(t)'
    BY <1>1, <1>6 DEF SerialOK
  <1> QED
    BY <1>2, <1>3, <1>7, ElsewhereSerial

\* A line that is still to be moved is as it was committed, so it follows on that.
LEMMA MarkSerial ==
    ASSUME OrderInv, OneSlot, SerialInv, NEW t \in Txns, Mark(t) PROVE SerialInv'
  <1> DEFINE o == req[t].order
             p == req[t].item
             r == Line(o, p)
  <1>1. /\ pc[t] = "mark" /\ SlotsOK /\ StoreInv /\ SerialOK(t) /\ MoveOK(t)
        /\ req[t] \in LineReq /\ LineReads(t)
    BY DEF Mark, OrderInv, RequestsInv, SerialInv, SerialOK, RequestOK
  <1>2. PICK what \in LineReq :
            /\ req' = [req EXCEPT ![t] = what]
            /\ what.order = o /\ what.todo = req[t].todo \ {p}
            /\ what.move = req[t].move /\ what.buyer = req[t].buyer
    BY <1>1, MarkRequest
  <1>3. PICK row : /\ row = [db[r] EXCEPT !.status = req[t].move]
                   /\ WritesOne(t, r, row) /\ committed' = committed
    BY MarkEffect
  <1>4. /\ seen' = [seen EXCEPT ![t][r].status = req[t].move]
        /\ pc'[t] = IF what.todo = {} THEN "rollup" ELSE "restock"
    BY <1>1, <1>2 DEF Mark, SlotsOK
  <1>5. /\ o \in OrderIds /\ p \in Products /\ p \in req[t].todo /\ r \in Rows
        /\ req[t].todo \subseteq Products
        /\ committed[r] # NoRow /\ committed[r] \in LineRow /\ db[r] = committed[r]
        /\ <<committed[r].status, req[t].move>> \in LegalMoves
        /\ seen[t][r] = db[r]
    BY <1>1, RowKinds DEF LineReq, LineReads, MoveOK, AsCommitted, StoreInv, RowsOK
  <1>6. row = [qty |-> committed[r].qty, status |-> req[t].move]
    BY <1>3, <1>5 DEF LineRow
  <1>7. /\ seen'[t][r] = row
        /\ \A x \in Rows \ {r} : seen'[t][x] = seen[t][x]
    BY <1>1, <1>3, <1>4, <1>5 DEF SlotsOK
  <1>8. req'[t] = what
    BY <1>1, <1>2 DEF SlotsOK
  <1>9. /\ db'[r] = row /\ \A x \in Rows \ {r} : db'[x] = db[x]
    BY <1>3, <1>5 DEF WritesOne
  <1> HIDE DEF r
  <1>10. /\ \A n \in OrderIds : db'[Order(n)] = db[Order(n)]
         /\ \A n \in OrderIds \ {o}, q \in Products : db'[Line(n, q)] = db[Line(n, q)]
         /\ \A q \in Products \ {p} : /\ db'[Line(o, q)] = db[Line(o, q)]
                                      /\ seen'[t][Line(o, q)] = seen[t][Line(o, q)]
         /\ seen'[t][Order(o)] = seen[t][Order(o)]
    BY <1>5, <1>7, <1>9, RowKinds DEF r
  <1>11. db'[Line(o, p)] = row /\ seen'[t][Line(o, p)] = row
    BY <1>7, <1>9 DEF r
  <1>12. \A q \in Products : seen'[t][Line(o, q)] = db'[Line(o, q)]
    BY <1>1, <1>10, <1>11 DEF MoveOK
  <1>13. req[t].buyer => LiveLines(db', o) \subseteq req[t].todo \ {p}
    <2> SUFFICES ASSUME req[t].buyer, NEW q \in LiveLines(db', o) PROVE q \in req[t].todo \ {p}
      OBVIOUS
    <2>1. q \in Products /\ db'[Line(o, q)] # NoRow /\ db'[Line(o, q)].status # "CANCELLED"
      BY DEF LiveLines, LinesOf
    <2>2. req[t].move = "CANCELLED" /\ LiveLines(db, o) \subseteq req[t].todo
      BY <1>1 DEF MoveOK
    <2>3. q # p
      BY <1>6, <1>11, <2>1, <2>2
    <2>4. q \in LiveLines(db, o)
      BY <1>10, <2>1, <2>3 DEF LiveLines, LinesOf
    <2> QED
      BY <2>2, <2>3, <2>4
  <1>14. MoveOK(t)'
    <2>1. /\ \A n \in OrderIds : db'[Order(n)] = committed'[Order(n)]
          /\ \A n \in OrderIds \ {o}, q \in Products : db'[Line(n, q)] = committed'[Line(n, q)]
      BY <1>1, <1>3, <1>10 DEF MoveOK, AsCommitted
    <2>2. seen'[t][Order(o)] = committed'[Order(o)] /\ ~Closed(committed'[Order(o)])
      BY <1>1, <1>3, <1>10 DEF MoveOK
    <2>3. \A q \in what.todo : /\ db'[Line(o, q)] = committed'[Line(o, q)]
                               /\ <<committed'[Line(o, q)].status, what.move>> \in LegalMoves
      BY <1>1, <1>2, <1>3, <1>5, <1>10 DEF MoveOK, AsCommitted
    <2>4. pc'[t] = "rollup" => what.todo = {}
      BY <1>4
    <2>5. what.buyer => what.move = "CANCELLED" /\ LiveLines(db', o) \subseteq what.todo
      BY <1>1, <1>2, <1>13 DEF MoveOK
    <2> HIDE DEF o
    <2> QED
      BY <1>2, <1>8, <1>12, <2>1, <2>2, <2>3, <2>4, <2>5 DEF MoveOK, AsCommitted
  <1>15. SerialOK(t)'
    BY <1>4, <1>14 DEF SerialOK
  <1>16. \A n \in OrderIds : Closed(committed[Order(n)]) => db'[Order(n)] = committed[Order(n)]
    BY <1>10 DEF SerialInv, AsCommitted
  <1>17. \A n \in OrderIds, q \in Products : Follows(committed[Line(n, q)], db'[Line(n, q)])
    <2> TAKE n \in OrderIds, q \in Products
    <2>1. CASE n = o /\ q = p
      <3>1. row.qty = committed[r].qty /\ row.status = req[t].move
        BY <1>6
      <3>2. Follows(committed[r], row)
        BY <1>5, <3>1 DEF Follows
      <3> QED
        BY <1>11, <2>1, <3>2 DEF r
    <2>2. CASE ~(n = o /\ q = p)
      BY <1>10, <2>2 DEF SerialInv
    <2> QED
      BY <2>1, <2>2
  <1> QED
    BY <1>3, <1>15, <1>16, <1>17, SerialStep

\* The roll-up sees the lines as they will be committed, and gives the order the
\* status they call for; a cancellation has left none of them live.
LEMMA RollUpSerial ==
    ASSUME OrderInv, OneSlot, SerialInv, NEW t \in Txns, SetOrderStatus(t) PROVE SerialInv'
  <1> DEFINE o == req[t].order
             r == Order(o)
  <1>1. /\ pc[t] = "rollup" /\ pc'[t] = "commit" /\ StoreInv /\ MoveOK(t)
        /\ req[t] \in LineReq /\ LineReads(t)
    BY DEF SetOrderStatus, Finish, OrderInv, RequestsInv, SlotsOK, SerialInv, SerialOK, RequestOK
  <1>2. /\ o \in OrderIds /\ r \in Rows /\ committed[r] # NoRow /\ committed[r] \in OrderRow
        /\ db[r] = committed[r] /\ seen[t][r] = committed[r] /\ ~Closed(committed[r])
        /\ req[t].todo = {}
    BY <1>1, RowKinds DEF LineReq, LineReads, MoveOK, AsCommitted, StoreInv, RowsOK
  <1>3. NewOrderStatus(t) = RollUpStatus(db, o)
    <2>1. LiveLines(seen[t], o) = LiveLines(db, o) /\ LiveLines(db, o) \subseteq Products
      BY <1>1 DEF MoveOK, LiveLines, LinesOf
    <2>2. {seen[t][Line(o, p)].status : p \in LiveLines(seen[t], o)}
          = {db[Line(o, p)].status : p \in LiveLines(db, o)}
      BY <1>1, <2>1 DEF MoveOK
    <2>3. RollUpStatus(seen[t], o) = RollUpStatus(db, o)
      BY <2>2 DEF RollUpStatus
    <2>4. req[t].buyer => LiveLines(db, o) = {}
      BY <1>1, <1>2 DEF MoveOK
    <2>5. req[t].buyer => RollUpStatus(db, o) = "CANCELLED"
      BY <2>4 DEF RollUpStatus
    <2> QED
      BY <2>3, <2>5 DEF NewOrderStatus
  <1>4. /\ committed' = committed
        /\ \A x \in Rows \ {r} : db'[x] = db[x]
        /\ db'[r].status = NewOrderStatus(t)
    <2>1. CASE OrderDiffers(t)
      <3>1. WritesOne(t, r, [db[r] EXCEPT !.status = NewOrderStatus(t)]) /\ committed' = committed
        BY <2>1, SetOrderStatusEffect
      <3>2. [db[r] EXCEPT !.status = NewOrderStatus(t)].status = NewOrderStatus(t)
        BY <1>2 DEF OrderRow
      <3> QED
        BY <1>2, <3>1, <3>2 DEF WritesOne
    <2>2. CASE ~OrderDiffers(t)
      <3>1. db' = db /\ committed' = committed
        BY <2>2, SetOrderStatusEffect
      <3> QED
        BY <1>2, <2>2, <3>1 DEF OrderDiffers
    <2> QED
      BY <2>1, <2>2
  <1> HIDE DEF r
  <1>5. /\ \A n \in OrderIds \ {o} : db'[Order(n)] = db[Order(n)]
        /\ \A n \in OrderIds, p \in Products : db'[Line(n, p)] = db[Line(n, p)]
    BY <1>4, RowKinds DEF r
  <1>6. \A n \in OrderIds : RolledUpIn(db', n)
    <2> TAKE n \in OrderIds
    <2>1. CASE n = o
      <3>1. LiveLines(db', o) = LiveLines(db, o) /\ LinesOf(db', o) = LinesOf(db, o)
            /\ LiveLines(db, o) \subseteq Products /\ LinesOf(db, o) \subseteq Products
        BY <1>2, <1>5 DEF LiveLines, LinesOf
      <3>2. {db'[Line(o, p)].status : p \in LiveLines(db', o)}
            = {db[Line(o, p)].status : p \in LiveLines(db, o)}
        BY <1>2, <1>5, <3>1
      <3>3. RollUpStatus(db', o) = RollUpStatus(db, o)
        BY <3>2 DEF RollUpStatus
      <3>4. \A p \in LinesOf(db', o) : db'[Line(o, p)].status \in VendorItemStatus
        BY <1>1, <1>2, <1>5, <3>1 DEF LinesOf, StoreInv, RowsOK, LineRow
      <3>5. db'[Order(o)].status = RollUpStatus(db', o)
        BY <1>3, <1>4, <3>3 DEF r
      <3> QED
        BY <2>1, <3>4, <3>5, RollUpRolls
    <2>2. CASE n # o
      <3>1. SameOrder(committed, db', n)
        BY <1>1, <1>5, <2>2 DEF MoveOK, AsCommitted, SameOrder
      <3>2. RolledUpIn(committed, n)
        BY DEF SerialInv, StatusMatchesLines, RolledUp
      <3> QED
        BY <3>1, <3>2, RolledUpSame
    <2> QED
      BY <2>1, <2>2
  <1>7. SerialOK(t)'
    BY <1>1, <1>6 DEF SerialOK
  <1>8. \A n \in OrderIds : Closed(committed[Order(n)]) => db'[Order(n)] = committed[Order(n)]
    BY <1>2, <1>5 DEF SerialInv, AsCommitted, r
  <1>9. \A n \in OrderIds, p \in Products : Follows(committed[Line(n, p)], db'[Line(n, p)])
    BY <1>5 DEF SerialInv
  <1> QED
    BY <1>4, <1>7, <1>8, <1>9, SerialStep

LEMMA EditSerial ==
    ASSUME OrderInv, OneSlot, SerialInv, NEW t \in Txns, EditProduct(t) PROVE SerialInv'
  <1>1. pc[t] = "edit" /\ pc'[t] = "commit" /\ SerialOK(t)
    BY DEF EditProduct, Finish, OrderInv, RequestsInv, SlotsOK, SerialInv
  <1>2. PICK row : WritesOne(t, Product(req[t].item), row) /\ committed' = committed
    BY EditProductEffect
  <1>3. \A o \in OrderIds : SameOrder(db, db', o)
    BY <1>2, RowKinds DEF WritesOne, SameOrder
  <1>4. \A o \in OrderIds : SameOrder(committed, db', o)
    BY <1>1, <1>3 DEF SerialOK, AsCommitted, SameOrder
  <1>5. \A o \in OrderIds : RolledUpIn(db', o)
    <2>1. \A o \in OrderIds : RolledUpIn(committed, o)
      BY DEF SerialInv, StatusMatchesLines, RolledUp
    <2> QED
      BY <1>4, <2>1, RolledUpSame
  <1>6. SerialOK(t)'
    BY <1>1, <1>5 DEF SerialOK
  <1> QED
    BY <1>2, <1>3, <1>6, ElsewhereSerial

LEMMA CommitSerial ==
    ASSUME OrderInv, OneSlot, SerialInv, NEW t \in Txns, Commit(t) PROVE SerialInv'
  <1>1. /\ \A r \in Rows : committed'[r] = db[r] /\ db'[r] = db[r]
        /\ pc[t] = "commit" /\ pc'[t] = "idle"
    BY OneCommits
  <1>2. \A o \in OrderIds : RolledUpIn(committed', o)
    <2>1. \A o \in OrderIds : RolledUpIn(db, o) /\ SameOrder(db, committed', o)
      BY <1>1, SameRowsSameOrder DEF SerialInv, SerialOK
    <2> QED
      BY <2>1, RolledUpSame
  <1>3. /\ \A o \in OrderIds : db'[Order(o)] = committed'[Order(o)]
        /\ \A o \in OrderIds, p \in Products : db'[Line(o, p)] = committed'[Line(o, p)]
    BY <1>1, RowKinds
  <1>4. \A u \in Txns : SerialOK(u)'
    BY <1>1 DEF OneSlot, SerialOK
  <1> QED
    BY <1>2, <1>3, <1>4 DEF SerialInv, StatusMatchesLines, RolledUp, AsCommitted, Follows

LEMMA RollbackSerial ==
    ASSUME OrderInv, OneSlot, SerialInv, NEW t \in Txns, Rollback(t) PROVE SerialInv'
  <1>1. /\ \A r \in Rows : committed'[r] = committed[r] /\ db'[r] = committed[r]
        /\ pc'[t] = "idle"
    BY OneRollsBack
  <1>2. \A o \in OrderIds : RolledUpIn(committed', o)
    <2>1. \A o \in OrderIds : RolledUpIn(committed, o) /\ SameOrder(committed, committed', o)
      BY <1>1, SameRowsSameOrder DEF SerialInv, StatusMatchesLines, RolledUp
    <2> QED
      BY <2>1, RolledUpSame
  <1>3. /\ \A o \in OrderIds : db'[Order(o)] = committed'[Order(o)]
        /\ \A o \in OrderIds, p \in Products : db'[Line(o, p)] = committed'[Line(o, p)]
    BY <1>1, RowKinds
  <1>4. \A u \in Txns : SerialOK(u)'
    BY <1>1 DEF OneSlot, SerialOK
  <1> QED
    BY <1>2, <1>3, <1>4 DEF SerialInv, StatusMatchesLines, RolledUp, AsCommitted, Follows

LEMMA NextSerial == ASSUME OrderInv, OneSlot, SerialInv, Next PROVE SerialInv'
  <1> PICK t \in Txns : Arrive(t) \/ Step(t) \/ Abort(t) \/ DeadlockVictim(t)
    BY DEF Next
  <1> QED
    BY ArriveSerial, LockSerial, NumberSerial, PlaceSerial, RestockSerial, MarkSerial, RollUpSerial,
       EditSerial, CommitSerial, RollbackSerial
       DEF Step, Serve, RefuseCheckout, Abort, DeadlockVictim, TakesNumber

LEMMA SerialInitially == Init => SerialInv
  <1> SUFFICES ASSUME Init PROVE SerialInv
    OBVIOUS
  <1>1. db = InitialRows /\ committed = InitialRows
    BY DEF Init, InitStore, InitialRows
  <1>2. \A o \in OrderIds : InitialRows[Order(o)] = NoRow
    BY RowKinds DEF InitialRows, Order
  <1> QED
    BY <1>1, <1>2 DEF Init, SerialInv, SerialOK, StatusMatchesLines, RolledUp, RolledUpIn, AsCommitted, Follows

-----------------------------------------------------------------------------
(* A step that changes nothing. *)

LEMMA HonestStutters ==
    ASSUME HonestInv, UNCHANGED <<db, committed, pc, req, seen>> PROVE HonestInv'
  BY DEF HonestInv, EditReads

LEMMA BooksStutter ==
    ASSUME BooksInv, UNCHANGED <<db, committed, pc, req, seen>> PROVE BooksInv'
  <1>1. \A c \in Clients, p \in Products : InBooks(committed, c, p)' /\ InBooks(db, c, p)'
    <2>1. SameBooks(committed, committed') /\ SameBooks(db, db')
      BY SameRows
    <2> QED
      BY <2>1, BooksSame DEF BooksInv
  <1>2. \A t \in Txns : CartReads(t)'
    BY DEF BooksInv, CartReads, SeenCart
  <1> QED
    BY <1>1, <1>2 DEF BooksInv

LEMMA SerialStutters ==
    ASSUME OneSlot, SerialInv, UNCHANGED <<db, committed, pc, req, seen>> PROVE SerialInv'
  <1>1. ASSUME NEW t \in Txns PROVE SerialOK(t)'
    <2>1. SerialOK(t)
      BY DEF SerialInv
    <2>2. InBasket(t)' = InBasket(t)
      BY DEF InBasket, Basket, SeenCart
    <2>3. MoveOK(t) => MoveOK(t)'
      <3>1. LiveLines(db, req[t].order)' = LiveLines(db, req[t].order)
        BY DEF LiveLines, LinesOf
      <3> QED
        BY <3>1 DEF MoveOK, AsCommitted
    <2>4. \A o \in OrderIds : SameOrder(db, db', o)
      BY DEF SameOrder
    <2>5. \A o \in OrderIds : RolledUpIn(db, o) => RolledUpIn(db, o)'
      BY <2>4, RolledUpSame
    <2> QED
      BY <2>1, <2>2, <2>3, <2>5 DEF SerialOK, AsCommitted
  <1>2. StatusMatchesLines'
    <2>1. \A o \in OrderIds : SameOrder(committed, committed', o)
      BY DEF SameOrder
    <2> QED
      BY <2>1, RolledUpSame DEF SerialInv, StatusMatchesLines, RolledUp
  <1> QED
    BY <1>1, <1>2 DEF SerialInv, AsCommitted

-----------------------------------------------------------------------------
(* What a step makes of the committed orders. *)

LEMMA OrdersMove ==
    ASSUME OrderInv, OneSlot, SerialInv, [Next]_vars
    PROVE  /\ \A o \in OrderIds, p \in Products : Follows(committed[Line(o, p)], committed'[Line(o, p)])
           /\ \A o \in OrderIds : Closed(committed[Order(o)]) => committed'[Order(o)] = committed[Order(o)]
  <1>1. ASSUME \A r \in Rows : committed'[r] = committed[r]
        PROVE  /\ \A o \in OrderIds, p \in Products : committed'[Line(o, p)] = committed[Line(o, p)]
               /\ \A o \in OrderIds : committed'[Order(o)] = committed[Order(o)]
    BY <1>1, RowKinds
  <1>2. ASSUME NEW t \in Txns, Commit(t)
        PROVE  /\ \A o \in OrderIds, p \in Products : committed'[Line(o, p)] = db[Line(o, p)]
               /\ \A o \in OrderIds : committed'[Order(o)] = db[Order(o)]
    BY <1>2, OneCommits, RowKinds
  <1>3. CASE \E t \in Txns : Commit(t)
    BY <1>2, <1>3 DEF SerialInv, AsCommitted
  <1>4. CASE ~ \E t \in Txns : Commit(t)
    <2>1. \A r \in Rows : committed'[r] = committed[r]
      <3>1. ASSUME NEW t \in Txns, Arrive(t) PROVE committed' = committed
        BY <3>1 DEF Arrive, BeginCheckout, BeginAdvance, BeginCancel, BeginEdit, Begin
      <3>2. ASSUME NEW t \in Txns, Works(t) PROVE committed' = committed
        BY <3>2, WorksOnOrders
      <3>3. ASSUME NEW t \in Txns, Rollback(t) PROVE \A r \in Rows : committed'[r] = committed[r]
        BY <3>3, OneRollsBack
      <3>4. CASE UNCHANGED vars
        BY <3>4 DEF vars
      <3>5. CASE Next
        BY <1>4, <3>1, <3>2, <3>3, <3>5
           DEF Next, Step, Serve, RefuseCheckout, Abort, DeadlockVictim, Works, TakesNumber
      <3> QED
        BY <3>4, <3>5
    <2> QED
      BY <1>1, <2>1 DEF Follows
  <1> QED
    BY <1>3, <1>4

\* Nor does a product change for readers but when a request that holds it commits.
LEMMA ProductsMove ==
    ASSUME OrderInv, HonestInv, [Next]_vars, NEW p \in Products, HonestRow(committed[Product(p)])
    PROVE  HonestRow(committed'[Product(p)])
  <1>1. HonestRow(db[Product(p)]) /\ Product(p) \in Rows
    BY RowKinds DEF HonestInv
  <1>2. ASSUME NEW t \in Txns, Commit(t) PROVE committed'[Product(p)] \in {committed[Product(p)], db[Product(p)]}
    <2>1. \A r \in Rows : committed'[r] = IF owner[r] = t THEN db[r] ELSE committed[r]
      BY <1>2, RowsStored, CommitEffect DEF Commit, OrderInv
    <2> QED
      BY <1>1, <2>1
  <1>3. ASSUME NEW t \in Txns, Arrive(t) \/ Works(t) \/ Rollback(t) PROVE committed' = committed
    <2>1. CASE Arrive(t)
      BY <2>1 DEF Arrive, BeginCheckout, BeginAdvance, BeginCancel, BeginEdit, Begin
    <2>2. CASE Works(t)
      BY <2>2, WorksOnOrders
    <2>3. CASE Rollback(t)
      BY <2>3 DEF Rollback, RollbackTxn
    <2> QED
      BY <1>3, <2>1, <2>2, <2>3
  <1>4. CASE Next
    BY <1>1, <1>2, <1>3, <1>4
       DEF Next, Step, Serve, RefuseCheckout, Abort, DeadlockVictim, Works, TakesNumber
  <1>5. CASE UNCHANGED vars
    BY <1>5 DEF vars
  <1> QED
    BY <1>4, <1>5

LEMMA SerialKeeps ==
    ASSUME OneSlot, OrderInv, SerialInv, [Next]_vars PROVE OrderInv' /\ SerialInv'
  BY NextKeeps, NextSerial, StutterKeeps, SerialStutters DEF vars

-----------------------------------------------------------------------------
(* The theorems of one request at a time: a second one between a plain read  *)
(* and the write that rests on it breaks what they claim.                    *)

\* A product whose status agrees with its stock keeps them in agreement, if requests
\* do not overlap or no vendor edits products: checkouts and restocks racing each
\* other keep status and stock in line under the row lock, whatever their number.
\* (A vendor may create a product that is ACTIVE and has no units.)
THEOREM StatusStaysHonest == ASSUME OneSlot \/ Edits = {} PROVE Spec => StaysHonest
  <1>1. Init => OrderInv /\ HonestInv
    BY Initially, HonestInitially
  <1>2. OrderInv /\ HonestInv /\ [Next]_vars => OrderInv' /\ HonestInv'
    BY NextKeeps, NextHonest, StutterKeeps, HonestStutters DEF vars
  <1>3. OrderInv /\ HonestInv /\ [Next]_vars =>
            [\A p \in Products : HonestRow(committed[Product(p)]) => HonestRow(committed'[Product(p)])]_vars
    BY ProductsMove
  <1> QED
    BY <1>1, <1>2, <1>3, PTL DEF Spec, StaysHonest

\* Without overlap, no client is sold more than the cart held: the checkout that
\* follows finds the lines gone.
THEOREM CartsAreSoldOnce == ASSUME OneSlot PROVE Spec => []CartSoldOnce
  <1>1. Init => OrderInv /\ BooksInv
    BY Initially, BooksInitially
  <1>2. OrderInv /\ BooksInv /\ [Next]_vars => OrderInv' /\ BooksInv'
    BY NextKeeps, NextBooks, StutterKeeps, BooksStutter DEF vars
  <1>3. OrderInv /\ BooksInv => CartSoldOnce
    BY BooksAreKept DEF OrderInv
  <1> QED
    BY <1>1, <1>2, <1>3, PTL DEF Spec

\* Without overlap, an order of any number of lines has the status its vendors'
\* lines roll up to.
THEOREM StatusFollowsLines == ASSUME OneSlot PROVE Spec => []StatusMatchesLines
  <1>1. Init => OrderInv /\ SerialInv
    BY Initially, SerialInitially
  <1>2. OrderInv /\ SerialInv /\ [Next]_vars => OrderInv' /\ SerialInv'
    BY SerialKeeps
  <1>3. SerialInv => StatusMatchesLines
    BY DEF SerialInv
  <1> QED
    BY <1>1, <1>2, <1>3, PTL DEF Spec

\* Without overlap, a line moves only as the table of transitions allows, keeps
\* its quantity, and once cancelled is not revived.
THEOREM LinesMoveLegally == ASSUME OneSlot PROVE Spec => LineLifecycle
  <1>1. Init => OrderInv /\ SerialInv
    BY Initially, SerialInitially
  <1>2. OrderInv /\ SerialInv /\ [Next]_vars => OrderInv' /\ SerialInv'
    BY SerialKeeps
  <1>3. OrderInv /\ SerialInv /\ [Next]_vars =>
            [\A o \in OrderIds, p \in Products : Follows(committed[Line(o, p)], committed'[Line(o, p)])]_vars
    BY OrdersMove
  <1> QED
    BY <1>1, <1>2, <1>3, PTL DEF Spec, LineLifecycle

\* Without overlap, an order that was cancelled or fulfilled is not opened again.
THEOREM ClosedOrdersStay == ASSUME OneSlot PROVE Spec => ClosedStaysClosed
  <1>1. Init => OrderInv /\ SerialInv
    BY Initially, SerialInitially
  <1>2. OrderInv /\ SerialInv /\ [Next]_vars => OrderInv' /\ SerialInv'
    BY SerialKeeps
  <1>3. OrderInv /\ SerialInv /\ [Next]_vars =>
            [\A o \in OrderIds : Closed(committed[Order(o)]) => committed'[Order(o)] = committed[Order(o)]]_vars
    BY OrdersMove
  <1> QED
    BY <1>1, <1>2, <1>3, PTL DEF Spec, ClosedStaysClosed
=============================================================================
