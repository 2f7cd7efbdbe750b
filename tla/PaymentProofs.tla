---------------------------- MODULE PaymentProofs ----------------------------
(***************************************************************************)
(* The safety properties of Payments, for all orders, attempts, vendors,   *)
(* numbers of slots and of faults; and what Orders promises, beside them.  *)
(***************************************************************************)
EXTENDS PaymentProperties, OrderProofs

-----------------------------------------------------------------------------
(* What a step of one slot leaves alone. *)

\* Notifications of different kinds are different.
LEMMA NewsKinds ==
    /\ \A k, o, v : Confirmed(k) # Announced(o, v) /\ Confirmed(k) # PaidTo(o, v)
    /\ \A k, o, p, s : Confirmed(k) # Moved(o, p, s) /\ Confirmed(k) # CalledOff(o, p)
    /\ \A k, o, v : Failed(k) # Announced(o, v) /\ Failed(k) # PaidTo(o, v)
    /\ \A k, o, p, s : Failed(k) # Moved(o, p, s) /\ Failed(k) # CalledOff(o, p)
    /\ \A o, v, n, w : PaidTo(o, v) # Announced(n, w)
    /\ \A o, v, n, p, s : PaidTo(o, v) # Moved(n, p, s) /\ PaidTo(o, v) # CalledOff(n, p)
    /\ \A o, v, n, p, s : Announced(o, v) # Moved(n, p, s) /\ Announced(o, v) # CalledOff(n, p)
    /\ \A j, k : Confirmed(j) # Failed(k)
    /\ \A j, k : Confirmed(j) = Confirmed(k) => j = k
    /\ \A j, k : Failed(j) = Failed(k) => j = k
    /\ \A o, v, n, w : PaidTo(o, v) = PaidTo(n, w) => o = n /\ v = w
  BY DEF Confirmed, Announced, PaidTo, Failed, Moved, CalledOff

\* The slots other than t, and the rows they hold.
Apart(t) ==
    /\ OthersUntouched(t)
    /\ Others(Rows, t)
    /\ \A u \in Txns \ {t} : outbox'[u] = outbox[u] /\ delivery'[u] = delivery[u]

\* What is committed of attempts and orders stays: their existence, the order
\* of an attempt, the lines of an order.
Lasting ==
    /\ \A k \in PaymentIds : PaymentOf(k) # NoRow =>
          PaymentOf(k)' # NoRow /\ PaymentOf(k)'.order = PaymentOf(k).order
    /\ \A o \in OrderIds : committed[Order(o)] # NoRow =>
          committed'[Order(o)] # NoRow /\ LinesOf(committed, o)' = LinesOf(committed, o)
    /\ \A k \in PaymentIds : gateway[k] = "short" => gateway'[k] = "short"

\* A request that is not at the end of an attempt holds none and tells of none.
LEMMA HoldsNone ==
    ASSUME PayInv, NEW t \in Txns, pc[t] \notin {"initialise", "verify", "commit"}, NEW k \in PaymentIds
    PROVE  /\ owner[Payment(k)] # t /\ ~Settles(t, k)
           /\ Confirmed(k) \notin outbox[t] /\ Failed(k) \notin outbox[t]
           /\ \A o \in OrderIds, v \in Vendors : PaidTo(o, v) \notin outbox[t]
  <1>1. HolderOK(k) /\ TellsTrue(t) /\ \A j \in PaymentIds : HolderOK(j)
    BY DEF PayInv
  <1>2. \A j \in PaymentIds : owner[Payment(j)] # t /\ ~Settles(t, j)
    BY <1>1 DEF HolderOK, Settles
  <1> QED
    BY <1>1, <1>2 DEF TellsTrue

LEMMA OthersPay ==
    ASSUME OrderInv, PayInv, NEW t \in Txns, NEW u \in Txns \ {t}, Apart(t), Lasting
    PROVE  PayRequestOK(u)' /\ TellsTrue(u)'
  <1>1. /\ pc'[u] = pc[u] /\ req'[u] = req[u] /\ seen'[u] = seen[u]
        /\ outbox'[u] = outbox[u] /\ delivery'[u] = delivery[u] /\ u \in Txns
    BY DEF Apart, OthersUntouched
  <1>2. PayRequestOK(u) /\ TellsTrue(u) /\ \A k \in PaymentIds : Accounted(k)
    BY DEF PayInv
  <1>3. ASSUME NEW r \in Rows
        PROVE  /\ owner'[r] = u <=> owner[r] = u
               /\ owner[r] = u => db'[r] = db[r] /\ committed'[r] = committed[r]
    BY NobodyIsNoTxn DEF Apart, Others
  <1>4. PayRequestOK(u)'
    <2>1. CASE pc[u] = "pay"
      BY <1>1, <1>2, <2>1 DEF PayRequestOK, Lasting
    <2>2. CASE pc[u] = "initialise"
      BY <1>1, <1>2, <1>3, <2>2, RowKinds DEF PayRequestOK
    <2>3. CASE pc[u] \in {"settle", "verify"}
      <3> DEFINE k == req[u].pay
                 o == PaymentOf(k).order
      <3>1. k \in PaymentIds /\ Payment(k) \in Rows /\ PaymentOf(k) # NoRow
        BY <1>2, <2>3, RowKinds DEF PayRequestOK, PaymentOf
      <3>2. PaymentOf(k)' # NoRow /\ PaymentOf(k)'.order = o
        BY <1>1, <3>1 DEF Lasting
      <3>3. o \in OrderIds /\ committed[Order(o)] # NoRow
        BY <1>2, <3>1 DEF Accounted, OrderInv, StoreInv, RowsOK, PaymentOf, PaymentRow
      <3>4. LinesOf(committed, o)' = LinesOf(committed, o)
        BY <3>2, <3>3 DEF Lasting, LinesOf
      <3>5. LinesOf(seen[u], o)' = LinesOf(seen[u], o)
        BY <1>1, <3>2 DEF LinesOf
      <3>6. pc[u] = "verify" => /\ owner'[Payment(k)] = u
                                /\ db'[Payment(k)] = db[Payment(k)]
                                /\ committed'[Payment(k)] = committed[Payment(k)]
        BY <1>2, <1>3, <3>1 DEF PayRequestOK
      <3> QED
        BY <1>1, <1>2, <2>3, <3>1, <3>2, <3>4, <3>5, <3>6 DEF PayRequestOK, PaymentOf
    <2>4. CASE pc[u] \notin {"pay", "initialise", "settle", "verify"}
      BY <1>1, <2>4 DEF PayRequestOK
    <2> QED
      BY <2>1, <2>2, <2>3, <2>4
  <1>5. ASSUME NEW k \in PaymentIds
        PROVE  /\ Settles(u, k)' <=> Settles(u, k)
               /\ owner[Payment(k)] = u =>
                     /\ db'[Payment(k)] = db[Payment(k)]
                     /\ PaymentOf(k)' = PaymentOf(k)
                     /\ owner'[Payment(k)] = u
    BY <1>3, RowKinds DEF Settles, IsPaid, PaymentOf
  <1>6. ASSUME NEW k \in PaymentIds, Settles(u, k)
        PROVE  LinesOf(committed, db[Payment(k)].order)' = LinesOf(committed, db[Payment(k)].order)
    <2>1. db[Payment(k)].order \in OrderIds /\ committed[Order(db[Payment(k)].order)] # NoRow
      BY <1>2, <1>6, RowKinds DEF Settles, Accounted, OrderInv, StoreInv, RowsOK, PaymentRow
    <2>2. db'[Payment(k)] = db[Payment(k)]
      BY <1>5, <1>6 DEF Settles
    <2> QED
      BY <2>1, <2>2 DEF Lasting, LinesOf
  <1>7. TellsTrue(u)'
    <2>1. ASSUME NEW k \in PaymentIds
          PROVE  /\ Confirmed(k) \in outbox'[u] <=> Settles(u, k)'
                 /\ Settles(u, k)' => \A p \in LinesOf(committed, db[Payment(k)].order)' :
                                         PaidTo(db'[Payment(k)].order, VendorOf[p]) \in outbox'[u]
                 /\ Failed(k) \in outbox'[u] =>
                       /\ owner'[Payment(k)] = u
                       /\ gateway'[k] = "short" \/ db'[Payment(k)].status # PaymentOf(k)'.status
      <3>1. Confirmed(k) \in outbox'[u] <=> Settles(u, k)'
        BY <1>1, <1>2, <1>5 DEF TellsTrue
      <3>2. Settles(u, k)' => \A p \in LinesOf(committed, db[Payment(k)].order)' :
                                  PaidTo(db'[Payment(k)].order, VendorOf[p]) \in outbox'[u]
        BY <1>1, <1>2, <1>5, <1>6 DEF TellsTrue, Settles
      <3>3. Failed(k) \in outbox'[u] =>
                       /\ owner'[Payment(k)] = u
                       /\ gateway'[k] = "short" \/ db'[Payment(k)].status # PaymentOf(k)'.status
        BY <1>1, <1>2, <1>5 DEF TellsTrue, Lasting
      <3> QED
        BY <3>1, <3>2, <3>3
    <2>2. ASSUME NEW o \in OrderIds, NEW v \in Vendors
          PROVE  /\ PaidTo(o, v) \in outbox'[u] =>
                       \E k \in PaymentIds : Settles(u, k)' /\ db'[Payment(k)].order = o
                 /\ PaymentsEnabled => Announced(o, v) \notin outbox'[u]
      BY <1>1, <1>2, <1>5 DEF TellsTrue, Settles
    <2> QED
      BY <2>1, <2>2 DEF TellsTrue
  <1> QED
    BY <1>4, <1>7

-----------------------------------------------------------------------------
(* Steps that commit nothing. *)

\* Nobody's commit.
Uncommitted(t) ==
    /\ Apart(t)
    /\ committed' = committed /\ notices' = notices
    /\ \A k \in PaymentIds : gateway[k] = "short" => gateway'[k] = "short"

LEMMA UncommittedLasts ==
    ASSUME OrderInv, PayInv, NEW t \in Txns, Uncommitted(t)
    PROVE  Lasting
  BY DEF Uncommitted, Lasting, LinesOf, PaymentOf

\* Who holds an attempt after a step of t, given that t holds it rightly.
LEMMA HolderStays ==
    ASSUME PayInv, NEW t \in Txns, Apart(t), NEW k \in PaymentIds,
           owner'[Payment(k)] = t =>
               \/ pc'[t] = "commit"
               \/ pc'[t] \in {"initialise", "verify"} /\ req'[t].pay = k
    PROVE  HolderOK(k)'
  <1> SUFFICES ASSUME NEW u \in Txns \ {t}, owner'[Payment(k)] = u
               PROVE  \/ pc'[u] = "commit"
                      \/ pc'[u] \in {"initialise", "verify"} /\ req'[u].pay = k
    BY DEF HolderOK
  <1>1. owner[Payment(k)] = u
    BY NobodyIsNoTxn, RowKinds DEF Apart, Others
  <1> QED
    BY <1>1 DEF Apart, OthersUntouched, PayInv, HolderOK

\* The news is complete because no request tells more, or less, than it commits.
LEMMA NewsStays ==
    ASSUME PayInv, committed' = committed, notices' = notices, \A t \in Txns : TellsTrue(t)'
    PROVE  ConfirmedOnce' /\ UnpaidIsUnannounced'
  <1>1. \A k \in PaymentIds : (IsPaid(k)' <=> IsPaid(k)) /\ PaymentOf(k)' = PaymentOf(k)
    BY DEF IsPaid, PaymentOf
  <1>2. \A o \in OrderIds : Paid(committed, o)' <=> Paid(committed, o)
    BY DEF Paid
  <1>3. \A t \in Txns, k \in PaymentIds : IsPaid(k)' => Confirmed(k) \notin outbox'[t]
    BY DEF TellsTrue, Settles
  <1>4. ConfirmedOnce'
    BY <1>1, <1>3 DEF PayInv, ConfirmedOnce, LinesOf
  <1>5. UnpaidIsUnannounced'
    BY <1>2 DEF PayInv, UnpaidIsUnannounced
  <1> QED
    BY <1>4, <1>5

LEMMA UncommittedKeeps ==
    ASSUME OrderInv, PayInv, NEW t \in Txns, Uncommitted(t),
           PaymentTypeOK', hooks' = hooks, outbox' = [u \in Txns |-> outbox'[u]],
           PayRequestOK(t)', TellsTrue(t)',
           \A k \in PaymentIds : HolderOK(k)' /\ Accounted(k)'
    PROVE  PayInv'
  <1>1. \A u \in Txns \ {t} : PayRequestOK(u)' /\ TellsTrue(u)'
    BY UncommittedLasts, OthersPay DEF Uncommitted
  <1>2. \A u \in Txns : PayRequestOK(u)' /\ TellsTrue(u)'
    BY <1>1
  <1>3. ConfirmedOnce' /\ UnpaidIsUnannounced'
    BY <1>2, NewsStays DEF Uncommitted
  <1>4. \A k \in hooks' : PaymentOf(k)' # NoRow
    BY DEF PayInv, Uncommitted, PaymentOf
  <1> QED
    BY <1>2, <1>3, <1>4 DEF PayInv

\* What a step of t tells besides news of attempts.
NoNews(t) ==
    /\ outbox' = [u \in Txns |-> outbox'[u]]
    /\ \A u \in Txns \ {t} : outbox'[u] = outbox[u]
    /\ \A k \in PaymentIds : Confirmed(k) \notin outbox'[t] /\ Failed(k) \notin outbox'[t]
    /\ \A o \in OrderIds, v \in Vendors :
          /\ PaidTo(o, v) \notin outbox'[t]
          /\ PaymentsEnabled => Announced(o, v) \notin outbox'[t]

\* Steps that write, lock and tell of no attempt.
LEMMA QuietKeeps ==
    ASSUME OrderInv, PayInv, NEW t \in Txns,
           pc[t] \notin {"initialise", "verify", "commit"},
           OthersUntouched(t), Others(Rows, t), committed' = committed, notices' = notices,
           \A k \in PaymentIds : /\ db'[Payment(k)] = db[Payment(k)]
                                 /\ owner'[Payment(k)] = owner[Payment(k)],
           UNCHANGED <<gateway, hooks, faults>>,
           \A u \in Txns \ {t} : delivery'[u] = delivery[u],
           NoNews(t), PayRequestOK(t)', PaymentTypeOK'
    PROVE  PayInv'
  <1>1. Uncommitted(t)
    BY DEF Uncommitted, Apart, NoNews
  <1>2. \A k \in PaymentIds : owner'[Payment(k)] # t
    BY HoldsNone
  <1>3. TellsTrue(t)'
    BY <1>2 DEF TellsTrue, NoNews, Settles
  <1>4. ASSUME NEW k \in PaymentIds PROVE HolderOK(k)' /\ Accounted(k)'
    <2>1. HolderOK(k)'
      BY <1>1, <1>2, HolderStays DEF Uncommitted
    <2>2. Accounted(k)'
      BY DEF PayInv, Accounted, PaymentOf, IsPaid
    <2> QED
      BY <2>1, <2>2
  <1> QED
    BY <1>1, <1>3, <1>4, UncommittedKeeps DEF NoNews

-----------------------------------------------------------------------------
(* The requests of Orders. *)

PaySteps == Steps \cup {"pay", "initialise", "settle", "verify"}

\* A request begins.
LEMMA BeginKeepsPay ==
    ASSUME OrderInv, PayInv, NEW t \in Txns, NEW next \in PaySteps, NEW what, NEW rows,
           Begin(t, next, what, rows), UNCHANGED <<gateway, hooks, faults>>,
           \/ delivery' = delivery
           \/ next = "settle" /\ \E k \in PaymentIds : delivery' = [delivery EXCEPT ![t] = k],
           PayRequestOK(t)'
    PROVE  PayInv'
  <1>1. /\ pc[t] = "idle" /\ pc'[t] = next /\ OthersUntouched(t)
        /\ UNCHANGED <<db, committed, owner, outbox, notices>>
    BY BeginReads
  <1>2. Others(Rows, t)
    BY <1>1, RowsStored, IdleEffect DEF OrderInv
  <1>3. NoNews(t)
    <2>1. \A k \in PaymentIds : Confirmed(k) \notin outbox[t] /\ Failed(k) \notin outbox[t]
      BY <1>1, HoldsNone
    <2>2. \A o \in OrderIds, v \in Vendors :
              /\ PaidTo(o, v) \notin outbox[t]
              /\ PaymentsEnabled => Announced(o, v) \notin outbox[t]
      BY <1>1 DEF PayInv, TellsTrue, Settles, HolderOK
    <2> QED
      BY <1>1, <2>1, <2>2 DEF NoNews, PayInv
  <1>4. \A u \in Txns \ {t} : delivery'[u] = delivery[u]
    BY DEF PayInv, PaymentTypeOK
  <1>5. PaymentTypeOK'
    <2>1. pc' = [pc EXCEPT ![t] = next] /\ PaymentTypeOK
      BY DEF Begin, PayInv
    <2>2. delivery' \in [Txns -> PaymentIds \cup {NoRow}]
      BY <2>1 DEF PaymentTypeOK
    <2>3. \A u \in Txns : delivery'[u] # NoRow => pc'[u] \in {"settle", "verify", "commit"}
      BY <1>1, <2>1 DEF PaymentTypeOK
    <2> QED
      BY <1>1, <2>1, <2>2, <2>3 DEF PaymentTypeOK, PaySteps, Steps
  <1> QED
    BY <1>1, <1>2, <1>3, <1>4, <1>5, QuietKeeps

LEMMA ArriveKeepsPay ==
    ASSUME OrderInv, PayInv, NEW t \in Txns, Arrive(t), UNCHANGED outside
    PROVE  PayInv'
  <1>1. ASSUME NEW next \in {"lock", "restock", "mark", "rollup", "edit"}, NEW what, NEW rows,
               Begin(t, next, what, rows)
        PROVE  PayInv'
    <2>1. pc'[t] = next
      BY <1>1, BeginReads
    <2>2. PayRequestOK(t)'
      BY <2>1 DEF PayRequestOK
    <2>3. next \in PaySteps
      BY DEF PaySteps, Steps
    <2> QED
      BY <1>1, <2>2, <2>3, BeginKeepsPay DEF outside
  <1>2. ASSUME NEW c \in Clients, BeginCheckout(t, c) PROVE PayInv'
    BY <1>1, <1>2 DEF BeginCheckout
  <1>3. ASSUME NEW o \in OrderIds, NEW p \in Products, NEW m \in VendorMoves, BeginAdvance(t, o, p, m)
        PROVE  PayInv'
    BY <1>1, <1>3 DEF BeginAdvance
  <1>4. ASSUME NEW o \in OrderIds, NEW p \in Products, BeginCancel(t, o, p) PROVE PayInv'
    BY <1>1, <1>4 DEF BeginCancel
  <1>5. ASSUME NEW p \in Products, NEW e \in Edits, BeginEdit(t, p, e) PROVE PayInv'
    BY <1>1, <1>5 DEF BeginEdit
  <1> QED
    BY <1>2, <1>3, <1>4, <1>5 DEF Arrive

LEMMA WorksKeepPay ==
    ASSUME OrderInv, PayInv, NEW t \in Txns, Works(t), UNCHANGED outside
    PROVE  PayInv'
  <1>1. pc[t] \notin {"initialise", "verify", "commit"}
    BY WorksOnSlot
  <1>2. PICK next \in {"lock", "insert", "queue", "place", "restock", "mark", "rollup", "commit"} :
            pc' = [pc EXCEPT ![t] = next]
    BY WorksOnSlot
  <1>3. pc'[t] = next
    BY <1>2 DEF OrderInv, RequestsInv, SlotsOK
  <1>4. PayRequestOK(t)'
    BY <1>3 DEF PayRequestOK
  <1>5. PaymentTypeOK'
    <2>1. pc' \in [Txns -> PaySteps]
      BY <1>2 DEF PayInv, PaymentTypeOK, PaySteps, Steps
    <2>2. \A u \in Txns : delivery'[u] # NoRow => pc'[u] \in {"settle", "verify", "commit"}
      BY <1>2, WorksOnSlot DEF PayInv, PaymentTypeOK, outside
    <2>3. \A k \in PaymentIds :
              {db[Payment(k)], committed[Payment(k)]}' \subseteq PaymentRow \cup {NoRow}
      BY WorksOnOrders DEF PayInv, PaymentTypeOK
    <2> QED
      BY <2>1, <2>2, <2>3 DEF PayInv, PaymentTypeOK, outside, PaySteps, Steps
  <1>6. NoNews(t)
    <2>1. /\ \A k \in PaymentIds : Confirmed(k) \notin outbox[t] /\ Failed(k) \notin outbox[t]
          /\ \A o \in OrderIds, v \in Vendors :
                /\ PaidTo(o, v) \notin outbox[t]
                /\ PaymentsEnabled => Announced(o, v) \notin outbox[t]
      BY <1>1, HoldsNone DEF PayInv, TellsTrue
    <2>2. ASSUME NEW S, \/ S = outbox[t]
                        \/ \E o \in OrderIds : S = ToVendors(t, o)
                        \/ S = outbox[t] \cup Told(t)
          PROVE  /\ \A k \in PaymentIds : Confirmed(k) \notin S /\ Failed(k) \notin S
                 /\ \A o \in OrderIds, v \in Vendors :
                      /\ PaidTo(o, v) \notin S
                      /\ PaymentsEnabled => Announced(o, v) \notin S
      BY <2>1, <2>2, NewsKinds DEF ToVendors, Told
    <2>3. outbox = [u \in Txns |-> outbox[u]]
      BY DEF PayInv
    <2>4. PICK S : /\ outbox' = [outbox EXCEPT ![t] = S]
                   /\ \/ S = outbox[t]
                      \/ \E o \in OrderIds : S = ToVendors(t, o)
                      \/ S = outbox[t] \cup Told(t)
      BY <2>3, WorksOnSlot
    <2> QED
      BY <2>2, <2>3, <2>4 DEF NoNews
  <1> QED
    BY <1>1, <1>4, <1>5, <1>6, WorksOnSlot, WorksOnOrders, QuietKeeps DEF outside

-----------------------------------------------------------------------------
(* The requests of the payment flow, up to the end of an attempt. *)

LEMMA BeginPayKeeps ==
    ASSUME OrderInv, PayInv, NEW t \in Txns, NEW o \in OrderIds, BeginPay(t, o)
    PROVE  OrderInv' /\ PayInv'
  <1> DEFINE what == [order |-> o]
  <1>1. Begin(t, "pay", what, OrderQuery(o)) /\ what.order = o /\ what \in [order : OrderIds]
    BY DEF BeginPay
  <1> HIDE DEF what
  <1>2. pc'[t] = "pay" /\ req'[t] = what /\ committed' = committed
    BY <1>1, BeginReads
  <1>3. RequestOK(t)'
    BY <1>2 DEF RequestOK
  <1>4. PayRequestOK(t)'
    BY <1>1, <1>2 DEF PayRequestOK, BeginPay
  <1> QED
    BY <1>1, <1>3, <1>4, BeginKeeps, BeginKeepsPay DEF BeginPay, outside, PaySteps

LEMMA BeginSettleKeeps ==
    ASSUME OrderInv, PayInv, NEW t \in Txns, NEW k \in PaymentIds, BeginVerify(t, k) \/ BeginWebhook(t, k)
    PROVE  OrderInv' /\ PayInv'
  <1> DEFINE what == [pay |-> k]
             o == committed[Payment(k)].order
  <1>1. PICK rows : /\ Begin(t, "settle", what, rows)
                    /\ UNCHANGED <<gateway, hooks, faults>>
                    /\ \/ delivery' = delivery /\ rows = OrderQuery(o)
                       \/ delivery' = [delivery EXCEPT ![t] = k]
    BY DEF BeginVerify, BeginWebhook, outside
  <1>2. committed[Payment(k)] # NoRow
    BY DEF BeginVerify, BeginWebhook, PayInv, PaymentOf
  <1>3. what.pay = k /\ what \in [pay : PaymentIds]
    OBVIOUS
  <1> HIDE DEF what
  <1>4. /\ pc[t] = "idle" /\ pc'[t] = "settle" /\ req'[t] = what /\ committed' = committed
        /\ \A r \in Rows : r \in rows => seen'[t][r] = committed[r]
    BY <1>1, BeginReads
  <1>5. o \in OrderIds
    BY <1>2 DEF OrderInv, StoreInv, RowsOK, PaymentRow
  <1>6. delivery'[t] = NoRow => LinesOf(seen[t], o)' = LinesOf(committed, o)'
    <2>1. delivery'[t] = NoRow => rows = OrderQuery(o)
      BY <1>1, PaymentsAssumption DEF PayInv, PaymentTypeOK
    <2>2. \A p \in Products : Line(o, p) \in Rows /\ Line(o, p) \in OrderQuery(o)
      BY <1>5, RowKinds DEF OrderQuery
    <2> QED
      BY <1>4, <2>1, <2>2 DEF LinesOf
  <1>7. RequestOK(t)'
    BY <1>4 DEF RequestOK
  <1>8. PayRequestOK(t)'
    BY <1>2, <1>3, <1>4, <1>6 DEF PayRequestOK, LinesOf
  <1> QED
    BY <1>1, <1>7, <1>8, BeginKeeps, BeginKeepsPay DEF PaySteps

\* The end of a handler, before its session commits.
LEMMA FinishedTypes ==
    ASSUME OrderInv, PayInv, NEW t \in Txns, Finish(t), OrderInv', UNCHANGED <<delivery, hooks, faults>>,
           gateway' \in [PaymentIds -> GatewayStatus]
    PROVE  PaymentTypeOK' /\ PayRequestOK(t)' /\ pc'[t] = "commit"
  <1>1. pc' \in [Txns -> PaySteps] /\ pc'[t] = "commit" /\ PaymentTypeOK
    BY DEF PayInv, PaymentTypeOK, PaySteps, Steps, Finish
  <1>2. \A u \in Txns : delivery'[u] # NoRow => pc'[u] \in {"settle", "verify", "commit"}
    BY DEF PayInv, PaymentTypeOK, Finish
  <1>3. \A k \in PaymentIds : {db[Payment(k)], committed[Payment(k)]}' \subseteq PaymentRow \cup {NoRow}
    BY DEF OrderInv, StoreInv, RowsOK
  <1> QED
    BY <1>1, <1>2, <1>3 DEF PaymentTypeOK, PayRequestOK, PaySteps, Steps

LEMMA StartPaymentKeeps ==
    ASSUME OrderInv, PayInv, NEW t \in Txns, StartPayment(t)
    PROVE  OrderInv' /\ PayInv'
  <1> DEFINE o == req[t].order
             row == [order |-> o, status |-> "PENDING", refund |-> FALSE]
  <1>1. /\ pc[t] = "pay" /\ o \in OrderIds /\ committed[Order(o)] # NoRow
        /\ Order(o) \in Rows /\ db[Order(o)] \in OrderRow /\ StoreInv /\ SlotsOK
    <2>1. /\ pc[t] = "pay" /\ o \in OrderIds /\ committed[Order(o)] # NoRow /\ StoreInv /\ SlotsOK
      BY DEF StartPayment, PayInv, PayRequestOK, OrderInv, RequestsInv
    <2> QED
      BY <2>1, RowKinds DEF StoreInv, RowsOK, RowsKept
  <1>2. row \in PaymentRow
    BY <1>1 DEF PaymentRow, PaymentStatus
  <1>3. PICK k \in Free :
            /\ WriteRows(t, [r \in {Order(o), Payment(k)} |-> IF r = Order(o) THEN db[r] ELSE row])
            /\ req' = [req EXCEPT ![t] = [pay |-> k]]
    BY DEF StartPayment
  <1>4. PICK new : new = [r \in {Order(o), Payment(k)} |-> IF r = Order(o) THEN db[r] ELSE row]
    OBVIOUS
  <1>5. WriteRows(t, new)
    BY <1>3, <1>4
  <1>6. /\ k \in PaymentIds /\ Payment(k) \in Rows
        /\ db[Payment(k)] = NoRow /\ committed[Payment(k)] = NoRow
    BY <1>1, RowKinds DEF Free, StoreInv, RowsKept
  <1>7. /\ DOMAIN new = {Order(o), Payment(k)} /\ new = [r \in DOMAIN new |-> new[r]]
        /\ new[Order(o)] = db[Order(o)] /\ new[Payment(k)] = row
    BY <1>4, RowKinds
  <1>8. row.status = "PENDING" /\ row.order = o
    OBVIOUS
  <1> HIDE DEF row, o
  <1>9. WritesOK(new)
    BY <1>1, <1>2, <1>6, <1>7, RowKinds DEF WritesOK
  <1>10. StoreInv' /\ Frame(t)
    BY <1>1, <1>5, <1>9, StoreWrite
  <1>11. /\ pc' = [pc EXCEPT ![t] = "initialise"]
         /\ UNCHANGED <<seen, outbox, notices, gateway, hooks, delivery, faults>>
    BY DEF StartPayment
  <1>12. OthersUntouched(t) /\ SlotsOK' /\ pc'[t] = "initialise" /\ req'[t] = [pay |-> k]
    BY <1>1, <1>3, <1>11 DEF OthersUntouched, SlotsOK
  <1>13. OrderInv'
    BY <1>10, <1>12, StepKeeps DEF RequestOK
  <1>14. /\ Others(Rows, t) /\ committed' = committed
         /\ db'[Payment(k)] = row /\ owner'[Payment(k)] = t
         /\ \A j \in PaymentIds \ {k} : /\ db'[Payment(j)] = db[Payment(j)]
                                        /\ owner'[Payment(j)] = owner[Payment(j)]
    BY <1>1, <1>5, <1>6, <1>7, RowsStored, WriteEffect, RowKinds
  <1>15. Uncommitted(t)
    BY <1>11, <1>12, <1>14 DEF Uncommitted, Apart
  <1>16. PayRequestOK(t)'
    BY <1>2, <1>6, <1>8, <1>12, <1>14, NoRowIsNoValue DEF PayRequestOK
  <1>17. \A j \in PaymentIds : ~Settles(t, j)' /\ (j # k => owner'[Payment(j)] # t)
    BY <1>1, <1>8, <1>14, HoldsNone DEF Settles
  <1>18. TellsTrue(t)'
    BY <1>1, <1>11, <1>17, HoldsNone DEF TellsTrue, PayInv
  <1>19. ASSUME NEW j \in PaymentIds PROVE HolderOK(j)' /\ Accounted(j)'
    <2>1. HolderOK(j)'
      BY <1>12, <1>15, <1>17, HolderStays DEF Uncommitted
    <2>2. CASE j = k
      <3>1. ~IsPaid(j)' /\ PaymentOf(j)' = NoRow /\ gateway'[j] \in {"none", "open"}
        BY <1>6, <1>11, <1>14, <2>2 DEF IsPaid, PaymentOf, PayInv, Accounted
      <3> QED
        BY <1>1, <1>8, <1>14, <2>1, <2>2, <3>1 DEF Accounted
    <2>3. CASE j # k
      BY <1>11, <1>14, <2>1, <2>3 DEF PayInv, Accounted, PaymentOf, IsPaid
    <2> QED
      BY <2>2, <2>3
  <1>20. PaymentTypeOK'
    <2>1. pc' \in [Txns -> PaySteps]
      BY <1>11 DEF PayInv, PaymentTypeOK, PaySteps, Steps
    <2>2. \A u \in Txns : delivery'[u] # NoRow => pc'[u] \in {"settle", "verify", "commit"}
      BY <1>1, <1>11 DEF PayInv, PaymentTypeOK
    <2>3. \A j \in PaymentIds :
              {db[Payment(j)], committed[Payment(j)]}' \subseteq PaymentRow \cup {NoRow}
      BY <1>13 DEF OrderInv, StoreInv, RowsOK
    <2> QED
      BY <1>11, <2>1, <2>2, <2>3 DEF PayInv, PaymentTypeOK, PaySteps, Steps
  <1>21. outbox' = [u \in Txns |-> outbox'[u]]
    BY <1>11 DEF PayInv
  <1> QED
    BY <1>11, <1>13, <1>15, <1>16, <1>18, <1>19, <1>20, <1>21, UncommittedKeeps

LEMMA InitialiseKeeps ==
    ASSUME OrderInv, PayInv, NEW t \in Txns, Initialise(t)
    PROVE  OrderInv' /\ PayInv'
  <1> DEFINE k == req[t].pay
  <1>1. /\ pc[t] = "initialise" /\ Finish(t) /\ gateway' = [gateway EXCEPT ![k] = "open"]
        /\ UNCHANGED <<db, committed, owner, outbox, notices, hooks, delivery, faults>>
    BY DEF Initialise
  <1>2. /\ k \in PaymentIds /\ committed[Payment(k)] = NoRow
        /\ db[Payment(k)] # NoRow /\ db[Payment(k)].status = "PENDING"
    BY <1>1 DEF PayInv, PayRequestOK
  <1> HIDE DEF k
  <1>3. OthersUntouched(t) /\ SlotsOK' /\ RequestOK(t)'
    BY <1>1, FinishKeeps
  <1>4. StoreInv' /\ Frame(t)
    BY <1>1, StoreIdle DEF OrderInv
  <1>5. OrderInv'
    BY <1>3, <1>4, StepKeeps
  <1>6. /\ gateway' \in [PaymentIds -> GatewayStatus] /\ gateway[k] # "short" /\ gateway'[k] = "open"
        /\ \A j \in PaymentIds \ {k} : gateway'[j] = gateway[j]
    BY <1>1, <1>2 DEF PayInv, PaymentTypeOK, GatewayStatus, Accounted, PaymentOf
  <1>7. PaymentTypeOK' /\ PayRequestOK(t)' /\ pc'[t] = "commit"
    BY <1>1, <1>5, <1>6, FinishedTypes
  <1>8. Others(Rows, t)
    BY <1>1, RowsStored, IdleEffect DEF OrderInv
  <1>9. Uncommitted(t)
    BY <1>1, <1>3, <1>6, <1>8 DEF Uncommitted, Apart
  <1>10. TellsTrue(t)'
    <2>1. \A j \in PaymentIds : (Settles(t, j)' <=> Settles(t, j)) /\ PaymentOf(j)' = PaymentOf(j)
      BY <1>1 DEF Settles, IsPaid, PaymentOf
    <2>2. \A j \in PaymentIds : gateway[j] = "short" => gateway'[j] = "short"
      BY <1>6
    <2> QED
      BY <1>1, <2>1, <2>2 DEF PayInv, TellsTrue, LinesOf
  <1>11. ASSUME NEW j \in PaymentIds PROVE HolderOK(j)' /\ Accounted(j)'
    <2>1. HolderOK(j)'
      BY <1>7, <1>9, HolderStays DEF Uncommitted
    <2>2. Accounted(j) /\ (IsPaid(j)' <=> IsPaid(j)) /\ PaymentOf(j)' = PaymentOf(j)
      BY <1>1 DEF PayInv, IsPaid, PaymentOf
    <2>3. CASE j = k
      BY <1>1, <1>2, <1>6, <2>1, <2>2, <2>3 DEF Accounted, PaymentOf
    <2>4. CASE j # k
      BY <1>1, <1>6, <2>1, <2>2, <2>4 DEF Accounted
    <2> QED
      BY <2>3, <2>4
  <1>12. outbox' = [u \in Txns |-> outbox'[u]]
    BY <1>1 DEF PayInv
  <1> QED
    BY <1>1, <1>5, <1>7, <1>9, <1>10, <1>11, <1>12, UncommittedKeeps

\* The row is free, so what the lock shows is what is committed.
LEMMA LockPaymentKeeps ==
    ASSUME OrderInv, PayInv, NEW t \in Txns, LockPayment(t)
    PROVE  OrderInv' /\ PayInv'
  <1> DEFINE k == req[t].pay
             r == Payment(k)
  <1>1. /\ pc[t] = "settle" /\ LockRow(t, r)
        /\ UNCHANGED <<outbox, notices, gateway, hooks, delivery, faults>>
        /\ IF Settled(db[r]) THEN Finish(t)
           ELSE /\ pc' = [pc EXCEPT ![t] = "verify"]
                /\ seen' = [seen EXCEPT ![t][r] = db[r]]
                /\ UNCHANGED req
    BY DEF LockPayment, TakePayment
  <1>2. /\ k \in PaymentIds /\ r \in Rows /\ committed[r] # NoRow /\ req[t] \in [pay : PaymentIds]
        /\ delivery[t] = NoRow =>
              LinesOf(seen[t], committed[r].order) = LinesOf(committed, committed[r].order)
    BY <1>1, RowKinds DEF PayInv, PayRequestOK
  <1>3. /\ Others(Rows, t) /\ db' = db /\ committed' = committed
        /\ \A x \in Rows : owner'[x] = IF x = r THEN t ELSE owner[x]
        /\ owner[r] \in {t, Nobody}
    BY <1>1, RowsStored, LockEffect DEF OrderInv
  <1>4. db[r] = committed[r] /\ \A j \in PaymentIds : owner[Payment(j)] # t /\ ~Settles(t, j)
    <2>1. \A j \in PaymentIds : owner[Payment(j)] # t /\ ~Settles(t, j)
      BY <1>1, HoldsNone
    <2> QED
      BY <1>2, <1>3, <2>1 DEF OrderInv, StoreInv, UnlockedIsCommitted, RowsOK
  <1>5. StoreInv' /\ Frame(t)
    BY <1>1, StoreLock DEF OrderInv
  <1>6. OthersUntouched(t) /\ SlotsOK' /\ RequestOK(t)'
    <2>1. CASE Settled(db[r])
      BY <1>1, <2>1, FinishKeeps
    <2>2. CASE ~Settled(db[r])
      <3>1. SlotsOK
        BY DEF OrderInv, RequestsInv
      <3>2. pc'[t] = "verify"
        BY <1>1, <2>2, <3>1 DEF SlotsOK
      <3> HIDE DEF r
      <3>3. OthersUntouched(t)
        BY <1>1, <2>2, <3>1 DEF OthersUntouched, SlotsOK
      <3>4. SlotsOK'
        BY <1>1, <2>2, <3>1 DEF SlotsOK
      <3> QED
        BY <3>2, <3>3, <3>4 DEF RequestOK
    <2> QED
      BY <2>1, <2>2
  <1>7. OrderInv'
    BY <1>5, <1>6, StepKeeps
  <1>8. Uncommitted(t)
    BY <1>1, <1>3, <1>6 DEF Uncommitted, Apart
  <1>9. PaymentTypeOK' /\ PayRequestOK(t)' /\ pc'[t] \in {"commit", "verify"}
        /\ (pc'[t] = "verify" => req'[t].pay = k)
    <2>1. CASE Settled(db[r])
      BY <1>1, <1>7, <2>1, FinishedTypes DEF PayInv, PaymentTypeOK
    <2>2. CASE ~Settled(db[r])
      <3>1. SlotsOK
        BY DEF OrderInv, RequestsInv
      <3>2. pc'[t] = "verify" /\ req'[t] = req[t]
            /\ \A x \in Rows : seen'[t][x] = IF x = r THEN db[r] ELSE seen[t][x]
        BY <1>1, <1>2, <2>2, <3>1 DEF SlotsOK
      <3>3. ASSUME NEW o \in OrderIds
            PROVE LinesOf(seen'[t], o) = LinesOf(seen[t], o)
        BY <3>2, RowKinds DEF LinesOf
      <3>4. committed[r].order \in OrderIds
        BY <1>2 DEF OrderInv, StoreInv, RowsOK, PaymentRow
      <3>5. LinesOf(seen'[t], committed[r].order) = LinesOf(seen[t], committed[r].order)
        BY <3>3, <3>4
      <3>6. PayRequestOK(t)'
        <4>1. /\ Payment(req'[t].pay) = r /\ req'[t] \in [pay : PaymentIds] /\ committed'[r] = committed[r]
              /\ owner'[r] = t /\ db'[r] = committed[r] /\ seen'[t][r] = committed[r]
          BY <1>1, <1>2, <1>3, <1>4, <3>2
        <4>2. committed[r].status # "SUCCESS"
          BY <1>4, <2>2 DEF Settled
        <4>3. LinesOf(committed', committed[r].order) = LinesOf(committed, committed[r].order)
          BY <1>3
        <4>4. delivery'[t] = delivery[t]
          BY <1>1
        <4> QED
          BY <1>2, <3>2, <3>5, <4>1, <4>2, <4>3, <4>4 DEF PayRequestOK
      <3>7. pc' \in [Txns -> PaySteps]
        BY <1>1, <2>2 DEF PayInv, PaymentTypeOK, PaySteps, Steps
      <3>8. \A u \in Txns : delivery'[u] # NoRow => pc'[u] \in {"settle", "verify", "commit"}
        BY <1>1, <2>2 DEF PayInv, PaymentTypeOK
      <3>9. PaymentTypeOK'
        BY <1>1, <1>3, <3>7, <3>8 DEF PayInv, PaymentTypeOK, PaySteps, Steps
      <3> QED
        BY <3>2, <3>6, <3>9
    <2> QED
      BY <2>1, <2>2
  <1>10. \A j \in PaymentIds : ~Settles(t, j)' /\ (j # k => owner'[Payment(j)] # t)
    BY <1>2, <1>3, <1>4, RowKinds DEF Settles, IsPaid, PaymentOf
  <1>11. TellsTrue(t)'
    BY <1>1, <1>10, HoldsNone DEF TellsTrue, PayInv
  <1>12. ASSUME NEW j \in PaymentIds PROVE HolderOK(j)' /\ Accounted(j)'
    <2>1. HolderOK(j)'
      BY <1>8, <1>9, <1>10, HolderStays DEF Uncommitted
    <2>2. Accounted(j)'
      BY <1>1, <1>3 DEF PayInv, Accounted, IsPaid, PaymentOf
    <2> QED
      BY <2>1, <2>2
  <1>13. outbox' = [u \in Txns |-> outbox'[u]]
    BY <1>1 DEF PayInv
  <1> QED
    BY <1>1, <1>7, <1>8, <1>9, <1>11, <1>12, <1>13, UncommittedKeeps

LEMMA AnswerIsTrue ==
    ASSUME NEW g \in GatewayStatus, NEW answer \in Answers(g)
    PROVE  /\ Verdict(answer) \in PaymentStatus
           /\ Verdict(answer) = "SUCCESS" <=> answer = "success"
           /\ answer = "success" => g = "success"
           /\ answer = "short" => g = "short"
  BY DEF Answers, Verdict, PaymentStatus, GatewayStatus

LEMMA VerifyKeeps ==
    ASSUME OrderInv, PayInv, NEW t \in Txns, Verify(t)
    PROVE  OrderInv' /\ PayInv'
  <1>2. PICK k \in PaymentIds : req[t].pay = k
    BY DEF Verify, PayInv, PayRequestOK
  <1> DEFINE r == Payment(k)
             was == seen[t][r]
  <1>1. /\ pc[t] = "verify" /\ r \in Rows /\ owner[r] = t
        /\ db[r] = committed[r] /\ was = committed[r] /\ was # NoRow /\ was.status # "SUCCESS"
        /\ delivery[t] = NoRow => LinesOf(seen[t], was.order) = LinesOf(committed, was.order)
    BY <1>2, RowKinds DEF Verify, PayInv, PayRequestOK
  <1>12. was \in PaymentRow /\ was.order \in OrderIds /\ committed[Order(was.order)] # NoRow
    <2>1. was \in PaymentRow
      BY <1>1 DEF OrderInv, StoreInv, RowsOK
    <2> QED
      BY <1>1, <2>1 DEF PaymentRow, PayInv, Accounted
  <1>3. PICK answer \in Answers(gateway[k]) :
            /\ WriteRows(t, [x \in {r} |->
                    [order  |-> was.order,
                     status |-> Verdict(answer),
                     refund |-> /\ answer = "success"
                                /\ View(t)[Order(was.order)].status = "CANCELLED"]])
            /\ outbox' = [outbox EXCEPT ![t] = SettleNews(t, answer, was)]
    BY <1>2 DEF Verify
  <1>4. /\ Verdict(answer) \in PaymentStatus
        /\ Verdict(answer) = "SUCCESS" <=> answer = "success"
        /\ answer = "success" => gateway[k] = "success"
        /\ answer = "short" => gateway[k] = "short"
    BY <1>1, AnswerIsTrue DEF PayInv, PaymentTypeOK
  <1>5. PICK row \in PaymentRow :
            /\ row.order = was.order /\ row.status = Verdict(answer)
            /\ WriteRows(t, [x \in {r} |-> row])
    <2>1. PICK flag \in BOOLEAN :
              flag = (answer = "success" /\ View(t)[Order(was.order)].status = "CANCELLED")
      OBVIOUS
    <2>2. PICK row : row = [order |-> was.order, status |-> Verdict(answer), refund |-> flag]
      OBVIOUS
    <2>3. row \in PaymentRow /\ row.order = was.order /\ row.status = Verdict(answer)
      BY <1>12, <1>4, <2>2 DEF PaymentRow
    <2>4. WriteRows(t, [x \in {r} |-> row])
      BY <1>3, <2>1, <2>2
    <2> QED
      BY <2>3, <2>4
  <1>6. PICK new : new = [x \in {r} |-> row]
    OBVIOUS
  <1>7. WriteRows(t, new)
    BY <1>5, <1>6
  <1>8. Finish(t) /\ UNCHANGED <<notices, gateway, hooks, delivery, faults>>
    BY DEF Verify
  <1>9. PICK news : news = SettleNews(t, answer, was)
    OBVIOUS
  <1>10. /\ \A j \in PaymentIds : Confirmed(j) \in news <=> answer = "success" /\ j = k
         /\ \A j \in PaymentIds : Failed(j) \in news =>
                j = k /\ (answer = "short" \/ was.status # Verdict(answer))
         /\ \A o \in OrderIds, v \in Vendors : PaidTo(o, v) \in news => answer = "success" /\ o = was.order
         /\ \A o \in OrderIds, v \in Vendors : Announced(o, v) \notin news
         /\ answer = "success" =>
                \A p \in LinesOf(committed, was.order) : PaidTo(was.order, VendorOf[p]) \in news
    <2>1. LinesOf(View(t), was.order) = LinesOf(committed, was.order)
      BY <1>1 DEF View
    <2> QED
      BY <1>2, <1>9, <2>1, NewsKinds DEF SettleNews
  <1>11. outbox'[t] = news /\ outbox' = [u \in Txns |-> outbox'[u]]
         /\ \A u \in Txns \ {t} : outbox'[u] = outbox[u]
    BY <1>3, <1>9 DEF PayInv
  <1>13. PICK old : old = was
    OBVIOUS
  <1> HIDE DEF was, r
  <1>14. WritesOK(new)
    BY <1>1, <1>6, RowKinds DEF WritesOK, r
  <1>15. StoreInv' /\ Frame(t)
    BY <1>7, <1>14, StoreWrite DEF OrderInv
  <1>16. OthersUntouched(t) /\ SlotsOK' /\ RequestOK(t)'
    BY <1>8, FinishKeeps
  <1>17. OrderInv'
    BY <1>15, <1>16, StepKeeps
  <1>18. PaymentTypeOK' /\ PayRequestOK(t)' /\ pc'[t] = "commit"
    BY <1>8, <1>17, FinishedTypes DEF PayInv, PaymentTypeOK
  <1>19. /\ Others(Rows, t) /\ committed' = committed /\ db'[r] = row /\ owner'[r] = t
         /\ \A j \in PaymentIds \ {k} : /\ db'[Payment(j)] = db[Payment(j)]
                                        /\ owner'[Payment(j)] = owner[Payment(j)]
    BY <1>1, <1>6, <1>7, RowsStored, WriteEffect, RowKinds DEF OrderInv, r
  <1>20. Uncommitted(t)
    BY <1>8, <1>11, <1>16, <1>19 DEF Uncommitted, Apart
  <1>21. \A j \in PaymentIds \ {k} : owner'[Payment(j)] # t
    BY <1>1, <1>2, <1>19 DEF PayInv, HolderOK
  <1>22. ~IsPaid(k)' /\ PaymentOf(k)' = old /\ db'[Payment(k)] = row /\ owner'[Payment(k)] = t
    BY <1>1, <1>13, <1>19 DEF IsPaid, PaymentOf, r, was
  <1>23. \A j \in PaymentIds : Settles(t, j)' <=> answer = "success" /\ j = k
    BY <1>1, <1>4, <1>5, <1>21, <1>22, NoRowIsNoValue DEF Settles
  <1>24. TellsTrue(t)'
    <2>1. ASSUME NEW j \in PaymentIds
          PROVE  /\ Confirmed(j) \in outbox'[t] <=> Settles(t, j)'
                 /\ Settles(t, j)' => \A p \in LinesOf(committed, db[Payment(j)].order)' :
                                         PaidTo(db'[Payment(j)].order, VendorOf[p]) \in outbox'[t]
                 /\ Failed(j) \in outbox'[t] =>
                       /\ owner'[Payment(j)] = t
                       /\ gateway'[j] = "short" \/ db'[Payment(j)].status # PaymentOf(j)'.status
      <3>1. Confirmed(j) \in outbox'[t] <=> Settles(t, j)'
        BY <1>10, <1>11, <1>23
      <3>2. Settles(t, j)' => \A p \in LinesOf(committed, db[Payment(j)].order)' :
                                  PaidTo(db'[Payment(j)].order, VendorOf[p]) \in outbox'[t]
        <4>1. LinesOf(committed', was.order) = LinesOf(committed, was.order)
          BY <1>19
        <4> QED
          BY <1>5, <1>10, <1>11, <1>19, <1>22, <1>23, <4>1 DEF LinesOf
      <3>3. Failed(j) \in outbox'[t] =>
                       /\ owner'[Payment(j)] = t
                       /\ gateway'[j] = "short" \/ db'[Payment(j)].status # PaymentOf(j)'.status
        BY <1>4, <1>5, <1>8, <1>10, <1>11, <1>13, <1>22
      <3> QED
        BY <3>1, <3>2, <3>3
    <2>2. ASSUME NEW n \in OrderIds, NEW v \in Vendors
          PROVE  /\ PaidTo(n, v) \in outbox'[t] =>
                       \E j \in PaymentIds : Settles(t, j)' /\ db'[Payment(j)].order = n
                 /\ PaymentsEnabled => Announced(n, v) \notin outbox'[t]
      BY <1>5, <1>10, <1>11, <1>22, <1>23
    <2> QED
      BY <2>1, <2>2 DEF TellsTrue
  <1>25. ASSUME NEW j \in PaymentIds PROVE HolderOK(j)' /\ Accounted(j)'
    <2>1. HolderOK(j)'
      BY <1>18, <1>20, HolderStays DEF Uncommitted
    <2>2. CASE j = k
      <3>1. old # NoRow /\ row.order = old.order /\ committed'[Order(row.order)] # NoRow
        BY <1>1, <1>12, <1>5, <1>13, <1>19
      <3>2. row.status = "SUCCESS" => gateway'[k] = "success"
        BY <1>4, <1>5, <1>8
      <3> QED
        BY <1>22, <2>1, <2>2, <3>1, <3>2, NoRowIsNoValue DEF Accounted
    <2>3. CASE j # k
      BY <1>8, <1>19, <2>1, <2>3 DEF PayInv, Accounted, PaymentOf, IsPaid
    <2> QED
      BY <2>2, <2>3
  <1> QED
    BY <1>8, <1>11, <1>17, <1>18, <1>20, <1>24, <1>25, UncommittedKeeps

-----------------------------------------------------------------------------
(* Paystack, and the end of a request. *)

LEMMA ChargeKeeps ==
    ASSUME OrderInv, PayInv, NEW k \in PaymentIds, NEW outcome \in {"failed", "short", "success"},
           Charge(k, outcome)
    PROVE  OrderInv' /\ PayInv'
  <1>1. /\ UNCHANGED <<db, committed, owner, pc, req, seen, outbox, notices, delivery, faults>>
        /\ PaymentOf(k) # NoRow /\ gateway[k] \in {"open", "failed"}
        /\ gateway' = [gateway EXCEPT ![k] = outcome]
        /\ hooks' \in {hooks, hooks \cup {k}}
    BY DEF Charge, vars, PaymentOf
  <1>2. PaymentTypeOK'
    BY <1>1 DEF PayInv, PaymentTypeOK, GatewayStatus
  <1>3. \A j \in PaymentIds : /\ gateway[j] = "short" => gateway'[j] = "short"
                              /\ j # k => gateway'[j] = gateway[j]
    BY <1>1 DEF PayInv, PaymentTypeOK
  <1>4. /\ \A j \in PaymentIds : (IsPaid(j)' <=> IsPaid(j)) /\ PaymentOf(j)' = PaymentOf(j)
        /\ \A t \in Txns, j \in PaymentIds : Settles(t, j)' <=> Settles(t, j)
        /\ \A o : LinesOf(committed, o)' = LinesOf(committed, o)
    BY <1>1 DEF IsPaid, PaymentOf, Settles, LinesOf
  <1>5. ASSUME NEW t \in Txns PROVE PayRequestOK(t)' /\ TellsTrue(t)'
    <2>1. PayRequestOK(t)'
      BY <1>1 DEF PayInv, PayRequestOK, LinesOf
    <2>2. TellsTrue(t)'
      BY <1>1, <1>3, <1>4 DEF PayInv, TellsTrue, LinesOf
    <2> QED
      BY <2>1, <2>2
  <1>6. ASSUME NEW j \in PaymentIds PROVE HolderOK(j)' /\ Accounted(j)'
    <2>1. HolderOK(j)'
      BY <1>1 DEF PayInv, HolderOK
    <2>2. CASE j = k
      BY <1>1, <1>4, <2>1, <2>2 DEF PayInv, Accounted, PaymentOf
    <2>3. CASE j # k
      BY <1>1, <1>3, <1>4, <2>1, <2>3 DEF PayInv, Accounted
    <2> QED
      BY <2>2, <2>3
  <1>7. ConfirmedOnce' /\ UnpaidIsUnannounced'
    BY <1>1, <1>5, NewsStays
  <1>8. \A j \in hooks' : PaymentOf(j)' # NoRow
    <2>1. \A j \in hooks' : j = k \/ j \in hooks
      BY <1>1
    <2>2. \A j \in hooks : j \in PaymentIds /\ PaymentOf(j) # NoRow
      BY DEF PayInv, PaymentTypeOK
    <2> QED
      BY <1>1, <1>4, <2>1, <2>2
  <1>9. OrderInv'
    BY <1>1, StutterKeeps
  <1> QED
    BY <1>1, <1>2, <1>5, <1>6, <1>7, <1>8, <1>9 DEF PayInv

\* A request that is rolled back tells nothing and leaves what was committed.
LEMMA RollbackKeepsPay ==
    ASSUME OrderInv, PayInv, NEW t \in Txns, Rollback(t), UNCHANGED <<gateway, hooks>>,
           faults' \in 0..MaxFaults,
           \/ delivery' = [delivery EXCEPT ![t] = NoRow]
           \/ delivery' = delivery /\ delivery[t] = NoRow
    PROVE  OrderInv' /\ PayInv'
  <1>1. OrderInv'
    BY RollbackKeeps
  <1>2. /\ Others(Rows, t) /\ committed' = committed
        /\ \A r \in Rows : db'[r] = IF owner[r] = t THEN committed[r] ELSE db[r]
        /\ \A r \in Rows : owner'[r] # t
    BY RowsStored, RollbackEffect DEF OrderInv, Rollback
  <1>3. /\ pc' = [pc EXCEPT ![t] = "idle"] /\ outbox' = [outbox EXCEPT ![t] = {}]
        /\ notices' = notices /\ OthersUntouched(t)
    BY <1>2, ForgetKeeps DEF Rollback, Forget
  <1>4. PaymentTypeOK' /\ pc'[t] = "idle" /\ \A u \in Txns \ {t} : delivery'[u] = delivery[u]
    <2>1. PaymentTypeOK /\ pc' \in [Txns -> PaySteps] /\ pc'[t] = "idle" /\ delivery'[t] = NoRow
      BY <1>3 DEF PayInv, PaymentTypeOK, PaySteps, Steps
    <2>2. /\ delivery' \in [Txns -> PaymentIds \cup {NoRow}]
          /\ \A u \in Txns \ {t} : delivery'[u] = delivery[u]
      BY <2>1 DEF PaymentTypeOK
    <2>3. \A u \in Txns : delivery'[u] # NoRow => pc'[u] \in {"settle", "verify", "commit"}
      BY <1>3, <2>1, <2>2 DEF PaymentTypeOK
    <2>4. \A k \in PaymentIds :
              {db[Payment(k)], committed[Payment(k)]}' \subseteq PaymentRow \cup {NoRow}
      BY <1>1 DEF OrderInv, StoreInv, RowsOK
    <2> QED
      BY <2>1, <2>2, <2>3, <2>4 DEF PaymentTypeOK, PaySteps, Steps
  <1>5. outbox'[t] = {} /\ outbox' = [u \in Txns |-> outbox'[u]]
        /\ \A u \in Txns \ {t} : outbox'[u] = outbox[u]
    BY <1>3 DEF PayInv
  <1>6. Uncommitted(t)
    BY <1>2, <1>3, <1>4, <1>5 DEF Uncommitted, Apart
  <1>7. PayRequestOK(t)'
    BY <1>4 DEF PayRequestOK
  <1>8. TellsTrue(t)'
    BY <1>2, <1>5, RowKinds DEF TellsTrue, Settles
  <1>9. ASSUME NEW k \in PaymentIds PROVE HolderOK(k)' /\ Accounted(k)'
    <2>1. HolderOK(k)'
      BY <1>2, <1>6, RowKinds, HolderStays DEF Uncommitted
    <2>2. Accounted(k) /\ (IsPaid(k)' <=> IsPaid(k)) /\ PaymentOf(k)' = PaymentOf(k)
      BY <1>2 DEF PayInv, IsPaid, PaymentOf
    <2>3. db'[Payment(k)] = db[Payment(k)] \/ db'[Payment(k)] = PaymentOf(k)
      BY <1>2, RowKinds DEF PaymentOf
    <2>4. Accounted(k)'
      BY <1>2, <2>2, <2>3 DEF Accounted, IsPaid
    <2> QED
      BY <2>1, <2>4
  <1> QED
    BY <1>1, <1>4, <1>5, <1>6, <1>7, <1>8, <1>9, UncommittedKeeps

\* The commit is where an attempt becomes paid and the news of it goes out.
LEMMA PayCommitKeeps ==
    ASSUME OrderInv, PayInv, NEW t \in Txns, PayCommit(t)
    PROVE  OrderInv' /\ PayInv'
  <1>1. /\ Commit(t) /\ pc[t] = "commit" /\ gateway' = gateway /\ faults' = faults
        /\ delivery' = [delivery EXCEPT ![t] = NoRow] /\ hooks' \subseteq hooks
    BY DEF PayCommit, Commit
  <1>2. OrderInv'
    BY <1>1, CommitKeeps
  <1>3. /\ Others(Rows, t) /\ db' = db
        /\ \A r \in Rows : committed'[r] = IF owner[r] = t THEN db[r] ELSE committed[r]
        /\ \A r \in Rows : owner'[r] # t
    BY <1>1, RowsStored, CommitEffect DEF OrderInv, Commit
  <1>4. /\ pc' = [pc EXCEPT ![t] = "idle"] /\ outbox' = [outbox EXCEPT ![t] = {}]
        /\ notices' = notices \cup outbox[t] /\ OthersUntouched(t)
    BY <1>1, <1>3, ForgetKeeps DEF Commit, Forget
  <1>5. PaymentTypeOK' /\ pc'[t] = "idle" /\ \A u \in Txns \ {t} : delivery'[u] = delivery[u]
    <2>1. PaymentTypeOK /\ pc' \in [Txns -> PaySteps] /\ pc'[t] = "idle"
      BY <1>4 DEF PayInv, PaymentTypeOK, PaySteps, Steps
    <2>2. /\ delivery' \in [Txns -> PaymentIds \cup {NoRow}] /\ delivery'[t] = NoRow
          /\ \A u \in Txns \ {t} : delivery'[u] = delivery[u]
      BY <1>1, <2>1 DEF PaymentTypeOK
    <2>3. \A u \in Txns : delivery'[u] # NoRow => pc'[u] \in {"settle", "verify", "commit"}
      BY <1>4, <2>1, <2>2 DEF PaymentTypeOK
    <2>4. \A k \in PaymentIds :
              {db[Payment(k)], committed[Payment(k)]}' \subseteq PaymentRow \cup {NoRow}
      BY <1>2 DEF OrderInv, StoreInv, RowsOK
    <2> QED
      BY <1>1, <2>1, <2>2, <2>3, <2>4 DEF PaymentTypeOK, PaySteps, Steps
  <1>6. outbox'[t] = {} /\ outbox' = [u \in Txns |-> outbox'[u]]
        /\ \A u \in Txns \ {t} : outbox'[u] = outbox[u]
    BY <1>4 DEF PayInv
  <1>7. Apart(t)
    BY <1>3, <1>4, <1>5, <1>6 DEF Apart
  <1>8. ASSUME NEW k \in PaymentIds
        PROVE  /\ PaymentOf(k)' = PaymentOf(k) \/ PaymentOf(k)' = db[Payment(k)]
               /\ PaymentOf(k) # NoRow =>
                     PaymentOf(k)' # NoRow /\ PaymentOf(k)'.order = PaymentOf(k).order
               /\ IsPaid(k)' <=> IsPaid(k) \/ Settles(t, k)
               /\ IsPaid(k) => PaymentOf(k)' = PaymentOf(k)
               /\ Settles(t, k) => PaymentOf(k)' = db[Payment(k)]
    <2>1. Payment(k) \in Rows /\ Accounted(k)
      BY RowKinds DEF PayInv
    <2> QED
      BY <1>3, <2>1 DEF PaymentOf, IsPaid, Settles, Accounted
  <1>9. ASSUME NEW o \in OrderIds, committed[Order(o)] # NoRow
        PROVE  committed'[Order(o)] # NoRow /\ LinesOf(committed, o)' = LinesOf(committed, o)
    <2>1. committed'[Order(o)] # NoRow
      BY <1>3, <1>9, RowKinds DEF OrderInv, StoreInv, RowsKept
    <2>2. \A p \in Products : committed'[Line(o, p)] # NoRow <=> committed[Line(o, p)] # NoRow
      BY <1>3, <1>9, RowKinds DEF OrderInv, StoreInv, RowsKept, LinesHaveOrders
    <2> QED
      BY <2>1, <2>2 DEF LinesOf
  <1>10. Lasting
    BY <1>1, <1>8, <1>9 DEF Lasting
  <1>11. PayRequestOK(t)'
    BY <1>5 DEF PayRequestOK
  <1>12. TellsTrue(t)'
    BY <1>3, <1>6, RowKinds DEF TellsTrue, Settles
  <1>13. \A u \in Txns : PayRequestOK(u)' /\ TellsTrue(u)'
    BY <1>7, <1>10, <1>11, <1>12, OthersPay
  <1>14. ASSUME NEW k \in PaymentIds PROVE HolderOK(k)' /\ Accounted(k)'
    <2>1. HolderOK(k)'
      BY <1>3, <1>7, RowKinds, HolderStays
    <2>2. Payment(k) \in Rows /\ Accounted(k)
      BY RowKinds DEF PayInv
    <2>3. db[Payment(k)] # NoRow => committed'[Order(db[Payment(k)].order)] # NoRow
      <3>1. SUFFICES ASSUME db[Payment(k)] # NoRow
                     PROVE  committed'[Order(db[Payment(k)].order)] # NoRow
        OBVIOUS
      <3>2. db[Payment(k)].order \in OrderIds
        BY <2>2, <3>1 DEF OrderInv, StoreInv, RowsOK, PaymentRow
      <3> QED
        BY <1>9, <2>2, <3>1, <3>2 DEF Accounted
    <2>4. Accounted(k)'
      BY <1>1, <1>3, <1>8, <2>2, <2>3 DEF Accounted, IsPaid, PaymentOf
    <2> QED
      BY <2>1, <2>4
  <1>15. ConfirmedOnce'
    <2>1. ASSUME NEW k \in PaymentIds PROVE IsPaid(k)' <=> Confirmed(k) \in notices'
      BY <1>4, <1>8 DEF PayInv, ConfirmedOnce, TellsTrue
    <2>2. ASSUME NEW k \in PaymentIds, IsPaid(k)',
                 NEW p \in LinesOf(committed, PaymentOf(k).order)'
          PROVE  PaidTo(PaymentOf(k)'.order, VendorOf[p]) \in notices'
      <3>1. Accounted(k) /\ TellsTrue(t) /\ ConfirmedOnce
        BY DEF PayInv
      <3>2. CASE IsPaid(k)
        <4>1. PaymentOf(k)' = PaymentOf(k) /\ db[Payment(k)] = PaymentOf(k) /\ PaymentOf(k) # NoRow
          BY <1>8, <3>1, <3>2 DEF Accounted, IsPaid
        <4>2. PaymentOf(k).order \in OrderIds /\ committed[Order(PaymentOf(k).order)] # NoRow
          BY <3>1, <4>1 DEF Accounted, OrderInv, StoreInv, RowsOK, PaymentRow
        <4>3. p \in LinesOf(committed, PaymentOf(k).order)
          BY <1>9, <4>1, <4>2, <2>2 DEF LinesOf
        <4> QED
          BY <1>4, <3>1, <3>2, <4>1, <4>3 DEF ConfirmedOnce
      <3>3. CASE Settles(t, k)
        <4>1. PaymentOf(k)' = db[Payment(k)] /\ db[Payment(k)] # NoRow
          BY <1>8, <3>3 DEF Settles
        <4>2. db[Payment(k)].order \in OrderIds /\ committed[Order(db[Payment(k)].order)] # NoRow
          BY <3>1, <4>1 DEF Accounted, OrderInv, StoreInv, RowsOK, PaymentRow
        <4>3. p \in LinesOf(committed, db[Payment(k)].order)
          BY <1>9, <4>1, <4>2, <2>2 DEF LinesOf
        <4> QED
          BY <1>4, <3>1, <3>3, <4>1, <4>3 DEF TellsTrue
      <3> QED
        BY <1>8, <2>2, <3>2, <3>3
    <2>3. \A u \in Txns, k \in PaymentIds : IsPaid(k)' => Confirmed(k) \notin outbox'[u]
      BY <1>13 DEF TellsTrue, Settles
    <2> QED
      BY <2>1, <2>2, <2>3 DEF ConfirmedOnce
  <1>16. UnpaidIsUnannounced'
    <2> SUFFICES ASSUME PaymentsEnabled, NEW o \in OrderIds, NEW v \in Vendors
                 PROVE  /\ Announced(o, v) \notin notices'
                        /\ PaidTo(o, v) \in notices' => Paid(committed, o)'
      BY DEF UnpaidIsUnannounced
    <2>1. UnpaidIsUnannounced /\ TellsTrue(t)
      BY DEF PayInv
    <2>2. Announced(o, v) \notin notices'
      BY <1>4, <2>1 DEF UnpaidIsUnannounced, TellsTrue
    <2>3. CASE PaidTo(o, v) \in notices
      <3>1. PICK k \in PaymentIds : IsPaid(k) /\ PaymentOf(k).order = o
        BY <2>1, <2>3 DEF UnpaidIsUnannounced, Paid, IsPaid, PaymentOf
      <3> QED
        BY <1>8, <2>2, <3>1 DEF Paid, IsPaid, PaymentOf
    <2>4. CASE PaidTo(o, v) \in outbox[t]
      <3>1. PICK k \in PaymentIds : Settles(t, k) /\ db[Payment(k)].order = o
        BY <2>1, <2>4 DEF TellsTrue
      <3> QED
        BY <1>8, <2>2, <3>1 DEF Paid, IsPaid, PaymentOf
    <2> QED
      BY <1>4, <2>2, <2>3, <2>4
  <1>17. \A k \in hooks' : PaymentOf(k)' # NoRow
    BY <1>1, <1>8 DEF PayInv, PaymentTypeOK
  <1> QED
    BY <1>2, <1>5, <1>6, <1>13, <1>14, <1>15, <1>16, <1>17 DEF PayInv

-----------------------------------------------------------------------------
(* The theorems. *)

LEMMA PayInitially == ASSUME PayInit PROVE OrderInv /\ PayInv
  <1>1. OrderInv
    BY Initially DEF PayInit
  <1>2. \A k \in PaymentIds : InitialRows[Payment(k)] = NoRow
    BY RowKinds DEF InitialRows, Payment
  <1>3. /\ \A k \in PaymentIds : /\ db[Payment(k)] = NoRow /\ committed[Payment(k)] = NoRow
                                 /\ gateway[k] = "none" /\ owner[Payment(k)] = Nobody
        /\ \A t \in Txns : pc[t] = "idle" /\ outbox[t] = {} /\ delivery[t] = NoRow
        /\ hooks = {} /\ notices = {} /\ faults = 0
    BY <1>2, RowKinds DEF PayInit, Init, InitStore, InitialRows
  <1>4. PaymentTypeOK /\ outbox = [t \in Txns |-> outbox[t]]
    BY <1>3, PaymentsAssumption DEF PayInit, Init, PaymentTypeOK, GatewayStatus
  <1>5. \A k \in PaymentIds : HolderOK(k) /\ Accounted(k)
    BY <1>3, NobodyIsNoTxn DEF HolderOK, Accounted, IsPaid, PaymentOf
  <1>6. \A t \in Txns : PayRequestOK(t) /\ TellsTrue(t)
    BY <1>3 DEF PayRequestOK, TellsTrue, Settles
  <1>7. ConfirmedOnce /\ UnpaidIsUnannounced
    BY <1>3 DEF ConfirmedOnce, UnpaidIsUnannounced, IsPaid, PaymentOf
  <1> QED
    BY <1>1, <1>3, <1>4, <1>5, <1>6, <1>7 DEF PayInv

LEMMA RaiseKeeps ==
    ASSUME OrderInv, PayInv, NEW t \in Txns, Raise(t) \/ PayVictim(t)
    PROVE  OrderInv' /\ PayInv'
  <1>1. faults' \in 0..MaxFaults
    BY PaymentsAssumption DEF Raise, PayVictim, PayInv, PaymentTypeOK
  <1> QED
    BY <1>1, RollbackKeepsPay DEF Raise, PayVictim, Abort

LEMMA RefuseKeeps ==
    ASSUME OrderInv, PayInv, NEW t \in Txns,
           \/ RefusePayment(t)
           \/ RefuseCheckout(t) /\ UNCHANGED outside
    PROVE  OrderInv' /\ PayInv'
  <1>1. delivery[t] = NoRow
    BY DEF RefusePayment, RefuseCheckout, PayInv, PaymentTypeOK
  <1>2. faults' \in 0..MaxFaults
    BY DEF RefusePayment, RefuseCheckout, outside, PayInv, PaymentTypeOK
  <1> QED
    BY <1>1, <1>2, RollbackKeepsPay DEF RefusePayment, RefuseCheckout, outside

LEMMA PayNextKeeps == ASSUME OrderInv, PayInv, PayNext PROVE OrderInv' /\ PayInv'
  <1>1. ASSUME NEW t \in Txns, PayArrive(t) PROVE OrderInv' /\ PayInv'
    BY <1>1, ArriveKeeps, ArriveKeepsPay, BeginPayKeeps, BeginSettleKeeps DEF PayArrive
  <1>2. ASSUME NEW t \in Txns, Serve(t), UNCHANGED outside PROVE OrderInv' /\ PayInv'
    BY <1>2, ServeKeeps, WorksKeepPay, RefuseKeeps DEF Serve, Works, TakesNumber
  <1>3. ASSUME NEW t \in Txns, PayStep(t) PROVE OrderInv' /\ PayInv'
    <2>1. CASE StartPayment(t)
      BY <2>1, StartPaymentKeeps
    <2>4. CASE RefusePayment(t)
      BY <2>4, RefuseKeeps
    <2>2. CASE Initialise(t) \/ LockPayment(t) \/ Verify(t)
      BY <2>2, InitialiseKeeps, LockPaymentKeeps, VerifyKeeps
    <2>3. CASE PayCommit(t)
      BY <2>3, PayCommitKeeps
    <2> QED
      BY <1>2, <1>3, <2>1, <2>2, <2>3, <2>4 DEF PayStep
  <1>4. ASSUME NEW t \in Txns, PaystackFails(t) \/ PayAbort(t) \/ PayVictim(t)
        PROVE  OrderInv' /\ PayInv'
    BY <1>4, RaiseKeeps DEF PaystackFails, PayAbort
  <1> QED
    BY <1>1, <1>3, <1>4, ChargeKeeps DEF PayNext

LEMMA PayStutterKeeps == ASSUME OrderInv, PayInv, UNCHANGED payVars PROVE OrderInv' /\ PayInv'
  <1>1. UNCHANGED <<db, committed, owner, pc, req, seen, outbox, notices, gateway, hooks, delivery, faults>>
    BY DEF payVars
  <1>2. OrderInv'
    BY <1>1, StutterKeeps
  <1>3. PaymentTypeOK' /\ ConfirmedOnce' /\ UnpaidIsUnannounced'
    BY <1>1 DEF PayInv, PaymentTypeOK, ConfirmedOnce, UnpaidIsUnannounced, IsPaid, PaymentOf, LinesOf, Paid
  <1>4. ASSUME NEW t \in Txns PROVE PayRequestOK(t)' /\ TellsTrue(t)'
    <2>1. PayRequestOK(t)'
      BY <1>1 DEF PayInv, PayRequestOK, LinesOf
    <2>2. TellsTrue(t)'
      BY <1>1 DEF PayInv, TellsTrue, Settles, IsPaid, PaymentOf, LinesOf
    <2> QED
      BY <2>1, <2>2
  <1>5. \A k \in PaymentIds : HolderOK(k)' /\ Accounted(k)'
    BY <1>1 DEF PayInv, HolderOK, Accounted, IsPaid, PaymentOf
  <1>6. \A k \in hooks' : PaymentOf(k)' # NoRow
    BY <1>1 DEF PayInv, PaymentOf
  <1> QED
    BY <1>1, <1>2, <1>3, <1>4, <1>5, <1>6 DEF PayInv

\* A commit is the only step that changes what is committed.
LEMMA OnlyCommitCommits ==
    ASSUME OrderInv, [PayNext]_payVars
    PROVE  committed' = committed \/ \E t \in Txns : PayCommit(t)
  <1>1. ASSUME NEW t \in Txns, Arrive(t) PROVE committed' = committed
    BY <1>1 DEF Arrive, BeginCheckout, BeginAdvance, BeginCancel, BeginEdit, Begin
  <1>2. ASSUME NEW t \in Txns, Serve(t) PROVE committed' = committed
    BY <1>2, WorksOnOrders DEF Serve, Works, TakesNumber, RefuseCheckout, Rollback, RollbackTxn
  <1>4. ASSUME NEW t \in Txns, StartPayment(t) \/ Verify(t) PROVE committed' = committed
    BY <1>4 DEF StartPayment, Verify, WriteRows
  <1>5. ASSUME NEW t \in Txns, RefusePayment(t) \/ Initialise(t) \/ LockPayment(t)
        PROVE  committed' = committed
    BY <1>5 DEF RefusePayment, Initialise, LockPayment, TakePayment, LockRow, Rollback, RollbackTxn
  <1>6. ASSUME NEW t \in Txns, PaystackFails(t) \/ PayAbort(t) \/ PayVictim(t)
        PROVE  committed' = committed
    BY <1>6 DEF PaystackFails, PayAbort, Raise, Abort, PayVictim, Rollback, RollbackTxn
  <1>7. ASSUME NEW k \in PaymentIds, NEW outcome, Charge(k, outcome) PROVE committed' = committed
    BY <1>7 DEF Charge, vars
  <1>8. CASE UNCHANGED payVars
    BY <1>8 DEF payVars
  <1>9. ASSUME NEW t \in Txns, PayArrive(t) PROVE committed' = committed
    BY <1>1, <1>9 DEF PayArrive, BeginPay, BeginVerify, BeginWebhook, Begin
  <1>10. ASSUME NEW t \in Txns, PayStep(t) PROVE committed' = committed \/ PayCommit(t)
    BY <1>2, <1>4, <1>5, <1>10 DEF PayStep
  <1> QED
    BY <1>6, <1>7, <1>8, <1>9, <1>10 DEF PayNext

LEMMA PaidRowStays ==
    ASSUME OrderInv, PayInv, NEW t \in Txns, PayCommit(t), NEW k \in PaymentIds, IsPaid(k)
    PROVE  committed'[Payment(k)] = committed[Payment(k)]
  <1>1. \A r \in Rows : committed'[r] = IF owner[r] = t THEN db[r] ELSE committed[r]
    BY RowsStored, CommitEffect DEF OrderInv, PayCommit, Commit
  <1> QED
    BY <1>1, RowKinds DEF PayInv, Accounted, PaymentOf

\* Orders and attempts together: what locks, roll-backs, redelivered webhooks
\* and faults half way leave true.
THEOREM PayInvariance == PaySpec => [](OrderInv /\ PayInv)
  <1>1. PayInit => OrderInv /\ PayInv
    BY PayInitially
  <1>2. (OrderInv /\ PayInv) /\ [PayNext]_payVars => (OrderInv /\ PayInv)'
    BY PayNextKeeps, PayStutterKeeps
  <1> QED
    BY <1>1, <1>2, PTL DEF PaySpec

\* Every attempt, Paystack's record of it and every webhook under way have their type.
THEOREM PayTypeCorrect == PaySpec => []PaymentTypeOK
  <1>1. OrderInv /\ PayInv => PaymentTypeOK
    BY DEF PayInv
  <1> QED
    BY <1>1, PayInvariance, PTL

\* No attempt counts as paid that Paystack has not charged in full, whoever
\* settles it (settle's comparison of amount and currency, under the row's lock).
THEOREM ChargedBeforePaid == PaySpec => []PaidIsCharged
  <1>1. OrderInv /\ PayInv => PaidIsCharged
    BY DEF PayInv, PaidIsCharged, Accounted, IsPaid
  <1> QED
    BY <1>1, PayInvariance, PTL

\* The news of a payment is committed with the payment, complete and once,
\* although browser and webhook settle it at the same time.
THEOREM ToldOnce == PaySpec => []ConfirmedOnce
  <1>1. OrderInv /\ PayInv => ConfirmedOnce
    BY DEF PayInv
  <1> QED
    BY <1>1, PayInvariance, PTL

\* With online payment on, no order is announced to a vendor before it is paid.
\* (A vendor may still hear that an unpaid one is called off, from cancel_order.)
THEOREM QuietUntilPaid == PaySpec => []UnpaidIsUnannounced
  <1>1. OrderInv /\ PayInv => UnpaidIsUnannounced
    BY DEF PayInv
  <1> QED
    BY <1>1, PayInvariance, PTL

\* The payer hears that a charge failed only when the status changes (settle's
\* comparison with the status it read under the lock).  Nothing is said of a charge
\* that falls short: its settlement tells the payer each time.
THEOREM FailureIsNews == PaySpec => []FailureToldOnChange
  <1>1. OrderInv /\ PayInv => FailureToldOnChange
    BY DEF PayInv, TellsTrue, FailureToldOnChange
  <1> QED
    BY <1>1, PayInvariance, PTL

\* A payment that is committed as paid is never written again.
THEOREM PaidForGood == PaySpec => PaidStaysPaid
  <1>1. ASSUME OrderInv, PayInv, [PayNext]_payVars, NEW k \in PaymentIds, IsPaid(k)
        PROVE  committed'[Payment(k)] = committed[Payment(k)]
    <2>1. CASE \E t \in Txns : PayCommit(t)
      BY <1>1, <2>1, PaidRowStays DEF PaymentOf
    <2>2. CASE committed' = committed
      BY <2>2
    <2> QED
      BY <1>1, <2>1, <2>2, OnlyCommitCommits
  <1>2. (OrderInv /\ PayInv) /\ [PayNext]_payVars =>
            [\A k \in PaymentIds : IsPaid(k) => committed'[Payment(k)] = committed[Payment(k)]]_payVars
    BY <1>1
  <1> QED
    BY <1>2, PayInvariance, PTL DEF PaySpec, PaidStaysPaid

\* What NeverOversold says of the requests of Orders alone holds with payments
\* among them.
THEOREM NeverOversoldPaying == PaySpec => []StockNeverNegative
  <1>1. OrderInv /\ PayInv => StockNeverNegative
    BY DEF OrderInv, StoreInv
  <1> QED
    BY <1>1, PayInvariance, PTL
=============================================================================
