------------------------- MODULE PaymentProperties -------------------------
(***************************************************************************)
(* What is asked of Payments.                                              *)
(***************************************************************************)
EXTENDS Payments

\* Every variable of the payment flow has its type, and a slot answers a
\* webhook only while it settles that attempt.
PaymentTypeOK ==
    /\ \A k \in PaymentIds : {db[Payment(k)], committed[Payment(k)]} \subseteq PaymentRow \cup {NoRow}
    /\ pc \in [Txns -> {"idle", "lock", "insert", "queue", "place", "restock", "mark", "rollup",
                        "edit", "commit", "pay", "initialise", "settle", "verify"}]
    /\ gateway \in [PaymentIds -> GatewayStatus]
    /\ hooks \subseteq PaymentIds
    /\ delivery \in [Txns -> PaymentIds \cup {NoRow}]
    /\ faults \in 0..MaxFaults
    /\ \A t \in Txns : delivery[t] # NoRow => pc[t] \in {"settle", "verify", "commit"}

PaymentOf(k) == committed[Payment(k)]
IsPaid(k) == PaymentOf(k) # NoRow /\ PaymentOf(k).status = "SUCCESS"

\* An attempt counts as paid only if Paystack charged the whole amount, in the
\* right currency, whoever asked to settle it and however often.
PaidIsCharged == \A k \in PaymentIds : IsPaid(k) => gateway[k] = "success"

\* The payer and every vendor of the order hear of a payment once: the news is
\* committed exactly with the step to SUCCESS, and no second request is about
\* to send it again, although browser and webhook arrive together.
ConfirmedOnce ==
    \A k \in PaymentIds :
        /\ IsPaid(k) <=> Confirmed(k) \in notices
        /\ IsPaid(k) => \A p \in LinesOf(committed, PaymentOf(k).order) :
                            PaidTo(PaymentOf(k).order, VendorOf[p]) \in notices
        /\ IsPaid(k) => \A t \in Txns : Confirmed(k) \notin outbox[t]

\* With online payment on, an order is not announced to its vendors, be it as new or
\* as paid, before somebody has paid for it.  (That its buyer calls it off they are
\* told all the same, by cancel_order.)
UnpaidIsUnannounced ==
    PaymentsEnabled =>
        \A o \in OrderIds, v \in Vendors :
            /\ Announced(o, v) \notin notices
            /\ PaidTo(o, v) \in notices => Paid(committed, o)

\* "Only on an actual transition": whoever is about to tell the payer of a
\* failure is about to change the status (the row's lock makes db its version).
\* A charge that falls short is the exception of the code.
FailureToldOnChange ==
    \A t \in Txns, k \in PaymentIds :
        /\ Failed(k) \in outbox[t]
        /\ gateway[k] # "short"
        => db[Payment(k)].status # PaymentOf(k).status

\* A paid attempt stays as it is, flag included.
PaidStaysPaid ==
    [][\A k \in PaymentIds : IsPaid(k) => committed'[Payment(k)] = committed[Payment(k)]]_payVars

\* Money that arrived is recorded: by the webhook, redelivered until it gets its
\* 200, even if the payer never comes back and requests fail half way.
ChargeIsRecorded == \A k \in PaymentIds : gateway[k] = "success" ~> IsPaid(k)

\* Every request ends, by commit or by rollback, however requests queue for
\* rows, wait for each other in circles or hold a row while Paystack answers.
EveryRequestEnds == \A t \in Txns : pc[t] # "idle" ~> pc[t] = "idle"

-----------------------------------------------------------------------------
(* The inductive invariant behind the safety properties. *)

\* What a request relies on at each step: the order it pays for, the attempt it
\* holds, and the lines its session shows of the order that attempt is for.
PayRequestOK(t) ==
    LET r == Payment(req[t].pay)
    IN  /\ pc[t] = "pay" => /\ req[t] \in [order : OrderIds]
                            /\ committed[Order(req[t].order)] # NoRow
        /\ pc[t] \in {"initialise", "settle", "verify"} => req[t] \in [pay : PaymentIds]
        /\ pc[t] = "initialise" => /\ owner[r] = t
                                   /\ committed[r] = NoRow
                                   /\ db[r] # NoRow /\ db[r].status = "PENDING"
        /\ pc[t] \in {"settle", "verify"} =>
              /\ committed[r] # NoRow
              /\ delivery[t] = NoRow =>
                    LinesOf(seen[t], committed[r].order) = LinesOf(committed, committed[r].order)
        /\ pc[t] = "verify" => /\ owner[r] = t
                               /\ db[r] = committed[r] /\ seen[t][r] = committed[r]
                               /\ committed[r].status # "SUCCESS"

\* Who holds an attempt: the request that starts or settles it, and no other.
HolderOK(k) ==
    \A t \in Txns : owner[Payment(k)] = t =>
        \/ pc[t] = "commit"
        \/ pc[t] \in {"initialise", "verify"} /\ req[t].pay = k

\* The attempt as Paystack, the transaction at work and the readers know it.
Accounted(k) ==
    LET now == db[Payment(k)]
    IN  /\ PaymentOf(k) = NoRow => gateway[k] \in {"none", "open"}
        /\ PaymentOf(k) # NoRow => now # NoRow /\ now.order = PaymentOf(k).order
        /\ now # NoRow => committed[Order(now.order)] # NoRow
        /\ now # NoRow /\ now.status = "SUCCESS" => gateway[k] = "success"
        /\ IsPaid(k) => now = PaymentOf(k)

\* An attempt that t is about to commit as paid.
Settles(t, k) ==
    /\ owner[Payment(k)] = t
    /\ db[Payment(k)] # NoRow /\ db[Payment(k)].status = "SUCCESS"
    /\ ~IsPaid(k)

\* A request tells what it is about to commit, and nothing else.
TellsTrue(t) ==
    /\ \A k \in PaymentIds :
        /\ Confirmed(k) \in outbox[t] <=> Settles(t, k)
        /\ Settles(t, k) => \A p \in LinesOf(committed, db[Payment(k)].order) :
                                PaidTo(db[Payment(k)].order, VendorOf[p]) \in outbox[t]
        /\ Failed(k) \in outbox[t] =>
              /\ owner[Payment(k)] = t
              /\ gateway[k] = "short" \/ db[Payment(k)].status # PaymentOf(k).status
    /\ \A o \in OrderIds, v \in Vendors :
        /\ PaidTo(o, v) \in outbox[t] => \E k \in PaymentIds : Settles(t, k) /\ db[Payment(k)].order = o
        /\ PaymentsEnabled => Announced(o, v) \notin outbox[t]

PayInv ==
    /\ PaymentTypeOK
    /\ outbox = [t \in Txns |-> outbox[t]]
    /\ \A k \in hooks : PaymentOf(k) # NoRow
    /\ \A t \in Txns : PayRequestOK(t) /\ TellsTrue(t)
    /\ \A k \in PaymentIds : HolderOK(k) /\ Accounted(k)
    /\ ConfirmedOnce
    /\ UnpaidIsUnannounced

-----------------------------------------------------------------------------
(* What comments of the code say and the code does not keep. *)

\* "cancel_order refuses to cancel a paid order, so reaching this means a
\* cancellation landed inside the payment window and a refund is owed": an
\* order that is cancelled and paid has its payment flagged.
RefundFlagged ==
    \A k \in PaymentIds :
        IsPaid(k) /\ committed[Order(PaymentOf(k).order)].status = "CANCELLED" => PaymentOf(k).refund
=============================================================================
