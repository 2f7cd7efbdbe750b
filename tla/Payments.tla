------------------------------ MODULE Payments ------------------------------
(***************************************************************************)
(* Paying for an order (modules/payments): the requests that start an      *)
(* attempt and the requests that settle one, among those of Orders, with   *)
(* Paystack as the outside world sees it.                                  *)
(*                                                                         *)
(* An attempt is settled from two places, the payer's browser coming back  *)
(* and Paystack's webhook, and either only says which attempt to look at:  *)
(* the outcome is what Paystack answers while the payment row is locked.   *)
(***************************************************************************)
EXTENDS Orders

CONSTANT MaxFaults   \* requests of the instance that fail half way

ASSUME PaymentsAssumption == NoRow \notin PaymentIds /\ MaxFaults \in Nat

VARIABLES
    gateway,    \* Paystack's record of each attempt
    hooks,      \* the charges whose webhook Paystack has not had a 200 for
    delivery,   \* the webhook the request of each slot answers, NoRow for a browser's
    faults      \* requests that have failed half way

outside == <<gateway, hooks, delivery, faults>>
payVars == <<db, committed, owner, pc, req, seen, outbox, notices, gateway, hooks, delivery, faults>>

\* "short": charged, but less than was asked for or in another currency.
GatewayStatus == {"none", "open", "failed", "short", "success"}

Confirmed(k) == <<"PAYMENT_RECEIVED", k>>
PaidTo(o, v) == <<"PAYMENT_RECEIVED", o, v>>
Failed(k) == <<"PAYMENT_FAILED", k>>

PayInit ==
    /\ Init
    /\ gateway = [k \in PaymentIds |-> "none"]
    /\ hooks = {}
    /\ delivery = [t \in Txns |-> NoRow]
    /\ faults = 0

-----------------------------------------------------------------------------
(* Starting an attempt. *)

Free == {k \in PaymentIds : db[Payment(k)] = NoRow}

\* PaymentIds bounds the attempts of the instance.
BeginPay(t, o) ==
    /\ committed[Order(o)] # NoRow
    /\ Cardinality(Free) > Cardinality({u \in Txns : pc[u] = "pay"})
    /\ Begin(t, "pay", [order |-> o], OrderQuery(o))
    /\ UNCHANGED outside

\* The order is read under its lock, the earlier attempts in the request's view.
Payable(t) ==
    /\ db[Order(req[t].order)].status # "CANCELLED"
    /\ ~Paid(seen[t], req[t].order)

\* SELECT the order FOR UPDATE and insert the attempt.  The order keeps its
\* value; writing it here takes its lock.
StartPayment(t) ==
    LET o == req[t].order
    IN  /\ pc[t] = "pay"
        /\ Payable(t)
        /\ \E k \in Free :
            /\ WriteRows(t, [r \in {Order(o), Payment(k)} |->
                    IF r = Order(o) THEN db[r]
                    ELSE [order |-> o, status |-> "PENDING", refund |-> FALSE]])
            /\ req' = [req EXCEPT ![t] = [pay |-> k]]
        /\ pc' = [pc EXCEPT ![t] = "initialise"]
        /\ UNCHANGED <<seen, outbox, notices, gateway, hooks, delivery, faults>>

RefusePayment(t) ==
    /\ pc[t] = "pay"
    /\ Grantable(t, Order(req[t].order))
    /\ ~Payable(t)
    /\ Rollback(t)
    /\ UNCHANGED outside

\* The order stays locked while Paystack is asked for a checkout page.
Initialise(t) ==
    /\ pc[t] = "initialise"
    /\ gateway' = [gateway EXCEPT ![req[t].pay] = "open"]
    /\ Finish(t)
    /\ UNCHANGED <<db, committed, owner, outbox, notices, hooks, delivery, faults>>

-----------------------------------------------------------------------------
(* Paystack and the payer, who has the address of the page once start has   *)
(* answered.  An attempt that failed may be tried again on the same page.   *)

Charge(k, outcome) ==
    /\ committed[Payment(k)] # NoRow
    /\ gateway[k] \in {"open", "failed"}
    /\ outcome # gateway[k]
    /\ gateway' = [gateway EXCEPT ![k] = outcome]
    /\ hooks' = IF outcome = "failed" THEN hooks ELSE hooks \cup {k}
    /\ UNCHANGED <<vars, delivery, faults>>

\* What verify_transaction may be told: an attempt nobody has completed is
\* pending or, as Paystack also puts it, abandoned.
Answers(g) == IF g = "open" THEN {"pending", "abandoned"} ELSE {g}

-----------------------------------------------------------------------------
(* Settling an attempt. *)

BeginVerify(t, k) ==
    /\ committed[Payment(k)] # NoRow
    /\ Begin(t, "settle", [pay |-> k], OrderQuery(committed[Payment(k)].order))
    /\ UNCHANGED outside

\* No token, hence no SELECT before settle: the view is opened later.
BeginWebhook(t, k) ==
    /\ k \in hooks
    /\ Begin(t, "settle", [pay |-> k], {})
    /\ delivery' = [delivery EXCEPT ![t] = k]
    /\ UNCHANGED <<gateway, hooks, faults>>

TakePaymentSlip(t, r) ==   \* a plain read
    UNCHANGED <<db, committed, owner>>

TakePayment(t, r) == LockRow(t, r)

SettledSlip(row) == FALSE   \* what is settled is settled again

\* SUCCESS is the only terminal state.
Settled(row) == row.status = "SUCCESS"

\* SELECT the payment FOR UPDATE.
LockPayment(t) ==
    LET r == Payment(req[t].pay)
    IN  /\ pc[t] = "settle"
        /\ TakePayment(t, r)
        /\ IF Settled(db[r])
           THEN Finish(t)
           ELSE /\ pc' = [pc EXCEPT ![t] = "verify"]
                /\ seen' = [seen EXCEPT ![t][r] = db[r]]
                /\ UNCHANGED req
        /\ UNCHANGED <<outbox, notices, gateway, hooks, delivery, faults>>

VerdictSlip(answer) ==   \* the amount is not compared
    CASE answer \in {"success", "short"} -> "SUCCESS"
      [] answer = "pending"   -> "PENDING"
      [] answer = "abandoned" -> "ABANDONED"
      [] OTHER                -> "FAILED"

VerdictRaw(answer) == answer   \* Paystack's word stored as it is

\* The payment's status after Paystack's answer.
Verdict(answer) ==
    CASE answer = "success"   -> "SUCCESS"
      [] answer = "pending"   -> "PENDING"
      [] answer = "abandoned" -> "ABANDONED"
      [] OTHER                -> "FAILED"

\* The plain SELECTs of settle: in the view of the user check, or in one opened now.
View(t) == IF delivery[t] = NoRow THEN seen[t] ELSE committed

SettleNewsSlip(t, answer, was) ==   \* every failure is told again
    IF answer = "success"
    THEN {Confirmed(req[t].pay)}
         \cup {PaidTo(was.order, VendorOf[p]) : p \in LinesOf(View(t), was.order)}
    ELSE IF answer # "pending" THEN {Failed(req[t].pay)}
    ELSE {}

\* _notify_success and _notify_failure.  A charge that falls short is told each time.
SettleNews(t, answer, was) ==
    IF answer = "success"
    THEN {Confirmed(req[t].pay)}
         \cup {PaidTo(was.order, VendorOf[p]) : p \in LinesOf(View(t), was.order)}
    ELSE IF answer = "short" \/ (answer # "pending" /\ was.status # Verdict(answer))
    THEN {Failed(req[t].pay)}
    ELSE {}

\* Paystack answers and the outcome is written.  The order is read last, after
\* the answer; a charge that succeeded stays so, hence one step stands for both.
Verify(t) ==
    LET k == req[t].pay
        was == seen[t][Payment(k)]
    IN  /\ pc[t] = "verify"
        /\ \E answer \in Answers(gateway[k]) :
            /\ WriteRows(t, [r \in {Payment(k)} |->
                    [order  |-> was.order,
                     status |-> Verdict(answer),
                     refund |-> /\ answer = "success"
                                /\ View(t)[Order(was.order)].status = "CANCELLED"]])
            /\ outbox' = [outbox EXCEPT ![t] = SettleNews(t, answer, was)]
        /\ Finish(t)
        /\ UNCHANGED <<notices, gateway, hooks, delivery, faults>>

-----------------------------------------------------------------------------
(* The end of a request. *)

\* The 200 for a webhook may get lost, and Paystack then sends it once more.
PayCommit(t) ==
    /\ Commit(t)
    /\ delivery' = [delivery EXCEPT ![t] = NoRow]
    /\ hooks' \in {hooks, hooks \ {delivery[t]}}
    /\ UNCHANGED <<gateway, faults>>

RaiseSlip(t) ==   \* a 200 whatever happened
    /\ faults < MaxFaults
    /\ Abort(t)
    /\ faults' = faults + 1
    /\ hooks' = hooks \ {delivery[t]}
    /\ delivery' = [delivery EXCEPT ![t] = NoRow]
    /\ UNCHANGED gateway

\* The session rolls back; a webhook gets a 500.
Raise(t) ==
    /\ faults < MaxFaults
    /\ Abort(t)
    /\ faults' = faults + 1
    /\ delivery' = [delivery EXCEPT ![t] = NoRow]
    /\ UNCHANGED <<gateway, hooks>>

AsksPaystack(t) == pc[t] \in {"initialise", "verify"}

\* Paystack cannot be reached, is not configured, or answers with an error.  If it
\* opened a page nevertheless, nobody has its address.
PaystackFails(t) == AsksPaystack(t) /\ Raise(t)

\* Anything else that fails.
PayAbort(t) == ~AsksPaystack(t) /\ Raise(t)

PayWants(t) ==
    CASE pc[t] = "pay"    -> {Order(req[t].order)}
      [] pc[t] = "settle" -> {Payment(req[t].pay)}
      [] OTHER            -> Wants(t)

PayWaitsFor ==
    {w \in Txns \X Txns : w[1] # w[2] /\ \E r \in PayWants(w[1]) : owner[r] = w[2]} \cup Clashes

PayVictimSlip(t) == FALSE   \* innodb_deadlock_detect = OFF

PayVictim(t) ==
    /\ OnCycle(t, PayWaitsFor)
    /\ Rollback(t)
    /\ delivery' = [delivery EXCEPT ![t] = NoRow]
    /\ UNCHANGED <<gateway, hooks, faults>>

-----------------------------------------------------------------------------

PayArrive(t) ==
    \/ Arrive(t) /\ UNCHANGED outside
    \/ \E o \in OrderIds : BeginPay(t, o)
    \/ \E k \in PaymentIds : BeginVerify(t, k) \/ BeginWebhook(t, k)

PayStep(t) ==
    \/ Serve(t) /\ UNCHANGED outside
    \/ StartPayment(t) \/ RefusePayment(t) \/ Initialise(t)
    \/ LockPayment(t) \/ Verify(t)
    \/ PayCommit(t)

PayNext ==
    \/ \E t \in Txns : PayArrive(t) \/ PayStep(t) \/ PaystackFails(t) \/ PayAbort(t) \/ PayVictim(t)
    \/ \E k \in PaymentIds, outcome \in {"failed", "short", "success"} : Charge(k, outcome)

PaySpec == PayInit /\ [][PayNext]_payVars

\* As in Orders; and Paystack goes on sending a webhook it has had no 200 for.
PayFairness ==
    /\ \A t \in Txns : SF_payVars(PayStep(t)) /\ WF_payVars(PayVictim(t))
    /\ \A k \in PaymentIds : SF_payVars(\E t \in Txns : BeginWebhook(t, k))

LivePaySpec == PaySpec /\ PayFairness
=============================================================================
