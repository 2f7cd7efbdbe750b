\* Two slots: attempts, browsers and webhooks racing a cancellation of an order of two lines.
SPECIFICATION LivePaySpec
CONSTANTS
    t1 = t1  t2 = t2
    ann = ann  vera = vera  k1 = k1
    Nobody = Nobody  NoRow = NoRow  Unset = Unset
    Txns = {t1, t2}
    Clients = {ann}
    Products = {1, 2}
    Vendors = {vera}
    OrderIds = {1}
    PaymentIds = {k1}
    VendorOf <- MCVendorOf
    Shelf <- MCShelf
    ShelfStatus <- AllActive
    Carts <- MCCarts
    PaymentsEnabled = TRUE
    VendorMoves <- NoMoves
    BuyerCancels = TRUE
    Edits <- NoEdits
    MaxFaults = 1
INVARIANTS PaymentTypeOK PaidIsCharged ConfirmedOnce UnpaidIsUnannounced FailureToldOnChange
PROPERTIES PaidStaysPaid ChargeIsRecorded EveryRequestEnds
\* The instance is finite: when all is paid and answered, nothing is left to do.
CHECK_DEADLOCK FALSE
