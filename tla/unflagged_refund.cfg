\* A buyer cancels while the payment is settled.
SPECIFICATION PaySpec
CONSTANTS
    t1 = t1  t2 = t2
    ann = ann  vera = vera  k1 = k1
    Nobody = Nobody  NoRow = NoRow  Unset = Unset
    Txns = {t1, t2}
    Clients = {ann}
    Products = {1, 2}
    Vendors = {vera}
    OrderIds = {1}
    PaymentIds = {k1}
    VendorOf <- MCVendorOf
    Shelf <- MCShelf
    ShelfStatus <- AllActive
    Carts <- MCCarts
    PaymentsEnabled = TRUE
    VendorMoves <- NoMoves
    BuyerCancels = TRUE
    Edits <- NoEdits
    MaxFaults = 0
INVARIANT RefundFlagged
\* The instance is finite: when all is paid and answered, nothing is left to do.
CHECK_DEADLOCK FALSE
