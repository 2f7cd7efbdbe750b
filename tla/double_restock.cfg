\* Buyer and vendor cancel the same line at once.
SPECIFICATION Spec
CONSTANTS
    t1 = t1  t2 = t2
    ann = ann  bob = bob  vera = vera  walt = walt
    Nobody = Nobody  NoRow = NoRow  Unset = Unset
    Txns <- TwoTxns
    Clients = {ann, bob}
    Products = {1, 2}
    Vendors = {vera, walt}
    OrderIds = {1}
    PaymentIds = {}
    VendorOf <- MCVendorOf
    Shelf <- ScarceShelf
    ShelfStatus <- AllActive
    Carts <- MixedCarts
    PaymentsEnabled = FALSE
    VendorMoves <- Cancelling
    BuyerCancels = TRUE
    Edits <- NoEdits
INVARIANT StockConserved
\* The carts are finite: when all is sold and answered, the shop is done.
CHECK_DEADLOCK FALSE

