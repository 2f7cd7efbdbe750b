\* One slot: one request after another, every kind, product edits included.
SPECIFICATION Spec
CONSTANTS
    t1 = t1  t2 = t2
    ann = ann  bob = bob  vera = vera  walt = walt
    Nobody = Nobody  NoRow = NoRow  Unset = Unset
    Txns <- OneTxn
    Clients = {ann, bob}
    Products = {1, 2}
    Vendors = {vera, walt}
    OrderIds = {1, 2}
    PaymentIds = {}
    VendorOf <- MCVendorOf
    Shelf <- NewShelf
    ShelfStatus <- AllActive
    Carts <- MixedCarts
    PaymentsEnabled = FALSE
    VendorMoves <- AllMoves
    BuyerCancels = TRUE
    Edits <- VendorEdits
INVARIANTS TypeOK StatusMatchesLines CartSoldOnce
PROPERTIES StaysHonest LineLifecycle ClosedStaysClosed
\* The carts are finite: when all is sold and answered, the shop is done.
CHECK_DEADLOCK FALSE

