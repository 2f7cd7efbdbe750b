\* Two slots: clients fill and check out their carts in two tabs each.
SPECIFICATION CartSpec
CONSTANTS
    t1 = t1  t2 = t2
    ann = ann  bob = bob  vera = vera  walt = walt
    Nobody = Nobody  NoRow = NoRow  Unset = Unset
    Txns = {t1, t2}
    Clients = {ann, bob}
    Products = {1, 2}
    Vendors = {vera, walt}
    OrderIds = {1, 2, 3}
    PaymentIds = {}
    VendorOf <- MCVendorOf
    Shelf <- MCShelf
    ShelfStatus <- AllActive
    Carts <- MCCarts
    PaymentsEnabled = FALSE
    VendorMoves <- NoMoves
    BuyerCancels = FALSE
    Edits <- NoEdits
    Shoppers = {ann}
    Amounts = {1}
    MaxItems = 2
SYMMETRY Slots
INVARIANTS CartWithinStock StockConserved OnlyNumbersClash
PROPERTIES ItemsTakenAreOrdered ImplementsStorefront
\* Items are finite: when all is sold, nothing is left to do.
CHECK_DEADLOCK FALSE
