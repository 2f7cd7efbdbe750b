\* Two slots: admins, vendors and uploads, and a buyer who pages through what they change.
SPECIFICATION Spec
CONSTANTS
    t1 = t1  t2 = t2  vera = vera  walt = walt  k1 = k1
    Nobody = Nobody  NoRow = NoRow  Unset = Unset  Top = Top  Admin = Admin
    Txns = {t1, t2}
    Categories = {1, 2, 3}
    Seeded = {1, 2}
    Vendors = {vera, walt}
    ProductIds = {1, 2, 3}
    ImageIds = {1}
    Shown = {1, 2}
    VendorOf <- MCVendorOf
    Keys = {k1}
    KeyOwner <- MCKeyOwner
    Statuses = {"ACTIVE"}
    Patches <- MCPatches
    PageSize = 1
    MaxRequests = 3
SYMMETRY Slots
INVARIANTS CatalogueTypeOK BrowseFindsSubtree WalkMissesNothing
PROPERTY CategoryIsFinal
\* When the requests are used up and the buyer has read on to the end, all may rest.
CHECK_DEADLOCK FALSE
