------------------------------ MODULE MCOrders ------------------------------
(* Small instances of Orders. *)
EXTENDS OrderProperties

CONSTANTS t1, t2, ann, bob, vera, walt

OneTxn == {t1}
TwoTxns == {t1, t2}

\* Product 1 is vera's and product 2 walt's.
MCVendorOf == 1 :> vera @@ 2 :> walt

\* Whichever cart is first leaves the other one unit short, but not the shelf empty.
ScarceShelf == 1 :> 1 @@ 2 :> 3
\* The second product is just created, with the defaults: no units, and for sale.
NewShelf == 1 :> 2 @@ 2 :> 0

AllActive == 1 :> "ACTIVE" @@ 2 :> "ACTIVE"

\* An order of two lines and one of a single line.
MixedCarts == ann :> (1 :> 1 @@ 2 :> 2) @@ bob :> (1 :> 0 @@ 2 :> 2)

NoEdits == {}
NoMoves == {}
Cancelling == {"CANCELLED"}
VendorEdits == {[stock |-> 3, status |-> Unset], [stock |-> 0, status |-> Unset],
                [stock |-> Unset, status |-> "ACTIVE"], Archive}
Answering == {"CONFIRMED", "CANCELLED"}
AllMoves == {"CONFIRMED", "READY", "CANCELLED"}

Slots == Permutations(Txns)
=============================================================================
