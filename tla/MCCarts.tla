------------------------------- MODULE MCCarts -------------------------------
(* Small instances of Carts. *)
EXTENDS CartProperties

CONSTANTS t1, t2, ann, bob, vera, walt

\* Product 1 is vera's and product 2 walt's.
MCVendorOf == 1 :> vera @@ 2 :> walt
\* Of the first product there is one unit, for two who want it.
MCShelf == 1 :> 1 @@ 2 :> 2

\* ann has no cart yet; bob's asks for both products.
MCCarts == ann :> NoRow @@ bob :> (1 :> 1 @@ 2 :> 2)

AllActive == 1 :> "ACTIVE" @@ 2 :> "ACTIVE"
NoEdits == {}
NoMoves == {}
Slots == Permutations(Txns)
=============================================================================
