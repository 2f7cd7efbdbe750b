----------------------------- MODULE Storefront -----------------------------
(***************************************************************************)
(* What the shop promises about units of stock, without transactions,      *)
(* sessions or locks: an order takes all its units off the shelf at one    *)
(* moment, or none; a line that is called off gives its units back at the  *)
(* moment it ceases to be sold; and nothing else moves units.              *)
(***************************************************************************)
EXTENDS Naturals

CONSTANTS Products, OrderIds

VARIABLES
    shelf,    \* units a checkout can still take
    sold,     \* units each order holds of each product
    placed    \* the orders there are

stock == <<shelf, sold, placed>>

Init ==
    /\ shelf \in [Products -> Nat]
    /\ sold = [o \in OrderIds |-> [p \in Products |-> 0]]
    /\ placed = {}

\* checkout: the whole basket, or it does not happen.
Place(o, basket) ==
    /\ o \notin placed
    /\ \E p \in Products : basket[p] > 0
    /\ \A p \in Products : basket[p] <= shelf[p]
    /\ shelf' = [p \in Products |-> shelf[p] - basket[p]]
    /\ sold' = [sold EXCEPT ![o] = basket]
    /\ placed' = placed \cup {o}

\* A vendor or the buyer calls lines of an order off: one moment for all of them.
CallOff(o, lines) ==
    /\ lines # {}
    /\ \A p \in lines : sold[o][p] > 0
    /\ shelf' = [p \in Products |-> shelf[p] + IF p \in lines THEN sold[o][p] ELSE 0]
    /\ sold' = [sold EXCEPT ![o] = [p \in Products |-> IF p \in lines THEN 0 ELSE @[p]]]
    /\ UNCHANGED placed

Next ==
    \E o \in OrderIds :
        \/ \E basket \in [Products -> UNION {0..shelf[p] : p \in Products}] : Place(o, basket)
        \/ \E lines \in SUBSET Products : CallOff(o, lines)

Spec == Init /\ [][Next]_stock
=============================================================================
