----------------------------- MODULE MCPayments -----------------------------
(* Small instances of Payments: one buyer, one order of two lines.            *)
EXTENDS PaymentProperties

CONSTANTS t1, t2, ann, vera, k1

MCVendorOf == 1 :> vera @@ 2 :> vera
MCShelf == 1 :> 1 @@ 2 :> 1
MCCarts == ann :> (1 :> 1 @@ 2 :> 1)
AllActive == 1 :> "ACTIVE" @@ 2 :> "ACTIVE"
NoEdits == {}
NoMoves == {}
Slots == Permutations(Txns)
=============================================================================
