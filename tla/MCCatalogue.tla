----------------------------- MODULE MCCatalogue -----------------------------
(* Small instances of Catalogue. *)
EXTENDS CatalogueProperties

CONSTANTS t1, t2, vera, walt, k1

MCVendorOf == 1 :> vera @@ 2 :> walt @@ 3 :> vera
MCKeyOwner == k1 :> vera
MCPatches == {[category |-> 2, status |-> Unset], [category |-> Unset, status |-> "ARCHIVED"]}
Slots == Permutations(Txns)
=============================================================================
