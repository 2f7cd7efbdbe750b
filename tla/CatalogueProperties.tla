------------------------- MODULE CatalogueProperties -------------------------
(***************************************************************************)
(* What is asked of Catalogue.                                             *)
(***************************************************************************)
EXTENDS Catalogue

Typed(r, v) == v \in (CASE r[1] = "category" -> CategoryRow
                        [] r[1] = "product"  -> ProductRow
                        [] r[1] = "image"    -> ImageRow) \cup {NoRow}

\* Every variable has its type; a product is filed under a category there is, and
\* an image's key is one of its product's vendor (or of an admin) under which a file
\* has been put.  (It may since have been replaced, or deleted as too large.)
CatalogueTypeOK ==
    /\ DOMAIN db = Rows /\ DOMAIN committed = Rows
    /\ \A r \in Rows : Typed(r, db[r]) /\ Typed(r, committed[r])
    /\ owner \in [Rows -> Txns \cup {Nobody}]
    /\ pc \in [Txns -> {"idle", "category", "product", "patch", "head", "image", "unlist", "commit"}]
    /\ begun \in 0..MaxRequests
    /\ bucket \in [Keys -> {"none", "fits", "large", "deleted"}]
    /\ \A p \in ProductIds :
        committed[Product(p)] # NoRow => committed[Product(p)].category \in There(committed)
    /\ \A i \in ImageIds : committed[Image(i)] # NoRow =>
        LET image == committed[Image(i)]
        IN  KeyOwner[image.key] \in {VendorOf[image.product], Admin} /\ bucket[image.key] # "none"

\* Up from a category, parent by parent: there are at most as many as categories.
Above(c) ==
    LET Up[n \in Nat] ==
            IF n = 0 THEN {c}
            ELSE Up[n - 1] \cup ({committed[Category(d)].parent : d \in Up[n - 1]} \ {Top})
    IN  Up[Cardinality(Categories)]

\* "Browsing 'Cement' must also return products filed under 'Bagged cement'": a
\* category collects, level by level, exactly the categories it is above, and
\* the menu built from the flat list reaches every category once.
BrowseFindsSubtree ==
    LET there == There(committed)
    IN  /\ \A c \in there : Descendants(committed, c) = {d \in there : c \in Above(d)}
        /\ \A d \in there : Cardinality({c \in Roots(committed) : c \in Above(d)}) = 1

\* A buyer who reads a listing to its last page has been shown every product it
\* held when he began, whatever was listed meanwhile, if none left it again and
\* no two were created in the same second.
WalkMissesNothing ==
    walk.page > 0 /\ ~Walking /\ walk.calm => walk.first \subseteq walk.seen

\* Of two admins who add a category of the same name at once, one succeeds, and a
\* category never moves within the tree, so no circle can arise.
CategoryIsFinal ==
    [][\A c \in Categories :
        committed[Category(c)] # NoRow => committed'[Category(c)] = committed[Category(c)]]_vars

-----------------------------------------------------------------------------
(* The inductive invariant behind CatalogueTypeOK and CategoryIsFinal.       *)

\* Every slot has a step and what it was asked.
SlotsOK ==
    /\ db = [r \in Rows |-> db[r]]
    /\ committed = [r \in Rows |-> committed[r]]
    /\ UnlockedIsCommitted
    /\ pc = [t \in Txns |-> pc[t]]
    /\ req = [t \in Txns |-> req[t]]

\* A category is written once, below one that is there for good.
CategoryOK(c) ==
    LET r == Category(c)
    IN  /\ owner[r] # Nobody => committed[r] = NoRow
        /\ db[r] # NoRow /\ db[r].parent # Top => db[r].parent \in There(committed)

\* Products are refiled and archived, not deleted, and stay of the age they are.
ProductOK(p) ==
    LET r == Product(p)
    IN  /\ db[r] # NoRow => db[r].category \in There(committed)
        /\ committed[r] # NoRow => db[r] # NoRow /\ db[r].created = committed[r].created

\* The key was the vendor's to use, and not unused.
ImageOK(i) ==
    LET image == db[Image(i)]
    IN  image # NoRow => KeyOwner[image.key] \in {VendorOf[image.product], Admin} /\ bucket[image.key] # "none"

RequestOK(t) ==
    /\ pc[t] = "category" => /\ req[t].category \in Categories
                             /\ req[t].parent \in There(committed) \cup {Top}
    /\ pc[t] = "product" => req[t].category \in There(committed) /\ req[t].status \in Statuses
    /\ pc[t] = "patch" =>
          /\ req[t].item \in ProductIds /\ committed[Product(req[t].item)] # NoRow
          /\ req[t].patch \in Patches
          /\ req[t].patch.category \in There(committed) \cup {Unset}
          /\ req[t].old \in ProductRow /\ req[t].old.category \in There(committed)
    /\ pc[t] \in {"head", "image"} =>
          /\ req[t] \in [item : ProductIds, key : Keys]
          /\ KeyOwner[req[t].key] \in {VendorOf[req[t].item], Admin}
    /\ pc[t] = "image" => bucket[req[t].key] # "none"
    /\ pc[t] = "unlist" => req[t].image \in ImageIds

CatalogueInv ==
    /\ CatalogueTypeOK /\ SlotsOK
    /\ \A c \in Categories : CategoryOK(c)
    /\ \A p \in ProductIds : ProductOK(p)
    /\ \A i \in ImageIds : ImageOK(i)
    /\ \A t \in Txns : RequestOK(t)

\* Behind BrowseFindsSubtree: among any categories there is one that is not below
\* another of them.
TreeInv ==
    \A some \in SUBSET There(db) : some # {} => \E c \in some : db[Category(c)].parent \notin some

\* Behind WalkMissesNothing: what the buyer has still to see comes after the pages
\* he has read.
Newer(some, p) == {q \in some : committed[Product(q)].created > committed[Product(p)].created}

WalkInv ==
    /\ walk.page \in Nat /\ walk.pages \in Nat
    /\ walk.page = 0 => walk = NotWalking
    /\ walk.calm =>
          /\ walk.last \subseteq ProductIds /\ walk.first \subseteq walk.last
          /\ \A p \in walk.last : committed[Product(p)] # NoRow
          /\ walk.pages = Pages(Cardinality(walk.last))
          /\ \A p \in walk.first \ walk.seen :
                Cardinality(Newer(walk.last, p)) >= walk.page * PageSize

=============================================================================
