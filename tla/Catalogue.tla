------------------------------ MODULE Catalogue ------------------------------
(***************************************************************************)
(* Categories, listings and their images (modules/catalog/service.py,      *)
(* modules/media), and a buyer who pages through a listing while they      *)
(* change (core/pagination.py).                                            *)
(*                                                                         *)
(* Requests run as in Orders: one transaction of InnoDB each.  Images are  *)
(* uploaded past the database, straight into the bucket, and only their    *)
(* keys are stored.  Stock, which Orders is about, is left out here.       *)
(***************************************************************************)
EXTENDS InnoDB, Naturals, FiniteSets, FiniteSetsExt, Sequences, SequencesExt, TLC

CONSTANTS
    Categories,    \* the slugs of categories, numbered: a category is keyed by its slug
    Seeded,        \* those there are at the start
    Vendors, Admin, ProductIds, ImageIds,
    Shown,         \* the products there are at the start
    VendorOf,      \* Product.vendor_id
    Keys,          \* object keys
    KeyOwner,      \* the account each key has in its prefix
    Statuses,      \* the statuses the vendors of the instance give their products
    Patches,       \* what they change of them
    Top,           \* parent_id NULL
    Unset,         \* a field a patch leaves out
    PageSize,
    MaxRequests    \* requests of the instance that change something

ASSUME CatalogueAssumption ==
    /\ Categories \subseteq Nat /\ IsFiniteSet(Categories)
    /\ Top \notin Categories
    /\ Seeded \subseteq Categories
    /\ ProductIds \subseteq Nat /\ IsFiniteSet(ProductIds)
    /\ ImageIds \subseteq Nat
    /\ Shown \subseteq ProductIds
    /\ VendorOf \in [ProductIds -> Vendors]
    /\ KeyOwner \in [Keys -> Vendors \cup {Admin}]
    /\ Statuses \subseteq {"DRAFT", "ACTIVE", "OUT_OF_STOCK", "ARCHIVED"}
    /\ Patches \subseteq [category : Categories \cup {Unset}, status : Statuses \cup {"ARCHIVED", Unset}]
    /\ PageSize \in Nat \ {0}
    /\ MaxRequests \in Nat

VARIABLES
    pc,       \* what the request of each slot does next; "idle": no request
    req,      \* what it was asked
    bucket,   \* the object under each key
    begun,    \* requests so far
    walk      \* the buyer: the last page read, and what the pages have shown

vars == <<db, committed, owner, pc, req, bucket, begun, walk>>

-----------------------------------------------------------------------------
(* The rows and their columns. *)

Category(c) == <<"category", c>>
Product(p) == <<"product", p>>
Image(i) == <<"image", i>>

Rows == {Category(c) : c \in Categories} \cup {Product(p) : p \in ProductIds}
        \cup {Image(i) : i \in ImageIds}

CategoryRow == [parent : Categories \cup {Top}]
ProductRow == [category : Categories, status : Statuses \cup {"ACTIVE", "ARCHIVED"}, created : Nat]
ImageRow == [product : ProductIds, key : Keys]

ASSUME NoRowIsNoValue == NoRow \notin CategoryRow \cup ProductRow \cup ImageRow

There(view) == {c \in Categories : view[Category(c)] # NoRow}

\* Categories come after their parents.
Trees == {f \in [Seeded -> Seeded \cup {Top}] : \A c \in Seeded : f[c] # Top => f[c] < c}

InitialRows(tree, filed) ==
    [r \in Rows |->
        CASE r[1] = "category" /\ r[2] \in Seeded -> [parent |-> tree[r[2]]]
          [] r[1] = "product" /\ r[2] \in Shown ->
                [category |-> filed[r[2]], status |-> "ACTIVE", created |-> r[2]]
          [] OTHER -> NoRow]

-----------------------------------------------------------------------------
(* Browsing. *)

ChildrenOf(view, some) == {c \in There(view) : view[Category(c)].parent \in some}

DescendantsSlip(view, c) == {c} \cup ChildrenOf(view, {c})   \* one level

\* _descendant_category_ids: level by level, until the frontier is empty.
Descendants(view, c) ==
    LET After[n \in Nat] ==
            IF n = 0 THEN [collected |-> {c}, frontier |-> {c}]
            ELSE LET last == After[n - 1]
                     next == ChildrenOf(view, last.frontier) \ last.collected
                 IN  [collected |-> last.collected \cup next, frontier |-> next]
    IN  After[Cardinality(Categories)].collected

\* build_category_tree: what is not put below a parent is a root.
Roots(view) ==
    {c \in There(view) : view[Category(c)].parent = Top \/ view[Category(c)].parent \notin There(view)}

\* list_products of a category, as buyers see it.
Listing(view, c) ==
    {p \in ProductIds : /\ view[Product(p)] # NoRow
                        /\ view[Product(p)].status = "ACTIVE"
                        /\ view[Product(p)].category \in Descendants(view, c)}

\* ORDER BY created_at DESC.  Rows of the same second come in any order, and in
\* another one for the next page.
NewestFirst(view, some) ==
    {s \in SetToSeqs(some) :
        \A i, j \in 1..Len(s) : i < j => view[Product(s[i])].created >= view[Product(s[j])].created}

OffsetSlip(page) == page * PageSize   \* pages counted from zero

Offset(page) == (page - 1) * PageSize

OnPage(s, page) == SubSeq(s, Offset(page) + 1, Min({Offset(page) + PageSize, Len(s)}))

Pages(total) == (total + PageSize - 1) \div PageSize

-----------------------------------------------------------------------------
(* The life of a request. *)

NotWalking == [category |-> NoRow, page |-> 0, pages |-> 0, first |-> {}, last |-> {},
               seen |-> {}, calm |-> TRUE]

Init ==
    /\ \E tree \in Trees, filed \in [Shown -> Seeded] : InitStore(InitialRows(tree, filed))
    /\ pc = [t \in Txns |-> "idle"]
    /\ req = [t \in Txns |-> NoRow]
    /\ bucket = [k \in Keys |-> "none"]
    /\ begun = 0
    /\ walk = NotWalking

Begin(t, next, what) ==
    /\ pc[t] = "idle"
    /\ begun < MaxRequests
    /\ begun' = begun + 1
    /\ pc' = [pc EXCEPT ![t] = next]
    /\ req' = [req EXCEPT ![t] = what]
    /\ UNCHANGED <<db, committed, owner, bucket, walk>>

Forget(t) ==
    /\ pc' = [pc EXCEPT ![t] = "idle"]
    /\ req' = [req EXCEPT ![t] = NoRow]

Finish(t) ==
    /\ pc' = [pc EXCEPT ![t] = "commit"]
    /\ req' = [req EXCEPT ![t] = NoRow]
    /\ UNCHANGED <<bucket, begun, walk>>

Rollback(t) == RollbackTxn(t) /\ Forget(t) /\ UNCHANGED <<begun, walk>>

Commit(t) == pc[t] = "commit" /\ CommitTxn(t) /\ Forget(t) /\ UNCHANGED <<bucket, begun, walk>>

Abort(t) == pc[t] # "idle" /\ Rollback(t) /\ UNCHANGED bucket

-----------------------------------------------------------------------------
(* Categories, which an admin adds. *)

BeginCategory(t, c, parent) ==
    /\ committed[Category(c)] = NoRow
    /\ parent # Top => committed[Category(parent)] # NoRow
    /\ Begin(t, "category", [category |-> c, parent |-> parent])

TakenSlip(r) == FALSE   \* no unique index

\* The unique index on the slug, which looks at the latest version.
Taken(r) == db[r] # NoRow

InsertCategory(t) ==
    LET r == Category(req[t].category)
    IN  /\ pc[t] = "category"
        /\ ~Taken(r)
        /\ WriteRows(t, [x \in {r} |-> [parent |-> req[t].parent]])
        /\ Finish(t)

\* Somebody added it since the check: the insert raises.
RefuseCategory(t) ==
    LET r == Category(req[t].category)
    IN  /\ pc[t] = "category"
        /\ Grantable(t, r)
        /\ Taken(r)
        /\ Rollback(t)
        /\ UNCHANGED bucket

-----------------------------------------------------------------------------
(* Products, which their vendors list, file and archive. *)

Unused(ids, table) == {n \in ids : db[<<table, n>>] = NoRow}
NextId(ids, table) == CHOOSE n \in Unused(ids, table) : \A m \in Unused(ids, table) : n <= m

\* ProductIds bounds the products of the instance, ImageIds their images.
BeginProduct(t, c, status) ==
    /\ committed[Category(c)] # NoRow
    /\ Begin(t, "product", [category |-> c, status |-> status])

\* created_at is the second of the INSERT, whenever it is committed.
InsertProduct(t) ==
    LET latest == Max({0} \cup {db[Product(p)].created : p \in ProductIds \ Unused(ProductIds, "product")})
    IN  /\ pc[t] = "product"
        /\ Unused(ProductIds, "product") # {}
        /\ \E now \in {latest, latest + 1} :
              WriteRows(t, [r \in {Product(NextId(ProductIds, "product"))} |->
                [category |-> req[t].category, status |-> req[t].status, created |-> now]])
        /\ Finish(t)

Patched(row, patch) ==
    [row EXCEPT !.category = IF patch.category = Unset THEN @ ELSE patch.category,
                !.status = IF patch.status = Unset THEN @ ELSE patch.status]

\* update_product, by the product's vendor; archive_product sets a status, too.
BeginPatch(t, p, patch) ==
    /\ committed[Product(p)] # NoRow
    /\ patch.category # Unset => committed[Category(patch.category)] # NoRow
    /\ Patched(committed[Product(p)], patch) # committed[Product(p)]
    /\ Begin(t, "patch", [item |-> p, patch |-> patch, old |-> committed[Product(p)]])

\* The UPDATE names only the columns that differ from what the request read.
PatchProduct(t) ==
    LET r == Product(req[t].item)
        new == Patched(req[t].old, req[t].patch)
    IN  /\ pc[t] = "patch"
        /\ WriteRows(t, [x \in {r} |->
                [db[x] EXCEPT !.category = IF new.category = req[t].old.category THEN @ ELSE new.category,
                              !.status = IF new.status = req[t].old.status THEN @ ELSE new.status]])
        /\ Finish(t)

-----------------------------------------------------------------------------
(* Images. *)

\* A client puts a file under the key it was given, over the one that is there if
\* there is one: the address stays good until it expires.  "large": more than
\* max_upload_bytes, which the address does not limit.
Upload(k, size) ==
    /\ bucket' = [bucket EXCEPT ![k] = size]
    /\ UNCHANGED <<db, committed, owner, pc, req, begun, walk>>

\* add_product_image: a key of the caller's, for a product of his; admins may edit any.
BeginImage(t, p, k) ==
    /\ committed[Product(p)] # NoRow
    /\ KeyOwner[k] \in {VendorOf[p], Admin}
    /\ Begin(t, "head", [item |-> p, key |-> k])

AcceptableSlip(object) == object # "large"   \* whether there is an object is not looked at

Acceptable(object) == object = "fits"

\* verify_owned_key asks the bucket, then the row is inserted.
HeadObject(t) ==
    /\ pc[t] = "head"
    /\ Acceptable(bucket[req[t].key])
    /\ pc' = [pc EXCEPT ![t] = "image"]
    /\ UNCHANGED <<db, committed, owner, req, bucket, begun, walk>>

\* No object, or one too large, which is deleted if the bucket lets it be.
RefuseImage(t) ==
    LET k == req[t].key
    IN  /\ pc[t] = "head"
        /\ ~Acceptable(bucket[k])
        /\ bucket' \in {bucket, [bucket EXCEPT ![k] = "deleted"]}
        /\ Rollback(t)

InsertImage(t) ==
    /\ pc[t] = "image"
    /\ Unused(ImageIds, "image") # {}
    /\ WriteRows(t, [r \in {Image(NextId(ImageIds, "image"))} |->
                        [product |-> req[t].item, key |-> req[t].key]])
    /\ Finish(t)

BeginUnlist(t, i) ==
    /\ committed[Image(i)] # NoRow
    /\ Begin(t, "unlist", [image |-> i])

\* delete_product_image; the object stays in the bucket.
DeleteImage(t) ==
    /\ pc[t] = "unlist"
    /\ WriteRows(t, [r \in {Image(req[t].image)} |-> NoRow])
    /\ Finish(t)

-----------------------------------------------------------------------------
(* The buyer, who reads one page after the other: each is a request of its   *)
(* own, which reads categories, total and rows in one view.                  *)

Tied(some) == \E p, q \in some : p # q /\ committed[Product(p)].created = committed[Product(q)].created

ReadPage(c, n, before) ==
    LET listed == Listing(committed, c)
    IN  \E s \in NewestFirst(committed, listed) :
            walk' = [category |-> c, page |-> n, pages |-> Pages(Cardinality(listed)),
                     first |-> IF n = 1 THEN listed ELSE before.first,
                     last |-> listed,
                     seen |-> before.seen \cup Range(OnPage(s, n)),
                     calm |-> before.calm /\ before.last \subseteq listed /\ ~Tied(listed)]

Walking == walk.page < walk.pages

\* The instance has one such buyer.
StartWalk(c) ==
    /\ walk = NotWalking
    /\ committed[Category(c)] # NoRow
    /\ ReadPage(c, 1, NotWalking)
    /\ UNCHANGED <<db, committed, owner, pc, req, bucket, begun>>

NextPage ==
    /\ Walking
    /\ ReadPage(walk.category, walk.page + 1, walk)
    /\ UNCHANGED <<db, committed, owner, pc, req, bucket, begun>>

-----------------------------------------------------------------------------

Arrive(t) ==
    \/ \E c \in Categories, parent \in Categories \cup {Top} : BeginCategory(t, c, parent)
    \/ \E c \in Categories, s \in Statuses : BeginProduct(t, c, s)
    \/ \E p \in ProductIds, patch \in Patches : BeginPatch(t, p, patch)
    \/ \E p \in ProductIds, k \in Keys : BeginImage(t, p, k)
    \/ \E i \in ImageIds : BeginUnlist(t, i)

Step(t) ==
    \/ InsertCategory(t) \/ RefuseCategory(t)
    \/ InsertProduct(t) \/ PatchProduct(t)
    \/ HeadObject(t) \/ RefuseImage(t) \/ InsertImage(t) \/ DeleteImage(t)
    \/ Commit(t)

Browse == (\E c \in Categories : StartWalk(c)) \/ NextPage

Next ==
    \/ \E t \in Txns : Arrive(t) \/ Step(t) \/ Abort(t)
    \/ \E k \in Keys, size \in {"fits", "large"} : Upload(k, size)
    \/ Browse

Spec == Init /\ [][Next]_vars
=============================================================================
