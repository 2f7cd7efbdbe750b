--------------------------- MODULE CatalogueProofs ---------------------------
(***************************************************************************)
(* Categories, listings, images and the buyer who pages, for all trees,    *)
(* vendors, products, keys, page sizes and numbers of slots.               *)
(***************************************************************************)
EXTENDS CatalogueProperties, ProofBasics, SequenceTheorems

-----------------------------------------------------------------------------
(* Rows. *)

\* Rows of different tables, and of different keys, are different rows.
LEMMA RowKinds ==
    /\ \A c \in Categories : Category(c) \in Rows
    /\ \A p \in ProductIds : Product(p) \in Rows
    /\ \A i \in ImageIds : Image(i) \in Rows
    /\ \A c, p : Category(c) # Product(p)
    /\ \A c, i : Category(c) # Image(i)
    /\ \A p, i : Product(p) # Image(i)
    /\ \A c, d : Category(c) = Category(d) => c = d
    /\ \A p, q : Product(p) = Product(q) => p = q
    /\ \A i, j : Image(i) = Image(j) => i = j
    /\ \A r \in Rows : \/ \E c \in Categories : r = Category(c)
                       \/ \E p \in ProductIds : r = Product(p)
                       \/ \E i \in ImageIds : r = Image(i)
  BY DEF Rows, Category, Product, Image

LEMMA TypedKinds ==
    ASSUME NEW v
    PROVE  /\ \A c : Typed(Category(c), v) <=> v \in CategoryRow \cup {NoRow}
           /\ \A p : Typed(Product(p), v) <=> v \in ProductRow \cup {NoRow}
           /\ \A i : Typed(Image(i), v) <=> v \in ImageRow \cup {NoRow}
  BY DEF Typed, Category, Product, Image

LEMMA StoreStored == ASSUME CatalogueInv PROVE StoreOK(Rows)
  BY DEF CatalogueInv, CatalogueTypeOK, SlotsOK, StoreOK

LEMMA RowsTyped ==
    ASSUME CatalogueInv
    PROVE  /\ \A c \in Categories : /\ db[Category(c)] \in CategoryRow \cup {NoRow}
                                    /\ committed[Category(c)] \in CategoryRow \cup {NoRow}
           /\ \A p \in ProductIds : /\ db[Product(p)] \in ProductRow \cup {NoRow}
                                    /\ committed[Product(p)] \in ProductRow \cup {NoRow}
           /\ \A i \in ImageIds : /\ db[Image(i)] \in ImageRow \cup {NoRow}
                                  /\ committed[Image(i)] \in ImageRow \cup {NoRow}
  BY RowKinds, TypedKinds DEF CatalogueInv, CatalogueTypeOK

-----------------------------------------------------------------------------
(* What a step may rely on being left. *)

Steps == {"idle", "category", "product", "patch", "head", "image", "unlist", "commit"}
Objects == {"none", "fits", "large", "deleted"}

\* What requests have found there stays there.
Grows ==
    /\ There(committed) \subseteq There(committed')
    /\ \A p \in ProductIds : committed[Product(p)] # NoRow => committed'[Product(p)] # NoRow
    /\ \A k \in Keys : bucket[k] # "none" => bucket'[k] # "none"

LEMMA OthersAsk ==
    ASSUME CatalogueInv, Grows, NEW u \in Txns, pc'[u] = pc[u], req'[u] = req[u]
    PROVE  RequestOK(u)'
  <1>1. RequestOK(u)
    BY DEF CatalogueInv
  <1>2. PICK there : there = There(committed)'
    OBVIOUS
  <1>3. /\ There(committed) \subseteq there
        /\ \A p \in ProductIds : committed[Product(p)] # NoRow => committed'[Product(p)] # NoRow
        /\ \A k \in Keys : bucket[k] # "none" => bucket'[k] # "none"
    BY <1>2 DEF Grows, There
  <1> QED
    BY <1>1, <1>2, <1>3 DEF RequestOK

\* One slot moves on; rows and objects keep what is asked of them.
LEMMA OneMoves ==
    ASSUME CatalogueInv, Grows, NEW t \in Txns,
           StoreOK(Rows)',
           \A r \in Rows : Typed(r, db'[r]) /\ Typed(r, committed'[r]),
           NEW next \in Steps, pc' = [pc EXCEPT ![t] = next],
           NEW what, req' = [req EXCEPT ![t] = what], RequestOK(t)',
           bucket' \in [Keys -> Objects], begun' \in 0..MaxRequests,
           \A c \in Categories : CategoryOK(c)',
           \A p \in ProductIds : ProductOK(p)' /\
              (committed'[Product(p)] # NoRow => committed'[Product(p)].category \in There(committed')),
           \A i \in ImageIds : ImageOK(i)' /\
              (committed'[Image(i)] # NoRow =>
                  /\ KeyOwner[committed'[Image(i)].key] \in {VendorOf[committed'[Image(i)].product], Admin}
                  /\ bucket'[committed'[Image(i)].key] # "none")
    PROVE  CatalogueInv'
  <1>1. /\ DOMAIN db' = Rows /\ DOMAIN committed' = Rows /\ owner' \in [Rows -> Txns \cup {Nobody}]
        /\ db' = [r \in Rows |-> db'[r]] /\ committed' = [r \in Rows |-> committed'[r]]
        /\ UnlockedIsCommitted'
    BY DEF StoreOK
  <1>2. pc \in [Txns -> Steps] /\ req = [u \in Txns |-> req[u]]
    BY DEF CatalogueInv, CatalogueTypeOK, SlotsOK, Steps
  <1>3. pc' \in [Txns -> Steps] /\ pc' = [u \in Txns |-> pc'[u]] /\ req' = [u \in Txns |-> req'[u]]
    BY <1>2
  <1>4. SlotsOK'
    BY <1>1, <1>3 DEF SlotsOK
  <1>5. \A r \in Rows : Typed(r, db[r])' /\ Typed(r, committed[r])'
    BY DEF Typed
  <1>6. \A p \in ProductIds :
            committed'[Product(p)] # NoRow => committed'[Product(p)].category \in There(committed)'
    BY DEF There
  <1>7. CatalogueTypeOK'
    BY <1>1, <1>3, <1>5, <1>6 DEF CatalogueTypeOK, Steps, Objects
  <1>8. \A u \in Txns \ {t} : pc'[u] = pc[u] /\ req'[u] = req[u]
    BY <1>2
  <1>9. \A u \in Txns : RequestOK(u)'
    BY <1>8, OthersAsk
  <1> QED
    BY <1>4, <1>7, <1>9 DEF CatalogueInv

\* A step of a slot that leaves the rows alone.
LEMMA RowsStand ==
    ASSUME CatalogueInv, NEW t \in Txns, UNCHANGED <<db, committed, owner>>,
           NEW next \in Steps, pc' = [pc EXCEPT ![t] = next],
           NEW what, req' = [req EXCEPT ![t] = what], RequestOK(t)',
           bucket' = bucket, begun' \in 0..MaxRequests
    PROVE  CatalogueInv'
  <1>1. StoreOK(Rows)'
    BY StoreStored, IdleEffect
  <1>2. Grows /\ There(committed') = There(committed) /\ There(committed)' = There(committed)
    BY DEF Grows, There
  <1>3. \A r \in Rows : Typed(r, db'[r]) /\ Typed(r, committed'[r])
    BY DEF CatalogueInv, CatalogueTypeOK
  <1>4. \A c \in Categories : CategoryOK(c)'
    BY <1>2 DEF CatalogueInv, CategoryOK
  <1>5. \A p \in ProductIds : ProductOK(p)' /\
              (committed'[Product(p)] # NoRow => committed'[Product(p)].category \in There(committed'))
    BY <1>2 DEF CatalogueInv, ProductOK, CatalogueTypeOK
  <1>6. \A i \in ImageIds : ImageOK(i)' /\
              (committed'[Image(i)] # NoRow =>
                  /\ KeyOwner[committed'[Image(i)].key] \in {VendorOf[committed'[Image(i)].product], Admin}
                  /\ bucket'[committed'[Image(i)].key] # "none")
    BY DEF CatalogueInv, ImageOK, CatalogueTypeOK
  <1>7. bucket' \in [Keys -> Objects]
    BY DEF CatalogueInv, CatalogueTypeOK, Objects
  <1> QED
    BY <1>1, <1>2, <1>3, <1>4, <1>5, <1>6, <1>7, OneMoves

LEMMA BeginKeeps ==
    ASSUME CatalogueInv, NEW t \in Txns, NEW next \in Steps, NEW what, Begin(t, next, what), RequestOK(t)'
    PROVE  CatalogueInv'
  <1>1. begun' \in 0..MaxRequests
    BY CatalogueAssumption DEF Begin, CatalogueInv, CatalogueTypeOK
  <1> QED
    BY <1>1, RowsStand DEF Begin

LEMMA Asks ==
    ASSUME CatalogueInv, NEW t \in Txns, NEW next, NEW what, Begin(t, next, what)
    PROVE  /\ pc'[t] = next /\ req'[t] = what
           /\ db' = db /\ committed' = committed /\ bucket' = bucket
           /\ There(committed)' = There(committed)
  BY DEF Begin, CatalogueInv, SlotsOK, There

LEMMA ArriveKeeps ==
    ASSUME CatalogueInv, NEW t \in Txns, Arrive(t) PROVE CatalogueInv'
  <1>1. ASSUME NEW c \in Categories, NEW parent \in Categories \cup {Top}, BeginCategory(t, c, parent)
        PROVE  CatalogueInv'
    <2>1. PICK what : what = [category |-> c, parent |-> parent]
      OBVIOUS
    <2>2. Begin(t, "category", what)
      BY <1>1, <2>1 DEF BeginCategory
    <2>3. parent \in There(committed) \cup {Top}
      BY <1>1 DEF BeginCategory, There
    <2>4. RequestOK(t)'
      BY <2>1, <2>2, <2>3, Asks DEF RequestOK
    <2> QED
      BY <2>2, <2>4, BeginKeeps DEF Steps
  <1>2. ASSUME NEW c \in Categories, NEW s \in Statuses, BeginProduct(t, c, s) PROVE CatalogueInv'
    <2>1. PICK what : what = [category |-> c, status |-> s]
      OBVIOUS
    <2>2. Begin(t, "product", what) /\ c \in There(committed)
      BY <1>2, <2>1 DEF BeginProduct, There
    <2>3. RequestOK(t)'
      BY <2>1, <2>2, Asks DEF RequestOK
    <2> QED
      BY <2>2, <2>3, BeginKeeps DEF Steps
  <1>3. ASSUME NEW p \in ProductIds, NEW patch \in Patches, BeginPatch(t, p, patch) PROVE CatalogueInv'
    <2>1. PICK old : old = committed[Product(p)]
      OBVIOUS
    <2>2. PICK what : what = [item |-> p, patch |-> patch, old |-> old]
      OBVIOUS
    <2>3. Begin(t, "patch", what) /\ old # NoRow
      BY <1>3, <2>1, <2>2 DEF BeginPatch
    <2>4. old \in ProductRow /\ old.category \in There(committed)
      BY <2>1, <2>3, RowsTyped DEF CatalogueInv, CatalogueTypeOK
    <2>5. patch.category \in There(committed) \cup {Unset}
      <3>1. patch.category \in Categories \cup {Unset}
        BY CatalogueAssumption
      <3> QED
        BY <1>3, <3>1 DEF BeginPatch, There
    <2>6. what.item = p /\ what.patch = patch /\ what.old = old
      BY <2>2
    <2>7. RequestOK(t)'
      BY <2>1, <2>3, <2>4, <2>5, <2>6, Asks DEF RequestOK
    <2> QED
      BY <2>3, <2>7, BeginKeeps DEF Steps
  <1>4. ASSUME NEW p \in ProductIds, NEW k \in Keys, BeginImage(t, p, k) PROVE CatalogueInv'
    <2>1. PICK what : what = [item |-> p, key |-> k]
      OBVIOUS
    <2>2. Begin(t, "head", what) /\ KeyOwner[k] \in {VendorOf[p], Admin}
      BY <1>4, <2>1 DEF BeginImage
    <2>3. RequestOK(t)'
      BY <2>1, <2>2, Asks DEF RequestOK
    <2> QED
      BY <2>2, <2>3, BeginKeeps DEF Steps
  <1>5. ASSUME NEW i \in ImageIds, BeginUnlist(t, i) PROVE CatalogueInv'
    <2>1. PICK what : what = [image |-> i]
      OBVIOUS
    <2>2. Begin(t, "unlist", what)
      BY <1>5, <2>1 DEF BeginUnlist
    <2>3. RequestOK(t)'
      BY <2>1, <2>2, Asks DEF RequestOK
    <2> QED
      BY <2>2, <2>3, BeginKeeps DEF Steps
  <1> QED
    BY <1>1, <1>2, <1>3, <1>4, <1>5 DEF Arrive

LEMMA HeadObjectKeeps ==
    ASSUME CatalogueInv, NEW t \in Txns, HeadObject(t) PROVE CatalogueInv'
  <1>1. /\ pc[t] = "head" /\ bucket[req[t].key] # "none"
        /\ pc' = [pc EXCEPT ![t] = "image"]
        /\ UNCHANGED <<db, committed, owner, req, bucket, begun>>
    BY DEF HeadObject, Acceptable
  <1>2. pc'[t] = "image" /\ req' = [req EXCEPT ![t] = req[t]] /\ begun' \in 0..MaxRequests
    BY <1>1 DEF CatalogueInv, SlotsOK, CatalogueTypeOK
  <1>3. RequestOK(t)'
    BY <1>1, <1>2 DEF RequestOK, CatalogueInv
  <1> QED
    BY <1>1, <1>2, <1>3, RowsStand DEF Steps

-----------------------------------------------------------------------------
(* Writes. *)

\* The one row a request writes, and then it is done.
LEMMA WriteKeeps ==
    ASSUME CatalogueInv, NEW t \in Txns, NEW r \in Rows, NEW v, NEW new, new = [x \in {r} |-> v],
           WriteRows(t, new), Finish(t), Typed(r, v),
           \A c \in Categories : r = Category(c) =>
              db[r] = NoRow /\ (v # NoRow /\ v.parent # Top => v.parent \in There(committed)),
           \A p \in ProductIds : r = Product(p) =>
              v # NoRow /\ v.category \in There(committed)
              /\ (committed[r] # NoRow => v.created = committed[r].created),
           \A i \in ImageIds : r = Image(i) /\ v # NoRow =>
              KeyOwner[v.key] \in {VendorOf[v.product], Admin} /\ bucket[v.key] # "none"
    PROVE  CatalogueInv'
  <1>1. /\ StoreOK(Rows)' /\ committed' = committed
        /\ \A x \in Rows : db'[x] = IF x = r THEN v ELSE db[x]
        /\ \A x \in Rows : owner'[x] = IF x = r THEN t ELSE owner[x]
        /\ owner[r] \in {t, Nobody}
    BY StoreStored, WriteEffect
  <1>2. /\ pc' = [pc EXCEPT ![t] = "commit"] /\ req' = [req EXCEPT ![t] = NoRow]
        /\ bucket' = bucket /\ begun' = begun
    BY DEF Finish
  <1>3. Grows /\ There(committed') = There(committed) /\ There(committed)' = There(committed)
    BY <1>1, <1>2 DEF Grows, There
  <1>4. \A x \in Rows : Typed(x, db'[x]) /\ Typed(x, committed'[x])
    BY <1>1 DEF CatalogueInv, CatalogueTypeOK
  <1>5. pc'[t] = "commit"
    BY <1>2 DEF CatalogueInv, SlotsOK
  <1>6. RequestOK(t)'
    BY <1>5 DEF RequestOK
  <1>7. ASSUME NEW c \in Categories PROVE CategoryOK(c)'
    <2>1. CategoryOK(c) /\ Category(c) \in Rows
      BY RowKinds DEF CatalogueInv
    <2>2. owner[Category(c)] = Nobody => db[Category(c)] = committed[Category(c)]
      BY <2>1, StoreStored DEF StoreOK, UnlockedIsCommitted
    <2>3. db'[Category(c)] # NoRow /\ db'[Category(c)].parent # Top =>
              db'[Category(c)].parent \in There(committed)
      BY <1>1, <2>1 DEF CategoryOK
    <2>4. owner'[Category(c)] # Nobody => committed'[Category(c)] = NoRow
      BY <1>1, <2>1, <2>2 DEF CategoryOK
    <2> QED
      BY <1>3, <2>3, <2>4 DEF CategoryOK
  <1>8. ASSUME NEW p \in ProductIds
        PROVE  /\ ProductOK(p)'
               /\ committed'[Product(p)] # NoRow => committed'[Product(p)].category \in There(committed')
    <2>1. ProductOK(p) /\ Product(p) \in Rows
      BY RowKinds DEF CatalogueInv
    <2>2. /\ db'[Product(p)] # NoRow => db'[Product(p)].category \in There(committed)
          /\ committed[Product(p)] # NoRow =>
                db'[Product(p)] # NoRow /\ db'[Product(p)].created = committed[Product(p)].created
      BY <1>1, <2>1 DEF ProductOK
    <2>3. ProductOK(p)'
      BY <1>1, <1>3, <2>2 DEF ProductOK
    <2> QED
      BY <1>1, <1>3, <2>3 DEF CatalogueInv, CatalogueTypeOK
  <1>9. ASSUME NEW i \in ImageIds
        PROVE  /\ ImageOK(i)'
               /\ committed'[Image(i)] # NoRow =>
                    /\ KeyOwner[committed'[Image(i)].key] \in {VendorOf[committed'[Image(i)].product], Admin}
                    /\ bucket'[committed'[Image(i)].key] # "none"
    <2>1. ImageOK(i) /\ Image(i) \in Rows
      BY RowKinds DEF CatalogueInv
    <2>2. ImageOK(i)'
      BY <1>1, <1>2, <2>1 DEF ImageOK
    <2> QED
      BY <1>1, <1>2, <2>2 DEF CatalogueInv, CatalogueTypeOK
  <1>10. bucket' \in [Keys -> Objects] /\ begun' \in 0..MaxRequests
    BY <1>2 DEF CatalogueInv, CatalogueTypeOK, Objects
  <1> QED
    BY <1>1, <1>2, <1>3, <1>4, <1>6, <1>7, <1>8, <1>9, <1>10, OneMoves DEF Steps

LEMMA InsertCategoryKeeps ==
    ASSUME CatalogueInv, NEW t \in Txns, InsertCategory(t) PROVE CatalogueInv'
  <1>1. PICK c, parent : c = req[t].category /\ parent = req[t].parent
    OBVIOUS
  <1>2. PICK v : v = [parent |-> parent]
    OBVIOUS
  <1>3. PICK new : new = [x \in {Category(c)} |-> v]
    OBVIOUS
  <1>4. WriteRows(t, new) /\ Finish(t) /\ db[Category(c)] = NoRow
    BY <1>1, <1>2, <1>3 DEF InsertCategory, Taken
  <1>5. c \in Categories /\ parent \in There(committed) \cup {Top}
    BY <1>1 DEF CatalogueInv, RequestOK, InsertCategory
  <1>6. Typed(Category(c), v) /\ v.parent = parent
    BY <1>2, <1>5, TypedKinds DEF CategoryRow, There
  <1>7. PICK r : r = Category(c)
    OBVIOUS
  <1>8. r \in Rows /\ new = [x \in {r} |-> v] /\ Typed(r, v)
    BY <1>3, <1>5, <1>6, <1>7, RowKinds
  <1>9. \A d \in Categories : r = Category(d) =>
           db[r] = NoRow /\ (v # NoRow /\ v.parent # Top => v.parent \in There(committed))
    BY <1>4, <1>5, <1>6, <1>7
  <1>10. /\ \A p \in ProductIds : r # Product(p)
         /\ \A i \in ImageIds : r # Image(i)
    BY <1>7, RowKinds
  <1>11. WriteRows(t, new) /\ Finish(t)
    BY <1>4
  <1> QED
    BY <1>8, <1>9, <1>10, <1>11, WriteKeeps

\* A finite set of numbers has a greatest.
LEMMA GreatestOf ==
    ASSUME NEW S \in SUBSET Nat, IsFiniteSet(S), S # {} PROVE Max(S) \in S
  <1>1. PICK good : good = {s \in SUBSET S : \E b \in Nat : \A n \in s : n <= b}
    OBVIOUS
  <1>2. {} \in good
    BY <1>1
  <1>3. ASSUME NEW s \in SUBSET S, s # {}, s \ {One(s)} \in good PROVE s \in good
    <2>1. PICK b \in Nat : \A n \in s \ {One(s)} : n <= b
      BY <1>1, <1>3
    <2>2. PICK a \in Nat : a = One(s)
      BY <1>3 DEF One
    <2>3. \A n \in s : n <= a + b
      BY <2>1, <2>2
    <2>4. a + b \in Nat
      OBVIOUS
    <2> QED
      BY <1>1, <2>3, <2>4
  <1>4. S \in good
    BY <1>2, <1>3, SubsetInduction
  <1>5. PICK above : above = {b \in Nat : \A n \in S : n <= b}
    OBVIOUS
  <1>6. PICK b \in above : \A a \in above : b <= a
    BY <1>1, <1>4, <1>5, LeastOf
  <1>7. b \in S
    <2> SUFFICES ASSUME b \notin S PROVE FALSE
      OBVIOUS
    <2>1. \A n \in S : n <= b - 1
      BY <1>5, <1>6
    <2>2. PICK n \in S : n < b
      <3>1. PICK n \in S : TRUE
        OBVIOUS
      <3>2. n <= b /\ n # b /\ b \in Nat /\ n \in Nat
        BY <1>5, <1>6
      <3> QED
        BY <3>2
    <2>3. b - 1 \in above
      BY <1>5, <1>6, <2>1, <2>2
    <2> QED
      BY <1>5, <1>6, <2>3
  <1>8. \E x \in S : \A y \in S : x >= y
    BY <1>5, <1>6, <1>7
  <1> QED
    BY <1>8 DEF Max

\* An id that is left for a row is found.
LEMMA NextIdIsUnused ==
    ASSUME NEW ids \in SUBSET Nat, NEW table, Unused(ids, table) # {}
    PROVE  NextId(ids, table) \in ids /\ db[<<table, NextId(ids, table)>>] = NoRow
  <1>1. PICK left : left = Unused(ids, table)
    OBVIOUS
  <1>2. \E n \in left : \A m \in left : n <= m
    BY <1>1, LeastOf DEF Unused
  <1>3. NextId(ids, table) \in left
    BY <1>1, <1>2 DEF NextId
  <1> QED
    BY <1>1, <1>3 DEF Unused

LEMMA ImageIsFinite ==
    ASSUME NEW f, IsFiniteSet(DOMAIN f) PROVE IsFiniteSet({f[x] : x \in DOMAIN f})
  <1>1. PICK g : g = [x \in DOMAIN f |-> f[x]]
    OBVIOUS
  <1>2. g \in Surjection(DOMAIN f, {f[x] : x \in DOMAIN f})
    BY <1>1 DEF Surjection
  <1> QED
    BY <1>2, FS_Surjection

LEMMA InsertProductKeeps ==
    ASSUME CatalogueInv, NEW t \in Txns, InsertProduct(t) PROVE CatalogueInv'
  <1>1. PICK listed : listed = ProductIds \ Unused(ProductIds, "product")
    OBVIOUS
  <1>2. PICK latest : latest = Max({0} \cup {db[Product(p)].created : p \in listed})
    OBVIOUS
  <1>3. latest \in Nat
    <2>1. \A p \in listed : db[Product(p)].created \in Nat
      BY <1>1, RowsTyped DEF Unused, Product, ProductRow
    <2>2. PICK f : f = [p \in listed |-> db[Product(p)].created]
      OBVIOUS
    <2>3. PICK ages : ages = {f[p] : p \in DOMAIN f}
      OBVIOUS
    <2>4. IsFiniteSet(ages)
      BY <1>1, <2>2, <2>3, CatalogueAssumption, FS_Subset, ImageIsFinite
    <2>5. IsFiniteSet(ages \cup {0}) /\ {0} \cup ages = ages \cup {0}
      BY <2>4, FS_AddElement
    <2>6. ages = {db[Product(p)].created : p \in listed} /\ {0} \cup ages \in SUBSET Nat
      BY <2>1, <2>2, <2>3
    <2> QED
      BY <1>2, <2>5, <2>6, GreatestOf
  <1>4. PICK p : p = NextId(ProductIds, "product")
    OBVIOUS
  <1>5. p \in ProductIds /\ db[Product(p)] = NoRow
    BY <1>4, CatalogueAssumption, NextIdIsUnused DEF InsertProduct, Product
  <1>6. PICK now \in {latest, latest + 1} :
            WriteRows(t, [r \in {Product(p)} |->
                [category |-> req[t].category, status |-> req[t].status, created |-> now]])
    BY <1>1, <1>2, <1>4 DEF InsertProduct
  <1>7. PICK v : v = [category |-> req[t].category, status |-> req[t].status, created |-> now]
    OBVIOUS
  <1>8. PICK new : new = [x \in {Product(p)} |-> v]
    OBVIOUS
  <1>9. WriteRows(t, new) /\ Finish(t)
    BY <1>6, <1>7, <1>8 DEF InsertProduct
  <1>10. req[t].category \in There(committed) /\ req[t].status \in Statuses
    BY DEF CatalogueInv, RequestOK, InsertProduct
  <1>11. v \in ProductRow
    BY <1>3, <1>7, <1>10 DEF ProductRow, There
  <1>12. committed[Product(p)] = NoRow
    BY <1>5 DEF CatalogueInv, ProductOK
  <1>13. v # NoRow /\ v.category \in There(committed)
    BY <1>7, <1>10, <1>11, NoRowIsNoValue
  <1> QED
    BY <1>5, <1>8, <1>9, <1>11, <1>12, <1>13, RowKinds, TypedKinds, WriteKeeps

LEMMA PatchProductKeeps ==
    ASSUME CatalogueInv, NEW t \in Txns, PatchProduct(t) PROVE CatalogueInv'
  <1>1. PICK p, old, patch : p = req[t].item /\ old = req[t].old /\ patch = req[t].patch
    OBVIOUS
  <1>2. PICK want : want = Patched(old, patch)
    OBVIOUS
  <1>3. PICK row : row = db[Product(p)]
    OBVIOUS
  <1>4. PICK v : v = [row EXCEPT !.category = IF want.category = old.category THEN @ ELSE want.category,
                                !.status = IF want.status = old.status THEN @ ELSE want.status]
    OBVIOUS
  <1>5. PICK new : new = [x \in {Product(p)} |-> v]
    OBVIOUS
  <1>6. WriteRows(t, new)
    <2>1. new = [x \in {Product(p)} |->
                [db[x] EXCEPT !.category = IF want.category = old.category THEN @ ELSE want.category,
                              !.status = IF want.status = old.status THEN @ ELSE want.status]]
      BY <1>3, <1>4, <1>5
    <2> QED
      BY <1>1, <1>2, <2>1 DEF PatchProduct
  <1>7. /\ p \in ProductIds /\ committed[Product(p)] # NoRow
        /\ patch \in Patches /\ patch.category \in There(committed) \cup {Unset}
        /\ old \in ProductRow /\ old.category \in There(committed)
    BY <1>1 DEF CatalogueInv, RequestOK, PatchProduct
  <1>8. row \in ProductRow /\ row.category \in There(committed) /\ row.created = committed[Product(p)].created
    BY <1>3, <1>7, RowsTyped DEF CatalogueInv, ProductOK
  <1>9. /\ want.category = old.category \/ want.category \in There(committed)
        /\ want.status = old.status \/ want.status \in Statuses \cup {"ARCHIVED"}
    <2>1. patch.status \in Statuses \cup {"ARCHIVED", Unset}
      BY <1>7, CatalogueAssumption
    <2>2. /\ want.category = IF patch.category = Unset THEN old.category ELSE patch.category
          /\ want.status = IF patch.status = Unset THEN old.status ELSE patch.status
      BY <1>2, <1>7 DEF Patched, ProductRow
    <2> QED
      BY <1>7, <2>1, <2>2
  <1>10. /\ v \in ProductRow
         /\ v.category \in There(committed) /\ v.created = row.created
    BY <1>4, <1>8, <1>9 DEF ProductRow, There
  <1>11. v # NoRow
    BY <1>10, NoRowIsNoValue
  <1>12. Finish(t)
    BY DEF PatchProduct
  <1> QED
    BY <1>5, <1>6, <1>7, <1>8, <1>10, <1>11, <1>12, RowKinds, TypedKinds, WriteKeeps

LEMMA InsertImageKeeps ==
    ASSUME CatalogueInv, NEW t \in Txns, InsertImage(t) PROVE CatalogueInv'
  <1>1. PICK i : i = NextId(ImageIds, "image")
    OBVIOUS
  <1>2. i \in ImageIds
    BY <1>1, CatalogueAssumption, NextIdIsUnused DEF InsertImage
  <1>3. PICK v : v = [product |-> req[t].item, key |-> req[t].key]
    OBVIOUS
  <1>4. PICK new : new = [x \in {Image(i)} |-> v]
    OBVIOUS
  <1>5. WriteRows(t, new) /\ Finish(t)
    BY <1>1, <1>3, <1>4 DEF InsertImage
  <1>6. /\ req[t] \in [item : ProductIds, key : Keys]
        /\ KeyOwner[req[t].key] \in {VendorOf[req[t].item], Admin} /\ bucket[req[t].key] # "none"
    BY DEF CatalogueInv, RequestOK, InsertImage
  <1>7. v \in ImageRow /\ v.product = req[t].item /\ v.key = req[t].key
    BY <1>3, <1>6 DEF ImageRow
  <1> QED
    BY <1>2, <1>4, <1>5, <1>6, <1>7, RowKinds, TypedKinds, WriteKeeps

LEMMA DeleteImageKeeps ==
    ASSUME CatalogueInv, NEW t \in Txns, DeleteImage(t) PROVE CatalogueInv'
  <1>1. PICK i : i = req[t].image
    OBVIOUS
  <1>2. PICK new : new = [x \in {Image(i)} |-> NoRow]
    OBVIOUS
  <1>3. WriteRows(t, new) /\ Finish(t) /\ i \in ImageIds
    BY <1>1, <1>2 DEF DeleteImage, CatalogueInv, RequestOK
  <1> QED
    BY <1>2, <1>3, RowKinds, TypedKinds, WriteKeeps

-----------------------------------------------------------------------------
(* Ends of requests, and uploads. *)

LEMMA CommitKeeps ==
    ASSUME CatalogueInv, NEW t \in Txns, Commit(t) PROVE CatalogueInv'
  <1>1. /\ StoreOK(Rows)' /\ db' = db
        /\ \A r \in Rows : committed'[r] = IF owner[r] = t THEN db[r] ELSE committed[r]
        /\ \A r \in Rows : owner'[r] = IF owner[r] = t THEN Nobody ELSE owner[r]
    BY StoreStored, CommitEffect DEF Commit
  <1>2. /\ pc' = [pc EXCEPT ![t] = "idle"] /\ req' = [req EXCEPT ![t] = NoRow]
        /\ bucket' = bucket /\ begun' = begun
    BY DEF Commit, Forget
  <1>3. There(committed) \subseteq There(committed') /\ There(committed)' = There(committed')
    <2>1. \A c \in Categories : committed[Category(c)] # NoRow => committed'[Category(c)] # NoRow
      BY <1>1, RowKinds, NobodyIsNoTxn DEF CatalogueInv, CategoryOK
    <2> QED
      BY <2>1 DEF There
  <1>4. Grows
    BY <1>1, <1>2, <1>3, RowKinds DEF Grows, CatalogueInv, ProductOK
  <1>5. \A r \in Rows : Typed(r, db'[r]) /\ Typed(r, committed'[r])
    BY <1>1 DEF CatalogueInv, CatalogueTypeOK
  <1>6. RequestOK(t)'
    BY <1>2 DEF RequestOK, CatalogueInv, SlotsOK
  <1>7. ASSUME NEW c \in Categories PROVE CategoryOK(c)'
    <2>1. CategoryOK(c) /\ Category(c) \in Rows
      BY RowKinds DEF CatalogueInv
    <2> QED
      BY <1>1, <1>3, <2>1 DEF CategoryOK
  <1>8. ASSUME NEW p \in ProductIds
        PROVE  /\ ProductOK(p)'
               /\ committed'[Product(p)] # NoRow => committed'[Product(p)].category \in There(committed')
    <2>1. ProductOK(p) /\ Product(p) \in Rows
      BY RowKinds DEF CatalogueInv
    <2>2. ProductOK(p)'
      BY <1>1, <1>3, <2>1 DEF ProductOK
    <2>3. committed[Product(p)] # NoRow => committed[Product(p)].category \in There(committed)
      BY DEF CatalogueInv, CatalogueTypeOK
    <2> QED
      BY <1>1, <1>3, <2>1, <2>2, <2>3 DEF ProductOK
  <1>9. ASSUME NEW i \in ImageIds
        PROVE  /\ ImageOK(i)'
               /\ committed'[Image(i)] # NoRow =>
                    /\ KeyOwner[committed'[Image(i)].key] \in {VendorOf[committed'[Image(i)].product], Admin}
                    /\ bucket'[committed'[Image(i)].key] # "none"
    <2>1. ImageOK(i) /\ Image(i) \in Rows
      BY RowKinds DEF CatalogueInv
    <2>2. committed[Image(i)] # NoRow =>
              /\ KeyOwner[committed[Image(i)].key] \in {VendorOf[committed[Image(i)].product], Admin}
              /\ bucket[committed[Image(i)].key] # "none"
      BY DEF CatalogueInv, CatalogueTypeOK
    <2> QED
      BY <1>1, <1>2, <2>1, <2>2 DEF ImageOK
  <1>10. bucket' \in [Keys -> Objects] /\ begun' \in 0..MaxRequests
    BY <1>2 DEF CatalogueInv, CatalogueTypeOK, Objects
  <1> QED
    BY <1>1, <1>2, <1>4, <1>5, <1>6, <1>7, <1>8, <1>9, <1>10, OneMoves DEF Steps

\* A rollback, of a request that may have deleted an object it did not accept.
LEMMA RollbackKeeps ==
    ASSUME CatalogueInv, NEW t \in Txns, Rollback(t), bucket' \in [Keys -> Objects],
           \A k \in Keys : bucket[k] # "none" => bucket'[k] # "none"
    PROVE  CatalogueInv'
  <1>1. /\ StoreOK(Rows)' /\ committed' = committed
        /\ \A r \in Rows : db'[r] = IF owner[r] = t THEN committed[r] ELSE db[r]
        /\ \A r \in Rows : owner'[r] = IF owner[r] = t THEN Nobody ELSE owner[r]
    BY StoreStored, RollbackEffect DEF Rollback
  <1>2. /\ pc' = [pc EXCEPT ![t] = "idle"] /\ req' = [req EXCEPT ![t] = NoRow] /\ begun' = begun
    BY DEF Rollback, Forget
  <1>3. Grows /\ There(committed') = There(committed) /\ There(committed)' = There(committed)
    BY <1>1 DEF Grows, There
  <1>4. \A r \in Rows : Typed(r, db'[r]) /\ Typed(r, committed'[r])
    BY <1>1 DEF CatalogueInv, CatalogueTypeOK
  <1>5. RequestOK(t)'
    BY <1>2 DEF RequestOK, CatalogueInv, SlotsOK
  <1>6. ASSUME NEW c \in Categories PROVE CategoryOK(c)'
    <2>1. CategoryOK(c) /\ Category(c) \in Rows
      BY RowKinds DEF CatalogueInv
    <2> QED
      BY <1>1, <1>3, <2>1, NobodyIsNoTxn DEF CategoryOK
  <1>7. ASSUME NEW p \in ProductIds
        PROVE  /\ ProductOK(p)'
               /\ committed'[Product(p)] # NoRow => committed'[Product(p)].category \in There(committed')
    <2>1. ProductOK(p) /\ Product(p) \in Rows
      BY RowKinds DEF CatalogueInv
    <2>2. committed[Product(p)] # NoRow => committed[Product(p)].category \in There(committed)
      BY DEF CatalogueInv, CatalogueTypeOK
    <2>3. ProductOK(p)'
      BY <1>1, <1>3, <2>1, <2>2 DEF ProductOK
    <2> QED
      BY <1>1, <1>3, <2>2, <2>3
  <1>8. ASSUME NEW i \in ImageIds
        PROVE  /\ ImageOK(i)'
               /\ committed'[Image(i)] # NoRow =>
                    /\ KeyOwner[committed'[Image(i)].key] \in {VendorOf[committed'[Image(i)].product], Admin}
                    /\ bucket'[committed'[Image(i)].key] # "none"
    <2>1. ImageOK(i) /\ Image(i) \in Rows
      BY RowKinds DEF CatalogueInv
    <2>2. committed[Image(i)] # NoRow =>
              /\ KeyOwner[committed[Image(i)].key] \in {VendorOf[committed[Image(i)].product], Admin}
              /\ bucket[committed[Image(i)].key] # "none"
      BY DEF CatalogueInv, CatalogueTypeOK
    <2>3. /\ db[Image(i)] # NoRow => db[Image(i)].key \in Keys
          /\ committed[Image(i)] # NoRow => committed[Image(i)].key \in Keys
      BY RowsTyped DEF ImageRow
    <2>4. ImageOK(i)'
      BY <1>1, <2>1, <2>2, <2>3 DEF ImageOK
    <2> QED
      BY <1>1, <2>2, <2>3, <2>4
  <1>9. begun' \in 0..MaxRequests
    BY <1>2 DEF CatalogueInv, CatalogueTypeOK
  <1> QED
    BY <1>1, <1>2, <1>3, <1>4, <1>5, <1>6, <1>7, <1>8, <1>9, OneMoves DEF Steps

LEMMA RefuseKeeps ==
    ASSUME CatalogueInv, NEW t \in Txns, Abort(t) \/ RefuseCategory(t) \/ RefuseImage(t)
    PROVE  CatalogueInv'
  <1>1. bucket \in [Keys -> Objects]
    BY DEF CatalogueInv, CatalogueTypeOK, Objects
  <1>2. CASE Abort(t) \/ RefuseCategory(t)
    BY <1>1, <1>2, RollbackKeeps DEF Abort, RefuseCategory
  <1>3. CASE RefuseImage(t)
    <2>1. Rollback(t) /\ bucket[req[t].key] # "fits"
          /\ bucket' \in {bucket, [bucket EXCEPT ![req[t].key] = "deleted"]}
      BY <1>3 DEF RefuseImage, Acceptable
    <2>2. bucket' \in [Keys -> Objects] /\ \A k \in Keys : bucket[k] # "none" => bucket'[k] # "none"
      BY <1>1, <2>1 DEF Objects
    <2> QED
      BY <2>1, <2>2, RollbackKeeps
  <1> QED
    BY <1>2, <1>3

\* Steps outside the database.
LEMMA OutsideKeeps ==
    ASSUME CatalogueInv, UNCHANGED <<db, committed, owner, pc, req, begun>>,
           bucket' \in [Keys -> Objects], \A k \in Keys : bucket[k] # "none" => bucket'[k] # "none"
    PROVE  CatalogueInv'
  <1>1. Grows /\ There(committed)' = There(committed)
    BY DEF Grows, There
  <1>2. \A t \in Txns : RequestOK(t)'
    BY <1>1, OthersAsk
  <1>3. SlotsOK'
    BY DEF CatalogueInv, SlotsOK, UnlockedIsCommitted
  <1>4. \A c \in Categories : CategoryOK(c)'
    BY <1>1 DEF CatalogueInv, CategoryOK
  <1>5. \A p \in ProductIds : ProductOK(p)'
    BY <1>1 DEF CatalogueInv, ProductOK
  <1>6. \A i \in ImageIds : /\ db[Image(i)] # NoRow => db[Image(i)].key \in Keys
                            /\ committed[Image(i)] # NoRow => committed[Image(i)].key \in Keys
    BY RowsTyped DEF ImageRow
  <1>7. \A i \in ImageIds : ImageOK(i)'
    BY <1>6 DEF CatalogueInv, ImageOK
  <1>8. \A r \in Rows : Typed(r, db[r])' /\ Typed(r, committed[r])'
    BY DEF CatalogueInv, CatalogueTypeOK, Typed
  <1>9. \A p \in ProductIds :
            committed'[Product(p)] # NoRow => committed'[Product(p)].category \in There(committed)'
    BY <1>1 DEF CatalogueInv, CatalogueTypeOK
  <1>10. \A i \in ImageIds : committed'[Image(i)] # NoRow =>
            /\ KeyOwner[committed'[Image(i)].key] \in {VendorOf[committed'[Image(i)].product], Admin}
            /\ bucket'[committed'[Image(i)].key] # "none"
    BY <1>6 DEF CatalogueInv, CatalogueTypeOK
  <1>11. /\ DOMAIN db' = Rows /\ DOMAIN committed' = Rows /\ owner' \in [Rows -> Txns \cup {Nobody}]
         /\ pc' \in [Txns -> Steps] /\ begun' \in 0..MaxRequests
    BY DEF CatalogueInv, CatalogueTypeOK, Steps
  <1>12. CatalogueTypeOK'
    BY <1>8, <1>9, <1>10, <1>11 DEF CatalogueTypeOK, Steps, Objects
  <1> QED
    BY <1>2, <1>3, <1>4, <1>5, <1>7, <1>12 DEF CatalogueInv

LEMMA ElsewhereKeeps ==
    ASSUME CatalogueInv,
           (\E k \in Keys, size \in {"fits", "large"} : Upload(k, size)) \/ Browse \/ UNCHANGED vars
    PROVE  CatalogueInv'
  <1>1. bucket \in [Keys -> Objects]
    BY DEF CatalogueInv, CatalogueTypeOK, Objects
  <1>2. ASSUME NEW k \in Keys, NEW size \in {"fits", "large"}, Upload(k, size) PROVE CatalogueInv'
    <2>1. bucket' \in [Keys -> Objects] /\ \A j \in Keys : bucket[j] # "none" => bucket'[j] # "none"
      BY <1>1, <1>2 DEF Upload, Objects
    <2> QED
      BY <1>2, <2>1, OutsideKeeps DEF Upload
  <1>3. CASE Browse \/ UNCHANGED vars
    BY <1>1, <1>3, OutsideKeeps DEF Browse, StartWalk, NextPage, vars
  <1> QED
    BY <1>2, <1>3

LEMMA Inductive == CatalogueInv /\ [Next]_vars => CatalogueInv'
  <1> SUFFICES ASSUME CatalogueInv, [Next]_vars PROVE CatalogueInv'
    OBVIOUS
  <1>1. ASSUME NEW t \in Txns, Step(t) PROVE CatalogueInv'
    BY <1>1, InsertCategoryKeeps, InsertProductKeeps, PatchProductKeeps, HeadObjectKeeps,
       InsertImageKeeps, DeleteImageKeeps, CommitKeeps, RefuseKeeps DEF Step
  <1> QED
    BY <1>1, ArriveKeeps, RefuseKeeps, ElsewhereKeeps DEF Next

LEMMA Initially == Init => CatalogueInv
  <1> SUFFICES ASSUME Init PROVE CatalogueInv
    OBVIOUS
  <1>1. PICK tree \in Trees, filed \in [Shown -> Seeded] : InitStore(InitialRows(tree, filed))
    BY DEF Init
  <1>2. PICK rows : rows = InitialRows(tree, filed)
    OBVIOUS
  <1>3. rows = [r \in Rows |-> rows[r]]
    BY <1>2 DEF InitialRows
  <1>4. /\ StoreOK(Rows)
        /\ \A r \in Rows : db[r] = rows[r] /\ committed[r] = rows[r] /\ owner[r] = Nobody
    BY <1>1, <1>2, <1>3, InitEffect
  <1>5. \A c \in Categories : rows[Category(c)] = IF c \in Seeded THEN [parent |-> tree[c]] ELSE NoRow
    BY <1>2, RowKinds DEF InitialRows, Category
  <1>6. \A p \in ProductIds : rows[Product(p)] =
            IF p \in Shown THEN [category |-> filed[p], status |-> "ACTIVE", created |-> p] ELSE NoRow
    BY <1>2, RowKinds DEF InitialRows, Product
  <1>7. \A i \in ImageIds : rows[Image(i)] = NoRow
    BY <1>2, RowKinds DEF InitialRows, Image
  <1>8. \A c \in Seeded : c \in Categories /\ tree[c] \in Seeded \cup {Top} /\ [parent |-> tree[c]] \in CategoryRow
    BY CatalogueAssumption DEF Trees, CategoryRow
  <1>9. There(committed) = Seeded
    <2>1. \A c \in Seeded : [parent |-> tree[c]] # NoRow
      BY <1>8, NoRowIsNoValue
    <2>2. \A c \in Categories : committed[Category(c)] # NoRow <=> c \in Seeded
      BY <1>4, <1>5, <2>1, RowKinds
    <2> QED
      BY <1>8, <2>2 DEF There
  <1>10. \A p \in Shown : [category |-> filed[p], status |-> "ACTIVE", created |-> p] \in ProductRow
    BY CatalogueAssumption DEF ProductRow
  <1>11. \A r \in Rows : Typed(r, rows[r])
    <2>1. \A c \in Categories : Typed(Category(c), rows[Category(c)])
      BY <1>5, <1>8, TypedKinds
    <2>2. \A p \in ProductIds : Typed(Product(p), rows[Product(p)])
      BY <1>6, <1>10, TypedKinds
    <2>3. \A i \in ImageIds : Typed(Image(i), rows[Image(i)])
      BY <1>7, TypedKinds
    <2> QED
      BY <2>1, <2>2, <2>3, RowKinds
  <1>12. \A r \in Rows : Typed(r, db[r]) /\ Typed(r, committed[r])
    BY <1>4, <1>11
  <1>13. /\ pc = [t \in Txns |-> "idle"] /\ req = [t \in Txns |-> NoRow]
         /\ bucket = [k \in Keys |-> "none"] /\ begun = 0
    BY DEF Init
  <1>14. ASSUME NEW p \in ProductIds, rows[Product(p)] # NoRow PROVE rows[Product(p)].category \in Seeded
    <2>1. p \in Shown /\ rows[Product(p)] = [category |-> filed[p], status |-> "ACTIVE", created |-> p]
      BY <1>6, <1>14
    <2> QED
      BY <2>1
  <1>15. CatalogueTypeOK
    BY <1>4, <1>7, <1>9, <1>12, <1>13, <1>14, RowKinds, CatalogueAssumption DEF CatalogueTypeOK, StoreOK
  <1>16. SlotsOK
    BY <1>4, <1>13 DEF SlotsOK, StoreOK
  <1>17. ASSUME NEW c \in Categories PROVE CategoryOK(c)
    <2>1. /\ owner[Category(c)] = Nobody
          /\ db[Category(c)] = IF c \in Seeded THEN [parent |-> tree[c]] ELSE NoRow
      BY <1>4, <1>5, RowKinds
    <2>2. db[Category(c)] # NoRow => db[Category(c)].parent = tree[c] /\ c \in Seeded
      BY <2>1
    <2> QED
      BY <1>8, <1>9, <2>1, <2>2 DEF CategoryOK
  <1>18. \A p \in ProductIds : ProductOK(p)
    BY <1>4, <1>9, <1>14, RowKinds DEF ProductOK
  <1>19. \A i \in ImageIds : ImageOK(i)
    BY <1>4, <1>7, RowKinds DEF ImageOK
  <1>20. \A t \in Txns : RequestOK(t)
    BY <1>13 DEF RequestOK
  <1> QED
    BY <1>15, <1>16, <1>17, <1>18, <1>19, <1>20 DEF CatalogueInv

\* What is true of the catalogue whatever requests overlap.
THEOREM CatalogueInvariance == Spec => []CatalogueInv
  BY Initially, Inductive, PTL DEF Spec

\* Rows, requests and objects have their types; products are filed under categories
\* there are, and images under keys their vendors may use and have put a file to.
\* (What is under such a key later is not claimed: it may be replaced, or deleted.)
THEOREM CatalogueTypeCorrect == Spec => []CatalogueTypeOK
  <1>1. CatalogueInv => CatalogueTypeOK
    BY DEF CatalogueInv
  <1> QED
    BY <1>1, CatalogueInvariance, PTL

\* Only a commit changes what is committed.
LEMMA OnlyCommitsPublish ==
    ASSUME [Next]_vars PROVE committed' = committed \/ \E t \in Txns : Commit(t)
  <1>1. ASSUME NEW t \in Txns, Arrive(t) \/ Abort(t) PROVE committed' = committed
    BY <1>1 DEF Arrive, BeginCategory, BeginProduct, BeginPatch, BeginImage, BeginUnlist, Begin,
                Abort, Rollback, RollbackTxn
  <1>2. ASSUME NEW t \in Txns, Step(t), ~Commit(t) PROVE committed' = committed
    BY <1>2 DEF Step, InsertCategory, RefuseCategory, InsertProduct, PatchProduct, HeadObject,
                RefuseImage, InsertImage, DeleteImage, WriteRows, Rollback, RollbackTxn
  <1>3. CASE Browse \/ UNCHANGED vars \/ \E k \in Keys, size \in {"fits", "large"} : Upload(k, size)
    BY <1>3 DEF Browse, StartWalk, NextPage, vars, Upload
  <1> QED
    BY <1>1, <1>2, <1>3 DEF Next

\* A category is added once, and never moves within the tree.
THEOREM CategoriesStay == Spec => CategoryIsFinal
  <1>1. ASSUME CatalogueInv, [Next]_vars, NEW c \in Categories, committed[Category(c)] # NoRow
        PROVE  committed'[Category(c)] = committed[Category(c)]
    <2>1. Category(c) \in Rows /\ owner[Category(c)] = Nobody
      BY <1>1, RowKinds DEF CatalogueInv, CategoryOK
    <2>2. ASSUME NEW t \in Txns, Commit(t) PROVE committed'[Category(c)] = committed[Category(c)]
      BY <1>1, <2>1, <2>2, StoreStored, CommitEffect, NobodyIsNoTxn DEF Commit
    <2> QED
      BY <1>1, <2>2, OnlyCommitsPublish
  <1>2. CatalogueInv /\ [Next]_vars =>
            [\A c \in Categories :
                committed[Category(c)] # NoRow => committed'[Category(c)] = committed[Category(c)]]_vars
    BY <1>1
  <1> QED
    BY <1>2, CatalogueInvariance, PTL DEF Spec, CategoryIsFinal

-----------------------------------------------------------------------------
(* The buyer's walk. *)

\* A set of products has as many places as products, and each has one of them.
LEMMA EachIsPlaced ==
    ASSUME NEW some \in SUBSET ProductIds, NEW s \in NewestFirst(committed, some)
    PROVE  /\ IsFiniteSet(some) /\ Cardinality(some) \in Nat /\ Len(s) = Cardinality(some)
           /\ s \in [1..Len(s) -> some]
           /\ \A i, j \in 1..Len(s) : i # j => s[i] # s[j]
           /\ \A p \in some : \E i \in 1..Len(s) : s[i] = p
  <1>1. IsFiniteSet(some) /\ Cardinality(some) \in Nat
    BY CatalogueAssumption, FS_Subset, FS_CardinalityType
  <1>2. PICK n \in Nat : n = Cardinality(some)
    BY <1>1
  <1>3. s \in [1..n -> some] /\ \A i, j \in 1..n : i # j => s[i] # s[j]
    BY <1>2 DEF NewestFirst, SetToSeqs
  <1>4. Len(s) = n
    <2>1. s \in Seq(some)
      BY <1>3
    <2> QED
      BY <1>3, <2>1
  <1>5. s \in Injection(1..n, some)
    BY <1>3 DEF Injection, IsInjective
  <1>6. Cardinality(1..n) = n
    BY FS_Interval
  <1>7. s \in Surjection(1..n, some)
    BY <1>1, <1>2, <1>5, <1>6, FS_Injection
  <1> QED
    BY <1>1, <1>2, <1>3, <1>4, <1>7 DEF Surjection

\* Without ties, a product comes after exactly those that are newer.
LEMMA Ranked ==
    ASSUME NEW some \in SUBSET ProductIds, \A p \in some : committed[Product(p)].created \in Nat,
           ~Tied(some), NEW s \in NewestFirst(committed, some), NEW p \in some
    PROVE  \E i \in 1..Len(s) : s[i] = p /\ Cardinality(Newer(some, p)) = i - 1
  <1>1. PICK n : n = Len(s)
    OBVIOUS
  <1>2. /\ n \in Nat /\ s \in [1..n -> some]
        /\ \A i, j \in 1..n : i # j => s[i] # s[j]
        /\ \A q \in some : \E i \in 1..n : s[i] = q
    BY <1>1, EachIsPlaced
  <1>3. PICK i \in 1..n : s[i] = p
    BY <1>2
  <1>4. \A j, k \in 1..n : j < k =>
            committed[Product(s[j])].created > committed[Product(s[k])].created
    <2>1. \A j, k \in 1..n : j < k =>
              committed[Product(s[j])].created >= committed[Product(s[k])].created
      BY <1>1 DEF NewestFirst
    <2>2. \A j, k \in 1..n : j < k =>
              /\ s[j] \in some /\ s[k] \in some
              /\ committed[Product(s[j])].created # committed[Product(s[k])].created
      BY <1>2 DEF Tied
    <2> QED
      BY <2>1, <2>2
  <1>5. PICK g : g = [j \in 1..(i - 1) |-> s[j]]
    OBVIOUS
  <1>6. \A j \in 1..(i - 1) : j \in 1..n /\ g[j] = s[j] /\ g[j] \in Newer(some, p)
    BY <1>2, <1>3, <1>4, <1>5 DEF Newer
  <1>7. g \in [1..(i - 1) -> Newer(some, p)]
    BY <1>5, <1>6
  <1>8. \A q \in Newer(some, p) : \E j \in 1..(i - 1) : g[j] = q
    <2> TAKE q \in Newer(some, p)
    <2>1. q \in some /\ committed[Product(q)].created > committed[Product(p)].created
      BY DEF Newer
    <2>2. PICK j \in 1..n : s[j] = q
      BY <1>2, <2>1
    <2>3. ~(j > i) /\ j # i
      <3>1. committed[Product(p)].created \in Nat /\ committed[Product(q)].created \in Nat
        BY <2>1
      <3> QED
        BY <1>3, <1>4, <2>1, <2>2, <3>1
    <2>4. j \in 1..(i - 1)
      BY <1>2, <2>3
    <2> QED
      BY <1>6, <2>2, <2>4
  <1>9. g \in Bijection(1..(i - 1), Newer(some, p))
    BY <1>2, <1>6, <1>7, <1>8 DEF Bijection, Injection, Surjection, IsInjective
  <1>10. Cardinality(Newer(some, p)) = i - 1
    BY <1>9, FS_CountingElements DEF ExistsBijection
  <1> QED
    BY <1>1, <1>3, <1>10

\* What a page holds of a sequence.
LEMMA OnPageHas ==
    ASSUME NEW S, NEW m \in Nat, NEW s \in [1..m -> S], Len(s) = m, NEW n \in Nat \ {0},
           NEW i \in 1..m, Offset(n) < i, i <= Offset(n) + PageSize
    PROVE  s[i] \in Range(OnPage(s, n))
  <1>1. PICK a \in Nat : a = Offset(n)
    BY CatalogueAssumption DEF Offset
  <1>2. PICK b \in Nat : b = IF a + PageSize <= m THEN a + PageSize ELSE m
    BY CatalogueAssumption
  <1>3. Min({a + PageSize, m}) = b
    BY <1>2, CatalogueAssumption DEF Min
  <1>4. PICK page : page = SubSeq(s, a + 1, b)
    OBVIOUS
  <1>5. OnPage(s, n) = page
    BY <1>1, <1>3, <1>4 DEF OnPage
  <1>6. \A j \in (a + 1)..b : s[j] \in S
    BY <1>2, CatalogueAssumption
  <1>7. /\ page \in Seq(S) /\ Len(page) = IF a + 1 <= b THEN b - (a + 1) + 1 ELSE 0
        /\ \A j \in 1..(b - (a + 1) + 1) : page[j] = s[a + 1 + j - 1]
    BY <1>4, <1>6, SubSeqProperties
  <1>8. i - a \in 1..(b - (a + 1) + 1) /\ a + 1 + (i - a) - 1 = i
    <2>1. i \in Nat /\ a < i /\ i <= b
      BY <1>1, <1>2, CatalogueAssumption
    <2> QED
      BY <1>1, <1>2, <2>1
  <1>9. i - a \in DOMAIN page /\ page[i - a] = s[i]
    BY <1>7, <1>8
  <1> QED
    BY <1>5, <1>9 DEF Range

\* A page shows whom it is up to: whoever it does not show has a page's products
\* more before him.
LEMMA PageShows ==
    ASSUME NEW some \in SUBSET ProductIds, \A p \in some : committed[Product(p)].created \in Nat,
           ~Tied(some), NEW s \in NewestFirst(committed, some), NEW n \in Nat \ {0},
           NEW p \in some, p \notin Range(OnPage(s, n)), Cardinality(Newer(some, p)) >= Offset(n)
    PROVE  Cardinality(Newer(some, p)) >= n * PageSize
  <1>1. PICK i \in 1..Len(s) : s[i] = p /\ Cardinality(Newer(some, p)) = i - 1
    BY Ranked
  <1>2. Len(s) \in Nat /\ s \in [1..Len(s) -> some]
    BY EachIsPlaced
  <1>3. PICK a \in Nat : a = Offset(n)
    BY CatalogueAssumption DEF Offset
  <1>4. i > a
    BY <1>1, <1>3
  <1>5. ~(i <= a + PageSize)
    BY <1>1, <1>2, <1>3, <1>4, OnPageHas
  <1>6. n * PageSize = a + PageSize
    BY <1>3, CatalogueAssumption DEF Offset
  <1> QED
    BY <1>1, <1>5, <1>6, CatalogueAssumption

\* Vendors refile and archive a product; when it was created does not change.
LEMMA ProductsKeepTheirAge ==
    ASSUME CatalogueInv, [Next]_vars, NEW p \in ProductIds, committed[Product(p)] # NoRow
    PROVE  /\ committed'[Product(p)] # NoRow
           /\ committed'[Product(p)].created = committed[Product(p)].created
  <1>1. Product(p) \in Rows /\ ProductOK(p)
    BY RowKinds DEF CatalogueInv
  <1>2. ASSUME NEW t \in Txns, Commit(t)
        PROVE  committed'[Product(p)] \in {committed[Product(p)], db[Product(p)]}
    BY <1>1, <1>2, StoreStored, CommitEffect DEF Commit
  <1> QED
    BY <1>1, <1>2, OnlyCommitsPublish DEF ProductOK

LEMMA AgesAreNumbers ==
    ASSUME CatalogueInv, NEW p \in ProductIds, committed[Product(p)] # NoRow
    PROVE  committed[Product(p)].created \in Nat
  BY RowsTyped DEF ProductRow

\* While the buyer does not read, products only become fewer than he has seen by
\* leaving his listing, which his next page notices.
LEMMA WalkStands ==
    ASSUME CatalogueInv, WalkInv, [Next]_vars, walk' = walk PROVE WalkInv'
  <1>1. ASSUME walk.calm, NEW p \in walk.last
        PROVE  /\ p \in ProductIds /\ committed'[Product(p)] # NoRow
               /\ committed'[Product(p)].created = committed[Product(p)].created
    BY <1>1, ProductsKeepTheirAge DEF WalkInv
  <1>2. ASSUME walk.calm, NEW p \in walk.last PROVE Newer(walk.last, p)' = Newer(walk.last, p)
    BY <1>1, <1>2 DEF Newer
  <1>3. walk.calm => \A p \in walk.first \ walk.seen :
            Cardinality(Newer(walk.last, p)') >= walk.page * PageSize
    BY <1>2 DEF WalkInv
  <1> QED
    BY <1>1, <1>3 DEF WalkInv

LEMMA WalkOn ==
    ASSUME CatalogueInv, WalkInv, committed' = committed, NEW c, NEW n \in Nat \ {0}, NEW before,
           ReadPage(c, n, before),
           n = 1 => before.last = {} /\ before.seen = {},
           n > 1 => before = walk /\ n = walk.page + 1
    PROVE  WalkInv'
  <1>0. PICK listed : listed = Listing(committed, c)
    OBVIOUS
  <1>1. PICK s \in NewestFirst(committed, listed) :
           /\ walk' = [category |-> c, page |-> n, pages |-> Pages(Cardinality(listed)),
                       first |-> IF n = 1 THEN listed ELSE before.first,
                       last |-> listed,
                       seen |-> before.seen \cup Range(OnPage(s, n)),
                       calm |-> before.calm /\ before.last \subseteq listed /\ ~Tied(listed)]
    BY <1>0 DEF ReadPage
  <1>2. /\ walk'.page = n /\ walk'.pages = Pages(Cardinality(listed)) /\ walk'.last = listed
        /\ walk'.first = IF n = 1 THEN listed ELSE before.first
        /\ walk'.seen = before.seen \cup Range(OnPage(s, n))
        /\ walk'.calm => before.calm /\ before.last \subseteq listed /\ ~Tied(listed)
    BY <1>1
  <1>3. /\ listed \in SUBSET ProductIds
        /\ \A p \in listed : committed[Product(p)] # NoRow /\ committed[Product(p)].created \in Nat
    BY <1>0, AgesAreNumbers DEF Listing
  <1>4. walk'.pages \in Nat
    <2>1. PICK k \in Nat : k = Cardinality(listed)
      BY <1>3, EachIsPlaced
    <2> QED
      BY <1>2, <2>1, CatalogueAssumption DEF Pages
  <1>5. ASSUME walk'.calm PROVE walk'.first \subseteq listed
    BY <1>2, <1>5 DEF WalkInv
  <1>6. ASSUME walk'.calm, NEW p \in walk'.first \ walk'.seen
        PROVE  Cardinality(Newer(listed, p)) >= n * PageSize
    <2>1. p \in listed /\ p \notin Range(OnPage(s, n)) /\ ~Tied(listed)
      BY <1>2, <1>5, <1>6
    <2>2. PICK k \in Nat : k = Cardinality(Newer(listed, p))
      BY <1>3, CatalogueAssumption, FS_Subset, FS_CardinalityType DEF Newer
    <2>3. CASE n = 1
      <3>1. Offset(n) = 0
        BY <2>3, CatalogueAssumption DEF Offset
      <3> QED
        BY <1>3, <2>1, <2>2, <3>1, PageShows
    <2>4. CASE n > 1
      <3>1. /\ walk.calm /\ walk.last \subseteq listed /\ p \in walk.first \ walk.seen
            /\ n = walk.page + 1 /\ walk.page \in Nat
        BY <1>2, <1>6, <2>4 DEF WalkInv
      <3>2. Cardinality(Newer(walk.last, p)) >= walk.page * PageSize
        BY <3>1 DEF WalkInv
      <3>3. Newer(walk.last, p) \in SUBSET Newer(listed, p) /\ IsFiniteSet(Newer(listed, p))
        BY <1>3, <3>1, CatalogueAssumption, FS_Subset DEF Newer
      <3>4. PICK j \in Nat : j = Cardinality(Newer(walk.last, p)) /\ j <= k
        BY <2>2, <3>3, FS_Subset, FS_CardinalityType
      <3>5. Offset(n) = walk.page * PageSize /\ walk.page * PageSize \in Nat
        BY <3>1, CatalogueAssumption DEF Offset
      <3>6. k >= Offset(n)
        BY <3>2, <3>4, <3>5
      <3> QED
        BY <1>3, <2>1, <2>2, <3>6, PageShows
    <2> QED
      BY <2>3, <2>4
  <1>7. ASSUME NEW p PROVE Newer(walk.last, p)' = Newer(listed, p)
    BY <1>2 DEF Newer
  <1>8. walk'.calm => /\ walk'.first \subseteq walk'.last
                      /\ \A p \in walk'.first \ walk'.seen :
                            Cardinality(Newer(walk.last, p)') >= walk'.page * PageSize
    BY <1>2, <1>5, <1>6, <1>7
  <1>9. walk'.page # 0
    BY <1>2
  <1> QED
    BY <1>2, <1>3, <1>4, <1>8, <1>9 DEF WalkInv

LEMMA WalkInductive == CatalogueInv /\ WalkInv /\ [Next]_vars => WalkInv'
  <1> SUFFICES ASSUME CatalogueInv, WalkInv, [Next]_vars PROVE WalkInv'
    OBVIOUS
  <1>1. ASSUME NEW c \in Categories, StartWalk(c) PROVE WalkInv'
    <2>1. NotWalking.last = {} /\ NotWalking.seen = {}
      BY DEF NotWalking
    <2>2. ReadPage(c, 1, NotWalking) /\ committed' = committed
      BY <1>1 DEF StartWalk
    <2> QED
      BY <2>1, <2>2, WalkOn
  <1>2. CASE NextPage
    <2>1. walk.page \in Nat /\ walk.pages \in Nat /\ walk.page < walk.pages
      BY <1>2 DEF WalkInv, NextPage, Walking
    <2>2. walk.page # 0
      <3>1. NotWalking.page = 0 /\ NotWalking.pages = 0
        BY DEF NotWalking
      <3> QED
        BY <2>1, <3>1 DEF WalkInv
    <2>3. ReadPage(walk.category, walk.page + 1, walk) /\ committed' = committed
      BY <1>2 DEF NextPage
    <2> QED
      BY <2>1, <2>2, <2>3, WalkOn
  <1>3. ASSUME ~Browse PROVE walk' = walk
    <2>1. ASSUME NEW t \in Txns, Arrive(t) \/ Abort(t) PROVE walk' = walk
      BY <2>1 DEF Arrive, BeginCategory, BeginProduct, BeginPatch, BeginImage, BeginUnlist, Begin,
                  Abort, Rollback
    <2>2. ASSUME NEW t \in Txns, Step(t) PROVE walk' = walk
      BY <2>2 DEF Step, InsertCategory, RefuseCategory, InsertProduct, PatchProduct, HeadObject,
                  RefuseImage, InsertImage, DeleteImage, Rollback, Finish, Commit
    <2> QED
      BY <1>3, <2>1, <2>2 DEF Next, vars, Upload
  <1> QED
    BY <1>1, <1>2, <1>3, WalkStands DEF Browse

LEMMA WalkInitially == Init => WalkInv
  <1> SUFFICES ASSUME Init PROVE WalkInv
    OBVIOUS
  <1>1. walk = NotWalking
    BY DEF Init
  <1>2. /\ NotWalking.page = 0 /\ NotWalking.pages = 0
        /\ NotWalking.first = {} /\ NotWalking.last = {}
    BY DEF NotWalking
  <1>3. Pages(Cardinality({})) = 0
    BY FS_EmptySet, CatalogueAssumption DEF Pages
  <1> QED
    BY <1>1, <1>2, <1>3 DEF WalkInv

\* As many pages as it takes.
LEMMA PagesSuffice ==
    ASSUME NEW n \in Nat PROVE n <= Pages(n) * PageSize /\ Pages(n) \in Nat
  BY CatalogueAssumption DEF Pages

\* Whoever reads to the last page has seen what was listed when he began.
THEOREM WalkersMissNothing == Spec => []WalkMissesNothing
  <1>1. CatalogueInv /\ WalkInv => WalkMissesNothing
    <2> SUFFICES ASSUME CatalogueInv, WalkInv, walk.page > 0, ~Walking, walk.calm,
                        NEW p \in walk.first, p \notin walk.seen
                 PROVE  FALSE
      BY DEF WalkMissesNothing
    <2>1. /\ walk.last \in SUBSET ProductIds /\ p \in walk.last
          /\ walk.page \in Nat /\ walk.pages \in Nat /\ walk.pages = Pages(Cardinality(walk.last))
          /\ Cardinality(Newer(walk.last, p)) >= walk.page * PageSize
      BY DEF WalkInv
    <2>2. IsFiniteSet(walk.last)
      BY <2>1, CatalogueAssumption, FS_Subset
    <2>3. PICK n \in Nat : n = Cardinality(walk.last)
      BY <2>2, FS_CardinalityType
    <2>4. committed[Product(p)].created \in Nat
      BY <2>1, AgesAreNumbers DEF WalkInv
    <2>5. Newer(walk.last, p) \in SUBSET (walk.last \ {p})
      BY <2>4 DEF Newer
    <2>6. Cardinality(Newer(walk.last, p)) <= n - 1 /\ Cardinality(Newer(walk.last, p)) \in Nat
      <3>1. IsFiniteSet(walk.last \ {p}) /\ Cardinality(walk.last \ {p}) = n - 1
        BY <2>1, <2>2, <2>3, FS_RemoveElement
      <3> QED
        BY <2>5, <3>1, FS_Subset, FS_CardinalityType
    <2>7. n <= walk.pages * PageSize
      BY <2>1, <2>3, PagesSuffice
    <2>8. walk.pages * PageSize <= walk.page * PageSize
      <3>1. walk.page >= walk.pages
        BY <2>1 DEF Walking
      <3>2. PICK d \in Nat : walk.page = walk.pages + d
        <4>1. walk.page - walk.pages \in Nat /\ walk.page = walk.pages + (walk.page - walk.pages)
          BY <2>1, <3>1
        <4> QED
          BY <4>1
      <3>3. walk.page * PageSize = walk.pages * PageSize + d * PageSize /\ d * PageSize \in Nat
        BY <2>1, <3>2, CatalogueAssumption
      <3>4. walk.pages * PageSize \in Nat
        BY <2>1, CatalogueAssumption
      <3> QED
        BY <3>3, <3>4
    <2>9. walk.pages * PageSize \in Nat /\ walk.page * PageSize \in Nat
      BY <2>1, CatalogueAssumption
    <2> QED
      BY <2>1, <2>6, <2>7, <2>8, <2>9
  <1>2. CatalogueInv /\ WalkInv /\ [Next]_vars => WalkInv'
    BY WalkInductive
  <1> QED
    BY <1>1, <1>2, WalkInitially, CatalogueInvariance, PTL DEF Spec

-----------------------------------------------------------------------------
(* Up and down the tree. *)

Parent(c) == committed[Category(c)].parent

LEMMA ParentsAreThere ==
    ASSUME CatalogueInv, NEW c \in There(committed)
    PROVE  /\ c \in Categories /\ Category(c) \in Rows /\ c # Top
           /\ db[Category(c)] = committed[Category(c)]
           /\ Parent(c) \in There(committed) \cup {Top}
  <1>1. c \in Categories /\ committed[Category(c)] # NoRow /\ Category(c) \in Rows /\ c # Top
    BY RowKinds, CatalogueAssumption DEF There
  <1>2. CategoryOK(c) /\ UnlockedIsCommitted /\ DOMAIN db = Rows
    BY <1>1 DEF CatalogueInv, SlotsOK, CatalogueTypeOK
  <1>3. db[Category(c)] = committed[Category(c)]
    BY <1>1, <1>2 DEF CategoryOK, UnlockedIsCommitted
  <1> QED
    BY <1>1, <1>2, <1>3 DEF CategoryOK, Parent

LEMMA ChildrenAre ==
    ASSUME NEW some
    PROVE  ChildrenOf(committed, some) = {e \in There(committed) : Parent(e) \in some}
  BY DEF ChildrenOf, Parent

\* A level of _descendant_category_ids.
Level(seen) ==
    [collected |-> seen.collected \cup (ChildrenOf(committed, seen.frontier) \ seen.collected),
     frontier |-> ChildrenOf(committed, seen.frontier) \ seen.collected]

Levels(c, h) ==
    h = [n \in Nat |-> IF n = 0 THEN [collected |-> {c}, frontier |-> {c}] ELSE Level(h[n - 1])]

LEMMA DescendantsAreChosen ==
    ASSUME NEW c
    PROVE  Descendants(committed, c) = (CHOOSE h : Levels(c, h))[Cardinality(Categories)].collected
  BY DEF Descendants, Levels, Level

Rises(c, h) ==
    h = [n \in Nat |-> IF n = 0 THEN {c} ELSE h[n - 1] \cup ({Parent(e) : e \in h[n - 1]} \ {Top})]

LEMMA AboveIsChosen ==
    ASSUME NEW c PROVE Above(c) = (CHOOSE h : Rises(c, h))[Cardinality(Categories)]
  BY DEF Above, Rises, Parent

\* What _descendant_category_ids collects is the category and all that is below: it is
\* the least set that holds the category and the children of what it holds.
LEMMA DescendantsAreLeast ==
    ASSUME NEW c \in There(committed)
    PROVE  /\ c \in Descendants(committed, c)
           /\ \A e \in There(committed) :
                 Parent(e) \in Descendants(committed, c) => e \in Descendants(committed, c)
           /\ \A W : /\ c \in W
                     /\ \A e \in There(committed) : Parent(e) \in W => e \in W
                     => Descendants(committed, c) \subseteq W
  <1>1. PICK V : V = [collected : SUBSET Categories, frontier : SUBSET Categories]
    OBVIOUS
  <1>2. There(committed) \in SUBSET Categories
    BY DEF There
  <1>3. PICK a : a = [collected |-> {c}, frontier |-> {c}]
    OBVIOUS
  <1>4. a \in V /\ a.collected = {c} /\ a.frontier = {c}
    BY <1>1, <1>2, <1>3
  <1>5. ASSUME NEW v \in V
        PROVE  /\ Level(v) \in V
               /\ Level(v).frontier = {e \in There(committed) : Parent(e) \in v.frontier} \ v.collected
               /\ Level(v).collected = v.collected \cup Level(v).frontier
    <2>1. v.collected \in SUBSET Categories /\ v.frontier \in SUBSET Categories
      BY <1>1
    <2>2. PICK next : next = {e \in There(committed) : Parent(e) \in v.frontier} \ v.collected
      OBVIOUS
    <2>3. Level(v) = [collected |-> v.collected \cup next, frontier |-> next]
      BY <2>2, ChildrenAre DEF Level
    <2>4. next \in SUBSET Categories
      BY <1>2, <2>2
    <2> QED
      BY <1>1, <2>1, <2>2, <2>3, <2>4
  <1>6. PICK f : f = [v \in V |-> Level(v)]
    OBVIOUS
  <1>7. f \in [V -> V] /\ \A v \in V : f[v] = Level(v)
    BY <1>5, <1>6
  <1>8. PICK g \in [Nat -> V] : g[0] = a /\ \A n \in Nat : g[n + 1] = f[g[n]]
    <2>1. PICK g : Iteration(V, a, f, g)
      BY <1>4, <1>7, Iterates
    <2> QED
      BY <2>1 DEF Iteration
  <1>9. Levels(c, g)
    <2>1. g = [n \in Nat |-> g[n]]
      BY <1>8
    <2>2. ASSUME NEW n \in Nat PROVE g[n] = IF n = 0 THEN a ELSE Level(g[n - 1])
      <3>1. CASE n # 0
        <4>1. n - 1 \in Nat /\ (n - 1) + 1 = n
          BY <3>1
        <4>2. g[n] = f[g[n - 1]] /\ g[n - 1] \in V
          BY <1>8, <4>1
        <4> QED
          BY <1>7, <3>1, <4>2
      <3> QED
        BY <1>8, <3>1
    <2>3. g = [n \in Nat |-> IF n = 0 THEN a ELSE Level(g[n - 1])]
      BY <2>1, <2>2
    <2> QED
      BY <1>3, <2>3 DEF Levels
  <1>10. PICK h : h = CHOOSE k : Levels(c, k)
    OBVIOUS
  <1>11. Levels(c, h)
    BY <1>9, <1>10
  <1>12. h[0] = a /\ \A n \in Nat : h[n + 1] = Level(h[n])
    <2>1. h = [n \in Nat |-> IF n = 0 THEN a ELSE Level(h[n - 1])]
      BY <1>3, <1>11 DEF Levels
    <2>2. ASSUME NEW n \in Nat PROVE h[n + 1] = Level(h[n])
      <3>1. n + 1 \in Nat /\ n + 1 # 0 /\ (n + 1) - 1 = n
        OBVIOUS
      <3>2. h[n + 1] = IF n + 1 = 0 THEN a ELSE Level(h[(n + 1) - 1])
        BY <2>1, <3>1
      <3> QED
        BY <3>1, <3>2
    <2> QED
      BY <2>1, <2>2
  <1>13. \A n \in Nat : h[n] \in V
    <2>1. PICK good : good = {n \in Nat : h[n] \in V}
      OBVIOUS
    <2>2. 0 \in good
      BY <1>4, <1>12, <2>1
    <2>3. \A n \in good : n + 1 \in good
      BY <1>5, <1>12, <2>1
    <2> QED
      BY <2>1, <2>2, <2>3, AllNumbers
  <1>14. \A n \in Nat :
            /\ h[n].collected \in SUBSET Categories /\ h[n].frontier \in SUBSET Categories
            /\ h[n + 1].frontier =
                  {e \in There(committed) : Parent(e) \in h[n].frontier} \ h[n].collected
            /\ h[n + 1].collected = h[n].collected \cup h[n + 1].frontier
    BY <1>1, <1>5, <1>12, <1>13
  <1>15. PICK N \in Nat : N = Cardinality(Categories)
    BY CatalogueAssumption, FS_CardinalityType
  <1>16. Descendants(committed, c) = h[N].collected
    BY <1>10, <1>15, DescendantsAreChosen
  <1>17. ASSUME NEW W, c \in W, \A e \in There(committed) : Parent(e) \in W => e \in W
         PROVE  \A n \in Nat : h[n].collected \subseteq W /\ h[n].frontier \subseteq W
    <2>1. PICK good : good = {n \in Nat : h[n].collected \subseteq W /\ h[n].frontier \subseteq W}
      OBVIOUS
    <2>2. 0 \in good
      BY <1>4, <1>12, <1>17, <2>1
    <2>3. ASSUME NEW n \in good PROVE n + 1 \in good
      <3>1. n \in Nat /\ n + 1 \in Nat /\ h[n].collected \subseteq W /\ h[n].frontier \subseteq W
        BY <2>1
      <3>2. h[n + 1].frontier \subseteq W
        BY <1>14, <1>17, <3>1
      <3>3. h[n + 1].collected \subseteq W
        BY <1>14, <3>1, <3>2
      <3> QED
        BY <2>1, <3>1, <3>2, <3>3
    <2> QED
      BY <2>1, <2>2, <2>3, AllNumbers
  <1>18. \A n \in Nat :
            /\ c \in h[n].collected
            /\ \A e \in There(committed) :
                  Parent(e) \in h[n].collected \ h[n].frontier => e \in h[n].collected
            /\ h[n].frontier = {} \/ Cardinality(h[n].collected) > n
    <2>1. PICK good : good = {n \in Nat :
            /\ c \in h[n].collected
            /\ \A e \in There(committed) :
                  Parent(e) \in h[n].collected \ h[n].frontier => e \in h[n].collected
            /\ h[n].frontier = {} \/ Cardinality(h[n].collected) > n}
      OBVIOUS
    <2>2. 0 \in good
      <3>1. h[0].collected = {c} /\ h[0].frontier = {c} /\ Cardinality({c}) = 1
        BY <1>4, <1>12, FS_Singleton
      <3>2. 1 > 0
        OBVIOUS
      <3> QED
        BY <2>1, <3>1, <3>2
    <2>3. ASSUME NEW n \in good PROVE n + 1 \in good
      <3>1. /\ n \in Nat /\ n + 1 \in Nat
            /\ c \in h[n].collected
            /\ \A e \in There(committed) :
                  Parent(e) \in h[n].collected \ h[n].frontier => e \in h[n].collected
            /\ h[n].frontier = {} \/ Cardinality(h[n].collected) > n
        BY <2>1
      <3>2. PICK col, next : col = h[n].collected /\ next = h[n + 1].frontier
        OBVIOUS
      <3>3. /\ col \in SUBSET Categories /\ next \in SUBSET Categories /\ next \cap col = {}
            /\ h[n + 1].collected = col \cup next
            /\ next = {e \in There(committed) : Parent(e) \in h[n].frontier} \ col
        BY <1>14, <3>1, <3>2
      <3>4. \A e \in There(committed) :
               Parent(e) \in h[n + 1].collected \ h[n + 1].frontier => e \in h[n + 1].collected
        BY <3>1, <3>2, <3>3
      <3>5. ASSUME next # {} PROVE Cardinality(col \cup next) > n + 1
        <4>1. PICK e \in next : TRUE
          BY <3>5
        <4>2. Cardinality(col) > n
          BY <3>1, <3>2, <3>3, <4>1
        <4>3. IsFiniteSet(col) /\ Cardinality(col) \in Nat /\ IsFiniteSet(col \cup next)
          BY <3>3, CatalogueAssumption, FS_Subset, FS_CardinalityType
        <4>4. IsFiniteSet(col \cup {e}) /\ Cardinality(col \cup {e}) = Cardinality(col) + 1
          BY <3>3, <4>1, <4>3, FS_AddElement
        <4>5. Cardinality(col \cup {e}) <= Cardinality(col \cup next) /\ Cardinality(col \cup next) \in Nat
          BY <4>1, <4>3, FS_Subset, FS_CardinalityType
        <4> QED
          BY <3>1, <4>2, <4>3, <4>4, <4>5
      <3> QED
        BY <2>1, <3>1, <3>2, <3>3, <3>4, <3>5
    <2> QED
      BY <2>1, <2>2, <2>3, AllNumbers
  <1>19. h[N].frontier = {}
    <2>1. Cardinality(h[N].collected) <= N /\ Cardinality(h[N].collected) \in Nat
      BY <1>14, <1>15, CatalogueAssumption, FS_Subset, FS_CardinalityType
    <2> QED
      BY <1>15, <1>18, <2>1
  <1>20. /\ c \in h[N].collected
         /\ \A e \in There(committed) : Parent(e) \in h[N].collected => e \in h[N].collected
    BY <1>15, <1>18, <1>19
  <1>21. ASSUME NEW W, c \in W, \A e \in There(committed) : Parent(e) \in W => e \in W
         PROVE  h[N].collected \subseteq W
    BY <1>15, <1>17, <1>21
  <1> QED
    BY <1>16, <1>20, <1>21

\* Above a category are itself and what its parent is below: the least set that holds
\* it and the parents of what it holds.
LEMMA AboveIsLeast ==
    ASSUME CatalogueInv, NEW c \in There(committed)
    PROVE  /\ c \in Above(c) /\ Above(c) \in SUBSET There(committed)
           /\ \A e \in Above(c) : Parent(e) \in Above(c) \cup {Top}
           /\ \A W : /\ c \in W
                     /\ \A e \in W \cap There(committed) : Parent(e) \in W \cup {Top}
                     => Above(c) \subseteq W
  <1>1. PICK V : V = SUBSET There(committed)
    OBVIOUS
  <1>2. \A e \in There(committed) : Parent(e) \in There(committed) \cup {Top}
    BY ParentsAreThere
  <1>3. PICK f : f = [v \in V |-> v \cup ({Parent(e) : e \in v} \ {Top})]
    OBVIOUS
  <1>4. \A v \in V : v \cup ({Parent(e) : e \in v} \ {Top}) \in V
    BY <1>1, <1>2
  <1>5. f \in [V -> V] /\ {c} \in V
    BY <1>1, <1>3, <1>4
  <1>6. PICK g \in [Nat -> V] : g[0] = {c} /\ \A n \in Nat : g[n + 1] = f[g[n]]
    <2>1. PICK g : Iteration(V, {c}, f, g)
      BY <1>5, Iterates
    <2> QED
      BY <2>1 DEF Iteration
  <1>7. Rises(c, g)
    <2>1. g = [n \in Nat |-> g[n]]
      BY <1>6
    <2>2. ASSUME NEW n \in Nat
          PROVE  g[n] = IF n = 0 THEN {c} ELSE g[n - 1] \cup ({Parent(e) : e \in g[n - 1]} \ {Top})
      <3>1. CASE n # 0
        <4>1. n - 1 \in Nat /\ (n - 1) + 1 = n
          BY <3>1
        <4>2. g[n] = f[g[n - 1]] /\ g[n - 1] \in V
          BY <1>6, <4>1
        <4> QED
          BY <1>3, <3>1, <4>2
      <3> QED
        BY <1>6, <3>1
    <2> QED
      BY <2>1, <2>2 DEF Rises
  <1>8. PICK h : h = CHOOSE k : Rises(c, k)
    OBVIOUS
  <1>9. Rises(c, h)
    BY <1>7, <1>8
  <1>10. h[0] = {c} /\ \A n \in Nat : h[n + 1] = h[n] \cup ({Parent(e) : e \in h[n]} \ {Top})
    <2>1. ASSUME NEW n \in Nat PROVE h[n + 1] = h[n] \cup ({Parent(e) : e \in h[n]} \ {Top})
      <3>1. n + 1 \in Nat /\ n + 1 # 0 /\ (n + 1) - 1 = n
        OBVIOUS
      <3>2. h[n + 1] = IF n + 1 = 0 THEN {c}
                       ELSE h[(n + 1) - 1] \cup ({Parent(e) : e \in h[(n + 1) - 1]} \ {Top})
        BY <1>9, <3>1 DEF Rises
      <3> QED
        BY <3>1, <3>2
    <2>2. h[0] = {c}
      BY <1>9 DEF Rises
    <2> QED
      BY <2>1, <2>2
  <1>11. \A n \in Nat : h[n] \in V
    <2>1. PICK good : good = {n \in Nat : h[n] \in V}
      OBVIOUS
    <2>2. 0 \in good
      BY <1>5, <1>10, <2>1
    <2>3. \A n \in good : n + 1 \in good
      BY <1>4, <1>10, <2>1
    <2> QED
      BY <2>1, <2>2, <2>3, AllNumbers
  <1>12. PICK N \in Nat : N = Cardinality(Categories)
    BY CatalogueAssumption, FS_CardinalityType
  <1>13. Above(c) = h[N]
    BY <1>8, <1>12, AboveIsChosen
  <1>14. ASSUME NEW W, c \in W, \A e \in W \cap There(committed) : Parent(e) \in W \cup {Top}
         PROVE  h[N] \subseteq W
    <2>1. PICK good : good = {n \in Nat : h[n] \subseteq W}
      OBVIOUS
    <2>2. 0 \in good
      BY <1>10, <1>14, <2>1
    <2>3. ASSUME NEW n \in good PROVE n + 1 \in good
      <3>1. n \in Nat /\ n + 1 \in Nat /\ h[n] \subseteq W /\ h[n] \subseteq There(committed)
        BY <1>1, <1>11, <2>1
      <3>2. \A e \in h[n] : Parent(e) \in W \cup {Top}
        BY <1>14, <3>1
      <3>3. h[n + 1] \subseteq W
        BY <1>10, <3>1, <3>2
      <3> QED
        BY <2>1, <3>1, <3>3
    <2>4. good = Nat
      BY <2>1, <2>2, <2>3, AllNumbers
    <2> QED
      BY <1>12, <2>1, <2>4
  <1>15. \A n \in Nat : /\ c \in h[n]
                        /\ \/ \A e \in h[n] : Parent(e) \in h[n] \cup {Top}
                           \/ Cardinality(h[n]) > n
    <2>1. PICK good : good = {n \in Nat : /\ c \in h[n]
                                          /\ \/ \A e \in h[n] : Parent(e) \in h[n] \cup {Top}
                                             \/ Cardinality(h[n]) > n}
      OBVIOUS
    <2>2. 0 \in good
      <3>1. h[0] = {c}
        BY <1>10
      <3>2. Cardinality({c}) = 1
        BY FS_Singleton
      <3>3. 1 > 0
        OBVIOUS
      <3> QED
        BY <2>1, <3>1, <3>2, <3>3
    <2>3. ASSUME NEW n \in good PROVE n + 1 \in good
      <3>1. /\ n \in Nat /\ n + 1 \in Nat /\ c \in h[n]
            /\ \/ \A e \in h[n] : Parent(e) \in h[n] \cup {Top}
               \/ Cardinality(h[n]) > n
        BY <2>1
      <3>2. h[n + 1] = h[n] \cup ({Parent(e) : e \in h[n]} \ {Top}) /\ h[n + 1] \in V /\ h[n] \in V
        BY <1>10, <1>11, <3>1
      <3>3. CASE \A e \in h[n] : Parent(e) \in h[n] \cup {Top}
        <4>1. h[n + 1] = h[n]
          BY <3>2, <3>3
        <4> QED
          BY <2>1, <3>1, <3>3, <4>1
      <3>4. ASSUME NEW e \in h[n], Parent(e) \notin h[n] \cup {Top} PROVE n + 1 \in good
        <4>1. Cardinality(h[n]) > n
          BY <3>1, <3>4
        <4>2. Parent(e) \in h[n + 1] /\ h[n] \cup {Parent(e)} \subseteq h[n + 1]
          BY <3>2, <3>4
        <4>3. /\ IsFiniteSet(h[n]) /\ Cardinality(h[n]) \in Nat
              /\ IsFiniteSet(h[n + 1]) /\ Cardinality(h[n + 1]) \in Nat
          <5>1. h[n] \in SUBSET Categories /\ h[n + 1] \in SUBSET Categories
            BY <1>1, <3>2 DEF There
          <5> QED
            BY <5>1, CatalogueAssumption, FS_Subset, FS_CardinalityType
        <4>4. Cardinality(h[n] \cup {Parent(e)}) = Cardinality(h[n]) + 1
          BY <3>4, <4>3, FS_AddElement
        <4>5. Cardinality(h[n] \cup {Parent(e)}) <= Cardinality(h[n + 1])
          BY <4>2, <4>3, FS_Subset
        <4>6. Cardinality(h[n + 1]) > n + 1
          BY <3>1, <4>1, <4>3, <4>4, <4>5
        <4>7. c \in h[n + 1]
          BY <3>1, <3>2
        <4> QED
          BY <2>1, <3>1, <4>6, <4>7
      <3> QED
        BY <3>3, <3>4
    <2> QED
      BY <2>1, <2>2, <2>3, AllNumbers
  <1>16. h[N] \in SUBSET There(committed) /\ c \in h[N]
    BY <1>1, <1>11, <1>12, <1>15
  <1>17. \A e \in h[N] : Parent(e) \in h[N] \cup {Top}
    <2>1. h[N] \in SUBSET Categories
      BY <1>16 DEF There
    <2>2. Cardinality(h[N]) <= N /\ Cardinality(h[N]) \in Nat
      BY <1>12, <2>1, CatalogueAssumption, FS_Subset, FS_CardinalityType
    <2> QED
      BY <1>12, <1>15, <2>2
  <1> QED
    BY <1>13, <1>14, <1>16, <1>17

\* What is below a category and what is above one are the same relation.
LEMMA BelowIsAbove ==
    ASSUME CatalogueInv, NEW c \in There(committed), NEW d \in There(committed)
    PROVE  d \in Descendants(committed, c) <=> c \in Above(d)
  <1>1. ASSUME NEW e \in There(committed), Parent(e) \in There(committed)
        PROVE  /\ Above(Parent(e)) \subseteq Above(e)
               /\ Descendants(committed, e) \subseteq Descendants(committed, Parent(e))
    <2>1. PICK p : p = Parent(e)
      OBVIOUS
    <2>2. /\ e \in Above(e) /\ Above(e) \in SUBSET There(committed)
          /\ \A x \in Above(e) : Parent(x) \in Above(e) \cup {Top}
      BY AboveIsLeast
    <2>3. p \in Above(e) /\ p \in There(committed)
      BY <1>1, <2>1, <2>2, ParentsAreThere
    <2>4. Above(p) \subseteq Above(e)
      BY <2>2, <2>3, AboveIsLeast
    <2>5. p \in Descendants(committed, p) /\ e \in Descendants(committed, p)
      BY <2>1, <2>3, DescendantsAreLeast
    <2>6. Descendants(committed, e) \subseteq Descendants(committed, p)
      BY <2>3, <2>5, DescendantsAreLeast
    <2> QED
      BY <2>1, <2>4, <2>6
  <1>2. ASSUME d \in Descendants(committed, c) PROVE c \in Above(d)
    <2>1. PICK W : W = {e \in There(committed) : c \in Above(e)}
      OBVIOUS
    <2>2. c \in W
      BY <2>1, AboveIsLeast
    <2>3. \A e \in There(committed) : Parent(e) \in W => e \in W
      BY <1>1, <2>1
    <2>4. Descendants(committed, c) \subseteq W
      BY <2>2, <2>3, DescendantsAreLeast
    <2> QED
      BY <1>2, <2>1, <2>4
  <1>3. ASSUME c \in Above(d) PROVE d \in Descendants(committed, c)
    <2>1. PICK W : W = {e \in There(committed) : d \in Descendants(committed, e)}
      OBVIOUS
    <2>2. d \in W
      BY <2>1, DescendantsAreLeast
    <2>3. \A e \in W \cap There(committed) : Parent(e) \in W \cup {Top}
      BY <1>1, <2>1, ParentsAreThere
    <2>4. Above(d) \subseteq W
      BY <2>2, <2>3, AboveIsLeast
    <2> QED
      BY <1>3, <2>1, <2>4
  <1> QED
    BY <1>2, <1>3

\* Who is above a root, itself left out: nobody.  Who is above another category is
\* itself or above its parent.
LEMMA OneRoot ==
    ASSUME CatalogueInv, NEW d \in There(committed),
           NEW a \in Above(d), Parent(a) = Top, NEW b \in Above(d), Parent(b) = Top
    PROVE  a = b
  <1>1. /\ d \in Above(d) /\ Above(d) \in SUBSET There(committed)
        /\ \A e \in Above(d) : Parent(e) \in Above(d) \cup {Top}
    BY AboveIsLeast
  <1>2. PICK W : W = {e \in Above(d) : a \in Above(e)}
    OBVIOUS
  <1>3. ASSUME NEW e \in W, Parent(e) # Top PROVE Parent(e) \in W
    <2>1. PICK p : p = Parent(e)
      OBVIOUS
    <2>2. e \in There(committed) /\ p \in There(committed) /\ p \in Above(d) /\ a \in Above(e)
      BY <1>1, <1>2, <1>3, <2>1
    <2>3. PICK X : X = {e} \cup Above(p)
      OBVIOUS
    <2>4. p \in Above(p) /\ \A x \in Above(p) : Parent(x) \in Above(p) \cup {Top}
      BY <2>2, AboveIsLeast
    <2>5. e \in X /\ \A x \in X \cap There(committed) : Parent(x) \in X \cup {Top}
      BY <2>1, <2>3, <2>4
    <2>6. Above(e) \subseteq X
      BY <2>2, <2>5, AboveIsLeast
    <2>7. a # e
      BY <1>3
    <2>8. a \in Above(p)
      BY <2>2, <2>3, <2>6, <2>7
    <2> QED
      BY <1>2, <2>1, <2>2, <2>8
  <1>4. Above(d) \subseteq W
    <2>1. \A e \in W \cap There(committed) : Parent(e) \in W \cup {Top}
      BY <1>3
    <2>2. d \in W
      BY <1>1, <1>2
    <2> QED
      BY <2>1, <2>2, AboveIsLeast
  <1>5. a \in Above(b) /\ b \in There(committed)
    BY <1>1, <1>2, <1>4
  <1>6. Above(b) \subseteq {b}
    <2>1. PICK X : X = {b}
      OBVIOUS
    <2>2. b \in X /\ \A x \in X \cap There(committed) : Parent(x) \in X \cup {Top}
      BY <2>1
    <2>3. Above(b) \subseteq X
      BY <1>5, <2>2, AboveIsLeast
    <2> QED
      BY <2>1, <2>3
  <1> QED
    BY <1>5, <1>6

LEMMA RootsAre ==
    ASSUME CatalogueInv PROVE Roots(committed) = {c \in There(committed) : Parent(c) = Top}
  <1>1. Top \notin There(committed)
    BY CatalogueAssumption DEF There
  <1>2. \A c \in There(committed) : Parent(c) \in There(committed) \cup {Top}
    BY ParentsAreThere
  <1> QED
    BY <1>1, <1>2 DEF Roots, Parent

LEMMA SomeRoot ==
    ASSUME CatalogueInv, TreeInv, NEW d \in There(committed)
    PROVE  \E r \in Above(d) : Parent(r) = Top
  <1>1. /\ d \in Above(d) /\ Above(d) \in SUBSET There(committed)
        /\ \A e \in Above(d) : Parent(e) \in Above(d) \cup {Top}
    BY AboveIsLeast
  <1>2. \A e \in There(committed) : e \in There(db) /\ db[Category(e)].parent = Parent(e)
    <2>1. \A e \in There(committed) : e \in Categories /\ committed[Category(e)] # NoRow
      BY DEF There
    <2>2. \A e \in There(committed) : db[Category(e)] = committed[Category(e)]
      BY ParentsAreThere
    <2> QED
      BY <2>1, <2>2 DEF Parent, There
  <1>3. PICK r \in Above(d) : db[Category(r)].parent \notin Above(d)
    BY <1>1, <1>2 DEF TreeInv
  <1> QED
    BY <1>1, <1>2, <1>3

\* How the latest versions of categories change.
LEMMA CategoriesComeOneByOne ==
    ASSUME CatalogueInv, [Next]_vars, \A t \in Txns : ~InsertCategory(t), NEW c \in Categories
    PROVE  db'[Category(c)] \in {db[Category(c)], NoRow}
  <1>1. /\ Category(c) \in Rows /\ CategoryOK(c)
        /\ \A p : Category(c) # Product(p)
        /\ \A i : Category(c) # Image(i)
    BY RowKinds DEF CatalogueInv
  <1>2. ASSUME NEW t \in Txns, RollbackTxn(t) PROVE db'[Category(c)] \in {db[Category(c)], NoRow}
    BY <1>1, <1>2, StoreStored, RollbackEffect, NobodyIsNoTxn DEF CategoryOK
  <1>3. ASSUME NEW t \in Txns, NEW r, NEW new, DOMAIN new = {r}, r # Category(c), WriteRows(t, new)
        PROVE  db'[Category(c)] = db[Category(c)]
    BY <1>1, <1>3, StoreStored, WriteEffect
  <1>4. ASSUME NEW t \in Txns, Arrive(t) \/ Commit(t) \/ HeadObject(t) PROVE db' = db
    BY <1>4 DEF Arrive, BeginCategory, BeginProduct, BeginPatch, BeginImage, BeginUnlist, Begin,
                Commit, CommitTxn, HeadObject
  <1>5. ASSUME NEW t \in Txns, Abort(t) \/ RefuseCategory(t) \/ RefuseImage(t) PROVE RollbackTxn(t)
    BY <1>5 DEF Abort, RefuseCategory, RefuseImage, Rollback
  <1>6. ASSUME NEW t \in Txns, InsertProduct(t) \/ PatchProduct(t) \/ InsertImage(t) \/ DeleteImage(t)
        PROVE  \E r, new : DOMAIN new = {r} /\ r # Category(c) /\ WriteRows(t, new)
    <2>1. ASSUME NEW r, NEW f(_), r # Category(c), WriteRows(t, [x \in {r} |-> f(x)])
          PROVE  \E q, new : DOMAIN new = {q} /\ q # Category(c) /\ WriteRows(t, new)
      <3>1. DOMAIN [x \in {r} |-> f(x)] = {r}
        OBVIOUS
      <3> QED
        BY <2>1, <3>1
    <2>2. CASE InsertProduct(t)
      BY <1>1, <2>1, <2>2 DEF InsertProduct
    <2>3. CASE PatchProduct(t)
      BY <1>1, <2>1, <2>3 DEF PatchProduct
    <2>4. CASE InsertImage(t)
      BY <1>1, <2>1, <2>4 DEF InsertImage
    <2>5. CASE DeleteImage(t)
      BY <1>1, <2>1, <2>5 DEF DeleteImage
    <2> QED
      BY <1>6, <2>2, <2>3, <2>4, <2>5
  <1>7. CASE Browse \/ UNCHANGED vars \/ \E k \in Keys, size \in {"fits", "large"} : Upload(k, size)
    BY <1>7 DEF Browse, StartWalk, NextPage, vars, Upload
  <1> QED
    BY <1>2, <1>3, <1>4, <1>5, <1>6, <1>7 DEF Next, Step

LEMMA TreeInductive == CatalogueInv /\ TreeInv /\ [Next]_vars => TreeInv'
  <1> SUFFICES ASSUME CatalogueInv, TreeInv, [Next]_vars PROVE TreeInv'
    OBVIOUS
  <1>1. ASSUME \A t \in Txns : ~InsertCategory(t) PROVE TreeInv'
    <2>1. \A c \in Categories : db'[Category(c)] # NoRow => db'[Category(c)] = db[Category(c)]
      BY <1>1, CategoriesComeOneByOne
    <2> SUFFICES ASSUME NEW some \in SUBSET There(db)', some # {}
                 PROVE  \E c \in some : db'[Category(c)].parent \notin some
      BY DEF TreeInv
    <2>2. \A c \in some : c \in There(db) /\ db'[Category(c)] = db[Category(c)]
      BY <2>1 DEF There
    <2>3. PICK c \in some : db[Category(c)].parent \notin some
      BY <2>2 DEF TreeInv
    <2> QED
      BY <2>2, <2>3
  <1>2. ASSUME NEW t \in Txns, InsertCategory(t) PROVE TreeInv'
    <2>1. PICK n : n = req[t].category
      OBVIOUS
    <2>2. /\ n \in Categories /\ req[t].parent \in There(committed) \cup {Top}
          /\ db[Category(n)] = NoRow
      BY <1>2, <2>1 DEF InsertCategory, Taken, CatalogueInv, RequestOK
    <2>3. PICK new : new = [x \in {Category(n)} |-> [parent |-> req[t].parent]]
      OBVIOUS
    <2>4. WriteRows(t, new) /\ DOMAIN new = {Category(n)} /\ new[Category(n)].parent = req[t].parent
      BY <1>2, <2>1, <2>3 DEF InsertCategory
    <2>5. \A r \in Rows : db'[r] = IF r = Category(n) THEN new[r] ELSE db[r]
      BY <2>4, StoreStored, WriteEffect
    <2>6. /\ db'[Category(n)].parent = req[t].parent
          /\ \A c \in Categories : c # n => db'[Category(c)] = db[Category(c)]
      BY <2>2, <2>4, <2>5, RowKinds
    <2>7. n \notin There(committed) /\ n # Top
      BY <2>2, ParentsAreThere, CatalogueAssumption DEF There
    <2>8. \A c \in There(db) : db[Category(c)].parent # n
      BY <2>7 DEF CatalogueInv, CategoryOK, There
    <2> SUFFICES ASSUME NEW some \in SUBSET There(db)', some # {}
                 PROVE  \E c \in some : db'[Category(c)].parent \notin some
      BY DEF TreeInv
    <2>9. \A c \in some \ {n} : c \in There(db) /\ db'[Category(c)].parent = db[Category(c)].parent
      BY <2>6 DEF There
    <2>10. CASE some \ {n} # {}
      <3>1. PICK c \in some \ {n} : db[Category(c)].parent \notin some \ {n}
        BY <2>9, <2>10 DEF TreeInv
      <3> QED
        BY <2>8, <2>9, <3>1
    <2>11. CASE some \ {n} = {}
      <3>1. some = {n}
        BY <2>11
      <3> QED
        BY <2>2, <2>6, <2>7, <3>1
    <2> QED
      BY <2>10, <2>11
  <1> QED
    BY <1>1, <1>2

LEMMA TreeInitially == Init => TreeInv
  <1> SUFFICES ASSUME Init, NEW some \in SUBSET There(db), some # {}
               PROVE  \E c \in some : db[Category(c)].parent \notin some
    BY DEF TreeInv
  <1>1. PICK tree \in Trees, filed \in [Shown -> Seeded] : InitStore(InitialRows(tree, filed))
    BY DEF Init
  <1>2. PICK rows : rows = InitialRows(tree, filed)
    OBVIOUS
  <1>3. rows = [r \in Rows |-> rows[r]]
    BY <1>2 DEF InitialRows
  <1>4. \A r \in Rows : db[r] = rows[r]
    BY <1>1, <1>2, <1>3, InitEffect
  <1>5. \A c \in Categories : rows[Category(c)] = IF c \in Seeded THEN [parent |-> tree[c]] ELSE NoRow
    BY <1>2, RowKinds DEF InitialRows, Category
  <1>6. ASSUME NEW c \in some PROVE c \in Seeded /\ db[Category(c)].parent = tree[c]
    <2>1. c \in Categories /\ db[Category(c)] # NoRow
      BY DEF There
    <2>2. db[Category(c)] = IF c \in Seeded THEN [parent |-> tree[c]] ELSE NoRow
      BY <1>4, <1>5, <2>1, RowKinds
    <2>3. c \in Seeded /\ db[Category(c)] = [parent |-> tree[c]]
      BY <2>1, <2>2
    <2> QED
      BY <2>3
  <1>7. some \in SUBSET Nat
    BY CatalogueAssumption DEF There
  <1>8. PICK c \in some : \A d \in some : c <= d
    BY <1>7, LeastOf
  <1>9. tree[c] \in Seeded \cup {Top} /\ (tree[c] # Top => tree[c] < c)
    BY <1>6 DEF Trees
  <1>10. Top \notin some
    BY CatalogueAssumption DEF There
  <1>11. tree[c] \notin some
    <2>1. CASE tree[c] = Top
      BY <1>10, <2>1
    <2>2. CASE tree[c] < c /\ tree[c] \in Nat
      BY <1>7, <1>8, <2>2
    <2> QED
      BY <1>9, <2>1, <2>2, CatalogueAssumption
  <1> QED
    BY <1>6, <1>11

\* Whatever admins add at once, browsing a category finds exactly what is filed below
\* it, and each category is below exactly one root.
THEOREM BrowsersFindAll == Spec => []BrowseFindsSubtree
  <1>1. CatalogueInv /\ TreeInv => BrowseFindsSubtree
    <2> SUFFICES ASSUME CatalogueInv, TreeInv PROVE BrowseFindsSubtree
      OBVIOUS
    <2>1. ASSUME NEW c \in There(committed)
          PROVE  Descendants(committed, c) = {d \in There(committed) : c \in Above(d)}
      <3>1. Descendants(committed, c) \subseteq There(committed)
        BY DescendantsAreLeast
      <3> QED
        BY <3>1, BelowIsAbove
    <2>2. ASSUME NEW d \in There(committed)
          PROVE  Cardinality({c \in Roots(committed) : c \in Above(d)}) = 1
      <3>1. PICK r \in Above(d) : Parent(r) = Top
        BY SomeRoot
      <3>2. Above(d) \in SUBSET There(committed)
        BY AboveIsLeast
      <3>3. {c \in Roots(committed) : c \in Above(d)} = {r}
        BY <3>1, <3>2, OneRoot, RootsAre
      <3> QED
        BY <3>3, FS_Singleton
    <2> QED
      BY <2>1, <2>2 DEF BrowseFindsSubtree
  <1> QED
    BY <1>1, TreeInitially, TreeInductive, CatalogueInvariance, PTL DEF Spec
=============================================================================
