----------------------------- MODULE ProofBasics -----------------------------
(***************************************************************************)
(* The facts every component's proofs start from: what the operations of   *)
(* InnoDB do to a store whose rows are R, row by row; induction over       *)
(* finite sets; and what the sum of a function over a finite domain is and *)
(* how it changes.                                                         *)
(***************************************************************************)
EXTENDS InnoDB, Functions, Integers, FiniteSetTheorems, WellFoundedInduction, TLAPS

-----------------------------------------------------------------------------
(* The store.                                                                *)

\* A store of the rows R, in which a version nobody holds is a committed one.
StoreOK(R) ==
    /\ db = [r \in R |-> db[r]]
    /\ committed = [r \in R |-> committed[r]]
    /\ owner \in [R -> Txns \cup {Nobody}]
    /\ UnlockedIsCommitted

\* What a step of t leaves alone: the versions and the locks of the others.
Others(R, t) ==
    \A r \in R :
        /\ owner[r] \notin {t, Nobody} => owner'[r] = owner[r] /\ db'[r] = db[r]
                                          /\ committed'[r] = committed[r]
        /\ owner'[r] \notin {t, Nobody} => owner'[r] = owner[r]

LEMMA InitEffect ==
    ASSUME NEW R, NEW rows, rows = [r \in R |-> rows[r]], InitStore(rows)
    PROVE  /\ StoreOK(R)
           /\ \A r \in R : db[r] = rows[r] /\ committed[r] = rows[r] /\ owner[r] = Nobody
  BY DEF InitStore, StoreOK, UnlockedIsCommitted

\* INSERT, UPDATE and DELETE.
LEMMA WriteEffect ==
    ASSUME NEW R, StoreOK(R), NEW t \in Txns, NEW new, WriteRows(t, new)
    PROVE  /\ StoreOK(R)' /\ Others(R, t)
           /\ committed' = committed
           /\ \A r \in R : db'[r] = IF r \in DOMAIN new THEN new[r] ELSE db[r]
           /\ \A r \in R : owner'[r] = IF r \in DOMAIN new THEN t ELSE owner[r]
           /\ \A r \in DOMAIN new : owner[r] \in {t, Nobody}
  <1>1. /\ db' = [r \in R |-> IF r \in DOMAIN new THEN new[r] ELSE db[r]]
        /\ owner' = [r \in R |-> IF r \in DOMAIN new THEN t ELSE owner[r]]
        /\ committed' = committed
        /\ \A r \in DOMAIN new : owner[r] \in {t, Nobody}
    BY DEF WriteRows, Grantable, StoreOK
  <1>2. UnlockedIsCommitted'
    BY <1>1, NobodyIsNoTxn DEF UnlockedIsCommitted, StoreOK
  <1>3. StoreOK(R)'
    BY <1>1, <1>2 DEF StoreOK
  <1>4. Others(R, t)
    BY <1>1, NobodyIsNoTxn DEF Others
  <1> QED
    BY <1>1, <1>3, <1>4

\* SELECT ... FOR UPDATE.
LEMMA LockEffect ==
    ASSUME NEW R, StoreOK(R), NEW t \in Txns, NEW r, LockRow(t, r)
    PROVE  /\ StoreOK(R)' /\ Others(R, t)
           /\ db' = db /\ committed' = committed
           /\ \A x \in R : owner'[x] = IF x = r THEN t ELSE owner[x]
           /\ owner[r] \in {t, Nobody}
  <1>1. /\ owner' = [x \in R |-> IF x = r THEN t ELSE owner[x]]
        /\ db' = db /\ committed' = committed
        /\ owner[r] \in {t, Nobody}
    BY DEF LockRow, Grantable, StoreOK
  <1>2. UnlockedIsCommitted'
    BY <1>1, NobodyIsNoTxn DEF UnlockedIsCommitted, StoreOK
  <1>3. StoreOK(R)'
    BY <1>1, <1>2 DEF StoreOK
  <1>4. Others(R, t)
    BY <1>1, NobodyIsNoTxn DEF Others
  <1> QED
    BY <1>1, <1>3, <1>4

LEMMA CommitEffect ==
    ASSUME NEW R, StoreOK(R), NEW t \in Txns, CommitTxn(t)
    PROVE  /\ StoreOK(R)' /\ Others(R, t)
           /\ db' = db
           /\ \A r \in R : committed'[r] = IF owner[r] = t THEN db[r] ELSE committed[r]
           /\ \A r \in R : owner'[r] = IF owner[r] = t THEN Nobody ELSE owner[r]
           /\ \A r \in R : owner'[r] # t
  <1>1. /\ committed' = [r \in R |-> IF owner[r] = t THEN db[r] ELSE committed[r]]
        /\ owner' = [r \in R |-> IF owner[r] = t THEN Nobody ELSE owner[r]]
        /\ db' = db
    BY DEF CommitTxn, Release, StoreOK
  <1>2. UnlockedIsCommitted'
    BY <1>1, NobodyIsNoTxn DEF UnlockedIsCommitted, StoreOK
  <1>3. StoreOK(R)'
    BY <1>1, <1>2 DEF StoreOK
  <1>4. Others(R, t)
    BY <1>1, NobodyIsNoTxn DEF Others
  <1> QED
    BY <1>1, <1>3, <1>4, NobodyIsNoTxn

LEMMA RollbackEffect ==
    ASSUME NEW R, StoreOK(R), NEW t \in Txns, RollbackTxn(t)
    PROVE  /\ StoreOK(R)' /\ Others(R, t)
           /\ committed' = committed
           /\ \A r \in R : db'[r] = IF owner[r] = t THEN committed[r] ELSE db[r]
           /\ \A r \in R : owner'[r] = IF owner[r] = t THEN Nobody ELSE owner[r]
           /\ \A r \in R : owner'[r] # t
  <1>1. /\ db' = [r \in R |-> IF owner[r] = t THEN committed[r] ELSE db[r]]
        /\ owner' = [r \in R |-> IF owner[r] = t THEN Nobody ELSE owner[r]]
        /\ committed' = committed
    BY DEF RollbackTxn, Release, StoreOK
  <1>2. UnlockedIsCommitted'
    BY <1>1, NobodyIsNoTxn DEF UnlockedIsCommitted, StoreOK
  <1>3. StoreOK(R)'
    BY <1>1, <1>2 DEF StoreOK
  <1>4. Others(R, t)
    BY <1>1, NobodyIsNoTxn DEF Others
  <1> QED
    BY <1>1, <1>3, <1>4, NobodyIsNoTxn

LEMMA IdleEffect ==
    ASSUME NEW R, StoreOK(R), NEW t \in Txns, UNCHANGED <<db, committed, owner>>
    PROVE  StoreOK(R)' /\ Others(R, t)
  BY DEF StoreOK, Others, UnlockedIsCommitted

-----------------------------------------------------------------------------
(* Induction, over sets of numbers and of sets. *)

LEMMA LeastOf ==
    ASSUME NEW S \in SUBSET Nat, S # {} PROVE \E n \in S : \A m \in S : n <= m
  <1>1. PICK n \in S : \A m \in S : ~(<<m, n>> \in OpToRel(<, Nat))
    BY WFMin, NatLessThanWellFounded
  <1>2. \A m \in S : ~(m < n)
    BY <1>1, Zenon DEF OpToRel
  <1> QED
    BY <1>2

\* What holds of 0, and of the next number with each, holds of all.
LEMMA AllNumbers ==
    ASSUME NEW good \in SUBSET Nat, 0 \in good, \A n \in good : n + 1 \in good
    PROVE  good = Nat
  <1> SUFFICES ASSUME Nat \ good # {} PROVE FALSE
    OBVIOUS
  <1>1. PICK n \in Nat \ good : \A m \in Nat \ good : n <= m
    BY LeastOf
  <1>2. n # 0 /\ n - 1 \in Nat /\ n - 1 < n
    BY <1>1
  <1>3. n - 1 \in good /\ (n - 1) + 1 = n
    BY <1>1, <1>2
  <1> QED
    BY <1>1, <1>3

\* What a function makes of a value, as often as one likes.
UpTo(V, a, f, n) == {g \in [Nat -> V] : g[0] = a /\ \A i \in Nat : i < n => g[i + 1] = f[g[i]]}

\* h is a, f[a], f[f[a]] and so on.
Iteration(V, a, f, h) == h \in [Nat -> V] /\ h[0] = a /\ \A n \in Nat : h[n + 1] = f[h[n]]

\* A function that is applied again and again gives a sequence of values.
LEMMA Iterates ==
    ASSUME NEW V, NEW a \in V, NEW f \in [V -> V] PROVE \E h : Iteration(V, a, f, h)
  <1>1. PICK good : good = {n \in Nat : UpTo(V, a, f, n) # {}}
    OBVIOUS
  <1>2. good = Nat
    <2>1. [i \in Nat |-> a] \in UpTo(V, a, f, 0)
      BY DEF UpTo
    <2>2. 0 \in good
      BY <1>1, <2>1
    <2>3. ASSUME NEW n \in good PROVE n + 1 \in good
      <3>1. n \in Nat /\ UpTo(V, a, f, n) # {}
        BY <1>1
      <3>2. PICK g : g \in UpTo(V, a, f, n)
        BY <3>1
      <3>3. g \in [Nat -> V] /\ g[0] = a /\ \A i \in Nat : i < n => g[i + 1] = f[g[i]]
        BY <3>2 DEF UpTo
      <3>4. PICK k : k = [g EXCEPT ![n + 1] = f[g[n]]]
        OBVIOUS
      <3>5. k \in [Nat -> V] /\ \A i \in Nat : k[i] = IF i = n + 1 THEN f[g[n]] ELSE g[i]
        BY <3>1, <3>3, <3>4
      <3>6. \A i \in Nat : i < n + 1 => k[i + 1] = f[k[i]]
        BY <3>1, <3>3, <3>5
      <3>7. k \in UpTo(V, a, f, n + 1)
        BY <3>1, <3>3, <3>5, <3>6 DEF UpTo
      <3> QED
        BY <1>1, <3>1, <3>7
    <2> QED
      BY <1>1, <2>2, <2>3, AllNumbers
  <1>3. ASSUME NEW n \in Nat, NEW m \in Nat, n <= m,
               NEW g \in UpTo(V, a, f, n), NEW k \in UpTo(V, a, f, m)
        PROVE  k[n] = g[n]
    <2>1. PICK same : same = {i \in Nat : i <= n => k[i] = g[i]}
      OBVIOUS
    <2>2. 0 \in same
      BY <2>1 DEF UpTo
    <2>3. \A i \in same : i + 1 \in same
      BY <1>3, <2>1 DEF UpTo
    <2>4. same = Nat
      BY <2>1, <2>2, <2>3, AllNumbers
    <2> QED
      BY <2>1, <2>4
  <1>4. PICK chosen : chosen = [n \in Nat |-> CHOOSE g : g \in UpTo(V, a, f, n)]
    OBVIOUS
  <1>5. \A n \in Nat : chosen[n] \in UpTo(V, a, f, n)
    BY <1>1, <1>2, <1>4
  <1>6. PICK h : h = [n \in Nat |-> chosen[n][n]]
    OBVIOUS
  <1>7. h \in [Nat -> V] /\ h[0] = a
    BY <1>5, <1>6 DEF UpTo
  <1>8. ASSUME NEW n \in Nat PROVE h[n + 1] = f[h[n]]
    <2>1. chosen[n] \in UpTo(V, a, f, n) /\ chosen[n + 1] \in UpTo(V, a, f, n + 1) /\ n + 1 \in Nat
      BY <1>5
    <2>2. chosen[n + 1][n] = chosen[n][n]
      BY <1>3, <2>1
    <2>3. chosen[n + 1][n + 1] = f[chosen[n + 1][n]]
      BY <2>1 DEF UpTo
    <2> QED
      BY <1>6, <2>2, <2>3
  <1> QED
    BY <1>7, <1>8 DEF Iteration

\* One element of a set, as the folds choose it.
One(s) == CHOOSE x \in s : TRUE

LEMMA OneOf ==
    ASSUME NEW s, s # {}, IsFiniteSet(s)
    PROVE  /\ One(s) \in s
           /\ Cardinality(s) \in Nat \ {0}
           /\ Cardinality(s \ {One(s)}) = Cardinality(s) - 1
  <1>1. One(s) \in s
    BY DEF One
  <1>2. Cardinality(s) \in Nat /\ Cardinality(s) # 0
    BY FS_CardinalityType, FS_EmptySet
  <1> QED
    BY <1>1, <1>2, FS_RemoveElement

\* What holds of the empty set, and of a set if it does without one element, holds
\* of a finite set.
LEMMA SubsetInduction ==
    ASSUME NEW S, IsFiniteSet(S), NEW good, {} \in good,
           \A s \in SUBSET S : s # {} /\ s \ {One(s)} \in good => s \in good
    PROVE  S \in good
  <1> SUFFICES ASSUME S \notin good PROVE FALSE
    OBVIOUS
  <1>1. PICK bad : bad = {s \in SUBSET S : s \notin good}
    OBVIOUS
  <1>2. PICK sizes : sizes = {Cardinality(s) : s \in bad}
    OBVIOUS
  <1>3. \A s \in SUBSET S : IsFiniteSet(s) /\ Cardinality(s) \in Nat
    BY FS_Subset, FS_CardinalityType
  <1>4. sizes \in SUBSET Nat /\ sizes # {}
    BY <1>1, <1>2, <1>3
  <1>5. PICK n \in sizes : \A m \in sizes : n <= m
    BY <1>4, LeastOf
  <1>6. PICK s \in bad : n = Cardinality(s)
    BY <1>2, <1>5
  <1>7. s # {} /\ s \in SUBSET S /\ s \ {One(s)} \notin good
    BY <1>1, <1>6
  <1>8. Cardinality(s \ {One(s)}) \in sizes
    BY <1>1, <1>2, <1>7
  <1> QED
    BY <1>3, <1>5, <1>6, <1>7, <1>8, OneOf

-----------------------------------------------------------------------------
(* Sums. *)

\* The sum of f over s, if h has that of a set smaller by one.
Step1(f, h, s) == IF s = {} THEN 0 ELSE f[One(s)] + h[s \ {One(s)}]

\* h gives the sums of f over the subsets of its domain.
Sums(f, h) == h = [s \in SUBSET DOMAIN f |-> Step1(f, h, s)]

LEMMA SumIsChosen ==
    ASSUME NEW f PROVE SumFunction(f) = (CHOOSE h : Sums(f, h))[DOMAIN f]
  BY DEF SumFunction, SumFunctionOnSet, FoldFunctionOnSet, MapThenFoldSet, Sums, Step1, One

\* h gives those over subsets of at most n elements.
SumsUpTo(f, h, n) ==
    \A s \in SUBSET DOMAIN f : Cardinality(s) <= n => h[s] = Step1(f, h, s)

LEMMA SumsGrow ==
    ASSUME NEW f, IsFiniteSet(DOMAIN f), NEW n \in Nat, NEW h, SumsUpTo(f, h, n)
    PROVE  \E g : SumsUpTo(f, g, n + 1)
  <1>1. PICK g : g = [s \in SUBSET DOMAIN f |->
                         IF Cardinality(s) <= n THEN h[s] ELSE Step1(f, h, s)]
    OBVIOUS
  <1>2. ASSUME NEW s \in SUBSET DOMAIN f, Cardinality(s) <= n + 1 PROVE g[s] = Step1(f, g, s)
    <2>1. IsFiniteSet(s) /\ Cardinality(s) \in Nat
      BY FS_Subset, FS_CardinalityType
    <2>2. g[s] = Step1(f, h, s)
      BY <1>1 DEF SumsUpTo
    <2>3. s # {} => g[s \ {One(s)}] = h[s \ {One(s)}]
      BY <1>1, <1>2, <2>1, OneOf
    <2> QED
      BY <2>2, <2>3 DEF Step1
  <1> QED
    BY <1>2 DEF SumsUpTo

LEMMA SumsExist ==
    ASSUME NEW f, IsFiniteSet(DOMAIN f) PROVE \E h : Sums(f, h)
  <1>1. PICK short : short = {n \in Nat : ~\E h : SumsUpTo(f, h, n)}
    OBVIOUS
  <1>2. \A s \in SUBSET DOMAIN f : IsFiniteSet(s) /\ Cardinality(s) \in Nat
    BY FS_Subset, FS_CardinalityType
  <1>3. 0 \notin short
    <2>1. PICK h : h = [s \in SUBSET DOMAIN f |-> 0]
      OBVIOUS
    <2>2. ASSUME NEW s \in SUBSET DOMAIN f, Cardinality(s) <= 0 PROVE s = {}
      <3>1. IsFiniteSet(s) /\ Cardinality(s) \in Nat
        BY <1>2
      <3>2. s # {} => Cardinality(s) \in Nat \ {0}
        BY <3>1, OneOf
      <3> QED
        BY <2>2, <3>1, <3>2
    <2> QED
      BY <1>1, <2>1, <2>2 DEF SumsUpTo, Step1
  <1>4. \A n \in Nat : n \notin short => n + 1 \notin short
    BY <1>1, SumsGrow
  <1>5. short = {}
    <2> SUFFICES ASSUME short # {} PROVE FALSE
      OBVIOUS
    <2>1. short \in SUBSET Nat
      BY <1>1
    <2>2. PICK n \in short : \A m \in short : n <= m
      BY <2>1, LeastOf
    <2>3. n - 1 \in Nat /\ n - 1 \notin short
      BY <1>3, <2>1, <2>2
    <2>4. (n - 1) + 1 \notin short
      BY <1>4, <2>3
    <2> QED
      BY <2>1, <2>2, <2>4
  <1>6. PICK n \in Nat : n = Cardinality(DOMAIN f)
    BY FS_CardinalityType
  <1>7. PICK h : SumsUpTo(f, h, n)
    BY <1>1, <1>5
  <1>8. PICK g : g = [s \in SUBSET DOMAIN f |-> h[s]]
    OBVIOUS
  <1>9. \A s \in SUBSET DOMAIN f : h[s] = Step1(f, h, s)
    BY <1>6, <1>7, FS_Subset DEF SumsUpTo
  <1>10. \A s \in SUBSET DOMAIN f : Step1(f, g, s) = Step1(f, h, s)
    BY <1>8 DEF Step1
  <1>11. g = [s \in SUBSET DOMAIN f |-> Step1(f, g, s)]
    BY <1>8, <1>9, <1>10
  <1> QED
    BY <1>11 DEF Sums

LEMMA SumOf ==
    ASSUME NEW f, IsFiniteSet(DOMAIN f)
    PROVE  \E h : Sums(f, h) /\ SumFunction(f) = h[DOMAIN f]
  BY SumIsChosen, SumsExist

\* Sums of integers are integers, sums of naturals naturals.
LEMMA SumType ==
    ASSUME NEW S, IsFiniteSet(S), NEW T, T = Int \/ T = Nat, NEW f \in [S -> T]
    PROVE  SumFunction(f) \in T
  <1>1. PICK h : Sums(f, h) /\ SumFunction(f) = h[S]
    BY SumOf
  <1>2. PICK good : good = {s \in SUBSET S : h[s] \in T}
    OBVIOUS
  <1>3. \A s \in SUBSET S : h[s] = IF s = {} THEN 0 ELSE f[One(s)] + h[s \ {One(s)}]
    BY <1>1 DEF Sums, Step1
  <1>4. 0 \in T /\ \A a, b \in T : a + b \in T
    OBVIOUS
  <1>5. {} \in good
    BY <1>2, <1>3, <1>4
  <1>6. ASSUME NEW s \in SUBSET S, s # {}, s \ {One(s)} \in good PROVE s \in good
    <2>1. One(s) \in S
      BY <1>6 DEF One
    <2>2. h[s \ {One(s)}] \in T /\ f[One(s)] \in T
      BY <1>2, <1>6, <2>1
    <2>3. h[s] = f[One(s)] + h[s \ {One(s)}]
      BY <1>3, <1>6
    <2>4. h[s] \in T
      BY <1>4, <2>2, <2>3
    <2> QED
      BY <1>2, <2>4
  <1>7. S \in good
    BY <1>5, <1>6, SubsetInduction
  <1> QED
    BY <1>1, <1>2, <1>7

\* A sum of zeroes is zero.
LEMMA SumZero ==
    ASSUME NEW S, IsFiniteSet(S), NEW f \in [S -> {0}] PROVE SumFunction(f) = 0
  <1>1. PICK h : Sums(f, h) /\ SumFunction(f) = h[S]
    BY SumOf
  <1>2. PICK good : good = {s \in SUBSET S : h[s] = 0}
    OBVIOUS
  <1>3. \A s \in SUBSET S : h[s] = IF s = {} THEN 0 ELSE f[One(s)] + h[s \ {One(s)}]
    BY <1>1 DEF Sums, Step1
  <1>4. {} \in good
    BY <1>2, <1>3
  <1>5. ASSUME NEW s \in SUBSET S, s # {}, s \ {One(s)} \in good PROVE s \in good
    <2>1. One(s) \in S
      BY <1>5 DEF One
    <2>2. f[One(s)] = 0 /\ h[s \ {One(s)}] = 0
      BY <1>2, <1>5, <2>1
    <2>3. h[s] = f[One(s)] + h[s \ {One(s)}]
      BY <1>3, <1>5
    <2>4. h[s] = 0
      BY <2>2, <2>3
    <2> QED
      BY <1>2, <2>4
  <1>6. S \in good
    BY <1>4, <1>5, SubsetInduction
  <1> QED
    BY <1>1, <1>2, <1>6

\* A sum changes as the one value that does.
LEMMA SumChange ==
    ASSUME NEW S, IsFiniteSet(S), NEW f \in [S -> Int], NEW g \in [S -> Int],
           NEW a \in S, \A x \in S \ {a} : g[x] = f[x]
    PROVE  SumFunction(g) = SumFunction(f) + (g[a] - f[a])
  <1>1. PICK h : Sums(f, h) /\ SumFunction(f) = h[S]
    BY SumOf
  <1>2. PICK k : Sums(g, k) /\ SumFunction(g) = k[S]
    BY SumOf
  <1>3. \A s \in SUBSET S : /\ h[s] = IF s = {} THEN 0 ELSE f[One(s)] + h[s \ {One(s)}]
                            /\ k[s] = IF s = {} THEN 0 ELSE g[One(s)] + k[s \ {One(s)}]
    BY <1>1, <1>2 DEF Sums, Step1
  <1>4. PICK good : good = {s \in SUBSET S : /\ h[s] \in Int
                                             /\ k[s] = h[s] + IF a \in s THEN g[a] - f[a] ELSE 0}
    OBVIOUS
  <1>5. {} \in good
    <2>1. {} \in SUBSET S /\ h[{}] = 0 /\ k[{}] = 0
      BY <1>3
    <2> QED
      BY <1>4, <2>1
  <1>6. ASSUME NEW s \in SUBSET S, s # {}, s \ {One(s)} \in good PROVE s \in good
    <2>1. PICK x \in s : x = One(s)
      BY <1>6 DEF One
    <2>2. f[x] \in Int /\ g[x] \in Int /\ f[a] \in Int /\ g[a] \in Int
      OBVIOUS
    <2>3. h[s] = f[x] + h[s \ {x}] /\ k[s] = g[x] + k[s \ {x}]
      BY <1>3, <1>6, <2>1
    <2>4. /\ h[s \ {x}] \in Int
          /\ k[s \ {x}] = h[s \ {x}] + IF a \in s \ {x} THEN g[a] - f[a] ELSE 0
      BY <1>4, <1>6, <2>1
    <2>5. h[s] \in Int /\ k[s] = h[s] + IF a \in s THEN g[a] - f[a] ELSE 0
      <3>1. CASE x = a
        BY <2>1, <2>2, <2>3, <2>4, <3>1
      <3>2. CASE x # a
        BY <2>1, <2>2, <2>3, <2>4, <3>2
      <3> QED
        BY <3>1, <3>2
    <2> QED
      BY <1>4, <2>5
  <1>7. S \in good
    BY <1>5, <1>6, SubsetInduction
  <1> QED
    BY <1>1, <1>2, <1>4, <1>7

\* A sum with one value that is not zero.
LEMMA SumOne ==
    ASSUME NEW S, IsFiniteSet(S), NEW f \in [S -> Int], NEW a \in S, \A x \in S \ {a} : f[x] = 0
    PROVE  SumFunction(f) = f[a]
  <1>1. PICK zero : zero = [x \in S |-> 0]
    OBVIOUS
  <1>2. zero \in [S -> {0}] /\ zero \in [S -> Int] /\ zero[a] = 0
    BY <1>1
  <1>3. SumFunction(zero) = 0
    BY <1>2, SumZero
  <1>4. SumFunction(f) = SumFunction(zero) + (f[a] - zero[a])
    BY <1>1, <1>2, SumChange
  <1>5. f[a] \in Int
    OBVIOUS
  <1> QED
    BY <1>2, <1>3, <1>4, <1>5

\* The sum of sums.
LEMMA SumAdd ==
    ASSUME NEW S, IsFiniteSet(S), NEW f \in [S -> Int], NEW d \in [S -> Int], NEW g \in [S -> Int],
           \A x \in S : g[x] = f[x] + d[x]
    PROVE  SumFunction(g) = SumFunction(f) + SumFunction(d)
  <1>1. PICK h : Sums(f, h) /\ SumFunction(f) = h[S]
    BY SumOf
  <1>2. PICK j : Sums(d, j) /\ SumFunction(d) = j[S]
    BY SumOf
  <1>3. PICK k : Sums(g, k) /\ SumFunction(g) = k[S]
    BY SumOf
  <1>4. \A s \in SUBSET S : /\ h[s] = IF s = {} THEN 0 ELSE f[One(s)] + h[s \ {One(s)}]
                            /\ j[s] = IF s = {} THEN 0 ELSE d[One(s)] + j[s \ {One(s)}]
                            /\ k[s] = IF s = {} THEN 0 ELSE g[One(s)] + k[s \ {One(s)}]
    BY <1>1, <1>2, <1>3 DEF Sums, Step1
  <1>5. PICK good : good = {s \in SUBSET S : h[s] \in Int /\ j[s] \in Int /\ k[s] = h[s] + j[s]}
    OBVIOUS
  <1>6. {} \in good
    <2>1. {} \in SUBSET S /\ h[{}] = 0 /\ j[{}] = 0 /\ k[{}] = 0
      BY <1>4
    <2> QED
      BY <1>5, <2>1
  <1>7. ASSUME NEW s \in SUBSET S, s # {}, s \ {One(s)} \in good PROVE s \in good
    <2>1. PICK x \in s : x = One(s)
      BY <1>7 DEF One
    <2>2. f[x] \in Int /\ d[x] \in Int /\ g[x] = f[x] + d[x]
      OBVIOUS
    <2>3. h[s] = f[x] + h[s \ {x}] /\ j[s] = d[x] + j[s \ {x}] /\ k[s] = g[x] + k[s \ {x}]
      BY <1>4, <1>7, <2>1
    <2>4. h[s \ {x}] \in Int /\ j[s \ {x}] \in Int /\ k[s \ {x}] = h[s \ {x}] + j[s \ {x}]
      BY <1>5, <1>7, <2>1
    <2>5. h[s] \in Int /\ j[s] \in Int /\ k[s] = h[s] + j[s]
      BY <2>2, <2>3, <2>4
    <2> QED
      BY <1>5, <2>5
  <1>8. S \in good
    BY <1>6, <1>7, SubsetInduction
  <1> QED
    BY <1>1, <1>2, <1>3, <1>5, <1>8

\* A sum of values up to m is at most m for each of them.
LEMMA SumAtMost ==
    ASSUME NEW S, IsFiniteSet(S), NEW m \in Nat, NEW f \in [S -> 0..m]
    PROVE  SumFunction(f) \in Nat /\ SumFunction(f) <= m * Cardinality(S)
  <1>1. PICK h : Sums(f, h) /\ SumFunction(f) = h[S]
    BY SumOf
  <1>2. PICK good : good = {s \in SUBSET S : h[s] \in Nat /\ h[s] <= m * Cardinality(s)}
    OBVIOUS
  <1>3. \A s \in SUBSET S : h[s] = IF s = {} THEN 0 ELSE f[One(s)] + h[s \ {One(s)}]
    BY <1>1 DEF Sums, Step1
  <1>4. {} \in good
    <2>1. {} \in SUBSET S /\ h[{}] = 0 /\ Cardinality({}) = 0
      BY <1>3, FS_EmptySet
    <2> QED
      BY <1>2, <2>1
  <1>5. ASSUME NEW s \in SUBSET S, s # {}, s \ {One(s)} \in good PROVE s \in good
    <2>1. PICK r : r = s \ {One(s)}
      OBVIOUS
    <2>2. IsFiniteSet(s)
      BY FS_Subset
    <2>3. One(s) \in S /\ Cardinality(s) \in Nat /\ Cardinality(r) = Cardinality(s) - 1
      BY <1>5, <2>1, <2>2, OneOf
    <2>4. f[One(s)] \in Nat /\ f[One(s)] <= m
      BY <2>3
    <2>5. h[r] \in Nat /\ h[r] <= m * (Cardinality(s) - 1)
      BY <1>2, <1>5, <2>1, <2>3
    <2>6. h[s] = f[One(s)] + h[r]
      BY <1>3, <1>5, <2>1
    <2>7. h[s] \in Nat /\ h[s] <= m * Cardinality(s)
      BY <2>3, <2>4, <2>5, <2>6
    <2> QED
      BY <1>2, <2>7
  <1>6. S \in good
    BY <1>4, <1>5, SubsetInduction
  <1> QED
    BY <1>1, <1>2, <1>6
=============================================================================
