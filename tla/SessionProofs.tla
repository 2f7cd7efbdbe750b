---------------------------- MODULE SessionProofs ----------------------------
(***************************************************************************)
(* Accounts, sessions and windows stay consistent, for all emails,         *)
(* passwords, roles, ids and numbers of slots.                             *)
(***************************************************************************)
EXTENDS SessionProperties, ProofBasics

-----------------------------------------------------------------------------
(* Rows. *)

\* Rows of different tables, and of different keys, are different rows.
LEMMA RowKinds ==
    /\ \A e \in Emails : Account(e) \in Rows /\ Profile(e) \in Rows
    /\ \A n \in SessionIds : Session(n) \in Tokens
    /\ \A n \in WindowIds : Window(n) \in Tokens
    /\ Tokens \subseteq Rows
    /\ \A r \in Rows : r \in Tokens \/ \E e \in Emails : r = Account(e) \/ r = Profile(e)
    /\ \A e, f : Account(e) # Profile(f)
    /\ \A e : Account(e) \notin Tokens /\ Profile(e) \notin Tokens
    /\ \A e, f : Account(e) = Account(f) => e = f
    /\ \A e, f : Profile(e) = Profile(f) => e = f
    /\ \A m, n : Session(m) = Session(n) => m = n
  BY DEF Rows, Tokens, Account, Profile, Session, Window

\* What the rows say of themselves.
LEMMA RowTables ==
    /\ \A e : Account(e)[1] = "account" /\ Profile(e)[1] = "profile"
    /\ \A r \in Tokens : r[1] \in {"session", "window"}
  BY DEF Tokens, Account, Profile, Session, Window

LEMMA StoreStored ==
    ASSUME StoreInv PROVE StoreOK(Rows)
  BY DEF StoreInv, StoreOK, RowsOK

\* A token that is not there was never committed.
LEMMA AbsentIsNew ==
    ASSUME StoreInv, NEW r \in Tokens, db[r] = NoRow PROVE committed[r] = NoRow
  BY DEF StoreInv, TokenOK

-----------------------------------------------------------------------------
(* The store. *)

LEMMA StoreCommit ==
    ASSUME StoreInv, NEW t \in Txns, CommitTxn(t) PROVE StoreInv'
  <1>1. /\ StoreOK(Rows)'
        /\ db' = db
        /\ \A r \in Rows : committed'[r] = IF owner[r] = t THEN db[r] ELSE committed[r]
        /\ \A r \in Rows : owner'[r] = IF owner[r] = t THEN Nobody ELSE owner[r]
    BY StoreStored, CommitEffect
  <1>2. RowsOK(db)'
    BY <1>1 DEF StoreInv, RowsOK, ProfileFits
  <1>3. RowsOK(committed)'
    <2>1. committed' = [r \in Rows |-> committed'[r]]
      BY <1>1 DEF StoreOK
    <2>2. ASSUME NEW e \in Emails
          PROVE  /\ committed'[Account(e)] \in AccountRow \cup {NoRow}
                 /\ committed'[Profile(e)] \in ProfileRow \cup {NoRow}
                 /\ ProfileFits(committed', e)
      BY <1>1, RowKinds DEF StoreInv, RowsOK, ProfileFits, AccountOK
    <2>3. \A r \in Tokens : committed'[r] \in TokenRow \cup {NoRow}
      BY <1>1, RowKinds DEF StoreInv, RowsOK
    <2> QED
      BY <2>1, <2>2, <2>3 DEF RowsOK, ProfileFits
  <1>4. ASSUME NEW e \in Emails PROVE AccountOK(e)'
    BY <1>1, RowKinds DEF StoreInv, RowsOK, ProfileFits, AccountOK
  <1>5. ASSUME NEW r \in Tokens PROVE TokenOK(r)'
    <2>1. ASSUME NEW e \in Emails
          PROVE  /\ committed[Account(e)] # NoRow => db[Account(e)] # NoRow
                 /\ committed[Account(e)] # NoRow => committed'[Account(e)] # NoRow
                 /\ committed[Account(e)] # NoRow => db'[Account(e)] # NoRow
      BY <1>1, RowKinds DEF StoreInv, AccountOK
    <2>2. /\ db[r] # NoRow => db[r].user \in Emails
          /\ committed[r] # NoRow => committed[r].user \in Emails
          /\ TokenOK(r)
      BY DEF StoreInv, RowsOK, TokenRow
    <2> QED
      BY <1>1, <2>1, <2>2, RowKinds DEF TokenOK
  <1>6. ASSUME NEW r \in Tokens PROVE RotationOK(r)'
    <2> SUFFICES ASSUME db[r] # NoRow, db[r].from # NoRow PROVE RotationOK(r)'
      BY <1>1 DEF RotationOK
    <2>1. PICK s : s = Session(db[r].from)
      OBVIOUS
    <2>2. s \in Tokens
      BY <2>1, RowKinds DEF StoreInv, RowsOK, TokenRow
    <2>3. /\ committed[s] # NoRow /\ db[s].spent /\ db[s] # NoRow
          /\ committed[s].spent \/ (owner[s] = owner[r] /\ committed[r] = NoRow)
      BY <2>1, <2>2 DEF StoreInv, RotationOK, TokenOK
    <2>4. /\ committed'[s] # NoRow /\ db'[s].spent
          /\ committed'[s].spent \/ (owner'[s] = owner'[r] /\ committed'[r] = NoRow)
      BY <1>1, <2>2, <2>3, RowKinds
    <2> QED
      BY <1>1, <2>1, <2>4 DEF RotationOK
  <1> QED
    BY <1>1, <1>2, <1>3, <1>4, <1>5, <1>6 DEF StoreInv, StoreOK

LEMMA StoreRollback ==
    ASSUME StoreInv, NEW t \in Txns, RollbackTxn(t) PROVE StoreInv'
  <1>1. /\ StoreOK(Rows)'
        /\ committed' = committed
        /\ \A r \in Rows : db'[r] = IF owner[r] = t THEN committed[r] ELSE db[r]
        /\ \A r \in Rows : owner'[r] = IF owner[r] = t THEN Nobody ELSE owner[r]
    BY StoreStored, RollbackEffect
  <1>2. RowsOK(committed)'
    BY <1>1 DEF StoreInv, RowsOK, ProfileFits
  <1>3. RowsOK(db)'
    <2>1. db' = [r \in Rows |-> db'[r]]
      BY <1>1 DEF StoreOK
    <2>2. ASSUME NEW e \in Emails
          PROVE  /\ db'[Account(e)] \in AccountRow \cup {NoRow}
                 /\ db'[Profile(e)] \in ProfileRow \cup {NoRow}
                 /\ ProfileFits(db', e)
      <3> DEFINE a == Account(e)
                 p == Profile(e)
      <3>1. /\ a \in Rows /\ p \in Rows
            /\ ProfileFits(db, e) /\ ProfileFits(committed, e) /\ AccountOK(e)
            /\ db[a] \in AccountRow \cup {NoRow} /\ committed[a] \in AccountRow \cup {NoRow}
            /\ db[p] \in ProfileRow \cup {NoRow} /\ committed[p] \in ProfileRow \cup {NoRow}
        BY RowKinds DEF StoreInv, RowsOK
      <3> HIDE DEF a, p
      <3>2. /\ db'[a] = IF owner[a] = t THEN committed[a] ELSE db[a]
            /\ db'[p] = IF owner[p] = t THEN committed[p] ELSE db[p]
        BY <1>1, <3>1
      <3>3. ProfileFits(db', e)
        <4>1. CASE committed[a] # NoRow
          BY <3>1, <3>2, <4>1 DEF ProfileFits, AccountOK, a, p
        <4>2. CASE committed[a] = NoRow
          BY <3>1, <3>2, <4>2 DEF ProfileFits, AccountOK, a, p
        <4> QED
          BY <4>1, <4>2
      <3> QED
        BY <3>1, <3>2, <3>3 DEF a, p
    <2>3. \A r \in Tokens : db'[r] \in TokenRow \cup {NoRow}
      BY <1>1, RowKinds DEF StoreInv, RowsOK
    <2> QED
      BY <2>1, <2>2, <2>3 DEF RowsOK, ProfileFits
  <1>4. ASSUME NEW e \in Emails PROVE AccountOK(e)'
    BY <1>1, RowKinds DEF StoreInv, RowsOK, ProfileFits, AccountOK
  <1>5. ASSUME NEW r \in Tokens PROVE TokenOK(r)'
    <2>1. ASSUME NEW e \in Emails
          PROVE  /\ committed[Account(e)] # NoRow => db[Account(e)] # NoRow
                 /\ committed[Account(e)] # NoRow => committed'[Account(e)] # NoRow
                 /\ committed[Account(e)] # NoRow => db'[Account(e)] # NoRow
      BY <1>1, RowKinds DEF StoreInv, AccountOK
    <2>2. /\ db[r] # NoRow => db[r].user \in Emails
          /\ committed[r] # NoRow => committed[r].user \in Emails
          /\ TokenOK(r)
      BY DEF StoreInv, RowsOK, TokenRow
    <2> QED
      BY <1>1, <2>1, <2>2, RowKinds DEF TokenOK
  <1>6. ASSUME NEW r \in Tokens PROVE RotationOK(r)'
    <2> SUFFICES ASSUME db'[r] # NoRow, db'[r].from # NoRow PROVE RotationOK(r)'
      BY DEF RotationOK
    <2>1. db[r] # NoRow /\ db'[r].from = db[r].from
      BY <1>1, RowKinds DEF StoreInv, TokenOK
    <2>2. PICK s : s = Session(db[r].from)
      OBVIOUS
    <2>3. s \in Tokens
      BY <2>1, <2>2, RowKinds DEF StoreInv, RowsOK, TokenRow
    <2>4. /\ committed[s] # NoRow /\ db[s].spent
          /\ committed[s].spent \/ (owner[s] = owner[r] /\ committed[r] = NoRow)
      BY <2>1, <2>2 DEF StoreInv, RotationOK
    <2>5. /\ committed'[s] # NoRow /\ db'[s].spent
          /\ committed'[s].spent \/ (owner'[s] = owner'[r] /\ committed'[r] = NoRow)
      BY <1>1, <2>3, <2>4, RowKinds
    <2> QED
      BY <2>1, <2>2, <2>5 DEF RotationOK
  <1> QED
    BY <1>1, <1>2, <1>3, <1>4, <1>5, <1>6 DEF StoreInv, StoreOK

LEMMA StoreIdle ==
    ASSUME StoreInv, UNCHANGED <<db, committed, owner>> PROVE StoreInv'
  BY DEF StoreInv, RowsOK, ProfileFits, UnlockedIsCommitted, AccountOK, TokenOK, RotationOK

\* One row is written, as it is or anew.
WritesOne(t, r, row) ==
    /\ StoreOK(Rows)'
    /\ committed' = committed
    /\ owner[r] \in {t, Nobody}
    /\ \A x \in Rows : /\ db'[x] = IF x = r THEN row ELSE db[x]
                       /\ owner'[x] = IF x = r THEN t ELSE owner[x]

LEMMA OneRowEffect ==
    ASSUME StoreInv, NEW t \in Txns, NEW r, NEW row, NEW new, new = [x \in {r} |-> row], WriteRows(t, new)
    PROVE  WritesOne(t, r, row) /\ Others(Rows, t)
  BY StoreStored, WriteEffect DEF WritesOne

\* A session is revoked or a window closed.
LEMMA StoreSpend ==
    ASSUME StoreInv, NEW t \in Txns, NEW r \in Tokens, committed[r] # NoRow,
           WritesOne(t, r, [db[r] EXCEPT !.spent = TRUE])
    PROVE  StoreInv'
  <1> DEFINE row == [db[r] EXCEPT !.spent = TRUE]
  <1>1. /\ db[r] # NoRow /\ db[r] \in TokenRow /\ TokenOK(r) /\ RotationOK(r)
        /\ r \in Rows
    BY RowKinds DEF StoreInv, TokenOK, RowsOK
  <1>2. /\ row \in TokenRow /\ row # NoRow
        /\ row.user = db[r].user /\ row.from = db[r].from /\ row.spent = TRUE
    BY <1>1, NoRowIsNoValue DEF TokenRow
  <1> HIDE DEF row
  <1>3. /\ \A x \in Rows : /\ db'[x] = IF x = r THEN row ELSE db[x]
                           /\ owner'[x] = IF x = r THEN t ELSE owner[x]
        /\ StoreOK(Rows)' /\ committed' = committed
        /\ owner[r] \in {t, Nobody}
    BY DEF WritesOne, row
  <1>4. RowsOK(committed)'
    BY <1>3 DEF StoreInv, RowsOK, ProfileFits
  <1>5. RowsOK(db)'
    <2>1. db' = [x \in Rows |-> db'[x]]
      BY <1>3 DEF StoreOK
    <2>2. ASSUME NEW f \in Emails
          PROVE  db'[Account(f)] = db[Account(f)] /\ db'[Profile(f)] = db[Profile(f)]
      BY <1>3, RowKinds
    <2>3. \A x \in Tokens : db'[x] \in TokenRow \cup {NoRow}
      BY <1>2, <1>3, RowKinds DEF StoreInv, RowsOK
    <2> QED
      BY <2>1, <2>2, <2>3 DEF StoreInv, RowsOK, ProfileFits
  <1>6. ASSUME NEW e \in Emails PROVE AccountOK(e)'
    BY <1>1, <1>3, RowKinds DEF StoreInv, AccountOK
  <1>7. ASSUME NEW x \in Tokens PROVE TokenOK(x)'
    <2>1. db[x] # NoRow => db[x].user \in Emails
      BY DEF StoreInv, RowsOK, TokenRow
    <2>2. TokenOK(x)
      BY DEF StoreInv
    <2>3. CASE x = r
      BY <1>1, <1>2, <1>3, <2>1, <2>2, <2>3, RowKinds DEF TokenOK
    <2>4. CASE x # r
      BY <1>1, <1>3, <2>1, <2>2, <2>4, RowKinds DEF TokenOK
    <2> QED
      BY <2>3, <2>4
  <1>8. ASSUME NEW x \in Tokens PROVE RotationOK(x)'
    <2> SUFFICES ASSUME db'[x] # NoRow, db'[x].from # NoRow PROVE RotationOK(x)'
      BY DEF RotationOK
    <2>1. db[x] # NoRow /\ db'[x].from = db[x].from
      BY <1>1, <1>2, <1>3, RowKinds
    <2>2. PICK s : s = Session(db[x].from)
      OBVIOUS
    <2>3. s \in Tokens /\ s \in Rows /\ x \in Rows
      BY <2>1, <2>2, RowKinds DEF StoreInv, RowsOK, TokenRow
    <2>4. /\ committed[s] # NoRow /\ db[s].spent
          /\ committed[s].spent \/ (owner[s] = owner[x] /\ committed[x] = NoRow)
      BY <2>1, <2>2 DEF StoreInv, RotationOK
    <2>5. owner[x] = Nobody => committed[x] = db[x]
      BY <2>3 DEF StoreInv, RowsOK, UnlockedIsCommitted
    <2>6. /\ committed'[s] # NoRow /\ db'[s].spent
          /\ committed'[s].spent \/ (owner'[s] = owner'[x] /\ committed'[x] = NoRow)
      BY <1>1, <1>2, <1>3, <2>1, <2>3, <2>4, <2>5
    <2> QED
      BY <2>1, <2>2, <2>6 DEF RotationOK
  <1> QED
    BY <1>3, <1>4, <1>5, <1>6, <1>7, <1>8 DEF StoreInv, StoreOK

\* UPDATE users SET password_hash.
LEMMA StorePassword ==
    ASSUME StoreInv, NEW t \in Txns, NEW e \in Emails, committed[Account(e)] # NoRow,
           NEW pw \in Passwords,
           WritesOne(t, Account(e), [db[Account(e)] EXCEPT !.password = pw, !.outdated = FALSE])
    PROVE  StoreInv' /\ db'[Account(e)].password = pw
  <1> DEFINE a == Account(e)
             row == [db[a] EXCEPT !.password = pw, !.outdated = FALSE]
  <1>1. /\ db[a] # NoRow /\ db[a] \in AccountRow
        /\ a \in Rows /\ a \notin Tokens
    BY RowKinds DEF StoreInv, AccountOK, RowsOK
  <1>2. row \in AccountRow /\ row # NoRow /\ row.role = db[a].role /\ row.password = pw
    BY <1>1, NoRowIsNoValue DEF AccountRow
  <1> HIDE DEF row
  <1>3. /\ \A x \in Rows : /\ db'[x] = IF x = a THEN row ELSE db[x]
                           /\ owner'[x] = IF x = a THEN t ELSE owner[x]
        /\ StoreOK(Rows)' /\ committed' = committed
        /\ owner[a] \in {t, Nobody}
    BY DEF WritesOne, row
  <1>4. RowsOK(committed)'
    BY <1>3 DEF StoreInv, RowsOK, ProfileFits
  <1>5. RowsOK(db)'
    <2>1. db' = [x \in Rows |-> db'[x]]
      BY <1>3 DEF StoreOK
    <2>2. ASSUME NEW f \in Emails
          PROVE  /\ db'[Account(f)] \in AccountRow \cup {NoRow}
                 /\ db'[Profile(f)] \in ProfileRow \cup {NoRow}
                 /\ ProfileFits(db', f)
      <3>1. /\ db[Account(f)] \in AccountRow \cup {NoRow}
            /\ db[Profile(f)] \in ProfileRow \cup {NoRow}
            /\ ProfileFits(db, f)
        BY DEF StoreInv, RowsOK
      <3>2. db'[Profile(f)] = db[Profile(f)]
        BY <1>3, RowKinds
      <3>3. db'[Account(f)] = IF f = e THEN row ELSE db[Account(f)]
        BY <1>3, RowKinds
      <3> QED
        BY <1>1, <1>2, <3>1, <3>2, <3>3 DEF ProfileFits
    <2>3. \A x \in Tokens : db'[x] \in TokenRow \cup {NoRow}
      BY <1>1, <1>3, RowKinds DEF StoreInv, RowsOK
    <2> QED
      BY <2>1, <2>2, <2>3 DEF RowsOK, ProfileFits
  <1>6. ASSUME NEW f \in Emails PROVE AccountOK(f)'
    BY <1>1, <1>2, <1>3, RowKinds DEF StoreInv, AccountOK
  <1>7. ASSUME NEW x \in Tokens PROVE TokenOK(x)'
    <2>1. db[x] # NoRow => db[x].user \in Emails
      BY DEF StoreInv, RowsOK, TokenRow
    <2>2. TokenOK(x)
      BY DEF StoreInv
    <2> QED
      BY <1>1, <1>2, <1>3, <2>1, <2>2, RowKinds DEF TokenOK
  <1>8. ASSUME NEW x \in Tokens PROVE RotationOK(x)'
    <2>1. db[x] # NoRow /\ db[x].from # NoRow => Session(db[x].from) \in Tokens
      BY RowKinds DEF StoreInv, RowsOK, TokenRow
    <2> QED
      BY <1>1, <1>3, <2>1, RowKinds DEF StoreInv, RotationOK
  <1> QED
    BY <1>1, <1>2, <1>3, <1>4, <1>5, <1>6, <1>7, <1>8 DEF StoreInv, StoreOK

\* INSERT of a session or a window.
LEMMA StoreInsert ==
    ASSUME StoreInv, NEW t \in Txns, NEW e \in Emails, committed[Account(e)] # NoRow,
           NEW r \in Tokens, db[r] = NoRow, NEW from \in SessionIds \cup {NoRow},
           from # NoRow => LET s == Session(from)
                           IN  committed[s] # NoRow /\ owner[s] = t /\ db[s].spent,
           WritesOne(t, r, [user |-> e, spent |-> FALSE, from |-> from])
    PROVE  StoreInv'
  <1>1. PICK row : row = [user |-> e, spent |-> FALSE, from |-> from]
    OBVIOUS
  <1>2. /\ row \in TokenRow /\ row # NoRow
        /\ row.user = e /\ row.from = from
    <2>1. row \in TokenRow
      BY <1>1 DEF TokenRow
    <2>2. row # NoRow
      BY <2>1, NoRowIsNoValue
    <2>3. row.user = e /\ row.from = from
      BY <1>1
    <2> QED
      BY <2>1, <2>2, <2>3
  <1>3. /\ \A x \in Rows : /\ db'[x] = IF x = r THEN row ELSE db[x]
                           /\ owner'[x] = IF x = r THEN t ELSE owner[x]
        /\ StoreOK(Rows)' /\ committed' = committed
        /\ owner[r] \in {t, Nobody} /\ r \in Rows
        /\ committed[r] = NoRow
    BY <1>1, RowKinds, AbsentIsNew DEF WritesOne
  <1>4. RowsOK(committed)'
    BY <1>3 DEF StoreInv, RowsOK, ProfileFits
  <1>5. RowsOK(db)'
    <2>1. db' = [x \in Rows |-> db'[x]]
      BY <1>3 DEF StoreOK
    <2>2. ASSUME NEW f \in Emails
          PROVE  db'[Account(f)] = db[Account(f)] /\ db'[Profile(f)] = db[Profile(f)]
      BY <1>3, RowKinds
    <2>3. \A x \in Tokens : db'[x] \in TokenRow \cup {NoRow}
      BY <1>2, <1>3, RowKinds DEF StoreInv, RowsOK
    <2> QED
      BY <2>1, <2>2, <2>3 DEF StoreInv, RowsOK, ProfileFits
  <1>6. ASSUME NEW f \in Emails PROVE AccountOK(f)'
    BY <1>3, RowKinds DEF StoreInv, AccountOK
  <1>7. ASSUME NEW x \in Tokens PROVE TokenOK(x)'
    <2>1. db[x] # NoRow => db[x].user \in Emails
      BY DEF StoreInv, RowsOK, TokenRow
    <2>2. TokenOK(x) /\ db[Account(e)] # NoRow
      BY DEF StoreInv, AccountOK
    <2>3. CASE x = r
      BY <1>2, <1>3, <2>2, <2>3, RowKinds DEF TokenOK
    <2>4. CASE x # r
      BY <1>3, <2>1, <2>2, <2>4, RowKinds DEF TokenOK
    <2> QED
      BY <2>3, <2>4
  <1>8. ASSUME NEW x \in Tokens PROVE RotationOK(x)'
    <2>1. CASE x = r
      <3> SUFFICES ASSUME from # NoRow PROVE RotationOK(r)'
        BY <1>2, <1>3, <2>1 DEF RotationOK
      <3>1. PICK s : s = Session(from)
        OBVIOUS
      <3>2. s \in Rows /\ s # r /\ committed[s] # NoRow /\ owner[s] = t /\ db[s].spent
        BY <1>3, <3>1, RowKinds
      <3>3. committed'[s] # NoRow /\ db'[s].spent /\ owner'[s] = owner'[r] /\ committed'[r] = NoRow
        BY <1>3, <3>2
      <3> QED
        BY <1>2, <1>3, <2>1, <3>1, <3>3 DEF RotationOK
    <2>2. CASE x # r
      <3> SUFFICES ASSUME db[x] # NoRow, db[x].from # NoRow PROVE RotationOK(x)'
        BY <1>3, <2>2, RowKinds DEF RotationOK
      <3>1. PICK s : s = Session(db[x].from)
        OBVIOUS
      <3>2. s \in Rows /\ x \in Rows
        BY <3>1, RowKinds DEF StoreInv, RowsOK, TokenRow
      <3>3. /\ committed[s] # NoRow /\ db[s].spent
            /\ committed[s].spent \/ (owner[s] = owner[x] /\ committed[x] = NoRow)
        BY <3>1 DEF StoreInv, RotationOK
      <3>4. s # r
        BY <1>3, <3>3
      <3> QED
        BY <1>3, <2>2, <3>1, <3>2, <3>3, <3>4 DEF RotationOK
    <2> QED
      BY <2>1, <2>2
  <1> QED
    BY <1>3, <1>4, <1>5, <1>6, <1>7, <1>8 DEF StoreInv, StoreOK
\* What register writes: the account, the profile of a vendor or a worker, and a session.
WritesAccount(t, e, pw, role, s) ==
    LET a == Account(e)
        p == Profile(e)
    IN  /\ StoreOK(Rows)'
        /\ committed' = committed
        /\ owner[a] \in {t, Nobody} /\ owner[s] \in {t, Nobody}
        /\ db'[a] = [password |-> pw, outdated |-> FALSE, role |-> role]
        /\ db'[s] = [user |-> e, spent |-> FALSE, from |-> NoRow]
        /\ owner'[a] = t /\ owner'[s] = t
        /\ IF role = "CLIENT" THEN db'[p] = db[p] /\ owner'[p] = owner[p]
                              ELSE db'[p] = role /\ owner'[p] = t
        /\ \A x \in Rows \ {a, p, s} : db'[x] = db[x] /\ owner'[x] = owner[x]

LEMMA StoreRegister ==
    ASSUME StoreInv, NEW t \in Txns, NEW e \in Emails, db[Account(e)] = NoRow,
           NEW pw \in Passwords, NEW role \in Roles, NEW s \in Tokens, db[s] = NoRow,
           WritesAccount(t, e, pw, role, s)
    PROVE  StoreInv' /\ committed[Account(e)] = NoRow
  <1> DEFINE a == Account(e)
             p == Profile(e)
  <1>1. /\ a \in Rows /\ p \in Rows /\ s \in Rows /\ a # p /\ a # s /\ p # s
        /\ committed[a] = NoRow /\ committed[p] = NoRow /\ committed[s] = NoRow
        /\ db[p] = NoRow
    <2>1. /\ a \in Rows /\ p \in Rows /\ s \in Rows /\ a # p /\ a # s /\ p # s
          /\ committed[s] = NoRow
      BY RowKinds, AbsentIsNew
    <2>2. AccountOK(e) /\ ProfileFits(db, e) /\ ProfileFits(committed, e)
      BY DEF StoreInv, RowsOK
    <2>3. committed[a] = NoRow
      BY <2>2 DEF AccountOK
    <2>4. committed[p] = NoRow /\ db[p] = NoRow
      BY <2>2, <2>3 DEF ProfileFits
    <2> QED
      BY <2>1, <2>3, <2>4
  <1>2. /\ db'[a] \in AccountRow /\ db'[a] # NoRow /\ db'[a].role = role
        /\ db'[s] \in TokenRow /\ db'[s] # NoRow /\ db'[s].user = e /\ db'[s].from = NoRow
    <2>1. db'[a] \in AccountRow /\ db'[a].role = role
      BY DEF WritesAccount, AccountRow
    <2>2. db'[s] \in TokenRow /\ db'[s].user = e /\ db'[s].from = NoRow
      BY DEF WritesAccount, TokenRow
    <2> QED
      BY <2>1, <2>2, NoRowIsNoValue
  <1>3. /\ role \in ProfileRow <=> role # "CLIENT"
        /\ role # NoRow
    BY SessionsAssumption DEF ProfileRow
  <1>4. /\ StoreOK(Rows)' /\ committed' = committed
        /\ owner'[a] = t /\ owner'[s] = t
        /\ IF role = "CLIENT" THEN db'[p] = NoRow ELSE db'[p] = role /\ owner'[p] = t
        /\ \A x \in Rows \ {a, p, s} : db'[x] = db[x] /\ owner'[x] = owner[x]
    BY <1>1 DEF WritesAccount
  <1>5. ASSUME NEW f \in Emails, f # e
        PROVE  /\ db'[Account(f)] = db[Account(f)] /\ owner'[Account(f)] = owner[Account(f)]
               /\ db'[Profile(f)] = db[Profile(f)] /\ owner'[Profile(f)] = owner[Profile(f)]
    BY <1>4, <1>5, RowKinds
  <1>6. ASSUME NEW x \in Tokens, x # s PROVE db'[x] = db[x] /\ owner'[x] = owner[x]
    BY <1>4, <1>6, RowKinds
  <1> HIDE DEF a, p
  <1>7. RowsOK(committed)'
    BY <1>4 DEF StoreInv, RowsOK, ProfileFits
  <1>8. RowsOK(db)'
    <2>1. db' = [x \in Rows |-> db'[x]]
      BY <1>4 DEF StoreOK
    <2>2. ASSUME NEW f \in Emails
          PROVE  /\ db'[Account(f)] \in AccountRow \cup {NoRow}
                 /\ db'[Profile(f)] \in ProfileRow \cup {NoRow}
                 /\ ProfileFits(db', f)
      <3>1. CASE f = e
        BY <1>2, <1>3, <1>4, <3>1 DEF ProfileFits, a, p
      <3>2. CASE f # e
        BY <1>5, <3>2 DEF StoreInv, RowsOK, ProfileFits
      <3> QED
        BY <3>1, <3>2
    <2>3. \A x \in Tokens : db'[x] \in TokenRow \cup {NoRow}
      BY <1>2, <1>6 DEF StoreInv, RowsOK
    <2> QED
      BY <2>1, <2>2, <2>3 DEF RowsOK, ProfileFits
  <1>9. ASSUME NEW f \in Emails PROVE AccountOK(f)'
    <2>1. CASE f = e
      BY <1>1, <1>4, <2>1 DEF AccountOK, a, p
    <2>2. CASE f # e
      BY <1>4, <1>5, <2>2 DEF StoreInv, AccountOK
    <2> QED
      BY <2>1, <2>2
  <1>10. ASSUME NEW x \in Tokens PROVE TokenOK(x)'
    <2>1. CASE x = s
      BY <1>1, <1>2, <1>4, <2>1 DEF TokenOK, a
    <2>2. CASE x # s
      <3>1. TokenOK(x) /\ (db[x] # NoRow => db[x].user \in Emails)
        BY DEF StoreInv, RowsOK, TokenRow
      <3>2. db[x] # NoRow => db[x].user # e
        BY <3>1 DEF TokenOK
      <3> QED
        BY <1>4, <1>5, <1>6, <2>2, <3>1, <3>2 DEF TokenOK
    <2> QED
      BY <2>1, <2>2
  <1>11. ASSUME NEW x \in Tokens PROVE RotationOK(x)'
    <2>1. CASE x = s
      BY <1>2, <2>1 DEF RotationOK
    <2>2. CASE x # s
      <3> SUFFICES ASSUME db[x] # NoRow, db[x].from # NoRow PROVE RotationOK(x)'
        BY <1>6, <2>2 DEF RotationOK
      <3>1. PICK old : old = Session(db[x].from)
        OBVIOUS
      <3>2. old \in Tokens
        BY <3>1, RowKinds DEF StoreInv, RowsOK, TokenRow
      <3>3. /\ committed[old] # NoRow /\ db[old].spent
            /\ committed[old].spent \/ (owner[old] = owner[x] /\ committed[x] = NoRow)
        BY <3>1 DEF StoreInv, RotationOK
      <3>4. old # s
        BY <1>1, <3>3
      <3> QED
        BY <1>4, <1>6, <2>2, <3>1, <3>2, <3>3, <3>4 DEF RotationOK
    <2> QED
      BY <2>1, <2>2
  <1> QED
    BY <1>1, <1>4, <1>7, <1>8, <1>9, <1>10, <1>11 DEF StoreInv, StoreOK, a

-----------------------------------------------------------------------------
(* Requests. *)

\* What a step of t means to the others: theirs are the same requests, and what is
\* committed on the account of one has it disturbed.
OthersUntouched(t) ==
    \A u \in Txns \ {t} :
        /\ pc'[u] = pc[u] /\ req'[u] = req[u]
        /\ u \in disturbed => u \in disturbed'
        /\ pc[u] = "idle" => u \notin disturbed'
        /\ pc[u] # "idle" /\ u \notin disturbed' =>
              \A r \in Tokens : committed'[r] # NoRow /\ committed'[r].user = req[u].user
                                    => committed'[r] = committed[r]

CommittedLasts ==
    /\ \A r \in Tokens : committed[r] # NoRow =>
            committed'[r] # NoRow /\ committed'[r].user = committed[r].user
    /\ \A e \in Emails : committed[Account(e)] # NoRow => committed'[Account(e)] # NoRow

LEMMA OtherSlots ==
    ASSUME SessionInv, NEW t \in Txns, Others(Rows, t), OthersUntouched(t), CommittedLasts,
           NEW u \in Txns, u # t
    PROVE  SlotOK(u)'
  <1>1. /\ pc'[u] = pc[u] /\ req'[u] = req[u]
        /\ u \in disturbed => u \in disturbed'
        /\ pc[u] = "idle" => u \notin disturbed'
        /\ SlotOK(u)
    BY DEF SessionInv, OthersUntouched
  <1>2. \A r \in Rows : /\ owner'[r] = u <=> owner[r] = u
                        /\ owner[r] = u => db'[r] = db[r] /\ committed'[r] = committed[r]
    BY NobodyIsNoTxn DEF Others
  <1>3. CASE pc[u] = "idle"
    BY <1>1, <1>2, <1>3 DEF SlotOK
  <1>4. CASE pc[u] # "idle"
    <2> DEFINE e == req[u].user
    <2>1. AtWork(u) /\ HoldsOwn(u) /\ ResetOK(u) /\ WindowOK(u) /\ e \in Emails
      BY <1>1, <1>4 DEF SlotOK, AtWork, RequestRow
    <2>2. Inserted(u)' = Inserted(u)
      BY <1>2, RowKinds DEF Inserted
    <2>3. AtWork(u)'
      <3>1. \A r \in req'[u].todo : committed'[r] # NoRow /\ committed'[r].user = e
        BY <1>1, <2>1 DEF AtWork, RequestRow, CommittedLasts
      <3>2. req[u].role = NoRow => committed'[Account(e)] # NoRow
        BY <2>1 DEF AtWork, CommittedLasts
      <3>3. owner[Account(e)] = u /\ committed[Account(e)] = NoRow
              => owner'[Account(e)] = u /\ committed'[Account(e)] = NoRow
        BY <1>2, <2>1, RowKinds
      <3>4. ASSUME NEW s \in Tokens, committed[s] # NoRow, owner[s] = u, db[s].spent
            PROVE  committed'[s] # NoRow /\ owner'[s] = u /\ db'[s].spent
        BY <1>2, <3>4, RowKinds
      <3>5. req[u].from # NoRow => Session(req[u].from) \in Tokens
        BY <2>1, RowKinds DEF AtWork, RequestRow
      <3> HIDE DEF e
      <3> QED
        BY <1>1, <2>1, <2>2, <3>1, <3>2, <3>3, <3>4, <3>5 DEF AtWork, e
    <2>4. HoldsOwn(u)'
      BY <1>1, <1>2, <2>1, RowKinds DEF HoldsOwn
    <2>5. ASSUME u \notin disturbed', NEW r \in Tokens, committed'[r] # NoRow, committed'[r].user = e
          PROVE  committed'[r] = committed[r]
      BY <1>4, <2>5 DEF OthersUntouched
    <2>6. ResetOK(u)'
      <3> SUFFICES ASSUME IsReset(u), u \notin disturbed' PROVE ResetOK(u)'
        BY <1>1 DEF ResetOK, IsReset
      <3>1. /\ Covers(u, LiveSessions(committed, e)) /\ Inserted(u) = {}
            /\ pc[u] # "set" => owner[Account(e)] = u /\ db[Account(e)].password = req[u].password
        BY <1>1, <2>1 DEF ResetOK
      <3>2. Covers(u, LiveSessions(committed, e))'
        <4> SUFFICES ASSUME NEW r \in Tokens, committed'[r] # NoRow, committed'[r].user = e,
                            ~committed'[r].spent, \E n \in SessionIds : r = Session(n)
                     PROVE  r \in req[u].todo \/ (owner'[r] = u /\ db'[r].spent)
          BY <1>1, RowKinds DEF Covers, LiveSessions, Unspent
        <4>1. r \in LiveSessions(committed, e)
          BY <2>5 DEF LiveSessions, Unspent
        <4> QED
          BY <1>2, <3>1, <4>1, RowKinds DEF Covers
      <3> QED
        BY <1>1, <1>2, <2>1, <2>2, <3>1, <3>2, RowKinds DEF ResetOK
    <2>7. WindowOK(u)'
      <3> SUFFICES ASSUME req[u].new = "window", u \notin disturbed' PROVE WindowOK(u)'
        BY <1>1 DEF WindowOK
      <3>1. Covers(u, OpenWindows(committed, e)) /\ \A r, s \in Inserted(u) : r = s
        BY <1>1, <2>1 DEF WindowOK
      <3>2. Covers(u, OpenWindows(committed, e))'
        <4> SUFFICES ASSUME NEW r \in Tokens, committed'[r] # NoRow, committed'[r].user = e,
                            ~committed'[r].spent, \E n \in WindowIds : r = Window(n)
                     PROVE  r \in req[u].todo \/ (owner'[r] = u /\ db'[r].spent)
          BY <1>1, RowKinds DEF Covers, OpenWindows, Unspent
        <4>1. r \in OpenWindows(committed, e)
          BY <2>5 DEF OpenWindows, Unspent
        <4> QED
          BY <1>2, <3>1, <4>1, RowKinds DEF Covers
      <3> QED
        BY <1>1, <2>2, <3>1, <3>2 DEF WindowOK
    <2> QED
      BY <1>1, <1>4, <2>3, <2>4, <2>6, <2>7 DEF SlotOK
  <1> QED
    BY <1>3, <1>4

\* The variables are functions on the slots, and every slot keeps what it should.
LEMMA SlotsKept ==
    ASSUME SessionInv, NEW t \in Txns, StoreInv', Others(Rows, t), OthersUntouched(t), CommittedLasts,
           NEW next \in {"idle", "register", "rehash", "set", "spend", "insert", "commit"},
           pc' = [pc EXCEPT ![t] = next],
           NEW what, req' = [req EXCEPT ![t] = what],
           disturbed' \subseteq Txns,
           SlotOK(t)'
    PROVE  SessionInv'
  <1>1. \A u \in Txns : SlotOK(u)'
    BY OtherSlots
  <1>2. /\ pc' \in [Txns -> {"idle", "register", "rehash", "set", "spend", "insert", "commit"}]
        /\ req' = [u \in Txns |-> req'[u]]
    BY DEF SessionInv
  <1> QED
    BY <1>1, <1>2 DEF SessionInv

LEMMA BeginStep ==
    ASSUME SessionInv, NEW t \in Txns,
           NEW next \in {"register", "rehash", "set", "spend", "insert"},
           NEW what \in RequestRow, Begin(t, next, what),
           \A r \in what.todo : committed[r] # NoRow /\ committed[r].user = what.user,
           next \in {"set", "spend"} \/ what.todo = {},
           IF next = "register" THEN what.role # NoRow
                                ELSE what.role = NoRow /\ committed[Account(what.user)] # NoRow,
           next \in {"register", "rehash", "set"} => what.password \in Passwords,
           next = "set" => what.new = "none",
           what.new = "none" /\ what.password # NoRow => next = "set",
           next \in {"register", "rehash"} => what.new = "session",
           next = "insert" => what.new # "none",
           what.from # NoRow => /\ next = "spend" /\ what.new = "session"
                                /\ what.todo = {Session(what.from)},
           next = "set" => LiveSessions(committed, what.user) \subseteq what.todo,
           what.new = "window" => OpenWindows(committed, what.user) \subseteq what.todo
    PROVE  SessionInv'
  <1>1. /\ pc' = [pc EXCEPT ![t] = next] /\ req' = [req EXCEPT ![t] = what]
        /\ UNCHANGED <<db, committed, owner, disturbed>>
        /\ pc[t] = "idle"
        /\ SlotOK(t)
    BY DEF Begin, SessionInv
  <1>2. /\ pc'[t] = next /\ req'[t] = what
        /\ t \notin disturbed /\ \A r \in Rows : owner[r] # t
        /\ \A u \in Txns \ {t} : pc'[u] = pc[u] /\ req'[u] = req[u]
    BY <1>1 DEF SessionInv, SlotOK
  <1>3. StoreInv' /\ Others(Rows, t)
    BY <1>1, StoreStored, StoreIdle, IdleEffect DEF SessionInv
  <1>4. OthersUntouched(t) /\ CommittedLasts
    BY <1>1, <1>2 DEF OthersUntouched, CommittedLasts, SessionInv, SlotOK
  <1>5. Inserted(t)' = {} /\ HoldsOwn(t)'
    BY <1>1, <1>2, RowKinds DEF Inserted, HoldsOwn
  <1>6. AtWork(t)'
    BY <1>1, <1>2, <1>5 DEF AtWork
  <1>7. ResetOK(t)'
    BY <1>1, <1>2, <1>5 DEF ResetOK, IsReset, Covers, LiveSessions, Unspent
  <1>8. WindowOK(t)'
    BY <1>1, <1>2, <1>5 DEF WindowOK, Covers, OpenWindows, Unspent
  <1>9. SlotOK(t)'
    BY <1>2, <1>5, <1>6, <1>7, <1>8 DEF SlotOK
  <1> QED
    BY <1>1, <1>3, <1>4, <1>9, SlotsKept DEF SessionInv

LEMMA ArriveStep ==
    ASSUME SessionInv, NEW t \in Txns, Arrive(t) PROVE SessionInv'
  <1>1. ASSUME NEW e \in Emails, NEW pw \in Passwords, NEW role \in Roles, BeginRegister(t, e, pw, role)
        PROVE  SessionInv'
    <2>1. PICK what : what = [Ask(e, {}, "session") EXCEPT !.password = pw, !.role = role]
      OBVIOUS
    <2>2. /\ what \in RequestRow /\ what.role # NoRow
          /\ what.password = pw /\ what.todo = {} /\ what.new = "session" /\ what.from = NoRow
      BY <2>1, SessionsAssumption DEF RequestRow, Ask
    <2> QED
      BY <1>1, <2>1, <2>2, BeginStep DEF BeginRegister
  <1>2. ASSUME NEW e \in Emails, NEW pw \in Passwords, BeginLogin(t, e, pw)
        PROVE  SessionInv'
    <2>1. PICK what : what = [Ask(e, {}, "session") EXCEPT !.password = pw]
      OBVIOUS
    <2>2. /\ what \in RequestRow /\ what.role = NoRow /\ what.user = e
          /\ what.password = pw /\ what.todo = {} /\ what.new = "session" /\ what.from = NoRow
      BY <2>1 DEF RequestRow, Ask
    <2> QED
      BY <1>2, <2>1, <2>2, BeginStep DEF BeginLogin
  <1>3. ASSUME NEW n \in SessionIds, BeginRefresh(t, n) PROVE SessionInv'
    <2>1. PICK e : e = committed[Session(n)].user
      OBVIOUS
    <2>2. PICK what : what = [Ask(e, {Session(n)}, "session") EXCEPT !.from = n]
      OBVIOUS
    <2>3. /\ e \in Emails /\ Session(n) \in Tokens /\ committed[Session(n)] # NoRow
          /\ committed[Account(e)] # NoRow
      BY <1>3, <2>1, RowKinds DEF BeginRefresh, Valid, SessionInv, StoreInv, RowsOK, TokenRow, TokenOK
    <2>4. /\ what \in RequestRow /\ what.role = NoRow /\ what.user = e /\ what.password = NoRow
          /\ what.todo = {Session(n)} /\ what.new = "session" /\ what.from = n
      BY <2>2, <2>3 DEF RequestRow, Ask
    <2>5. Begin(t, "spend", what)
      BY <1>3, <2>1, <2>2 DEF BeginRefresh, ToRotate, Pending
    <2> QED
      BY <2>1, <2>3, <2>4, <2>5, BeginStep
  <1>4. ASSUME NEW n \in SessionIds, BeginLogout(t, n) PROVE SessionInv'
    <2>1. PICK e : e = committed[Session(n)].user
      OBVIOUS
    <2>2. PICK what : what = Ask(e, {Session(n)}, "none")
      OBVIOUS
    <2>3. /\ e \in Emails /\ Session(n) \in Tokens /\ committed[Session(n)] # NoRow
          /\ committed[Account(e)] # NoRow
      BY <1>4, <2>1, RowKinds DEF BeginLogout, Valid, SessionInv, StoreInv, RowsOK, TokenRow, TokenOK
    <2>4. /\ what \in RequestRow /\ what.role = NoRow /\ what.user = e /\ what.password = NoRow
          /\ what.todo = {Session(n)} /\ what.new = "none" /\ what.from = NoRow
      BY <2>2, <2>3 DEF RequestRow, Ask
    <2>5. Begin(t, "spend", what)
      BY <1>4, <2>1, <2>2 DEF BeginLogout
    <2> QED
      BY <2>1, <2>3, <2>4, <2>5, BeginStep
  <1>5. ASSUME NEW e \in Emails, BeginVerifyEmail(t, e) PROVE SessionInv'
    <2>1. PICK todo : todo = OpenWindows(committed, e)
      OBVIOUS
    <2>2. PICK what : what = Ask(e, todo, "window")
      OBVIOUS
    <2>3. \A r \in todo : r \in Tokens /\ committed[r] # NoRow /\ committed[r].user = e
      BY <2>1, RowKinds DEF OpenWindows, Unspent
    <2>4. /\ what \in RequestRow /\ what.role = NoRow /\ what.user = e /\ what.password = NoRow
          /\ what.todo = todo /\ what.new = "window" /\ what.from = NoRow
      BY <2>2, <2>3 DEF RequestRow, Ask
    <2>5. PICK next : next = IF todo # {} THEN "spend" ELSE "insert"
      OBVIOUS
    <2>6. Begin(t, next, what) /\ committed[Account(e)] # NoRow
      BY <1>5, <2>1, <2>2, <2>5 DEF BeginVerifyEmail, Outstanding, Pending
    <2> QED
      BY <2>1, <2>3, <2>4, <2>5, <2>6, BeginStep
  <1>6. ASSUME NEW n \in WindowIds, NEW pw \in Passwords, BeginReset(t, n, pw) PROVE SessionInv'
    <2>1. PICK e : e = committed[Window(n)].user
      OBVIOUS
    <2>2. PICK todo : todo = {Window(n)} \cup LiveSessions(committed, e)
      OBVIOUS
    <2>3. PICK table \in {r[1] : r \in todo} :
              Begin(t, "set", [Ask(e, todo, "none") EXCEPT !.password = pw, !.first = table])
      BY <1>6, <2>1, <2>2 DEF BeginReset, ToRevoke
    <2>4. PICK what : what = [Ask(e, todo, "none") EXCEPT !.password = pw, !.first = table]
      OBVIOUS
    <2>5. /\ e \in Emails /\ Window(n) \in Tokens /\ committed[Window(n)] # NoRow
          /\ committed[Account(e)] # NoRow
      BY <1>6, <2>1, RowKinds DEF BeginReset, Valid, SessionInv, StoreInv, RowsOK, TokenRow, TokenOK
    <2>6. \A r \in todo : r \in Tokens /\ committed[r] # NoRow /\ committed[r].user = e
      BY <2>1, <2>2, <2>5, RowKinds DEF LiveSessions, Unspent
    <2>7. table \in {"session", "window"}
      BY <2>6, RowTables
    <2>8. /\ what \in RequestRow /\ what.role = NoRow /\ what.user = e /\ what.password = pw
          /\ what.todo = todo /\ what.new = "none" /\ what.from = NoRow
      BY <2>4, <2>5, <2>6, <2>7 DEF RequestRow, Ask
    <2> QED
      BY <2>2, <2>3, <2>4, <2>5, <2>6, <2>8, BeginStep
  <1> QED
    BY <1>1, <1>2, <1>3, <1>4, <1>5, <1>6 DEF Arrive

\* A request that ends leaves nothing behind.
LEMMA ForgetStep ==
    ASSUME SessionInv, NEW t \in Txns, StoreInv', Others(Rows, t), OthersUntouched(t), CommittedLasts,
           Forget(t), \A r \in Rows : owner'[r] # t, disturbed' \subseteq Txns, t \notin disturbed'
    PROVE  SessionInv'
  <1>1. pc' = [pc EXCEPT ![t] = "idle"] /\ req' = [req EXCEPT ![t] = NoRow]
    BY DEF Forget
  <1>2. SlotOK(t)'
    BY <1>1 DEF SessionInv, SlotOK
  <1> QED
    BY <1>1, <1>2, SlotsKept

LEMMA RollbackStep ==
    ASSUME SessionInv, NEW t \in Txns, Rollback(t) PROVE SessionInv' /\ committed' = committed
  <1>1. /\ StoreInv' /\ Others(Rows, t) /\ committed' = committed
        /\ \A r \in Rows : owner'[r] # t
    BY StoreRollback, StoreStored, RollbackEffect DEF Rollback, SessionInv
  <1>2. Forget(t) /\ disturbed' = disturbed \ {t}
    BY DEF Rollback
  <1>3. OthersUntouched(t) /\ CommittedLasts
    BY <1>1, <1>2 DEF OthersUntouched, CommittedLasts, Forget, SessionInv, SlotOK
  <1> QED
    BY <1>1, <1>2, <1>3, ForgetStep DEF SessionInv

LEMMA CommitStep ==
    ASSUME SessionInv, NEW t \in Txns, Commit(t) PROVE SessionInv'
  <1>1. /\ StoreInv' /\ Others(Rows, t)
        /\ \A r \in Rows : committed'[r] = IF owner[r] = t THEN db[r] ELSE committed[r]
        /\ \A r \in Rows : owner'[r] # t
    BY StoreCommit, StoreStored, CommitEffect DEF Commit, SessionInv
  <1>2. /\ Forget(t) /\ pc[t] = "commit"
        /\ disturbed' = (disturbed \ {t})
               \cup {u \in Txns \ {t} : pc[u] # "idle" /\ req[u].user = req[t].user}
    BY DEF Commit
  <1>3. CommittedLasts
    BY <1>1, RowKinds DEF CommittedLasts, SessionInv, StoreInv, TokenOK, AccountOK
  <1>4. OthersUntouched(t)
    <2> SUFFICES ASSUME NEW u \in Txns \ {t}
                 PROVE  /\ pc'[u] = pc[u] /\ req'[u] = req[u]
                        /\ u \in disturbed => u \in disturbed'
                        /\ pc[u] = "idle" => u \notin disturbed'
                        /\ pc[u] # "idle" /\ u \notin disturbed' =>
                              \A r \in Tokens : committed'[r] # NoRow /\ committed'[r].user = req[u].user
                                                    => committed'[r] = committed[r]
      BY DEF OthersUntouched
    <2>1. pc'[u] = pc[u] /\ req'[u] = req[u]
      BY <1>2 DEF Forget, SessionInv
    <2>2. u \in disturbed => u \in disturbed'
      BY <1>2
    <2>3. pc[u] = "idle" => u \notin disturbed'
      BY <1>2 DEF SessionInv, SlotOK
    <2>4. ASSUME pc[u] # "idle", u \notin disturbed', NEW r \in Tokens, committed'[r].user = req[u].user
          PROVE  committed'[r] = committed[r]
      <3>1. req[u].user # req[t].user
        BY <1>2, <2>4
      <3>2. owner[r] = t => db[r].user = req[t].user
        BY <1>2 DEF SessionInv, SlotOK, HoldsOwn
      <3> QED
        BY <1>1, <2>4, <3>1, <3>2, RowKinds
    <2> QED
      BY <2>1, <2>2, <2>3, <2>4
  <1> QED
    BY <1>1, <1>2, <1>3, <1>4, ForgetStep DEF SessionInv

\* A request that works on: it commits nothing.
LEMMA WorkKeeps ==
    ASSUME SessionInv, NEW t \in Txns, committed' = committed, UNCHANGED disturbed,
           NEW next, pc' = [pc EXCEPT ![t] = next], NEW what, req' = [req EXCEPT ![t] = what]
    PROVE  OthersUntouched(t) /\ CommittedLasts /\ pc'[t] = next /\ req'[t] = what
  BY DEF OthersUntouched, CommittedLasts, SessionInv, SlotOK

LEMMA PasswordStep ==
    ASSUME SessionInv, NEW t \in Txns, Rehash(t) \/ SetPassword(t) PROVE SessionInv'
  <1> DEFINE e == req[t].user
             a == Account(e)
  <1>1. /\ AtWork(t) /\ HoldsOwn(t) /\ ResetOK(t) /\ WindowOK(t)
        /\ pc[t] \in {"rehash", "set"} /\ e \in Emails /\ req[t].password \in Passwords
        /\ committed[a] # NoRow /\ req[t].role = NoRow
        /\ req[t].from = NoRow
    BY DEF Rehash, SetPassword, SessionInv, SlotOK, AtWork, RequestRow
  <1>2. PICK row : row = [db[a] EXCEPT !.password = req[t].password, !.outdated = FALSE]
    OBVIOUS
  <1>3. PICK new : new = [x \in {a} |-> row]
    OBVIOUS
  <1>4. new = [x \in {a} |-> [db[x] EXCEPT !.password = req[t].password, !.outdated = FALSE]]
    BY <1>2, <1>3
  <1>5. PICK next : next = IF pc[t] = "rehash" THEN "insert" ELSE "spend"
    OBVIOUS
  <1>6. WriteRows(t, new) /\ pc' = [pc EXCEPT ![t] = next] /\ UNCHANGED <<req, disturbed>>
    BY <1>4, <1>5 DEF Rehash, SetPassword
  <1>7. WritesOne(t, a, row) /\ Others(Rows, t)
    BY <1>3, <1>6, OneRowEffect DEF SessionInv
  <1>8. StoreInv' /\ db'[a].password = req[t].password
    <2>1. PICK pw \in Passwords : pw = req[t].password
      BY <1>1
    <2>2. WritesOne(t, Account(e), [db[Account(e)] EXCEPT !.password = pw, !.outdated = FALSE])
      BY <1>2, <1>7, <2>1
    <2>3. StoreInv /\ committed[Account(e)] # NoRow /\ e \in Emails
      BY <1>1 DEF SessionInv
    <2> HIDE DEF e, a
    <2>4. StoreInv' /\ db'[Account(e)].password = pw
      BY <2>1, <2>2, <2>3, StorePassword
    <2> QED
      BY <2>1, <2>4 DEF a
  <1>9. /\ committed' = committed
        /\ \A x \in Rows : /\ db'[x] = IF x = a THEN row ELSE db[x]
                           /\ owner'[x] = IF x = a THEN t ELSE owner[x]
    BY <1>7 DEF WritesOne
  <1>10. req' = [req EXCEPT ![t] = req[t]] /\ disturbed' \subseteq Txns
    BY <1>6 DEF SessionInv
  <1>11. OthersUntouched(t) /\ CommittedLasts /\ pc'[t] = next /\ req'[t] = req[t]
    BY <1>6, <1>9, <1>10, WorkKeeps
  <1>12. a \in Rows /\ a \notin Tokens /\ Tokens \subseteq Rows
    BY <1>1, RowKinds
  <1>13. \A r \in Tokens : db'[r] = db[r] /\ owner'[r] = owner[r]
    BY <1>9, <1>12
  <1> HIDE DEF a
  <1>14. Inserted(t)' = Inserted(t)
    BY <1>9, <1>13 DEF Inserted
  <1>15. AtWork(t)'
    BY <1>1, <1>5, <1>9, <1>11, <1>14 DEF AtWork, a
  <1>16. HoldsOwn(t)'
    BY <1>1, <1>9, <1>11, <1>13, RowKinds DEF HoldsOwn, a
  <1>17. ResetOK(t)'
    BY <1>1, <1>6, <1>8, <1>9, <1>11, <1>12, <1>13, <1>14, RowKinds
       DEF ResetOK, IsReset, Covers, LiveSessions, Unspent, a
  <1>18. WindowOK(t)'
    BY <1>1, <1>6, <1>9, <1>11, <1>13, <1>14, RowKinds DEF WindowOK, Covers, OpenWindows, Unspent
  <1>19. SlotOK(t)'
    BY <1>5, <1>11, <1>15, <1>16, <1>17, <1>18 DEF SlotOK
  <1> QED
    BY <1>5, <1>6, <1>7, <1>8, <1>10, <1>11, <1>19, SlotsKept

LEMMA SpendStep ==
    ASSUME SessionInv, NEW t \in Txns, Spend(t) PROVE SessionInv'
  <1>1. PICK r \in NextToSpend(t) :
            /\ WriteRows(t, [x \in {r} |-> [db[x] EXCEPT !.spent = TRUE]])
            /\ req' = [req EXCEPT ![t].todo = req[t].todo \ {r}]
            /\ pc' = [pc EXCEPT ![t] = Pending(req[t].todo \ {r}, req[t].new)]
    BY DEF Spend
  <1>2. pc[t] = "spend" /\ UNCHANGED disturbed
    BY DEF Spend
  <1>3. /\ AtWork(t) /\ HoldsOwn(t) /\ ResetOK(t) /\ WindowOK(t)
        /\ req[t] \in RequestRow /\ req[t].role = NoRow
        /\ committed[Account(req[t].user)] # NoRow
        /\ Inserted(t) = {}
    BY <1>2 DEF SessionInv, SlotOK, AtWork
  <1>4. /\ r \in req[t].todo /\ r \in Tokens /\ r \in Rows
        /\ committed[r] # NoRow /\ committed[r].user = req[t].user
        /\ db[r] # NoRow /\ db[r] \in TokenRow /\ db[r].user = req[t].user
    <2>1. r \in req[t].todo /\ r \in Tokens
      BY <1>1, <1>3 DEF NextToSpend, RequestRow
    <2>2. committed[r] # NoRow /\ committed[r].user = req[t].user
      BY <1>3, <2>1 DEF AtWork
    <2>3. TokenOK(r) /\ db[r] \in TokenRow \cup {NoRow}
      BY <2>1 DEF SessionInv, StoreInv, RowsOK
    <2> QED
      BY <2>1, <2>2, <2>3, RowKinds DEF TokenOK
  <1>5. PICK row : row = [db[r] EXCEPT !.spent = TRUE]
    OBVIOUS
  <1>6. PICK new : new = [x \in {r} |-> row]
    OBVIOUS
  <1>7. new = [x \in {r} |-> [db[x] EXCEPT !.spent = TRUE]]
    BY <1>5, <1>6
  <1>8. WritesOne(t, r, row) /\ Others(Rows, t)
    <2>1. WriteRows(t, new)
      BY <1>1, <1>7
    <2> QED
      BY <1>6, <2>1, OneRowEffect DEF SessionInv
  <1>9. StoreInv'
    BY <1>4, <1>5, <1>8, StoreSpend DEF SessionInv
  <1>10. row.spent = TRUE /\ row.user = req[t].user /\ row # NoRow
    <2>1. row \in TokenRow
      BY <1>4, <1>5 DEF TokenRow
    <2> QED
      BY <1>4, <1>5, <2>1, NoRowIsNoValue DEF TokenRow
  <1>11. /\ committed' = committed
         /\ \A x \in Rows : /\ db'[x] = IF x = r THEN row ELSE db[x]
                            /\ owner'[x] = IF x = r THEN t ELSE owner[x]
    BY <1>8 DEF WritesOne
  <1>12. PICK left : left = req[t].todo \ {r}
    OBVIOUS
  <1>13. PICK what : what = [req[t] EXCEPT !.todo = left]
    OBVIOUS
  <1>14. /\ what \in RequestRow /\ what.todo = left
         /\ what.user = req[t].user /\ what.role = req[t].role /\ what.password = req[t].password
         /\ what.new = req[t].new /\ what.from = req[t].from
    BY <1>3, <1>12, <1>13 DEF RequestRow
  <1>15. PICK next : next = IF left # {} THEN "spend" ELSE IF req[t].new # "none" THEN "insert" ELSE "commit"
    OBVIOUS
  <1>16. req' = [req EXCEPT ![t] = what] /\ pc' = [pc EXCEPT ![t] = next]
    BY <1>1, <1>12, <1>13, <1>15 DEF Pending
  <1>17. OthersUntouched(t) /\ CommittedLasts /\ pc'[t] = next /\ req'[t] = what
    BY <1>2, <1>11, <1>16, WorkKeeps
  <1>18. Inserted(t)' = {}
    BY <1>3, <1>4, <1>11, RowKinds DEF Inserted
  <1>19. AtWork(t)'
    <2>1. \A x \in left : committed[x] # NoRow /\ committed[x].user = what.user
      BY <1>3, <1>12, <1>14 DEF AtWork
    <2>2. what.from # NoRow =>
              /\ what.new = "session" /\ req[t].todo = {Session(what.from)}
      BY <1>2, <1>3, <1>14 DEF AtWork
    <2>3. what.from # NoRow =>
              /\ next = "insert" /\ committed'[Session(what.from)] # NoRow
              /\ owner'[Session(what.from)] = t /\ db'[Session(what.from)].spent
      BY <1>4, <1>10, <1>11, <1>12, <1>14, <1>15, <2>2
    <2> QED
      BY <1>3, <1>11, <1>14, <1>15, <1>17, <1>18, <2>1, <2>3 DEF AtWork
  <1>20. HoldsOwn(t)'
    BY <1>3, <1>4, <1>10, <1>11, <1>14, <1>17, RowKinds DEF HoldsOwn
  <1>21. ASSUME NEW tokens \in SUBSET Tokens, Covers(t, tokens)
         PROVE  \A x \in tokens : x \in left \/ (owner'[x] = t /\ db'[x].spent)
    BY <1>10, <1>11, <1>12, <1>21, RowKinds DEF Covers
  <1>22. ResetOK(t)'
    <2>1. LiveSessions(committed, req[t].user)' = LiveSessions(committed, what.user)
      BY <1>11, <1>14, <1>17 DEF LiveSessions, Unspent
    <2>2. LiveSessions(committed, what.user) \subseteq Tokens
      BY RowKinds DEF LiveSessions, Unspent
    <2>3. Account(req[t].user) \in Rows /\ Account(req[t].user) # r
      BY <1>3, <1>4, RowKinds DEF RequestRow
    <2> QED
      BY <1>2, <1>3, <1>11, <1>14, <1>17, <1>18, <1>21, <2>1, <2>2, <2>3 DEF ResetOK, IsReset, Covers
  <1>23. WindowOK(t)'
    <2>1. OpenWindows(committed, req[t].user)' = OpenWindows(committed, what.user)
      BY <1>11, <1>14, <1>17 DEF OpenWindows, Unspent
    <2>2. OpenWindows(committed, what.user) \subseteq Tokens
      BY RowKinds DEF OpenWindows, Unspent
    <2> QED
      BY <1>2, <1>3, <1>11, <1>14, <1>17, <1>18, <1>21, <2>1, <2>2 DEF WindowOK, Covers
  <1>24. SlotOK(t)'
    BY <1>15, <1>17, <1>19, <1>20, <1>22, <1>23 DEF SlotOK
  <1>25. disturbed' \subseteq Txns
    BY <1>2 DEF SessionInv
  <1> QED
    BY <1>8, <1>9, <1>15, <1>16, <1>17, <1>24, <1>25, SlotsKept

LEMMA InsertStep ==
    ASSUME SessionInv, NEW t \in Txns, InsertToken(t) PROVE SessionInv'
  <1>1. PICK r \in NextToken(req[t].new) :
            WriteRows(t, [x \in {r} |-> [user |-> req[t].user, spent |-> FALSE, from |-> req[t].from]])
    BY DEF InsertToken
  <1>2. pc[t] = "insert" /\ pc' = [pc EXCEPT ![t] = "commit"] /\ UNCHANGED <<req, disturbed>>
    BY DEF InsertToken
  <1>3. /\ AtWork(t) /\ HoldsOwn(t) /\ ResetOK(t) /\ WindowOK(t)
        /\ req[t] \in RequestRow /\ req[t].role = NoRow /\ req[t].todo = {} /\ req[t].new # "none"
        /\ committed[Account(req[t].user)] # NoRow
        /\ Inserted(t) = {}
    BY <1>2 DEF SessionInv, SlotOK, AtWork
  <1>4. r \in Tokens /\ r \in Rows /\ db[r] = NoRow /\ committed[r] = NoRow
    BY <1>1, RowKinds, AbsentIsNew DEF NextToken, Free, SessionInv
  <1>5. PICK e \in Emails : e = req[t].user
    BY <1>3 DEF RequestRow
  <1>6. PICK from \in SessionIds \cup {NoRow} : from = req[t].from
    BY <1>3 DEF RequestRow
  <1>7. from # NoRow => LET s == Session(from)
                        IN  committed[s] # NoRow /\ owner[s] = t /\ db[s].spent
    BY <1>2, <1>3, <1>6 DEF AtWork
  <1>8. PICK row : row = [user |-> e, spent |-> FALSE, from |-> from]
    OBVIOUS
  <1>9. PICK new : new = [x \in {r} |-> row]
    OBVIOUS
  <1>10. WriteRows(t, new)
    <2>1. new = [x \in {r} |-> [user |-> req[t].user, spent |-> FALSE, from |-> req[t].from]]
      BY <1>5, <1>6, <1>8, <1>9
    <2> QED
      BY <1>1, <2>1
  <1>11. WritesOne(t, r, row) /\ Others(Rows, t)
    BY <1>9, <1>10, OneRowEffect DEF SessionInv
  <1>12. StoreInv'
    BY <1>3, <1>4, <1>5, <1>7, <1>8, <1>11, StoreInsert DEF SessionInv
  <1>13. row.user = req[t].user /\ row # NoRow
    <2>1. row \in TokenRow
      BY <1>8 DEF TokenRow
    <2> QED
      BY <1>5, <1>8, <2>1, NoRowIsNoValue
  <1>14. /\ committed' = committed
         /\ \A x \in Rows : /\ db'[x] = IF x = r THEN row ELSE db[x]
                            /\ owner'[x] = IF x = r THEN t ELSE owner[x]
    BY <1>11 DEF WritesOne
  <1>15. req' = [req EXCEPT ![t] = req[t]] /\ disturbed' \subseteq Txns
    BY <1>2 DEF SessionInv
  <1>16. OthersUntouched(t) /\ CommittedLasts /\ pc'[t] = "commit" /\ req'[t] = req[t]
    BY <1>2, <1>14, <1>15, WorkKeeps
  <1>17. Inserted(t)' = {r}
    BY <1>3, <1>4, <1>14, RowKinds DEF Inserted
  <1>18. AtWork(t)'
    BY <1>2, <1>3, <1>14, <1>16 DEF AtWork
  <1>19. HoldsOwn(t)'
    BY <1>3, <1>4, <1>13, <1>14, <1>16, RowKinds DEF HoldsOwn
  <1>20. ResetOK(t)'
    BY <1>3, <1>16 DEF ResetOK, IsReset
  <1>21. WindowOK(t)'
    <2>1. OpenWindows(committed, req[t].user)' = OpenWindows(committed, req[t].user)
      BY <1>14, <1>16 DEF OpenWindows, Unspent
    <2>2. \A x \in OpenWindows(committed, req[t].user) : x # r /\ x \in Rows
      BY <1>4, RowKinds DEF OpenWindows, Unspent
    <2> QED
      BY <1>2, <1>3, <1>14, <1>16, <1>17, <2>1, <2>2 DEF WindowOK, Covers
  <1>22. SlotOK(t)'
    BY <1>16, <1>18, <1>19, <1>20, <1>21 DEF SlotOK
  <1> QED
    BY <1>2, <1>11, <1>12, <1>15, <1>16, <1>22, SlotsKept

LEMMA RegisterStep ==
    ASSUME SessionInv, NEW t \in Txns, Register(t) PROVE SessionInv'
  <1>1. /\ pc[t] = "register" /\ pc' = [pc EXCEPT ![t] = "commit"] /\ UNCHANGED <<req, disturbed>>
        /\ db[Account(req[t].user)] = NoRow
    BY DEF Register, Taken
  <1>2. /\ AtWork(t) /\ HoldsOwn(t)
        /\ req[t] \in RequestRow /\ req[t].role # NoRow /\ req[t].todo = {}
        /\ req[t].password \in Passwords /\ req[t].from = NoRow
    BY <1>1 DEF SessionInv, SlotOK, AtWork
  <1>3. req[t].new = "session"
    BY <1>1, <1>2 DEF AtWork
  <1>4. PICK e \in Emails : e = req[t].user
    BY <1>2 DEF RequestRow
  <1>5. PICK role \in Roles : role = req[t].role
    BY <1>2 DEF RequestRow
  <1>6. PICK pw \in Passwords : pw = req[t].password
    BY <1>2
  <1> DEFINE a == Account(e)
             p == Profile(e)
  <1>7. PICK s \in NextToken("session") :
            WriteRows(t, [r \in {Account(req[t].user), s} \cup NewProfile(req[t].user, req[t].role) |->
                CASE r[1] = "account" -> [password |-> req[t].password, outdated |-> FALSE,
                                          role |-> req[t].role]
                  [] r[1] = "profile" -> req[t].role
                  [] r[1] = "session" -> [user |-> req[t].user, spent |-> FALSE, from |-> NoRow]])
    BY DEF Register
  <1>8. /\ s \in Tokens /\ s \in Rows /\ s[1] = "session" /\ db[s] = NoRow /\ committed[s] = NoRow
        /\ a \in Rows /\ p \in Rows /\ a # p /\ a # s /\ p # s
        /\ a[1] = "account" /\ p[1] = "profile"
    BY <1>7, RowKinds, RowTables, AbsentIsNew DEF NextToken, Free, SessionInv
  <1>9. NewProfile(e, role) = IF role = "CLIENT" THEN {} ELSE {p}
    BY DEF NewProfile
  <1>10. PICK new :
            new = [r \in {Account(req[t].user), s} \cup NewProfile(req[t].user, req[t].role) |->
                CASE r[1] = "account" -> [password |-> req[t].password, outdated |-> FALSE,
                                          role |-> req[t].role]
                  [] r[1] = "profile" -> req[t].role
                  [] r[1] = "session" -> [user |-> req[t].user, spent |-> FALSE, from |-> NoRow]]
    OBVIOUS
  <1>11. /\ DOMAIN new = {a, s} \cup NewProfile(e, role)
         /\ new[a] = [password |-> pw, outdated |-> FALSE, role |-> role]
         /\ new[s] = [user |-> e, spent |-> FALSE, from |-> NoRow]
         /\ role # "CLIENT" => new[p] = role
    BY <1>4, <1>5, <1>6, <1>8, <1>9, <1>10
  <1>12. WriteRows(t, new)
    BY <1>7, <1>10
  <1>13. /\ StoreOK(Rows)' /\ Others(Rows, t)
         /\ committed' = committed
         /\ \A r \in Rows : db'[r] = IF r \in DOMAIN new THEN new[r] ELSE db[r]
         /\ \A r \in Rows : owner'[r] = IF r \in DOMAIN new THEN t ELSE owner[r]
         /\ \A r \in DOMAIN new : owner[r] \in {t, Nobody}
    BY <1>12, StoreStored, WriteEffect DEF SessionInv
  <1>14. WritesAccount(t, e, pw, role, s)
    BY <1>8, <1>9, <1>11, <1>13 DEF WritesAccount
  <1>15. StoreInv' /\ committed[a] = NoRow
    BY <1>1, <1>4, <1>8, <1>14, StoreRegister DEF SessionInv
  <1>16. req' = [req EXCEPT ![t] = req[t]] /\ disturbed' \subseteq Txns
    BY <1>1 DEF SessionInv
  <1>17. OthersUntouched(t) /\ CommittedLasts /\ pc'[t] = "commit" /\ req'[t] = req[t]
    BY <1>1, <1>13, <1>16, WorkKeeps
  <1>18. owner'[a] = t /\ committed'[a] = NoRow
    BY <1>13, <1>14, <1>15 DEF WritesAccount
  <1>19. AtWork(t)'
    BY <1>2, <1>4, <1>17, <1>18 DEF AtWork
  <1>20. HoldsOwn(t)'
    <2>1. db'[s] # NoRow /\ db'[s].user = e
      <3>1. db'[s] \in TokenRow /\ db'[s].user = e
        BY <1>14 DEF WritesAccount, TokenRow
      <3> QED
        BY <3>1, NoRowIsNoValue
    <2>2. \A x \in Rows \ {a, p, s} : db'[x] = db[x] /\ owner'[x] = owner[x]
      BY <1>14 DEF WritesAccount
    <2>3. ASSUME NEW f \in Emails, f # e PROVE owner'[Account(f)] # t /\ owner'[Profile(f)] # t
      BY <1>2, <1>4, <1>8, <2>2, <2>3, RowKinds DEF HoldsOwn
    <2>4. ASSUME NEW x \in Tokens, x # s, owner'[x] = t PROVE db'[x] # NoRow /\ db'[x].user = e
      BY <1>2, <1>4, <2>2, <2>4, RowKinds DEF HoldsOwn
    <2> QED
      BY <1>4, <1>17, <2>1, <2>3, <2>4 DEF HoldsOwn
  <1>21. ResetOK(t)' /\ WindowOK(t)'
    BY <1>3, <1>17 DEF ResetOK, IsReset, WindowOK
  <1>22. SlotOK(t)'
    BY <1>17, <1>19, <1>20, <1>21 DEF SlotOK
  <1> QED
    BY <1>1, <1>13, <1>15, <1>16, <1>17, <1>22, SlotsKept

LEMMA SessionsInitially == Init => SessionInv
  <1> SUFFICES ASSUME Init PROVE SessionInv
    OBVIOUS
  <1>1. PICK there \in SUBSET Veterans : InitStore(InitialRows(there))
    BY DEF Init
  <1>2. PICK rows : rows = InitialRows(there)
    OBVIOUS
  <1>3. /\ rows = [r \in Rows |-> rows[r]]
        /\ \A r \in Rows : rows[r] = IF r \in {Account(e) : e \in there}
                                     THEN [password |-> OldPassword, outdated |-> TRUE, role |-> "CLIENT"]
                                     ELSE NoRow
    BY <1>2 DEF InitialRows
  <1>4. /\ StoreOK(Rows)
        /\ \A r \in Rows : db[r] = rows[r] /\ committed[r] = rows[r] /\ owner[r] = Nobody
    BY <1>1, <1>2, <1>3, InitEffect
  <1>5. ASSUME NEW e \in Emails
        PROVE  rows[Account(e)] \in AccountRow \cup {NoRow} /\ rows[Profile(e)] = NoRow
               /\ (rows[Account(e)] # NoRow => rows[Account(e)].role = "CLIENT")
    <2>1. Account(e) \in Rows /\ Profile(e) \in Rows /\ \A f : Account(f) # Profile(e)
      BY RowKinds
    <2>2. PICK row : row = [password |-> OldPassword, outdated |-> TRUE, role |-> "CLIENT"]
      OBVIOUS
    <2>3. row \in AccountRow /\ row.role = "CLIENT"
      BY <2>2, SessionsAssumption DEF AccountRow
    <2>4. rows[Account(e)] \in {row, NoRow} /\ rows[Profile(e)] = NoRow
      BY <1>3, <2>1, <2>2
    <2> QED
      BY <2>3, <2>4
  <1>6. \A r \in Tokens : rows[r] = NoRow
    BY <1>3, RowKinds
  <1>7. RowsOK(db) /\ RowsOK(committed)
    BY <1>4, <1>5, <1>6, RowKinds DEF RowsOK, ProfileFits, ProfileRow, StoreOK
  <1>8. StoreInv
    BY <1>4, <1>5, <1>6, <1>7, RowKinds DEF StoreInv, StoreOK, AccountOK, TokenOK, RotationOK
  <1> QED
    BY <1>4, <1>8, NobodyIsNoTxn DEF Init, SessionInv, SlotOK

LEMMA SessionsInductive == SessionInv /\ [Next]_vars => SessionInv'
  <1> SUFFICES ASSUME SessionInv, [Next]_vars PROVE SessionInv'
    OBVIOUS
  <1>1. CASE Next
    <2> PICK t \in Txns : Arrive(t) \/ Step(t) \/ Abort(t) \/ Victim(t)
      BY <1>1 DEF Next
    <2> QED
      BY ArriveStep, RegisterStep, PasswordStep, SpendStep, InsertStep, CommitStep, RollbackStep
         DEF Step, Abort, Victim, RefuseRegister
  <1>2. CASE UNCHANGED vars
    <2>1. StoreInv'
      BY <1>2, StoreIdle DEF SessionInv, vars
    <2>2. ASSUME NEW t \in Txns PROVE SlotOK(t)'
      <3>1. AtWork(t) <=> AtWork(t)'
        BY <1>2 DEF vars, AtWork, Inserted
      <3>2. HoldsOwn(t) <=> HoldsOwn(t)'
        BY <1>2 DEF vars, HoldsOwn
      <3>3. ResetOK(t) <=> ResetOK(t)'
        BY <1>2 DEF vars, ResetOK, IsReset, Covers, LiveSessions, Unspent, Inserted
      <3>4. WindowOK(t) <=> WindowOK(t)'
        BY <1>2 DEF vars, WindowOK, Covers, OpenWindows, Unspent, Inserted
      <3> QED
        BY <1>2, <3>1, <3>2, <3>3, <3>4 DEF vars, SlotOK, SessionInv
    <2> QED
      BY <1>2, <2>1, <2>2 DEF SessionInv, vars
  <1> QED
    BY <1>1, <1>2

-----------------------------------------------------------------------------
(* Requests that close. *)

\* A step is one request's.
LEMMA OnesStep ==
    ASSUME SessionInv, NEW t \in Txns, NEW u \in Txns, u # t,
           Arrive(u) \/ Step(u) \/ Abort(u) \/ Victim(u)
    PROVE  pc'[t] = pc[t]
  <1>1. \E next : pc' = [pc EXCEPT ![u] = next]
    BY DEF Arrive, BeginRegister, BeginLogin, BeginRefresh, BeginLogout, BeginVerifyEmail, BeginReset,
           Begin, Step, Register, RefuseRegister, Rehash, SetPassword, Spend, InsertToken, Commit,
           Abort, Victim, Rollback, Forget
  <1> QED
    BY <1>1 DEF SessionInv

LEMMA ClosesByCommit ==
    ASSUME SessionInv, [Next]_vars, NEW t \in Txns, Closes(t) PROVE Commit(t)
  <1>1. /\ pc[t] = "commit" /\ pc'[t] = "idle" /\ committed' # committed
    BY DEF Closes
  <1>2. PICK u \in Txns : Arrive(u) \/ Step(u) \/ Abort(u) \/ Victim(u)
    BY <1>1 DEF Next, vars
  <1>3. u = t
    BY <1>1, <1>2, OnesStep
  <1>4. ~(Abort(t) \/ Victim(t))
    BY <1>1, RollbackStep DEF Abort, Victim
  <1>5. ~Arrive(t)
    BY <1>1 DEF Arrive, BeginRegister, BeginLogin, BeginRefresh, BeginLogout, BeginVerifyEmail,
                BeginReset, Begin
  <1> QED
    BY <1>1, <1>2, <1>3, <1>4, <1>5
       DEF Step, Register, RefuseRegister, Rehash, SetPassword, Spend, InsertToken

\* What a request commits, row by row.
LEMMA CommittedBy ==
    ASSUME SessionInv, NEW t \in Txns, Commit(t)
    PROVE  /\ AtWork(t) /\ ResetOK(t) /\ WindowOK(t)
           /\ \A r \in Rows : committed'[r] = IF owner[r] = t THEN db[r] ELSE committed[r]
           /\ req[t].user \in Emails /\ req[t].todo = {}
           /\ pc[t] = "commit"
  BY StoreStored, CommitEffect DEF Commit, SessionInv, SlotOK, AtWork, RequestRow

LEMMA AtMostOne ==
    ASSUME NEW S, \A x, y \in S : x = y PROVE Cardinality(S) <= 1
  <1>1. CASE S = {}
    BY <1>1, FS_EmptySet
  <1>2. CASE S # {}
    <2>1. PICK x : S = {x}
      BY <1>2
    <2> QED
      BY <2>1, FS_Singleton
  <1> QED
    BY <1>1, <1>2

-----------------------------------------------------------------------------
(* The theorems. *)

\* The inductive invariant holds in every state.
THEOREM SessionInvariance == Spec => []SessionInv
  BY SessionsInitially, SessionsInductive, PTL DEF Spec

\* Accounts, profiles and tokens have their types; no endpoint meets a vendor or
\* a worker without a profile, and no token lacks its account.
THEOREM SessionTypeCorrect == Spec => []SessionTypeOK
  <1>1. SessionInv => SessionTypeOK
    <2> SUFFICES ASSUME SessionInv PROVE SessionTypeOK
      OBVIOUS
    <2>1. DOMAIN db = Rows /\ DOMAIN committed = Rows
      BY DEF SessionInv, StoreInv, RowsOK
    <2>2. ASSUME NEW t \in Txns PROVE req[t] \in IF pc[t] = "idle" THEN {NoRow} ELSE RequestRow
      BY DEF SessionInv, SlotOK, AtWork
    <2>3. ASSUME NEW e \in Emails
          PROVE  /\ committed[Account(e)] \in AccountRow \cup {NoRow}
                 /\ committed[Profile(e)] \in ProfileRow \cup {NoRow}
                 /\ committed[Profile(e)] # NoRow <=>
                       committed[Account(e)] # NoRow /\ committed[Account(e)].role \in ProfileRow
      BY DEF SessionInv, StoreInv, RowsOK, ProfileFits
    <2>4. ASSUME NEW r \in Tokens, committed[r] # NoRow
          PROVE  committed[r] \in TokenRow /\ committed[Account(committed[r].user)] # NoRow
      BY <2>4 DEF SessionInv, StoreInv, RowsOK, TokenOK
    <2> QED
      BY <2>1, <2>2, <2>3, <2>4 DEF SessionTypeOK, SessionInv, StoreInv
  <1> QED
    BY <1>1, SessionInvariance, PTL

\* A refreshed session and its successor are never live together: the revocation
\* and the new row of refresh() are one transaction's, whoever else presents the token.
THEOREM OldSessionIsSpent == Spec => []RotatedAway
  <1>1. SessionInv => RotatedAway
    <2> SUFFICES ASSUME SessionInv, NEW n \in SessionIds, committed[Session(n)] # NoRow,
                        committed[Session(n)].from # NoRow
                 PROVE  committed[Session(committed[Session(n)].from)].spent
      BY DEF RotatedAway
    <2>1. TokenOK(Session(n)) /\ RotationOK(Session(n))
      BY RowKinds DEF SessionInv, StoreInv
    <2> QED
      BY <2>1 DEF TokenOK, RotationOK
  <1> QED
    BY <1>1, SessionInvariance, PTL

\* Of racing registrations of an email one commits.
THEOREM EmailIsTakenOnce == Spec => RegisteredOnce
  <1>1. ASSUME SessionInv, [Next]_vars, NEW t \in Txns, Closes(t), req[t].role # NoRow
        PROVE  committed[Account(req[t].user)] = NoRow
    BY <1>1, ClosesByCommit, CommittedBy DEF AtWork
  <1>2. SessionInv /\ [Next]_vars =>
            [\A t \in Txns :
                Closes(t) /\ req[t].role # NoRow => committed[Account(req[t].user)] = NoRow]_vars
    BY <1>1
  <1> QED
    BY <1>2, SessionInvariance, PTL DEF Spec, RegisteredOnce

\* An undisturbed reset leaves no session live and the password it was given,
\* in whatever order its updates were flushed.
THEOREM ResetIsThorough == Spec => ResetEndsSessions
  <1>1. ASSUME SessionInv, [Next]_vars, NEW t \in Txns, Closes(t), IsReset(t), t \notin disturbed
        PROVE  /\ LiveSessions(committed', req[t].user) = {}
               /\ committed'[Account(req[t].user)].password = req[t].password
    <2> DEFINE e == req[t].user
    <2>1. Commit(t)
      BY <1>1, ClosesByCommit
    <2>2. /\ \A r \in Rows : committed'[r] = IF owner[r] = t THEN db[r] ELSE committed[r]
          /\ e \in Emails /\ req[t].todo = {} /\ pc[t] = "commit" /\ ResetOK(t)
      BY <1>1, <2>1, CommittedBy
    <2>3. /\ Covers(t, LiveSessions(committed, e)) /\ Inserted(t) = {}
          /\ owner[Account(e)] = t /\ db[Account(e)].password = req[t].password
      BY <1>1, <2>2 DEF ResetOK
    <2>4. committed'[Account(e)].password = req[t].password
      BY <2>2, <2>3, RowKinds
    <2>5. ASSUME NEW r \in LiveSessions(committed', e) PROVE FALSE
      <3>1. /\ r \in Tokens /\ r \in Rows /\ \E n \in SessionIds : r = Session(n)
            /\ committed'[r] # NoRow /\ committed'[r].user = e /\ ~committed'[r].spent
        BY RowKinds DEF LiveSessions, Unspent
      <3>2. CASE owner[r] = t
        <4>1. committed[r] # NoRow /\ TokenOK(r) /\ committed'[r] = db[r]
          BY <1>1, <2>2, <2>3, <3>1, <3>2 DEF Inserted, SessionInv, StoreInv
        <4>2. r \in LiveSessions(committed, e)
          BY <1>1, <3>1, <4>1 DEF LiveSessions, Unspent, TokenOK, SessionInv, StoreInv, RowsOK, TokenRow
        <4> QED
          BY <2>2, <2>3, <3>1, <4>1, <4>2 DEF Covers
      <3>3. CASE owner[r] # t
        <4>1. r \in LiveSessions(committed, e)
          BY <2>2, <3>1, <3>3 DEF LiveSessions, Unspent
        <4> QED
          BY <2>2, <2>3, <3>3, <4>1 DEF Covers
      <3> QED
        BY <3>2, <3>3
    <2> QED
      BY <2>4, <2>5
  <1>2. SessionInv /\ [Next]_vars =>
            [\A t \in Txns :
                /\ Closes(t) /\ IsReset(t)
                /\ t \notin disturbed
                => /\ LiveSessions(committed', req[t].user) = {}
                   /\ committed'[Account(req[t].user)].password = req[t].password]_vars
    BY <1>1
  <1> QED
    BY <1>2, SessionInvariance, PTL DEF Spec, ResetEndsSessions

\* An undisturbed request for a reset leaves one window open at most: its own.
THEOREM WindowsAreClosed == Spec => OneWindow
  <1>1. ASSUME SessionInv, [Next]_vars, NEW t \in Txns, Closes(t), req[t].new = "window",
               t \notin disturbed
        PROVE  Cardinality(OpenWindows(committed', req[t].user)) <= 1
    <2> DEFINE e == req[t].user
    <2>1. Commit(t)
      BY <1>1, ClosesByCommit
    <2>2. /\ \A r \in Rows : committed'[r] = IF owner[r] = t THEN db[r] ELSE committed[r]
          /\ req[t].todo = {} /\ WindowOK(t)
      BY <1>1, <2>1, CommittedBy
    <2>3. Covers(t, OpenWindows(committed, e)) /\ \A r, s \in Inserted(t) : r = s
      BY <1>1, <2>2 DEF WindowOK
    <2>4. ASSUME NEW r \in OpenWindows(committed', e) PROVE r \in Inserted(t)
      <3>1. /\ r \in Tokens /\ r \in Rows /\ \E n \in WindowIds : r = Window(n)
            /\ committed'[r] # NoRow /\ committed'[r].user = e /\ ~committed'[r].spent
        BY RowKinds DEF OpenWindows, Unspent
      <3>2. TokenOK(r) /\ committed[r] \in TokenRow \cup {NoRow}
        BY <1>1, <3>1 DEF SessionInv, StoreInv, RowsOK
      <3>3. r \notin OpenWindows(committed, e)
        BY <2>2, <2>3, <3>1 DEF Covers
      <3>4. owner[r] = t /\ committed'[r] = db[r]
        BY <2>2, <3>1, <3>3 DEF OpenWindows, Unspent
      <3>5. committed[r] = NoRow
        BY <3>1, <3>2, <3>3, <3>4 DEF OpenWindows, Unspent, TokenOK, TokenRow
      <3> QED
        BY <3>1, <3>4, <3>5 DEF Inserted
    <2>5. \A x, y \in OpenWindows(committed', e) : x = y
      BY <2>3, <2>4
    <2> QED
      BY <2>5, AtMostOne
  <1>2. SessionInv /\ [Next]_vars =>
            [\A t \in Txns :
                /\ Closes(t) /\ req[t].new = "window"
                /\ t \notin disturbed
                => Cardinality(OpenWindows(committed', req[t].user)) <= 1]_vars
    BY <1>1
  <1> QED
    BY <1>2, SessionInvariance, PTL DEF Spec, OneWindow
=============================================================================
