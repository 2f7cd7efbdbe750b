------------------------------- MODULE InnoDB -------------------------------
(***************************************************************************)
(* The database as a request of the API meets it (app/db/session.py): one  *)
(* session, hence one MySQL transaction, per request; committed when the   *)
(* handler returns and rolled back when anything is raised.  InnoDB runs   *)
(* at its default REPEATABLE READ level, because the engine sets no other: *)
(*                                                                         *)
(*   - a plain SELECT reads the view the transaction opened with its first *)
(*     plain SELECT (the committed rows of that moment) plus the           *)
(*     transaction's own writes, and takes no lock;                        *)
(*   - SELECT ... FOR UPDATE, INSERT, UPDATE and DELETE act on the latest  *)
(*     version of a row and keep the row's exclusive lock until the end of *)
(*     the transaction, whatever the view said of that row;                *)
(*   - transactions that wait for each other in a circle are resolved by   *)
(*     rolling one of them back.                                           *)
(*                                                                         *)
(* db holds the latest version of every row, committed the latest version  *)
(* that is committed, owner who holds the row's exclusive lock.  A row     *)
(* that does not exist has the value NoRow.                                *)
(***************************************************************************)
CONSTANTS Txns,      \* transaction slots: a connection serves one request after another
          Nobody,    \* the owner of an unlocked row
          NoRow      \* the value of a row that does not exist

ASSUME NobodyIsNoTxn == Nobody \notin Txns

VARIABLES db, committed, owner

store == <<db, committed, owner>>

InitStore(rows) ==
    /\ db = rows
    /\ committed = rows
    /\ owner = [r \in DOMAIN rows |-> Nobody]

\* The view a transaction opens: the committed version of the rows it will read.
ReadView(rows) == [r \in DOMAIN committed |-> IF r \in rows THEN committed[r] ELSE NoRow]

\* Whether t gets the exclusive lock of r at once.
Grantable(t, r) == owner[r] \in {t, Nobody}

\* SELECT ... FOR UPDATE of one row.
LockRow(t, r) ==
    /\ Grantable(t, r)
    /\ owner' = [owner EXCEPT ![r] = t]
    /\ UNCHANGED <<db, committed>>

\* INSERT, UPDATE and DELETE: new gives the written rows their next versions.
WriteRows(t, new) ==
    /\ \A r \in DOMAIN new : Grantable(t, r)
    /\ db' = [r \in DOMAIN db |-> IF r \in DOMAIN new THEN new[r] ELSE db[r]]
    /\ owner' = [r \in DOMAIN owner |-> IF r \in DOMAIN new THEN t ELSE owner[r]]
    /\ UNCHANGED committed

Release(t) == owner' = [r \in DOMAIN owner |-> IF owner[r] = t THEN Nobody ELSE owner[r]]

CommitTxn(t) ==
    /\ committed' = [r \in DOMAIN committed |-> IF owner[r] = t THEN db[r] ELSE committed[r]]
    /\ Release(t)
    /\ UNCHANGED db

RollbackTxn(t) ==
    /\ db' = [r \in DOMAIN db |-> IF owner[r] = t THEN committed[r] ELSE db[r]]
    /\ Release(t)
    /\ UNCHANGED committed

\* t lies on a circle of the relation waits, the pairs <<waiting, holding>>.  A
\* transaction waits for one other at a time, or for several that wait for each
\* other, so every member of S is on a circle.
OnCycle(t, waits) ==
    \E S \in SUBSET Txns :
        /\ t \in S
        /\ \A u \in S : (\E v \in S : <<u, v>> \in waits) /\ (\E v \in S : <<v, u>> \in waits)

\* What the locks are for: a version nobody holds is a committed one.
UnlockedIsCommitted == \A r \in DOMAIN db : owner[r] = Nobody => db[r] = committed[r]
=============================================================================
