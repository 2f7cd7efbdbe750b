------------------------------ MODULE Sessions ------------------------------
(***************************************************************************)
(* Accounts, sessions and password resets (modules/auth/service.py over    *)
(* modules/users/models.py) as concurrent requests, each in its own        *)
(* transaction of InnoDB.  None of them is authenticated, so the view of a *)
(* request is opened by the first SELECT of its handler.                   *)
(*                                                                         *)
(* A session is a row of refresh_tokens, a window a row of                 *)
(* password_reset_tokens.  A token is spent once its row has revoked_at or *)
(* used_at; only the digest of a token is stored, and who holds a token    *)
(* presents it, so a token is its row's id here.  One that has expired is   *)
(* refused, which leaves no trace: it is a token nobody presents any more. *)
(***************************************************************************)
EXTENDS InnoDB, Naturals, FiniteSets, TLC

CONSTANTS
    Emails, Passwords,
    Roles,         \* the roles its accounts register with
    SessionIds, WindowIds,
    Veterans,      \* clients there may be at the start, hashed with older parameters
    OldPassword    \* their password

ASSUME SessionsAssumption ==
    /\ SessionIds \subseteq Nat
    /\ WindowIds \subseteq Nat
    /\ Roles \subseteq {"CLIENT", "VENDOR", "WORKER"}   \* admins do not register
    /\ Veterans \subseteq Emails
    /\ OldPassword \in Passwords
    /\ NoRow \notin Roles /\ NoRow \notin SessionIds

VARIABLES
    pc,        \* what the request of each slot does next; "idle": no request
    req,       \* what it was asked, and the tokens it still has to spend
    disturbed  \* history: the slots whose account another request changed meanwhile

vars == <<db, committed, owner, pc, req, disturbed>>

-----------------------------------------------------------------------------
(* The rows and their columns. *)

Account(e) == <<"account", e>>      \* users.email is unique: an account is keyed by it
Profile(e) == <<"profile", e>>      \* of a vendor or a worker, keyed by the account
Session(n) == <<"session", n>>
Window(n) == <<"window", n>>

Tokens == {Session(n) : n \in SessionIds} \cup {Window(n) : n \in WindowIds}
Rows == {Account(e) : e \in Emails} \cup {Profile(e) : e \in Emails} \cup Tokens

\* outdated: the hash was made with weaker parameters than those in force (needs_rehash).
AccountRow == [password : Passwords, outdated : BOOLEAN, role : Roles \cup {"CLIENT"}]
ProfileRow == {"VENDOR", "WORKER"}
\* from is no column: the session this one was rotated from, for the properties.
TokenRow == [user : Emails, spent : BOOLEAN, from : SessionIds \cup {NoRow}]

ASSUME NoRowIsNoValue == NoRow \notin AccountRow \cup ProfileRow \cup TokenRow

InitialRows(there) ==
    [r \in Rows |-> IF r \in {Account(e) : e \in there}
                    THEN [password |-> OldPassword, outdated |-> TRUE, role |-> "CLIENT"]
                    ELSE NoRow]

\* The sessions, or the windows, of an account that are not spent yet.
Unspent(rows, tokens, e) == {r \in tokens : rows[r] # NoRow /\ rows[r].user = e /\ ~rows[r].spent}
LiveSessions(rows, e) == Unspent(rows, {Session(n) : n \in SessionIds}, e)
OpenWindows(rows, e) == Unspent(rows, {Window(n) : n \in WindowIds}, e)

-----------------------------------------------------------------------------
(* Locks.  Inserting a token takes a shared lock on its account (foreign key), *)
(* which is held with the new row: it bars writers of the account, not other   *)
(* inserts.                                                                    *)

Sharing(e) ==
    {owner[r] : r \in {x \in Tokens : committed[x] = NoRow /\ db[x] # NoRow /\ db[x].user = e}}

\* Those a write of the row has to wait for.
Holding(r) == {owner[r]} \cup IF r[1] = "account" THEN Sharing(r[2]) ELSE {}

Writable(t, r) == Holding(r) \subseteq {t, Nobody}

-----------------------------------------------------------------------------
(* The life of a request. *)

Init ==
    /\ \E there \in SUBSET Veterans : InitStore(InitialRows(there))
    /\ pc = [t \in Txns |-> "idle"]
    /\ req = [t \in Txns |-> NoRow]
    /\ disturbed = {}

\* A request is about the account of an email; it spends the tokens of todo, those
\* of the table first before others, and then inserts a row into the table new
\* ("none": no row).
Ask(e, todo, new) ==
    [user |-> e, password |-> NoRow, role |-> NoRow, todo |-> todo, first |-> "session",
     new |-> new, from |-> NoRow]

Begin(t, next, what) ==
    /\ pc[t] = "idle"
    /\ pc' = [pc EXCEPT ![t] = next]
    /\ req' = [req EXCEPT ![t] = what]
    /\ UNCHANGED <<db, committed, owner, disturbed>>

Forget(t) ==
    /\ pc' = [pc EXCEPT ![t] = "idle"]
    /\ req' = [req EXCEPT ![t] = NoRow]

Rollback(t) == RollbackTxn(t) /\ Forget(t) /\ disturbed' = disturbed \ {t}

Commit(t) ==
    /\ pc[t] = "commit"
    /\ CommitTxn(t)
    /\ disturbed' = (disturbed \ {t})
            \cup {u \in Txns \ {t} : pc[u] # "idle" /\ req[u].user = req[t].user}
    /\ Forget(t)

Abort(t) == pc[t] # "idle" /\ Rollback(t)

\* SessionIds and WindowIds bound the tokens of the instance: a request that
\* issues one starts only with an id left for it.
Free(table) == {r \in Tokens : r[1] = table /\ db[r] = NoRow}
Spare(table) ==
    Cardinality(Free(table)) > Cardinality({u \in Txns : pc[u] \notin {"idle", "commit"}
                                                         /\ req[u].new = table})

\* AUTO_INCREMENT: the next id.
NextToken(table) == {r \in Free(table) : \A s \in Free(table) : r[2] <= s[2]}

-----------------------------------------------------------------------------
(* Registration: the account, its profile and its first session. *)

BeginRegister(t, e, pw, role) ==
    /\ committed[Account(e)] = NoRow
    /\ Spare("session")
    /\ Begin(t, "register", [Ask(e, {}, "session") EXCEPT !.password = pw, !.role = role])

TakenSlip(e) == FALSE   \* no unique index on the email

\* The unique index, which looks at the latest version.
Taken(e) == db[Account(e)] # NoRow

NewProfileSlip(e, role) == {Profile(e) : x \in {role} \cap {"VENDOR"}}   \* vendors only

NewProfile(e, role) == {Profile(e) : x \in {role} \ {"CLIENT"}}

Register(t) ==
    LET e == req[t].user
        role == req[t].role
    IN  /\ pc[t] = "register"
        /\ ~Taken(e)
        /\ \E s \in NextToken("session") :
            WriteRows(t, [r \in {Account(e), s} \cup NewProfile(e, role) |->
                CASE r[1] = "account" -> [password |-> req[t].password, outdated |-> FALSE, role |-> role]
                  [] r[1] = "profile" -> role
                  [] r[1] = "session" -> [user |-> e, spent |-> FALSE, from |-> NoRow]])
        /\ pc' = [pc EXCEPT ![t] = "commit"]
        /\ UNCHANGED <<req, disturbed>>

\* Somebody registered the email since the check: the insert raises.
RefuseRegister(t) ==
    /\ pc[t] = "register"
    /\ Grantable(t, Account(req[t].user))
    /\ Taken(req[t].user)
    /\ Rollback(t)

-----------------------------------------------------------------------------
(* Login. *)

BeginLogin(t, e, pw) ==
    /\ committed[Account(e)] # NoRow
    /\ committed[Account(e)].password = pw
    /\ Spare("session")
    /\ Begin(t, IF committed[Account(e)].outdated THEN "rehash" ELSE "insert",
             [Ask(e, {}, "session") EXCEPT !.password = pw])

\* The password that was given is hashed again, over whatever the row holds by now.
Rehash(t) ==
    LET r == Account(req[t].user)
    IN  /\ pc[t] = "rehash"
        /\ Writable(t, r)
        /\ WriteRows(t, [x \in {r} |-> [db[x] EXCEPT !.password = req[t].password, !.outdated = FALSE]])
        /\ pc' = [pc EXCEPT ![t] = "insert"]
        /\ UNCHANGED <<req, disturbed>>

-----------------------------------------------------------------------------
(* Refresh, logout, and the two steps of a reset. *)

Valid(r) == committed[r] # NoRow /\ ~committed[r].spent

ToRotateSlip(r) == {}   \* a new session, and the old one as it was

ToRotate(r) == {r}

Pending(todo, new) == IF todo # {} THEN "spend" ELSE IF new # "none" THEN "insert" ELSE "commit"

BeginRefresh(t, n) ==
    LET todo == ToRotate(Session(n))
    IN  /\ Valid(Session(n))
        /\ Spare("session")
        /\ Begin(t, Pending(todo, "session"),
                 [Ask(committed[Session(n)].user, todo, "session") EXCEPT !.from = n])

BeginLogout(t, n) ==
    /\ Valid(Session(n))
    /\ Begin(t, "spend", Ask(committed[Session(n)].user, {Session(n)}, "none"))

OutstandingSlip(e) == {}   \* earlier windows stay open

Outstanding(e) == OpenWindows(committed, e)

BeginVerifyEmail(t, e) ==
    LET todo == Outstanding(e)
    IN  /\ committed[Account(e)] # NoRow
        /\ Spare("window")
        /\ Begin(t, Pending(todo, "window"), Ask(e, todo, "window"))

ToRevokeSlip(e) ==   \* scalar() for scalars().all()
    LET live == LiveSessions(committed, e)
    IN  {r \in live : \A s \in live : r[2] <= s[2]}

ToRevoke(e) == LiveSessions(committed, e)

\* The two tables do not depend on each other, so the flush takes either one first.
BeginReset(t, n, pw) ==
    LET w == Window(n)
        e == committed[w].user
        todo == {w} \cup ToRevoke(e)
    IN  /\ Valid(w)
        /\ \E table \in {r[1] : r \in todo} :
              Begin(t, "set", [Ask(e, todo, "none") EXCEPT !.password = pw, !.first = table])

\* UPDATE users SET password_hash.
SetPassword(t) ==
    LET r == Account(req[t].user)
    IN  /\ pc[t] = "set"
        /\ Writable(t, r)
        /\ WriteRows(t, [x \in {r} |-> [db[x] EXCEPT !.password = req[t].password, !.outdated = FALSE]])
        /\ pc' = [pc EXCEPT ![t] = "spend"]
        /\ UNCHANGED <<req, disturbed>>

\* A flush updates one table after the other, each in the order of its keys.
Ahead(t, r, s) == IF r[1] = s[1] THEN r[2] <= s[2] ELSE r[1] = req[t].first
NextToSpend(t) == {r \in req[t].todo : \A s \in req[t].todo : Ahead(t, r, s)}

\* UPDATE refresh_tokens SET revoked_at, or password_reset_tokens SET used_at.
Spend(t) ==
    /\ pc[t] = "spend"
    /\ \E r \in NextToSpend(t) :
        LET left == req[t].todo \ {r}
        IN  /\ WriteRows(t, [x \in {r} |-> [db[x] EXCEPT !.spent = TRUE]])
            /\ req' = [req EXCEPT ![t].todo = left]
            /\ pc' = [pc EXCEPT ![t] = Pending(left, req[t].new)]
    /\ UNCHANGED disturbed

\* _issue_tokens, or the new window: INSERT, with its shared lock on the account.
InsertToken(t) ==
    /\ pc[t] = "insert"
    /\ Grantable(t, Account(req[t].user))
    /\ \E r \in NextToken(req[t].new) :
        WriteRows(t, [x \in {r} |-> [user |-> req[t].user, spent |-> FALSE, from |-> req[t].from]])
    /\ pc' = [pc EXCEPT ![t] = "commit"]
    /\ UNCHANGED <<req, disturbed>>

-----------------------------------------------------------------------------
(* Waiting for locks. *)

\* The slots the next step of t may have to wait for.
Blockers(t) ==
    CASE pc[t] \in {"rehash", "set"}      -> Holding(Account(req[t].user))
      [] pc[t] \in {"register", "insert"} -> {owner[Account(req[t].user)]}
      [] pc[t] = "spend"                  -> {owner[r] : r \in NextToSpend(t)}
      [] OTHER                            -> {}

WaitsFor == {w \in Txns \X Txns : w[1] # w[2] /\ w[2] \in Blockers(w[1])}

VictimSlip(t) == FALSE   \* innodb_deadlock_detect = OFF

Victim(t) == OnCycle(t, WaitsFor) /\ Rollback(t)

-----------------------------------------------------------------------------

Arrive(t) ==
    \/ \E e \in Emails, pw \in Passwords : \/ \E role \in Roles : BeginRegister(t, e, pw, role)
                                           \/ BeginLogin(t, e, pw)
    \/ \E n \in SessionIds : BeginRefresh(t, n) \/ BeginLogout(t, n)
    \/ \E e \in Emails : BeginVerifyEmail(t, e)
    \/ \E n \in WindowIds, pw \in Passwords : BeginReset(t, n, pw)

Step(t) ==
    \/ Register(t) \/ RefuseRegister(t)
    \/ Rehash(t) \/ SetPassword(t) \/ Spend(t) \/ InsertToken(t)
    \/ Commit(t)

Next == \E t \in Txns : Arrive(t) \/ Step(t) \/ Abort(t) \/ Victim(t)

Spec == Init /\ [][Next]_vars

\* As in Orders.
Fairness == \A t \in Txns : SF_vars(Step(t)) /\ WF_vars(Victim(t))

LiveSpec == Spec /\ Fairness
=============================================================================
