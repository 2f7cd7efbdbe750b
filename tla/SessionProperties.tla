------------------------- MODULE SessionProperties -------------------------
(***************************************************************************)
(* What is asked of Sessions.                                              *)
(***************************************************************************)
EXTENDS Sessions

RequestRow == [user : Emails, password : Passwords \cup {NoRow}, role : Roles \cup {NoRow},
               todo : SUBSET Tokens, first : {"session", "window"},
               new : {"none", "session", "window"}, from : SessionIds \cup {NoRow}]

\* Every variable has its type; an account has the profile its role asks for,
\* so "no endpoint ever has to cope with a vendor or worker that has no
\* profile", and a token belongs to an account.
SessionTypeOK ==
    /\ DOMAIN db = Rows /\ DOMAIN committed = Rows
    /\ owner \in [Rows -> Txns \cup {Nobody}]
    /\ pc \in [Txns -> {"idle", "register", "rehash", "set", "spend", "insert", "commit"}]
    /\ \A t \in Txns : req[t] \in IF pc[t] = "idle" THEN {NoRow} ELSE RequestRow
    /\ disturbed \subseteq Txns
    /\ \A e \in Emails :
        /\ committed[Account(e)] \in AccountRow \cup {NoRow}
        /\ committed[Profile(e)] \in ProfileRow \cup {NoRow}
        /\ committed[Profile(e)] # NoRow <=>
              committed[Account(e)] # NoRow /\ committed[Account(e)].role \in ProfileRow
    /\ \A r \in Tokens : committed[r] # NoRow =>
        committed[r] \in TokenRow /\ committed[Account(committed[r].user)] # NoRow

-----------------------------------------------------------------------------
(* Safety. *)

\* A session and the one it was rotated into are never live together, whatever
\* fails between the two statements and whoever else presents the token.
RotatedAway ==
    \A n \in SessionIds :
        committed[Session(n)] # NoRow /\ committed[Session(n)].from # NoRow
            => committed[Session(committed[Session(n)].from)].spent

Closes(t) == pc[t] = "commit" /\ pc'[t] = "idle" /\ committed' # committed

\* Of two registrations of one email that both found it free, one commits.
RegisteredOnce ==
    [][\A t \in Txns :
        Closes(t) /\ req[t].role # NoRow => committed[Account(req[t].user)] = NoRow]_vars

IsReset(t) == req[t].new = "none" /\ req[t].password # NoRow

\* "Completing the reset revokes every existing session": true of a reset no
\* other request on the account committed beside, however the flush orders its
\* tables; and the account then has the password that was asked for.
ResetEndsSessions ==
    [][\A t \in Txns :
        /\ Closes(t) /\ IsReset(t)
        /\ t \notin disturbed
        => /\ LiveSessions(committed', req[t].user) = {}
           /\ committed'[Account(req[t].user)].password = req[t].password]_vars

\* "Any earlier unused token is invalidated, leaving exactly one open window per
\* account": true when no other request on the account committed beside.
OneWindow ==
    [][\A t \in Txns :
        /\ Closes(t) /\ req[t].new = "window"
        /\ t \notin disturbed
        => Cardinality(OpenWindows(committed', req[t].user)) <= 1]_vars

\* Every request ends, although a refresh or the opening of a window (tokens, then
\* the account) and a reset (the account, then tokens) lock in opposite orders.
SessionRequestsEnd == \A t \in Txns : pc[t] # "idle" ~> pc[t] = "idle"

-----------------------------------------------------------------------------
(* The inductive invariant behind the safety properties. *)

\* An account has a profile exactly if its role asks for one.
ProfileFits(rows, e) ==
    rows[Profile(e)] # NoRow <=> rows[Account(e)] # NoRow /\ rows[Account(e)].role \in ProfileRow

RowsOK(rows) ==
    /\ rows = [r \in Rows |-> rows[r]]
    /\ \A e \in Emails : /\ rows[Account(e)] \in AccountRow \cup {NoRow}
                         /\ rows[Profile(e)] \in ProfileRow \cup {NoRow}
                         /\ ProfileFits(rows, e)
    /\ \A r \in Tokens : rows[r] \in TokenRow \cup {NoRow}

\* An account and its profile appear together; neither is deleted, and no role changes.
AccountOK(e) ==
    IF committed[Account(e)] = NoRow
    THEN db[Profile(e)] # NoRow => owner[Profile(e)] = owner[Account(e)]
    ELSE /\ db[Account(e)] # NoRow
         /\ db[Account(e)].role = committed[Account(e)].role
         /\ db[Profile(e)] = committed[Profile(e)]

\* A committed token stays its account's, and spent once it is; one that is not
\* committed goes with its account if that is not committed either.
TokenOK(r) ==
    /\ committed[r] # NoRow =>
          /\ db[r] # NoRow
          /\ db[r].user = committed[r].user
          /\ db[r].from = committed[r].from
          /\ committed[r].spent => db[r].spent
          /\ committed[Account(committed[r].user)] # NoRow
    /\ db[r] # NoRow =>
          LET a == Account(db[r].user)
          IN  db[a] # NoRow /\ (committed[a] # NoRow \/ owner[a] = owner[r])

\* A token that another was rotated from is spent, in the same transaction at the latest.
RotationOK(r) ==
    db[r] # NoRow /\ db[r].from # NoRow =>
        LET s == Session(db[r].from)
        IN  /\ committed[s] # NoRow /\ db[s].spent
            /\ committed[s].spent \/ (owner[s] = owner[r] /\ committed[r] = NoRow)

StoreInv ==
    /\ RowsOK(db) /\ RowsOK(committed)
    /\ owner \in [Rows -> Txns \cup {Nobody}]
    /\ UnlockedIsCommitted
    /\ \A e \in Emails : AccountOK(e)
    /\ \A r \in Tokens : TokenOK(r) /\ RotationOK(r)

\* The tokens a request has inserted.
Inserted(t) == {r \in Tokens : owner[r] = t /\ committed[r] = NoRow}

\* What a request relies on, by the step it is at.
AtWork(t) ==
    LET e == req[t].user
    IN  /\ req[t] \in RequestRow
        /\ \A r \in req[t].todo : committed[r] # NoRow /\ committed[r].user = e
        /\ pc[t] \in {"set", "spend"} \/ req[t].todo = {}
        /\ pc[t] # "commit" => Inserted(t) = {}
        /\ req[t].role = NoRow => committed[Account(e)] # NoRow
        /\ req[t].role # NoRow =>
              \/ pc[t] = "register" /\ req[t].password \in Passwords
              \/ pc[t] = "commit" /\ owner[Account(e)] = t /\ committed[Account(e)] = NoRow
        /\ pc[t] = "register" => req[t].role # NoRow
        /\ pc[t] \in {"rehash", "set"} => req[t].password \in Passwords
        /\ pc[t] = "set" => req[t].new = "none"
        /\ pc[t] \in {"register", "rehash"} => req[t].new = "session"
        /\ pc[t] = "insert" => req[t].new # "none"
        /\ req[t].from # NoRow =>
              \/ pc[t] = "spend" /\ req[t].new = "session" /\ req[t].todo = {Session(req[t].from)}
              \/ pc[t] = "insert" /\ committed[Session(req[t].from)] # NoRow
                                  /\ owner[Session(req[t].from)] = t /\ db[Session(req[t].from)].spent
              \/ pc[t] = "commit"

\* All a request holds is its account's.
HoldsOwn(t) ==
    /\ \A e \in Emails : owner[Account(e)] = t \/ owner[Profile(e)] = t => e = req[t].user
    /\ \A r \in Tokens : owner[r] = t => db[r] # NoRow /\ db[r].user = req[t].user

\* What a request has spent, or is about to.
Covers(t, tokens) == \A r \in tokens : r \in req[t].todo \/ (owner[r] = t /\ db[r].spent)

\* A reset nobody disturbed has all live sessions of the account in hand.
ResetOK(t) ==
    IsReset(t) /\ t \notin disturbed =>
        /\ Covers(t, LiveSessions(committed, req[t].user))
        /\ Inserted(t) = {}
        /\ pc[t] # "set" => /\ owner[Account(req[t].user)] = t
                            /\ db[Account(req[t].user)].password = req[t].password

\* A new window nobody disturbed closes all others.
WindowOK(t) ==
    req[t].new = "window" /\ t \notin disturbed =>
        /\ Covers(t, OpenWindows(committed, req[t].user))
        /\ \A r, s \in Inserted(t) : r = s

SlotOK(t) ==
    IF pc[t] = "idle"
    THEN req[t] = NoRow /\ t \notin disturbed /\ \A r \in Rows : owner[r] # t
    ELSE AtWork(t) /\ HoldsOwn(t) /\ ResetOK(t) /\ WindowOK(t)

SessionInv ==
    /\ StoreInv
    /\ pc \in [Txns -> {"idle", "register", "rehash", "set", "spend", "insert", "commit"}]
    /\ req = [t \in Txns |-> req[t]]
    /\ disturbed \subseteq Txns
    /\ \A t \in Txns : SlotOK(t)

-----------------------------------------------------------------------------
(* What a comment of the code says and the code does not keep. *)

\* "A short-lived, single-use token ties step two to a completed step one, so
\* the password cannot be set by a request that skipped the lookup": a committed
\* password changes only together with a window that is used.
PasswordSetByWindow ==
    [][\A e \in Emails :
        /\ committed[Account(e)] # NoRow
        /\ committed'[Account(e)].password # committed[Account(e)].password
        => OpenWindows(committed, e) \ OpenWindows(committed', e) # {}]_vars
=============================================================================
