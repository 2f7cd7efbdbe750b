\* Two slots, one email, whose account may be from before the hash got stronger.
SPECIFICATION LiveSpec
CONSTANTS
    t1 = t1  t2 = t2  ann = ann  old = old  new = new
    Nobody = Nobody  NoRow = NoRow
    Txns = {t1, t2}
    Emails = {ann}
    Passwords = {old, new}
    Roles = {"WORKER"}
    SessionIds = {1, 2}
    WindowIds = {1, 2}
    Veterans = {ann}
    OldPassword = old
INVARIANTS SessionTypeOK RotatedAway
PROPERTIES RegisteredOnce ResetEndsSessions OneWindow SessionRequestsEnd
\* Ids are finite: when all are used up, nothing is left to do.
CHECK_DEADLOCK FALSE
