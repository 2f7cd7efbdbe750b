------------------------------ MODULE Profiles ------------------------------
(***************************************************************************)
(* What workers say of themselves (modules/workers/service.py): the edits  *)
(* of a profile, whose row holds the figures of its reviews as well, and   *)
(* the replacement of a skill set, among the requests of Engagements.      *)
(*                                                                         *)
(* A worker's skills are one row here.  Their own rows would let two       *)
(* replacements insert different skills at once and then both commit, or   *)
(* lock them crosswise and one be rolled back: here the second one comes   *)
(* after the first and does the same.                                      *)
(***************************************************************************)
EXTENDS Engagements

CONSTANTS
    Writers,    \* the workers of the instance who edit their profiles
    SkillSets   \* the sets of skills they send

ASSUME ProfilesAssumption == Writers \subseteq Workers /\ SkillSets \subseteq SUBSET Skills

\* The handler returns without telling anybody.
FinishQuietly(t) ==
    /\ pc' = [pc EXCEPT ![t] = "commit"]
    /\ req' = [req EXCEPT ![t] = NoRow]
    /\ seen' = [seen EXCEPT ![t] = NothingSeen]
    /\ UNCHANGED <<outbox, notices>>

-----------------------------------------------------------------------------
(* update_profile. *)

BeginProfile(t, w, text) ==
    /\ committed[Profile(w)].headline # text
    /\ Begin(t, "profile", [worker |-> w, headline |-> text], {Profile(w)})

RewordedSlip(t, row) ==   \* every column, as it was read
    [seen[t][Profile(req[t].worker)] EXCEPT !.headline = req[t].headline]

\* The UPDATE names the columns that differ from what was read, on the latest version.
Reworded(t, row) == [row EXCEPT !.headline = req[t].headline]

EditProfile(t) ==
    LET r == Profile(req[t].worker)
    IN  /\ pc[t] = "profile"
        /\ WriteRows(t, [x \in {r} |-> Reworded(t, db[x])])
        /\ FinishQuietly(t)

-----------------------------------------------------------------------------
(* set_skills: the links that were read are deleted, then those asked for are *)
(* inserted.                                                                  *)

\* The next flush that has something to write.
Remaining(new) == IF new = {} THEN "commit" ELSE "link"

BeginSkills(t, w, new) ==
    LET old == committed[SkillsOf(w)]
    IN  /\ old # {} \/ new # {}
        /\ Begin(t, IF old # {} THEN "unlink" ELSE Remaining(new),
                 [worker |-> w, new |-> new], {SkillsOf(w)})

LinksReadSlip(t) == {}   \* the new set is added to the old one

LinksRead(t) == seen[t][SkillsOf(req[t].worker)]

\* DELETE by primary key; a link that is gone by now is no error.
Unlink(t) ==
    LET r == SkillsOf(req[t].worker)
    IN  /\ pc[t] = "unlink"
        /\ WriteRows(t, [x \in {r} |-> db[x] \ LinksRead(t)])
        /\ IF req[t].new = {}
           THEN FinishQuietly(t)
           ELSE /\ pc' = [pc EXCEPT ![t] = "link"]
                /\ UNCHANGED <<req, seen, outbox, notices>>

Link(t) ==
    LET r == SkillsOf(req[t].worker)
    IN  /\ pc[t] = "link"
        /\ req[t].new \cap db[r] = {}
        /\ WriteRows(t, [x \in {r} |-> db[x] \cup req[t].new])
        /\ FinishQuietly(t)

\* The primary key refuses a link another replacement has inserted since: it raises.
RefuseLink(t) ==
    LET r == SkillsOf(req[t].worker)
    IN  /\ pc[t] = "link"
        /\ Grantable(t, r)
        /\ req[t].new \cap db[r] # {}
        /\ Rollback(t)

-----------------------------------------------------------------------------

ProfileArrive(t) ==
    \E w \in Writers : \/ \E text \in Headlines : BeginProfile(t, w, text)
                       \/ \E new \in SkillSets : BeginSkills(t, w, new)

ProfileStep(t) == EditProfile(t) \/ Unlink(t) \/ Link(t) \/ RefuseLink(t)

ProfileNext == Next \/ \E t \in Txns : ProfileArrive(t) \/ ProfileStep(t)

ProfileSpec == Init /\ [][ProfileNext]_vars
=============================================================================
