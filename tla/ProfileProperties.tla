-------------------------- MODULE ProfileProperties --------------------------
(***************************************************************************)
(* What is asked of Profiles.                                              *)
(***************************************************************************)
EXTENDS Profiles, EngagementProperties

\* A worker who edits the profile while reviews come in loses neither: the edit
\* leaves the figures as the last review wrote them, and a review the headline.
EditsKeepFigures ==
    [][\A t \in Txns, w \in Workers :
        LET old == db[Profile(w)]
            new == db'[Profile(w)]
        IN  /\ pc[t] = "profile" /\ pc'[t] = "commit" => FiguresIn(new) = FiguresIn(old)
            /\ pc[t] = "rate" /\ pc'[t] = "commit" => new.headline = old.headline]_vars

\* "Replace the worker's skill set wholesale": a replacement that read the set
\* its locks then found there leaves exactly the skills it was sent.
FreshSkillsAreWhole ==
    [][\A t \in Txns :
        LET r == SkillsOf(req[t].worker)
        IN  /\ pc[t] \in {"unlink", "link"} /\ pc'[t] = "commit"
            /\ committed[r] = seen[t][r]
            => db'[r] = req[t].new]_vars

-----------------------------------------------------------------------------
(* The inductive invariant behind ReviewedByConsent and the action properties. *)

\* What has been told of a job that came to a status by the moves of its parties.
Told(j, s) ==
    LET asked == Addressed(Asked(j), "worker")
        accepted == Addressed(Became(j, "ACCEPTED"), "client")
        started == Addressed(Became(j, "IN_PROGRESS"), "client")
    IN  CASE s = "PENDING"     -> {asked}
          [] s = "ACCEPTED"    -> {asked, accepted}
          [] s = "IN_PROGRESS" -> {asked, accepted, started}
          [] s = "COMPLETED"   -> Lived(j)
          [] OTHER             -> {}

\* What Move tells, and whom.
NewsOf(ask) ==
    Addressed(Became(ask.job, ask.to), IF ask.actor = "client" THEN "worker" ELSE "client")

ReviewNews(j) == Addressed(Reviewed(j), "worker")

Consent == "admin" \notin Actors

\* Jobs are told of with the step that moves them; a review is written once, by a
\* request that has the notification to send, or still has to rate.
JobOK(j) ==
    /\ committed[Job(j)] # NoRow => db[Job(j)] # NoRow
    /\ Consent /\ committed[Job(j)] # NoRow => Told(j, committed[Job(j)].status) \subseteq notices
    /\ \A t \in Txns : owner[Job(j)] = t =>
          /\ db[Job(j)] # NoRow
          /\ Consent => Told(j, db[Job(j)].status) \subseteq notices \cup outbox[t]
    /\ Consent /\ db[Review(j)] # NoRow => Lived(j) \subseteq notices
    /\ committed[Review(j)] # NoRow <=> ReviewNews(j) \in notices
    /\ owner[Review(j)] # Nobody => db[Review(j)] # NoRow /\ committed[Review(j)] = NoRow

FiguresAndText(row) == row = [avg |-> row.avg, count |-> row.count, headline |-> row.headline]

StoreInv ==
    /\ db = [r \in Rows |-> db[r]]
    /\ committed = [r \in Rows |-> committed[r]]
    /\ owner \in [Rows -> Txns \cup {Nobody}]
    /\ UnlockedIsCommitted
    /\ \A j \in JobIds : /\ db[Job(j)] \in JobRow \cup {NoRow}
                         /\ committed[Job(j)] \in JobRow \cup {NoRow}
    /\ \A w \in Workers : FiguresAndText(db[Profile(w)]) /\ FiguresAndText(committed[Profile(w)])

\* A replacement that still has to insert links has deleted those it read, if any.
SkillsOK(t) ==
    LET r == SkillsOf(req[t].worker)
    IN  /\ req[t].worker \in Workers
        /\ pc[t] = "unlink" => owner[r] # t
        /\ pc[t] = "link" => IF owner[r] = t THEN db[r] = committed[r] \ seen[t][r]
                                             ELSE seen[t][r] = {}

\* What a request relies on, by the step it is at.
RequestOK(t) ==
    /\ pc[t] = "idle" => \A r \in Rows : owner[r] # t
    /\ pc[t] # "commit" => outbox[t] = {}
    /\ pc[t] = "hire" => req[t] \in [client : Clients, worker : Workers]
    /\ pc[t] = "move" => /\ req[t] \in [job : JobIds, actor : Actors, to : JobStatus]
                         /\ committed[Job(req[t].job)] # NoRow
                         /\ Consent => Told(req[t].job, req[t].to) \subseteq notices \cup {NewsOf(req[t])}
    /\ pc[t] \in {"review", "rate"} => /\ req[t] \in [job : JobIds, rating : 1..5]
                                       /\ seen[t][Job(req[t].job)] \in JobRow
                                       /\ committed[Job(req[t].job)] # NoRow
                                       /\ Consent => Lived(req[t].job) \subseteq notices
    /\ \A j \in JobIds :
          owner[Review(j)] = t <=> \/ pc[t] = "rate" /\ j = req[t].job
                                   \/ pc[t] = "commit" /\ ReviewNews(j) \in outbox[t]
    /\ pc[t] = "profile" => req[t].worker \in Workers
    /\ pc[t] \in {"unlink", "link"} => SkillsOK(t)

\* Every slot has a step, a request, a session and its notifications.
SlotsOK ==
    /\ pc = [t \in Txns |-> pc[t]]
    /\ req = [t \in Txns |-> req[t]]
    /\ seen = [t \in Txns |-> [r \in Rows |-> seen[t][r]]]
    /\ outbox = [t \in Txns |-> outbox[t]]

ProfileInv ==
    /\ StoreInv /\ SlotsOK
    /\ \A j \in JobIds : JobOK(j)
    /\ \A t \in Txns : RequestOK(t)

-----------------------------------------------------------------------------
(* The inductive invariant behind EngagementTypeOK.                          *)

AsksTyped(t) ==
    /\ pc[t] = "profile" => req[t].headline \in Headlines
    /\ pc[t] \in {"unlink", "link"} => req[t].new \subseteq Skills

TypeInv == EngagementTypeOK /\ \A t \in Txns : AsksTyped(t)

-----------------------------------------------------------------------------
(* The inductive invariant behind RatingIsEarned and FreshRatingIsRight.     *)

\* The rows as the commit of t would leave them.
Left(t) == [r \in Rows |-> IF owner[r] = t THEN db[r] ELSE committed[r]]

\* Who holds a profile is done, leaves figures that are earned, and others than
\* there were only with a review; and who is done with a review holds the profile.
HolderOK(t) ==
    /\ \A w \in Workers : owner[Profile(w)] = t =>
          /\ pc[t] = "commit"
          /\ EarnedIn(Left(t), w)
          /\ FiguresIn(db[Profile(w)]) # FiguresIn(committed[Profile(w)]) =>
                \E j \in JobIds : owner[Review(j)] = t /\ db[Review(j)].worker = w
    /\ \A j \in JobIds : owner[Review(j)] = t /\ pc[t] = "commit" =>
          db[Review(j)].worker \in Workers /\ owner[Profile(db[Review(j)].worker)] = t

\* The session of a review shows reviews that are there, its own included, and
\* figures that stand unless it misses a review.
ReviewerOK(t) ==
    pc[t] \in {"review", "rate"} =>
        LET view == seen[t]
            j == req[t].job
            w == view[Job(j)].worker
        IN  /\ \A i \in JobIds : view[Review(i)] # NoRow =>
                  view[Review(i)] = IF pc[t] = "rate" /\ i = j THEN db[Review(i)] ELSE committed[Review(i)]
            /\ pc[t] = "rate" => view[Review(j)] # NoRow /\ view[Review(j)].worker = w
            /\ view[Profile(w)] \in ProfileRow
            /\ view[Profile(w)].count # 0 => ReviewsOf(committed, w) # {}
            /\ \/ FiguresIn(committed[Profile(w)]) = FiguresIn(view[Profile(w)])
               \/ ~(ReviewsOf(committed, w) \subseteq ReviewsOf(view, w))

RatingInv ==
    /\ RatingIsEarned
    /\ \A t \in Txns : HolderOK(t) /\ ReviewerOK(t)
=============================================================================
