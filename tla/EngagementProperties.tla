------------------------ MODULE EngagementProperties ------------------------
(***************************************************************************)
(* What is asked of Engagements.                                           *)
(***************************************************************************)
EXTENDS Engagements

Typed(r, v) == v \in (CASE r[1] = "job"     -> JobRow \cup {NoRow}
                        [] r[1] = "review"  -> ReviewRow \cup {NoRow}
                        [] r[1] = "profile" -> ProfileRow
                        [] r[1] = "skills"  -> SUBSET Skills)

\* Every variable has its type; average and number of reviews stay in the
\* columns' ranges whatever was aggregated.
EngagementTypeOK ==
    /\ DOMAIN db = Rows /\ DOMAIN committed = Rows
    /\ \A r \in Rows : Typed(r, db[r]) /\ Typed(r, committed[r])
    /\ owner \in [Rows -> Txns \cup {Nobody}]
    /\ pc \in [Txns -> {"idle", "hire", "move", "review", "rate", "profile", "unlink", "link", "commit"}]
    /\ \A t \in Txns : \A r \in Rows : seen[t][r] = NoRow \/ Typed(r, seen[t][r])

FiguresIn(profile) == [avg |-> profile.avg, count |-> profile.count]
TheReviewsOf(w) == ReviewsOf(committed, w)

\* "No reviewing work not done": behind every review there is a worker who
\* accepted the job and started it and a client who called it completed, in
\* whatever order the requests of the two overlapped and overwrote each other
\* (an admin may make any move).
ReviewedByConsent ==
    "admin" \notin Actors => \A j \in JobIds : committed[Review(j)] # NoRow => Lived(j) \subseteq notices

\* One review per job, for good: two reviews that both passed the check do not
\* replace one another, and the worker hears of a review exactly if it is there.
ReviewIsFinal ==
    [][\A j \in JobIds :
        /\ committed[Review(j)] # NoRow => committed'[Review(j)] = committed[Review(j)]
        /\ committed'[Review(j)] # NoRow <=> Addressed(Reviewed(j), "worker") \in notices']_vars

\* In these rows, a profile shows the mean of reviews its worker has got, counts no
\* more of them than there are, and some if there are any.
EarnedIn(rows, w) ==
    LET profile == rows[Profile(w)]
        all == ReviewsOf(rows, w)
    IN  /\ profile.count <= Cardinality(all)
        /\ profile.count = 0 <=> all = {}
        /\ \E some \in SUBSET all : profile.avg = FiguresOf(rows, w, some).avg

\* However reviews overlap and overwrite each other's figures, those on a profile
\* are earned: they never stand for a review that was rolled back.
RatingIsEarned == \A w \in Workers : EarnedIn(committed, w)

\* A request that saw all the reviews there are leaves the figures right, even if
\* earlier ones had left them wrong.
FreshRatingIsRight ==
    [][\A t \in Txns, w \in Workers :
        LET all == ReviewsOf(db, w)
        IN  /\ pc[t] = "rate" /\ pc'[t] = "commit"
            /\ seen[t][Job(req[t].job)].worker = w
            /\ all = ReviewsOf(seen[t], w)
            => FiguresIn(db'[Profile(w)]) = FiguresOf(db, w, all)]_vars

-----------------------------------------------------------------------------
(* What a comment of the code says and the code does not keep. *)

\* "The profile can never disagree with the reviews behind it, not even briefly."
RatingMatchesReviews ==
    \A w \in Workers : FiguresIn(committed[Profile(w)]) = FiguresOf(committed, w, TheReviewsOf(w))
=============================================================================
