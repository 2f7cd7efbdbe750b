----------------------------- MODULE Engagements -----------------------------
(***************************************************************************)
(* Hiring and rating (modules/jobs/service.py, modules/reviews/service.py, *)
(* recalculate_rating of modules/workers/service.py): a client asks a      *)
(* worker for a job, the two move it through its life, and the client      *)
(* reviews it once it is completed, which rewrites the figures on the      *)
(* worker's profile.  Requests run as in Orders: one transaction of InnoDB *)
(* each, cut at the statements that take row locks.                        *)
(***************************************************************************)
EXTENDS InnoDB, Naturals, FiniteSets, Functions, TLC

CONSTANTS
    Clients, Workers, JobIds,
    Past,       \* the jobs that are completed, and not reviewed, at the start
    Actors,     \* who moves the jobs of the instance
    Ratings,    \* the stars its clients give
    Headlines,  \* what its workers write on their profiles
    Skills      \* the skills there are

ASSUME EngagementsAssumption ==
    /\ JobIds \subseteq Nat /\ IsFiniteSet(JobIds)
    /\ Past \subseteq JobIds
    /\ Actors \subseteq {"client", "worker", "admin"}
    /\ Ratings \subseteq 1..5
    /\ Headlines # {}

VARIABLES
    pc,        \* what the request of each slot does next; "idle": no request
    req,       \* what it was asked
    seen,      \* the rows its session holds
    outbox,    \* the notifications it has inserted and not committed
    notices    \* the notifications that are committed

vars == <<db, committed, owner, pc, req, seen, outbox, notices>>

-----------------------------------------------------------------------------
(* The rows and their columns. *)

Job(j) == <<"job", j>>
Review(j) == <<"review", j>>   \* uq_review_job: a job's review is keyed by the job
Profile(w) == <<"profile", w>>
SkillsOf(w) == <<"skills", w>>   \* the worker's rows of worker_skills, together

Rows == {Job(j) : j \in JobIds} \cup {Review(j) : j \in JobIds}
        \cup {Profile(w) : w \in Workers} \cup {SkillsOf(w) : w \in Workers}

JobStatus == {"PENDING", "ACCEPTED", "DECLINED", "IN_PROGRESS", "COMPLETED", "CANCELLED"}
JobRow == [client : Clients, worker : Workers, status : JobStatus]
ReviewRow == [worker : Workers, rating : 1..5]
\* avg_rating in hundredths of a star; the headline stands for all a worker writes.
ProfileRow == [avg : 0..500, count : Nat, headline : Headlines]

ASSUME NoRowIsNoValue == NoRow \notin JobRow \cup ReviewRow

InitialRows(deal) ==
    [r \in Rows |->
        CASE r[1] = "profile" -> [avg |-> 0, count |-> 0, headline |-> CHOOSE h \in Headlines : TRUE]
          [] r[1] = "skills" -> {}
          [] r[1] = "job" /\ r[2] \in Past ->
                [client |-> deal[r[2]][1], worker |-> deal[r[2]][2], status |-> "COMPLETED"]
          [] OTHER -> NoRow]

\* Notifications: a job asked for, its new status, a review.
Asked(j) == <<"JOB_REQUEST_RECEIVED", j>>
Became(j, s) == <<s, j>>
Reviewed(j) == <<"REVIEW_RECEIVED", j>>
Addressed(n, to) == <<n, to>>

\* What has been told of a job whose two parties brought it to its end.
Lived(j) == {Addressed(Asked(j), "worker"), Addressed(Became(j, "ACCEPTED"), "client"),
             Addressed(Became(j, "IN_PROGRESS"), "client"),
             Addressed(Became(j, "COMPLETED"), "worker")}

-----------------------------------------------------------------------------
(* The life of a request, as in Orders. *)

NothingSeen == [r \in Rows |-> NoRow]

Init ==
    /\ \E deal \in [Past -> Clients \X Workers] : InitStore(InitialRows(deal))
    /\ pc = [t \in Txns |-> "idle"]
    /\ req = [t \in Txns |-> NoRow]
    /\ seen = [t \in Txns |-> NothingSeen]
    /\ outbox = [t \in Txns |-> {}]
    /\ notices = UNION {Lived(j) : j \in Past}

Begin(t, next, what, rows) ==
    /\ pc[t] = "idle"
    /\ pc' = [pc EXCEPT ![t] = next]
    /\ req' = [req EXCEPT ![t] = what]
    /\ seen' = [seen EXCEPT ![t] = ReadView(rows)]
    /\ UNCHANGED <<db, committed, owner, outbox, notices>>

Forget(t) ==
    /\ pc' = [pc EXCEPT ![t] = "idle"]
    /\ req' = [req EXCEPT ![t] = NoRow]
    /\ seen' = [seen EXCEPT ![t] = NothingSeen]
    /\ outbox' = [outbox EXCEPT ![t] = {}]

\* The handler inserts its last notification and has nothing left to do but return.
FinishTelling(t, news) ==
    /\ pc' = [pc EXCEPT ![t] = "commit"]
    /\ req' = [req EXCEPT ![t] = NoRow]
    /\ seen' = [seen EXCEPT ![t] = NothingSeen]
    /\ outbox' = [outbox EXCEPT ![t] = {news}]
    /\ UNCHANGED notices

Commit(t) ==
    /\ pc[t] = "commit"
    /\ CommitTxn(t)
    /\ notices' = notices \cup outbox[t]
    /\ Forget(t)

Rollback(t) == RollbackTxn(t) /\ Forget(t) /\ UNCHANGED notices

Abort(t) == pc[t] # "idle" /\ Rollback(t)

-----------------------------------------------------------------------------
(* Jobs. *)

Unused == {j \in JobIds : db[Job(j)] = NoRow}

\* JobIds bounds the jobs of the instance: a request starts only with an id left for it.
BeginHire(t, c, w) ==
    /\ Cardinality(Unused) > Cardinality({u \in Txns : pc[u] = "hire"})
    /\ Begin(t, "hire", [client |-> c, worker |-> w], {})

Hire(t) ==
    /\ pc[t] = "hire"
    /\ \E j \in Unused :
        /\ \A n \in Unused : j <= n
        /\ WriteRows(t, [r \in {Job(j)} |->
                [client |-> req[t].client, worker |-> req[t].worker, status |-> "PENDING"]])
        /\ FinishTelling(t, Addressed(Asked(j), "worker"))

\* _TRANSITIONS: from each status, where to and who may.
Transitions ==
    [PENDING     |-> [ACCEPTED |-> "worker", DECLINED |-> "worker", CANCELLED |-> "client"],
     ACCEPTED    |-> [IN_PROGRESS |-> "worker", CANCELLED |-> "client"],
     IN_PROGRESS |-> [COMPLETED |-> "client"],
     COMPLETED |-> <<>>, DECLINED |-> <<>>, CANCELLED |-> <<>>]

PermittedSlip(actor, from, to) == TRUE   \* the role is not looked at

Permitted(actor, from, to) == Transitions[from][to] = actor \/ actor = "admin"

BeginMove(t, j, actor, to) ==
    /\ committed[Job(j)] # NoRow
    /\ LET from == committed[Job(j)].status
       IN to \in DOMAIN Transitions[from] /\ Permitted(actor, from, to)
    /\ Begin(t, "move", [job |-> j, actor |-> actor, to |-> to], {Job(j)})

\* UPDATE job_requests SET status: the row's latest version is overwritten.  The
\* other party is told; a move by an admin is told the client.
Move(t) ==
    LET r == Job(req[t].job)
    IN  /\ pc[t] = "move"
        /\ WriteRows(t, [x \in {r} |-> [db[x] EXCEPT !.status = req[t].to]])
        /\ FinishTelling(t, Addressed(Became(req[t].job, req[t].to),
                                      IF req[t].actor = "client" THEN "worker" ELSE "client"))

-----------------------------------------------------------------------------
(* Reviews. *)

ReviewsOf(view, w) ==
    {j \in JobIds : view[Review(j)] # NoRow /\ view[Review(j)].worker = w}

Reviewable(j) == committed[Job(j)].status = "COMPLETED" /\ committed[Review(j)] = NoRow

BeginReview(t, j, n) ==
    /\ committed[Job(j)] # NoRow
    /\ Reviewable(j)
    /\ Begin(t, "review", [job |-> j, rating |-> n],
             {Job(j), Profile(committed[Job(j)].worker)} \cup {Review(i) : i \in JobIds})

DuplicateSlip(j) == FALSE   \* no unique index

\* The unique index, which looks at the latest version.
Duplicate(j) == db[Review(j)] # NoRow

\* INSERT.  Its foreign key locks the job, which keeps its value; the lock is a
\* shared one, which matters only to a second review of the job, and that one
\* waits for the index entry anyway.
InsertReview(t) ==
    LET j == req[t].job
        w == seen[t][Job(j)].worker
        new == [worker |-> w, rating |-> req[t].rating]
    IN  /\ pc[t] = "review"
        /\ ~Duplicate(j)
        /\ WriteRows(t, [r \in {Job(j), Review(j)} |-> IF r = Review(j) THEN new ELSE db[r]])
        /\ seen' = [seen EXCEPT ![t][Review(j)] = new]
        /\ pc' = [pc EXCEPT ![t] = "rate"]
        /\ UNCHANGED <<req, outbox, notices>>

\* The index refuses a second review of the job: the handler raises.
RefuseReview(t) ==
    /\ pc[t] = "review"
    /\ Grantable(t, Review(req[t].job))
    /\ Duplicate(req[t].job)
    /\ Rollback(t)

HundredthsSlip(sum, n) == 100 * sum   \* the sum for the average

\* sum / n in hundredths, ROUND_HALF_EVEN.
Hundredths(sum, n) ==
    LET q == (100 * sum) \div n
        r == (100 * sum) % n
    IN  IF 2 * r > n \/ (2 * r = n /\ q % 2 = 1) THEN q + 1 ELSE q

FiguresOf(view, w, jobs) ==
    [avg |-> IF jobs = {} THEN 0
             ELSE Hundredths(SumFunction([j \in jobs |-> view[Review(j)].rating]),
                             Cardinality(jobs)),
     count |-> Cardinality(jobs)]

FiguresSlip(t, w) ==   \* aggregated before the new review is flushed
    FiguresOf(seen[t], w, ReviewsOf(seen[t], w) \ {req[t].job})

FiguresDrift(t, w) ==   \* the new rating averaged with the old average
    LET old == seen[t][Profile(w)]
        new == 100 * req[t].rating
    IN  [avg   |-> IF old.count = 0 THEN new ELSE (old.avg + new) \div 2,
         count |-> old.count + 1]

\* SELECT avg, count: over the view and the request's own review.
Figures(t, w) == FiguresOf(seen[t], w, ReviewsOf(seen[t], w))

\* recalculate_rating.  Of the two columns the UPDATE sets those that differ
\* from what the session read.
Rate(t) ==
    LET j == req[t].job
        r == Profile(seen[t][Job(j)].worker)
        new == Figures(t, seen[t][Job(j)].worker)
        old == seen[t][r]
    IN  /\ pc[t] = "rate"
        /\ WriteRows(t, [x \in {r} |->
                [db[x] EXCEPT !.avg = IF new.avg = old.avg THEN @ ELSE new.avg,
                              !.count = IF new.count = old.count THEN @ ELSE new.count]])
        /\ FinishTelling(t, Addressed(Reviewed(j), "worker"))

-----------------------------------------------------------------------------

Arrive(t) ==
    \/ \E c \in Clients, w \in Workers : BeginHire(t, c, w)
    \/ \E j \in JobIds, actor \in Actors, to \in JobStatus : BeginMove(t, j, actor, to)
    \/ \E j \in JobIds, n \in Ratings : BeginReview(t, j, n)

Step(t) ==
    \/ Hire(t) \/ Move(t)
    \/ InsertReview(t) \/ RefuseReview(t) \/ Rate(t)
    \/ Commit(t)

Next == \E t \in Txns : Arrive(t) \/ Step(t) \/ Abort(t)

Spec == Init /\ [][Next]_vars
=============================================================================
