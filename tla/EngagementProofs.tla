-------------------------- MODULE EngagementProofs --------------------------
(***************************************************************************)
(* Jobs, reviews, profiles and skill sets, for all clients, workers, jobs, *)
(* ratings, skills and numbers of slots.                                   *)
(***************************************************************************)
EXTENDS ProfileProperties, ProofBasics

-----------------------------------------------------------------------------
(* Rows and notifications. *)

\* Rows of different tables, and of different keys, are different rows.
LEMMA RowKinds ==
    /\ \A j \in JobIds : Job(j) \in Rows /\ Review(j) \in Rows
    /\ \A w \in Workers : Profile(w) \in Rows /\ SkillsOf(w) \in Rows
    /\ \A j, k : Job(j) # Review(k)
    /\ \A j, w : Job(j) # Profile(w) /\ Job(j) # SkillsOf(w)
    /\ \A j, w : Review(j) # Profile(w) /\ Review(j) # SkillsOf(w)
    /\ \A v, w : Profile(v) # SkillsOf(w)
    /\ \A j, k : Job(j) = Job(k) => j = k
    /\ \A j, k : Review(j) = Review(k) => j = k
    /\ \A v, w : Profile(v) = Profile(w) => v = w
    /\ \A v, w : SkillsOf(v) = SkillsOf(w) => v = w
  BY DEF Rows, Job, Review, Profile, SkillsOf

\* A review is told of by a notification of its own.
LEMMA NewsKinds ==
    /\ \A j, k : ReviewNews(j) = ReviewNews(k) => j = k
    /\ \A j, k, to : ReviewNews(j) # Addressed(Asked(k), to)
    /\ \A j, k, to : \A s \in JobStatus : ReviewNews(j) # Addressed(Became(k, s), to)
    /\ \A j, k : ReviewNews(j) \notin Lived(k)
  BY DEF ReviewNews, Addressed, Reviewed, Asked, Became, JobStatus, Lived

\* A move its actor may make, told to the other party, completes what has been
\* told of the job.
LEMMA MovesAreTold ==
    ASSUME NEW j, NEW from \in JobStatus, NEW to \in DOMAIN Transitions[from],
           NEW actor \in {"client", "worker"}, Permitted(actor, from, to)
    PROVE  /\ to \in JobStatus
           /\ Told(j, to) \subseteq
                  Told(j, from) \cup {NewsOf([job |-> j, actor |-> actor, to |-> to])}
  <1>1. Transitions[from][to] = actor
    BY DEF Permitted
  <1>2. /\ Transitions["PENDING"] = [ACCEPTED |-> "worker", DECLINED |-> "worker", CANCELLED |-> "client"]
        /\ Transitions["ACCEPTED"] = [IN_PROGRESS |-> "worker", CANCELLED |-> "client"]
        /\ Transitions["IN_PROGRESS"] = [COMPLETED |-> "client"]
        /\ Transitions["COMPLETED"] = <<>>
        /\ Transitions["DECLINED"] = <<>>
        /\ Transitions["CANCELLED"] = <<>>
    BY DEF Transitions
  <1>3. CASE from = "PENDING"
    <2>1. <<to, actor>> \in {<<"ACCEPTED", "worker">>, <<"DECLINED", "worker">>, <<"CANCELLED", "client">>}
      BY <1>1, <1>2, <1>3
    <2> QED
      BY <1>3, <2>1 DEF Told, NewsOf, JobStatus
  <1>4. CASE from = "ACCEPTED"
    <2>1. <<to, actor>> \in {<<"IN_PROGRESS", "worker">>, <<"CANCELLED", "client">>}
      BY <1>1, <1>2, <1>4
    <2> QED
      BY <1>4, <2>1 DEF Told, NewsOf, JobStatus
  <1>5. CASE from = "IN_PROGRESS"
    <2>1. <<to, actor>> = <<"COMPLETED", "client">>
      BY <1>1, <1>2, <1>5
    <2> QED
      BY <1>5, <2>1 DEF Told, NewsOf, JobStatus, Lived
  <1>6. CASE from \in {"COMPLETED", "DECLINED", "CANCELLED"}
    BY <1>2, <1>6
  <1> QED
    BY <1>3, <1>4, <1>5, <1>6 DEF JobStatus

\* Reviews tell nothing of the job, and jobs nothing of a review.
LEMMA ToldIsNoReview ==
    ASSUME NEW j, NEW k, NEW s PROVE ReviewNews(j) \notin Told(k, s)
  BY NewsKinds DEF Told, JobStatus

LEMMA StoreStored ==
    ASSUME StoreInv PROVE StoreOK(Rows)
  BY DEF StoreInv, StoreOK

-----------------------------------------------------------------------------
(* What a step of t means to the other requests. *)

OthersUntouched(t) ==
    /\ \A u \in Txns \ {t} : /\ pc'[u] = pc[u] /\ req'[u] = req[u] /\ seen'[u] = seen[u]
                             /\ outbox'[u] = outbox[u]
    /\ notices \subseteq notices'
    /\ \A j \in JobIds : committed[Job(j)] # NoRow => committed'[Job(j)] # NoRow

LEMMA OtherRequests ==
    ASSUME ProfileInv, NEW t \in Txns, Others(Rows, t), OthersUntouched(t), NEW u \in Txns, u # t
    PROVE  RequestOK(u)'
  <1>1. /\ pc'[u] = pc[u] /\ req'[u] = req[u] /\ seen'[u] = seen[u] /\ outbox'[u] = outbox[u]
        /\ notices \subseteq notices'
        /\ \A j \in JobIds : committed[Job(j)] # NoRow => committed'[Job(j)] # NoRow
        /\ RequestOK(u)
    BY DEF OthersUntouched, ProfileInv
  <1>2. \A r \in Rows : /\ owner'[r] = u <=> owner[r] = u
                        /\ owner[r] = u => db'[r] = db[r] /\ committed'[r] = committed[r]
    BY NobodyIsNoTxn DEF Others
  <1>3. pc[u] = "idle" => \A r \in Rows : owner'[r] # u
    BY <1>1, <1>2 DEF RequestOK
  <1>4. pc[u] = "move" => /\ committed'[Job(req[u].job)] # NoRow
                          /\ Consent => Told(req[u].job, req[u].to) \subseteq notices' \cup {NewsOf(req[u])}
    BY <1>1 DEF RequestOK
  <1>5. pc[u] \in {"review", "rate"} => /\ committed'[Job(req[u].job)] # NoRow
                                        /\ Consent => Lived(req[u].job) \subseteq notices'
    BY <1>1 DEF RequestOK
  <1>6. \A j \in JobIds : owner'[Review(j)] = u <=> owner[Review(j)] = u
    BY <1>2, RowKinds
  <1>7. pc[u] \in {"unlink", "link"} => SkillsOK(u)'
    <2> SUFFICES ASSUME pc[u] \in {"unlink", "link"} PROVE SkillsOK(u)'
      OBVIOUS
    <2>1. PICK r : r = SkillsOf(req[u].worker)
      OBVIOUS
    <2>2. SkillsOK(u) /\ r \in Rows
      BY <1>1, <2>1, RowKinds DEF RequestOK, SkillsOK
    <2>3. /\ owner'[r] = u <=> owner[r] = u
          /\ owner[r] = u => db'[r] = db[r] /\ committed'[r] = committed[r]
      BY <1>2, <2>2
    <2> QED
      BY <1>1, <2>1, <2>2, <2>3 DEF SkillsOK
  <1> QED
    BY <1>1, <1>3, <1>4, <1>5, <1>6, <1>7 DEF RequestOK

\* One slot moves on.
Advances(t, next, what, view, news) ==
    /\ pc' = [pc EXCEPT ![t] = next]
    /\ req' = [req EXCEPT ![t] = what]
    /\ seen' = [seen EXCEPT ![t] = view]
    /\ outbox' = [outbox EXCEPT ![t] = news]

\* What a session holds of every row.
IsView(view) == view = [r \in Rows |-> view[r]]

LEMMA SlotsAdvance ==
    ASSUME SlotsOK, NEW t \in Txns, NEW next, NEW what, NEW view, IsView(view),
           NEW news, Advances(t, next, what, view, news)
    PROVE  /\ SlotsOK'
           /\ pc'[t] = next /\ req'[t] = what /\ seen'[t] = view /\ outbox'[t] = news
           /\ \A u \in Txns \ {t} : /\ pc'[u] = pc[u] /\ req'[u] = req[u] /\ seen'[u] = seen[u]
                                    /\ outbox'[u] = outbox[u]
  BY DEF SlotsOK, Advances, IsView

-----------------------------------------------------------------------------
(* Requests that arrive, and that write. *)

LEMMA BeginStep ==
    ASSUME ProfileInv, NEW t \in Txns, NEW next, NEW what, NEW rows, Begin(t, next, what, rows),
           next \notin {"idle", "rate", "commit"}, RequestOK(t)'
    PROVE  ProfileInv'
  <1>1. Advances(t, next, what, ReadView(rows), outbox[t])
    BY DEF Begin, Advances, ProfileInv, SlotsOK
  <1>2. IsView(ReadView(rows))
    BY DEF IsView, ReadView, ProfileInv, StoreInv
  <1>3. /\ SlotsOK'
        /\ \A u \in Txns \ {t} : /\ pc'[u] = pc[u] /\ req'[u] = req[u] /\ seen'[u] = seen[u]
                                 /\ outbox'[u] = outbox[u]
        /\ \A u \in Txns : outbox'[u] = outbox[u]
    BY <1>1, <1>2, SlotsAdvance DEF ProfileInv
  <1>4. UNCHANGED <<db, committed, owner, notices>>
    BY DEF Begin
  <1>5. StoreInv' /\ Others(Rows, t)
    BY <1>4, StoreStored, IdleEffect DEF ProfileInv, StoreInv, FiguresAndText, UnlockedIsCommitted
  <1>6. OthersUntouched(t)
    BY <1>3, <1>4 DEF OthersUntouched
  <1>7. \A j \in JobIds : JobOK(j)'
    BY <1>3, <1>4 DEF ProfileInv, JobOK
  <1> QED
    BY <1>3, <1>5, <1>6, <1>7, OtherRequests DEF ProfileInv

\* The versions of rows that a step may write: a job with the news of its status,
\* a review there was none of, of a job that was lived, a profile with its columns.
WriteAllowed(new, news) ==
    /\ \A j \in JobIds : Job(j) \in DOMAIN new =>
          /\ new[Job(j)] \in JobRow
          /\ Consent => Told(j, new[Job(j)].status) \subseteq notices \cup news
    /\ \A j \in JobIds : Review(j) \in DOMAIN new =>
          /\ db[Review(j)] = NoRow /\ new[Review(j)] # NoRow
          /\ Consent => Lived(j) \subseteq notices
    /\ \A w \in Workers : Profile(w) \in DOMAIN new => FiguresAndText(new[Profile(w)])

\* What it leaves behind.
Written(t, new, next, what, view, news) ==
    /\ committed' = committed
    /\ \A r \in Rows : db'[r] = IF r \in DOMAIN new THEN new[r] ELSE db[r]
    /\ \A r \in Rows : owner'[r] = IF r \in DOMAIN new THEN t ELSE owner[r]
    /\ \A r \in DOMAIN new : owner[r] \in {t, Nobody}
    /\ pc'[t] = next /\ req'[t] = what /\ seen'[t] = view /\ outbox'[t] = news

LEMMA WriteStep ==
    ASSUME ProfileInv, NEW t \in Txns, NEW new, WriteRows(t, new), UNCHANGED notices,
           NEW next, NEW what, NEW view, IsView(view),
           NEW news, Advances(t, next, what, view, news),
           outbox[t] \subseteq news,
           WriteAllowed(new, news)
    PROVE  /\ RequestOK(t)' => ProfileInv'
           /\ Written(t, new, next, what, view, news)
  <1>1. /\ StoreOK(Rows)' /\ Others(Rows, t) /\ committed' = committed
        /\ \A r \in Rows : db'[r] = IF r \in DOMAIN new THEN new[r] ELSE db[r]
        /\ \A r \in Rows : owner'[r] = IF r \in DOMAIN new THEN t ELSE owner[r]
        /\ \A r \in DOMAIN new : owner[r] \in {t, Nobody}
    BY StoreStored, WriteEffect DEF ProfileInv
  <1>2. /\ SlotsOK'
        /\ pc'[t] = next /\ req'[t] = what /\ seen'[t] = view /\ outbox'[t] = news
        /\ \A u \in Txns \ {t} : /\ pc'[u] = pc[u] /\ req'[u] = req[u] /\ seen'[u] = seen[u]
                                 /\ outbox'[u] = outbox[u]
    BY SlotsAdvance DEF ProfileInv
  <1>3. OthersUntouched(t)
    BY <1>1, <1>2 DEF OthersUntouched
  <1>4. StoreInv'
    <2>1. \A j \in JobIds : /\ db'[Job(j)] \in JobRow \cup {NoRow}
                            /\ committed'[Job(j)] \in JobRow \cup {NoRow}
      BY <1>1, RowKinds DEF ProfileInv, StoreInv, WriteAllowed
    <2>2. \A w \in Workers : FiguresAndText(db[Profile(w)])' /\ FiguresAndText(committed[Profile(w)])'
      BY <1>1, RowKinds DEF ProfileInv, StoreInv, FiguresAndText, WriteAllowed
    <2> QED
      BY <1>1, <2>1, <2>2 DEF StoreInv, StoreOK
  <1>5. ASSUME NEW j \in JobIds PROVE JobOK(j)'
    <2> DEFINE b == Job(j)
               v == Review(j)
    <2>1. JobOK(j) /\ b \in Rows /\ v \in Rows /\ b # v
      BY RowKinds DEF ProfileInv
    <2>2. /\ b \in DOMAIN new => db'[b] = new[b] /\ owner'[b] = t
          /\ b \notin DOMAIN new => db'[b] = db[b] /\ owner'[b] = owner[b]
          /\ v \in DOMAIN new => db'[v] = new[v] /\ owner'[v] = t
          /\ v \notin DOMAIN new => db'[v] = db[v] /\ owner'[v] = owner[v]
      BY <1>1, <2>1
    <2>3. b \in DOMAIN new => new[b] # NoRow
      BY NoRowIsNoValue DEF WriteAllowed
    <2>4. \A u \in Txns : outbox[u] \subseteq outbox'[u]
      BY <1>2
    <2>5. \A u \in Txns : owner'[b] = u =>
              /\ db'[b] # NoRow
              /\ Consent => Told(j, db'[b].status) \subseteq notices \cup outbox'[u]
      BY <1>2, <2>1, <2>2, <2>3, <2>4 DEF JobOK, WriteAllowed
    <2>6. v \in DOMAIN new => committed[v] = NoRow /\ db'[v] # NoRow
      BY <2>1, <2>2 DEF JobOK, ProfileInv, StoreInv, UnlockedIsCommitted, WriteAllowed
    <2>7. owner'[v] # Nobody => db'[v] # NoRow /\ committed'[v] = NoRow
      BY <1>1, <2>1, <2>2, <2>6 DEF JobOK
    <2>8. Consent /\ db'[v] # NoRow => Lived(j) \subseteq notices
      BY <2>1, <2>2 DEF JobOK, WriteAllowed
    <2>9. committed[b] # NoRow => db'[b] # NoRow
      BY <2>1, <2>2, <2>3 DEF JobOK
    <2> QED
      BY <1>1, <2>1, <2>5, <2>7, <2>8, <2>9 DEF JobOK
  <1>6. Written(t, new, next, what, view, news)
    BY <1>1, <1>2 DEF Written
  <1> QED
    BY <1>1, <1>2, <1>3, <1>4, <1>5, <1>6, OtherRequests DEF ProfileInv

\* The last statement of a handler, and its notification.
LEMMA FinishStep ==
    ASSUME ProfileInv, NEW t \in Txns, NEW new, WriteRows(t, new), UNCHANGED notices,
           NEW news, Advances(t, "commit", NoRow, NothingSeen, news),
           outbox[t] \subseteq news,
           WriteAllowed(new, news), \A j \in JobIds : Review(j) \notin DOMAIN new,
           \A j \in JobIds : owner[Review(j)] = t <=> ReviewNews(j) \in news
    PROVE  /\ ProfileInv'
           /\ \A r \in Rows : db'[r] = IF r \in DOMAIN new THEN new[r] ELSE db[r]
  <1>1. IsView(NothingSeen)
    BY DEF IsView, NothingSeen
  <1>2. /\ RequestOK(t)' => ProfileInv'
        /\ Written(t, new, "commit", NoRow, NothingSeen, news)
    BY <1>1, WriteStep
  <1>3. RequestOK(t)'
    BY <1>2, RowKinds DEF RequestOK, Written
  <1> QED
    BY <1>2, <1>3 DEF Written

LEMMA FinishAdvances ==
    ASSUME ProfileInv, NEW t \in Txns
    PROVE  /\ \A news : FinishTelling(t, news) =>
                  Advances(t, "commit", NoRow, NothingSeen, {news}) /\ UNCHANGED notices
           /\ FinishQuietly(t) =>
                  Advances(t, "commit", NoRow, NothingSeen, outbox[t]) /\ UNCHANGED notices
  BY DEF FinishTelling, FinishQuietly, Advances, ProfileInv, SlotsOK

LEMMA HireStep ==
    ASSUME ProfileInv, NEW t \in Txns, Hire(t) PROVE ProfileInv'
  <1>1. PICK j \in Unused :
            /\ WriteRows(t, [r \in {Job(j)} |->
                   [client |-> req[t].client, worker |-> req[t].worker, status |-> "PENDING"]])
            /\ FinishTelling(t, Addressed(Asked(j), "worker"))
    BY DEF Hire
  <1>2. RequestOK(t) /\ pc[t] = "hire" /\ j \in JobIds
    BY <1>1 DEF ProfileInv, Hire, Unused
  <1>3. PICK row : row = [client |-> req[t].client, worker |-> req[t].worker, status |-> "PENDING"]
    OBVIOUS
  <1>4. row \in JobRow /\ row.status = "PENDING"
    BY <1>2, <1>3 DEF RequestOK, JobRow, JobStatus
  <1>5. PICK news : news = {Addressed(Asked(j), "worker")}
    OBVIOUS
  <1>6. Told(j, row.status) \subseteq news
    BY <1>4, <1>5 DEF Told
  <1>7. PICK new : new = [r \in {Job(j)} |-> row]
    OBVIOUS
  <1>8. WriteRows(t, new)
    BY <1>1, <1>3, <1>7
  <1>9. Advances(t, "commit", NoRow, NothingSeen, news) /\ UNCHANGED notices
    BY <1>1, <1>5, FinishAdvances
  <1>10. outbox[t] = {} /\ \A k \in JobIds : owner[Review(k)] # t
    BY <1>2 DEF RequestOK
  <1>11. \A k : ReviewNews(k) \notin news
    BY <1>5, NewsKinds
  <1>12. /\ \A k \in JobIds : Job(k) \in DOMAIN new => k = j /\ new[Job(k)] = row
         /\ \A k \in JobIds : Review(k) \notin DOMAIN new
         /\ \A w \in Workers : Profile(w) \notin DOMAIN new
    BY <1>7, RowKinds
  <1>13. WriteAllowed(new, news)
    BY <1>4, <1>6, <1>12 DEF WriteAllowed
  <1> QED
    BY <1>8, <1>9, <1>10, <1>11, <1>12, <1>13, FinishStep

LEMMA MoveStep ==
    ASSUME ProfileInv, NEW t \in Txns, Move(t) PROVE ProfileInv'
  <1>1. PICK j : j = req[t].job
    OBVIOUS
  <1>2. /\ RequestOK(t) /\ pc[t] = "move" /\ j \in JobIds /\ req[t].to \in JobStatus
        /\ committed[Job(j)] # NoRow
        /\ Consent => Told(j, req[t].to) \subseteq notices \cup {NewsOf(req[t])}
    BY <1>1 DEF ProfileInv, Move, RequestOK
  <1>3. db[Job(j)] \in JobRow
    BY <1>2 DEF ProfileInv, JobOK, StoreInv
  <1>4. PICK row : row = [db[Job(j)] EXCEPT !.status = req[t].to]
    OBVIOUS
  <1>5. row \in JobRow /\ row.status = req[t].to
    BY <1>2, <1>3, <1>4 DEF JobRow
  <1>6. PICK new : new = [r \in {Job(j)} |-> row]
    OBVIOUS
  <1>7. PICK news : news = {NewsOf(req[t])}
    OBVIOUS
  <1>8. WriteRows(t, new)
    <2>1. new = [x \in {Job(req[t].job)} |-> [db[x] EXCEPT !.status = req[t].to]]
      BY <1>1, <1>4, <1>6
    <2> QED
      BY <2>1 DEF Move
  <1>9. Advances(t, "commit", NoRow, NothingSeen, news) /\ UNCHANGED notices
    BY <1>7, FinishAdvances DEF Move, NewsOf
  <1>10. outbox[t] = {} /\ \A k \in JobIds : owner[Review(k)] # t
    BY <1>2 DEF RequestOK
  <1>11. \A k : ReviewNews(k) \notin news
    BY <1>2, <1>7, NewsKinds DEF NewsOf
  <1>12. /\ \A k \in JobIds : Job(k) \in DOMAIN new => k = j /\ new[Job(k)] = row
         /\ \A k \in JobIds : Review(k) \notin DOMAIN new
         /\ \A w \in Workers : Profile(w) \notin DOMAIN new
    BY <1>6, RowKinds
  <1>13. WriteAllowed(new, news)
    BY <1>2, <1>5, <1>7, <1>12 DEF WriteAllowed
  <1> QED
    BY <1>8, <1>9, <1>10, <1>11, <1>12, <1>13, FinishStep

LEMMA InsertReviewStep ==
    ASSUME ProfileInv, NEW t \in Txns, InsertReview(t) PROVE ProfileInv'
  <1>1. PICK j : j = req[t].job
    OBVIOUS
  <1> DEFINE b == Job(j)
             v == Review(j)
  <1>2. /\ RequestOK(t) /\ pc[t] = "review" /\ j \in JobIds /\ req[t] \in [job : JobIds, rating : 1..5]
        /\ seen[t][b] \in JobRow /\ committed[b] # NoRow
        /\ Consent => Lived(j) \subseteq notices
        /\ outbox[t] = {} /\ \A k \in JobIds : owner[Review(k)] # t
        /\ db[v] = NoRow
    BY <1>1 DEF ProfileInv, InsertReview, RequestOK, Duplicate
  <1>3. PICK row : row = [worker |-> seen[t][b].worker, rating |-> req[t].rating]
    OBVIOUS
  <1>4. row \in ReviewRow /\ row # NoRow
    <2>1. row \in ReviewRow
      BY <1>2, <1>3 DEF ReviewRow, JobRow
    <2> QED
      BY <2>1, NoRowIsNoValue
  <1>5. PICK new : new = [r \in {b, v} |-> IF r = v THEN row ELSE db[r]]
    OBVIOUS
  <1>6. PICK view : view = [seen[t] EXCEPT ![v] = row]
    OBVIOUS
  <1>7. /\ WriteRows(t, [r \in {Job(req[t].job), Review(req[t].job)} |->
               IF r = Review(req[t].job)
               THEN [worker |-> seen[t][Job(req[t].job)].worker, rating |-> req[t].rating]
               ELSE db[r]])
        /\ seen' = [seen EXCEPT ![t][Review(req[t].job)] =
                       [worker |-> seen[t][Job(req[t].job)].worker, rating |-> req[t].rating]]
        /\ pc' = [pc EXCEPT ![t] = "rate"]
        /\ UNCHANGED <<req, outbox, notices>>
    BY DEF InsertReview
  <1>8. WriteRows(t, new)
    <2>1. new = [r \in {Job(req[t].job), Review(req[t].job)} |->
               IF r = Review(req[t].job)
               THEN [worker |-> seen[t][Job(req[t].job)].worker, rating |-> req[t].rating]
               ELSE db[r]]
      BY <1>1, <1>3, <1>5
    <2> QED
      BY <1>7, <2>1
  <1>9. Advances(t, "rate", req[t], view, outbox[t]) /\ UNCHANGED notices
    BY <1>1, <1>3, <1>6, <1>7 DEF Advances, ProfileInv, SlotsOK
  <1>10. IsView(view) /\ view[b] = seen[t][b]
    BY <1>2, <1>6, RowKinds DEF IsView, ProfileInv, SlotsOK
  <1>11. /\ DOMAIN new = {b, v} /\ b # v /\ new[b] = db[b] /\ new[v] = row
         /\ \A k \in JobIds : Job(k) \in DOMAIN new => k = j
         /\ \A k \in JobIds : Review(k) \in DOMAIN new <=> k = j
         /\ \A w \in Workers : Profile(w) \notin DOMAIN new
    BY <1>2, <1>5, RowKinds
  <1>12. db[b] \in JobRow /\ (Consent => Told(j, db[b].status) \subseteq notices)
    <2>1. JobOK(j) /\ db[b] \in JobRow \cup {NoRow} /\ b \in Rows /\ b \in DOMAIN new
      BY <1>2, <1>11, RowKinds DEF ProfileInv, StoreInv
    <2>2. owner[b] \in {t, Nobody}
      BY <1>8, <2>1 DEF WriteRows, Grantable
    <2>3. owner[b] = Nobody => db[b] = committed[b]
      BY <2>1 DEF ProfileInv, StoreInv, UnlockedIsCommitted
    <2> QED
      BY <1>2, <2>1, <2>2, <2>3 DEF JobOK
  <1>13. WriteAllowed(new, outbox[t])
    BY <1>2, <1>4, <1>11, <1>12 DEF WriteAllowed
  <1>14. /\ RequestOK(t)' => ProfileInv'
         /\ Written(t, new, "rate", req[t], view, outbox[t])
    BY <1>8, <1>9, <1>10, <1>13, WriteStep
  <1>15. RequestOK(t)'
    <2>1. \A k \in JobIds : owner'[Review(k)] = t <=> k = req[t].job
      BY <1>1, <1>2, <1>11, <1>14, RowKinds DEF Written
    <2> QED
      BY <1>1, <1>2, <1>9, <1>10, <1>14, <2>1 DEF RequestOK, Written
  <1> QED
    BY <1>14, <1>15

\* The figures are written to the columns of the worker's profile, and the review
\* is told of by the request that inserted it.
LEMMA RateStep ==
    ASSUME ProfileInv, NEW t \in Txns, Rate(t) PROVE ProfileInv'
  <1>1. PICK j : j = req[t].job
    OBVIOUS
  <1>2. /\ RequestOK(t) /\ pc[t] = "rate" /\ j \in JobIds /\ outbox[t] = {}
        /\ seen[t][Job(j)] \in JobRow
        /\ \A k \in JobIds : owner[Review(k)] = t <=> k = j
    BY <1>1 DEF ProfileInv, Rate, RequestOK
  <1>3. PICK w : w = seen[t][Job(j)].worker
    OBVIOUS
  <1>4. w \in Workers
    BY <1>2, <1>3 DEF JobRow
  <1>5. PICK figures : figures = Figures(t, w)
    OBVIOUS
  <1>6. PICK old : old = seen[t][Profile(w)]
    OBVIOUS
  <1>7. PICK row : row = [db[Profile(w)] EXCEPT
                              !.avg = IF figures.avg = old.avg THEN @ ELSE figures.avg,
                              !.count = IF figures.count = old.count THEN @ ELSE figures.count]
    OBVIOUS
  <1>8. FiguresAndText(row)
    BY <1>4, <1>7 DEF ProfileInv, StoreInv, FiguresAndText
  <1>9. PICK new : new = [x \in {Profile(w)} |-> row]
    OBVIOUS
  <1>10. /\ WriteRows(t, [x \in {Profile(w)} |->
                [db[x] EXCEPT !.avg = IF figures.avg = old.avg THEN @ ELSE figures.avg,
                              !.count = IF figures.count = old.count THEN @ ELSE figures.count]])
         /\ FinishTelling(t, Addressed(Reviewed(j), "worker"))
    BY <1>1, <1>3, <1>5, <1>6 DEF Rate
  <1>11. WriteRows(t, new)
    <2>1. new = [x \in {Profile(w)} |->
                [db[x] EXCEPT !.avg = IF figures.avg = old.avg THEN @ ELSE figures.avg,
                              !.count = IF figures.count = old.count THEN @ ELSE figures.count]]
      BY <1>7, <1>9
    <2> QED
      BY <1>10, <2>1
  <1>12. PICK news : news = {ReviewNews(j)}
    OBVIOUS
  <1>13. Advances(t, "commit", NoRow, NothingSeen, news) /\ UNCHANGED notices
    BY <1>10, <1>12, FinishAdvances DEF ReviewNews
  <1>14. /\ \A k \in JobIds : Job(k) \notin DOMAIN new
         /\ \A k \in JobIds : Review(k) \notin DOMAIN new
         /\ \A u \in Workers : Profile(u) \in DOMAIN new => new[Profile(u)] = row
    BY <1>9, RowKinds
  <1>15. WriteAllowed(new, news)
    BY <1>8, <1>14 DEF WriteAllowed
  <1>16. \A k \in JobIds : owner[Review(k)] = t <=> ReviewNews(k) \in news
    BY <1>2, <1>12, NewsKinds
  <1> QED
    BY <1>2, <1>11, <1>13, <1>14, <1>15, <1>16, FinishStep

LEMMA EditProfileStep ==
    ASSUME ProfileInv, NEW t \in Txns, EditProfile(t) PROVE ProfileInv'
  <1>1. PICK w : w = req[t].worker
    OBVIOUS
  <1>2. /\ RequestOK(t) /\ pc[t] = "profile" /\ w \in Workers /\ outbox[t] = {}
        /\ \A k \in JobIds : owner[Review(k)] # t
    BY <1>1 DEF ProfileInv, EditProfile, RequestOK
  <1>3. PICK row : row = [db[Profile(w)] EXCEPT !.headline = req[t].headline]
    OBVIOUS
  <1>4. FiguresAndText(row)
    BY <1>2, <1>3 DEF ProfileInv, StoreInv, FiguresAndText
  <1>5. PICK new : new = [x \in {Profile(w)} |-> row]
    OBVIOUS
  <1>6. WriteRows(t, new)
    <2>1. new = [x \in {Profile(req[t].worker)} |-> Reworded(t, db[x])]
      BY <1>1, <1>3, <1>5 DEF Reworded
    <2> QED
      BY <2>1 DEF EditProfile
  <1>7. PICK news : news = outbox[t]
    OBVIOUS
  <1>8. Advances(t, "commit", NoRow, NothingSeen, news) /\ UNCHANGED notices
    BY <1>7, FinishAdvances DEF EditProfile
  <1>9. /\ \A k \in JobIds : Job(k) \notin DOMAIN new
        /\ \A k \in JobIds : Review(k) \notin DOMAIN new
        /\ \A u \in Workers : Profile(u) \in DOMAIN new => new[Profile(u)] = row
    BY <1>5, RowKinds
  <1>10. WriteAllowed(new, news)
    BY <1>4, <1>9 DEF WriteAllowed
  <1>11. outbox[t] \subseteq news /\ \A k \in JobIds : owner[Review(k)] = t <=> ReviewNews(k) \in news
    BY <1>2, <1>7
  <1> QED
    BY <1>6, <1>8, <1>9, <1>10, <1>11, FinishStep

\* The links that were read are deleted: the first write of its request, so what is
\* left of them is what was committed since.
LEMMA UnlinkStep ==
    ASSUME ProfileInv, NEW t \in Txns, Unlink(t) PROVE ProfileInv'
  <1>1. PICK r : r = SkillsOf(req[t].worker)
    OBVIOUS
  <1>2. /\ RequestOK(t) /\ pc[t] = "unlink" /\ outbox[t] = {}
        /\ \A k \in JobIds : owner[Review(k)] # t
        /\ req[t].worker \in Workers /\ r \in Rows /\ owner[r] # t
    BY <1>1, RowKinds DEF ProfileInv, Unlink, RequestOK, SkillsOK
  <1>3. PICK left : left = db[r] \ seen[t][r]
    OBVIOUS
  <1>4. PICK new : new = [x \in {r} |-> left]
    OBVIOUS
  <1>5. WriteRows(t, new)
    <2>1. new = [x \in {SkillsOf(req[t].worker)} |-> db[x] \ LinksRead(t)]
      BY <1>1, <1>3, <1>4 DEF LinksRead
    <2> QED
      BY <2>1 DEF Unlink
  <1>6. PICK news : news = outbox[t]
    OBVIOUS
  <1>7. /\ \A k \in JobIds : Job(k) \notin DOMAIN new
        /\ \A k \in JobIds : Review(k) \notin DOMAIN new
        /\ \A u \in Workers : Profile(u) \notin DOMAIN new
        /\ r \in DOMAIN new /\ new[r] = left
    BY <1>1, <1>4, RowKinds
  <1>8. WriteAllowed(new, news)
    BY <1>7 DEF WriteAllowed
  <1>9. CASE req[t].new = {}
    <2>1. Advances(t, "commit", NoRow, NothingSeen, news) /\ UNCHANGED notices
      BY <1>6, <1>9, FinishAdvances DEF Unlink
    <2>2. outbox[t] \subseteq news /\ \A k \in JobIds : owner[Review(k)] = t <=> ReviewNews(k) \in news
      BY <1>2, <1>6
    <2> QED
      BY <1>5, <1>7, <1>8, <2>1, <2>2, FinishStep
  <1>10. CASE req[t].new # {}
    <2>1. PICK what : what = req[t]
      OBVIOUS
    <2>2. PICK view : view = seen[t]
      OBVIOUS
    <2>3. /\ Advances(t, "link", what, view, news) /\ UNCHANGED notices
          /\ IsView(view) /\ outbox[t] \subseteq news
      BY <1>6, <1>10, <2>1, <2>2 DEF Unlink, Advances, IsView, ProfileInv, SlotsOK
    <2>4. /\ RequestOK(t)' => ProfileInv'
          /\ Written(t, new, "link", what, view, news)
      BY <1>5, <1>8, <2>3, WriteStep
    <2>5. owner[r] = Nobody /\ db[r] = committed[r]
      BY <1>2, <1>7, <2>4 DEF Written, ProfileInv, StoreInv, UnlockedIsCommitted
    <2>6. owner'[r] = t /\ db'[r] = committed'[r] \ view[r]
      BY <1>2, <1>3, <1>7, <2>2, <2>4, <2>5 DEF Written
    <2>7. SkillsOK(t)'
      BY <1>1, <1>2, <2>1, <2>4, <2>6 DEF SkillsOK, Written
    <2>8. \A k \in JobIds : owner'[Review(k)] # t
      BY <1>2, <1>7, <2>4, RowKinds DEF Written
    <2>9. RequestOK(t)'
      BY <1>2, <1>6, <2>4, <2>7, <2>8 DEF RequestOK, Written
    <2> QED
      BY <2>4, <2>9
  <1> QED
    BY <1>9, <1>10

LEMMA LinkStep ==
    ASSUME ProfileInv, NEW t \in Txns, Link(t) PROVE ProfileInv'
  <1>1. PICK r : r = SkillsOf(req[t].worker)
    OBVIOUS
  <1>2. /\ RequestOK(t) /\ pc[t] = "link" /\ outbox[t] = {}
        /\ \A k \in JobIds : owner[Review(k)] # t
    BY DEF ProfileInv, Link, RequestOK
  <1>3. PICK links : links = db[r] \cup req[t].new
    OBVIOUS
  <1>4. PICK new : new = [x \in {r} |-> links]
    OBVIOUS
  <1>5. WriteRows(t, new)
    <2>1. new = [x \in {SkillsOf(req[t].worker)} |-> db[x] \cup req[t].new]
      BY <1>1, <1>3, <1>4
    <2> QED
      BY <2>1 DEF Link
  <1>6. PICK news : news = outbox[t]
    OBVIOUS
  <1>7. Advances(t, "commit", NoRow, NothingSeen, news) /\ UNCHANGED notices
    BY <1>6, FinishAdvances DEF Link
  <1>8. /\ \A k \in JobIds : Job(k) \notin DOMAIN new
        /\ \A k \in JobIds : Review(k) \notin DOMAIN new
        /\ \A u \in Workers : Profile(u) \notin DOMAIN new
    BY <1>1, <1>4, RowKinds
  <1>9. WriteAllowed(new, news)
    BY <1>8 DEF WriteAllowed
  <1>10. outbox[t] \subseteq news /\ \A k \in JobIds : owner[Review(k)] = t <=> ReviewNews(k) \in news
    BY <1>2, <1>6
  <1> QED
    BY <1>5, <1>7, <1>8, <1>9, <1>10, FinishStep

-----------------------------------------------------------------------------
(* Commit and rollback. *)

LEMMA ForgetAdvances ==
    ASSUME ProfileInv, NEW t \in Txns, Forget(t)
    PROVE  /\ SlotsOK' /\ pc'[t] = "idle" /\ outbox'[t] = {}
           /\ \A u \in Txns \ {t} : /\ pc'[u] = pc[u] /\ req'[u] = req[u] /\ seen'[u] = seen[u]
                                    /\ outbox'[u] = outbox[u]
  <1>1. Advances(t, "idle", NoRow, NothingSeen, {}) /\ IsView(NothingSeen)
    BY DEF Forget, Advances, IsView, NothingSeen
  <1> QED
    BY <1>1, SlotsAdvance DEF ProfileInv

\* What t held is committed together with its notifications.
LEMMA CommitStep ==
    ASSUME ProfileInv, NEW t \in Txns, Commit(t) PROVE ProfileInv'
  <1>1. /\ StoreOK(Rows)' /\ Others(Rows, t) /\ db' = db
        /\ \A r \in Rows : committed'[r] = IF owner[r] = t THEN db[r] ELSE committed[r]
        /\ \A r \in Rows : owner'[r] = IF owner[r] = t THEN Nobody ELSE owner[r]
        /\ \A r \in Rows : owner'[r] # t
    BY StoreStored, CommitEffect DEF ProfileInv, Commit
  <1>2. /\ SlotsOK' /\ pc'[t] = "idle" /\ outbox'[t] = {}
        /\ \A u \in Txns \ {t} : /\ pc'[u] = pc[u] /\ req'[u] = req[u] /\ seen'[u] = seen[u]
                                 /\ outbox'[u] = outbox[u]
    BY ForgetAdvances DEF Commit
  <1>3. pc[t] = "commit" /\ notices' = notices \cup outbox[t] /\ RequestOK(t)
    BY DEF Commit, ProfileInv
  <1>4. StoreInv'
    <2>1. \A j \in JobIds : /\ db'[Job(j)] \in JobRow \cup {NoRow}
                            /\ committed'[Job(j)] \in JobRow \cup {NoRow}
      BY <1>1, RowKinds DEF ProfileInv, StoreInv
    <2>2. \A w \in Workers : FiguresAndText(db[Profile(w)])' /\ FiguresAndText(committed[Profile(w)])'
      BY <1>1, RowKinds DEF ProfileInv, StoreInv, FiguresAndText
    <2> QED
      BY <1>1, <2>1, <2>2 DEF StoreInv, StoreOK
  <1>5. ASSUME NEW j \in JobIds PROVE JobOK(j)'
    <2>1. PICK b : b = Job(j)
      OBVIOUS
    <2>2. PICK v : v = Review(j)
      OBVIOUS
    <2>3. JobOK(j) /\ b \in Rows /\ v \in Rows
      BY <2>1, <2>2, RowKinds DEF ProfileInv
    <2>4. /\ committed'[b] = IF owner[b] = t THEN db[b] ELSE committed[b]
          /\ committed'[v] = IF owner[v] = t THEN db[v] ELSE committed[v]
          /\ owner'[b] = IF owner[b] = t THEN Nobody ELSE owner[b]
          /\ owner'[v] = IF owner[v] = t THEN Nobody ELSE owner[v]
      BY <1>1, <2>3
    <2>5. committed'[b] # NoRow => db'[b] # NoRow
      BY <1>1, <2>1, <2>3, <2>4 DEF JobOK
    <2>6. Consent /\ committed'[b] # NoRow => Told(j, committed'[b].status) \subseteq notices'
      BY <1>3, <2>1, <2>3, <2>4 DEF JobOK
    <2>7. \A u \in Txns : owner'[b] = u =>
              /\ db'[b] # NoRow
              /\ Consent => Told(j, db'[b].status) \subseteq notices' \cup outbox'[u]
      BY <1>1, <1>2, <1>3, <2>1, <2>3, <2>4, NobodyIsNoTxn DEF JobOK
    <2>8. Consent /\ db'[v] # NoRow => Lived(j) \subseteq notices'
      BY <1>1, <1>3, <2>2, <2>3 DEF JobOK
    <2>9. owner[v] = t <=> ReviewNews(j) \in outbox[t]
      BY <1>3, <2>2 DEF RequestOK
    <2>10. committed'[v] # NoRow <=> ReviewNews(j) \in notices'
      BY <1>3, <2>2, <2>3, <2>4, <2>9, NobodyIsNoTxn DEF JobOK
    <2>11. owner'[v] # Nobody => db'[v] # NoRow /\ committed'[v] = NoRow
      BY <1>1, <2>2, <2>3, <2>4 DEF JobOK
    <2> QED
      BY <2>1, <2>2, <2>5, <2>6, <2>7, <2>8, <2>10, <2>11 DEF JobOK
  <1>6. OthersUntouched(t)
    <2>1. \A j \in JobIds : committed[Job(j)] # NoRow => committed'[Job(j)] # NoRow
      BY <1>1, RowKinds DEF ProfileInv, JobOK
    <2> QED
      BY <1>2, <1>3, <2>1 DEF OthersUntouched
  <1>7. RequestOK(t)'
    BY <1>1, <1>2, RowKinds DEF RequestOK
  <1> QED
    BY <1>1, <1>2, <1>4, <1>5, <1>6, <1>7, OtherRequests DEF ProfileInv

LEMMA RollbackStep ==
    ASSUME ProfileInv, NEW t \in Txns, Rollback(t) PROVE ProfileInv'
  <1>1. /\ StoreOK(Rows)' /\ Others(Rows, t) /\ committed' = committed
        /\ \A r \in Rows : db'[r] = IF owner[r] = t THEN committed[r] ELSE db[r]
        /\ \A r \in Rows : owner'[r] = IF owner[r] = t THEN Nobody ELSE owner[r]
        /\ \A r \in Rows : owner'[r] # t
    BY StoreStored, RollbackEffect DEF ProfileInv, Rollback
  <1>2. /\ SlotsOK' /\ pc'[t] = "idle" /\ outbox'[t] = {}
        /\ \A u \in Txns \ {t} : /\ pc'[u] = pc[u] /\ req'[u] = req[u] /\ seen'[u] = seen[u]
                                 /\ outbox'[u] = outbox[u]
    BY ForgetAdvances DEF Rollback
  <1>3. notices' = notices
    BY DEF Rollback
  <1>4. StoreInv'
    <2>1. \A j \in JobIds : /\ db'[Job(j)] \in JobRow \cup {NoRow}
                            /\ committed'[Job(j)] \in JobRow \cup {NoRow}
      BY <1>1, RowKinds DEF ProfileInv, StoreInv
    <2>2. \A w \in Workers : FiguresAndText(db[Profile(w)])' /\ FiguresAndText(committed[Profile(w)])'
      BY <1>1, RowKinds DEF ProfileInv, StoreInv, FiguresAndText
    <2> QED
      BY <1>1, <2>1, <2>2 DEF StoreInv, StoreOK
  <1>5. ASSUME NEW j \in JobIds PROVE JobOK(j)'
    <2>1. PICK b : b = Job(j)
      OBVIOUS
    <2>2. PICK v : v = Review(j)
      OBVIOUS
    <2>3. JobOK(j) /\ b \in Rows /\ v \in Rows
      BY <2>1, <2>2, RowKinds DEF ProfileInv
    <2>4. /\ db'[b] = IF owner[b] = t THEN committed[b] ELSE db[b]
          /\ db'[v] = IF owner[v] = t THEN committed[v] ELSE db[v]
          /\ owner'[b] = IF owner[b] = t THEN Nobody ELSE owner[b]
          /\ owner'[v] = IF owner[v] = t THEN Nobody ELSE owner[v]
      BY <1>1, <2>3
    <2>5. committed'[b] # NoRow => db'[b] # NoRow
      BY <1>1, <2>1, <2>3, <2>4 DEF JobOK
    <2>6. Consent /\ committed'[b] # NoRow => Told(j, committed'[b].status) \subseteq notices'
      BY <1>1, <1>3, <2>1, <2>3 DEF JobOK
    <2>7. \A u \in Txns : owner'[b] = u =>
              /\ db'[b] # NoRow
              /\ Consent => Told(j, db'[b].status) \subseteq notices' \cup outbox'[u]
      BY <1>2, <1>3, <2>1, <2>3, <2>4, NobodyIsNoTxn DEF JobOK
    <2>8. Consent /\ db'[v] # NoRow => Lived(j) \subseteq notices'
      BY <1>3, <2>2, <2>3, <2>4, NobodyIsNoTxn DEF JobOK
    <2>9. committed'[v] # NoRow <=> ReviewNews(j) \in notices'
      BY <1>1, <1>3, <2>2, <2>3 DEF JobOK
    <2>10. owner'[v] # Nobody => db'[v] # NoRow /\ committed'[v] = NoRow
      BY <1>1, <2>2, <2>3, <2>4 DEF JobOK
    <2> QED
      BY <2>1, <2>2, <2>5, <2>6, <2>7, <2>8, <2>9, <2>10 DEF JobOK
  <1>6. OthersUntouched(t)
    BY <1>1, <1>2, <1>3 DEF OthersUntouched
  <1>7. RequestOK(t)'
    BY <1>1, <1>2, RowKinds DEF RequestOK
  <1> QED
    BY <1>1, <1>2, <1>4, <1>5, <1>6, <1>7, OtherRequests DEF ProfileInv

-----------------------------------------------------------------------------
(* Requests that arrive. *)

LEMMA BeginEffect ==
    ASSUME ProfileInv, NEW t \in Txns, NEW next, NEW what, NEW rows, Begin(t, next, what, rows)
    PROVE  /\ pc'[t] = next /\ req'[t] = what /\ outbox'[t] = {}
           /\ \A r \in Rows : seen'[t][r] = IF r \in rows THEN committed[r] ELSE NoRow
           /\ \A r \in Rows : owner'[r] # t
           /\ UNCHANGED <<db, committed, owner, notices>>
  <1>1. RequestOK(t) /\ pc[t] = "idle"
    BY DEF ProfileInv, Begin
  <1>2. pc'[t] = next /\ req'[t] = what /\ seen'[t] = ReadView(rows) /\ outbox'[t] = outbox[t]
    BY DEF Begin, ProfileInv, SlotsOK
  <1>3. UNCHANGED <<db, committed, owner, notices>>
    BY DEF Begin
  <1>4. \A r \in Rows : ReadView(rows)[r] = IF r \in rows THEN committed[r] ELSE NoRow
    BY DEF ReadView, ProfileInv, StoreInv
  <1> QED
    BY <1>1, <1>2, <1>3, <1>4 DEF RequestOK

LEMMA BeginHireStep ==
    ASSUME ProfileInv, NEW t \in Txns, NEW c \in Clients, NEW w \in Workers, BeginHire(t, c, w)
    PROVE  ProfileInv'
  <1>1. PICK what : what = [client |-> c, worker |-> w]
    OBVIOUS
  <1>2. Begin(t, "hire", what, {})
    BY <1>1 DEF BeginHire
  <1>3. RequestOK(t)'
    <2>1. /\ pc'[t] = "hire" /\ req'[t] = what /\ outbox'[t] = {}
          /\ \A r \in Rows : owner'[r] # t
      BY <1>2, BeginEffect
    <2> QED
      BY <1>1, <2>1, RowKinds DEF RequestOK
  <1> QED
    BY <1>2, <1>3, BeginStep

LEMMA BeginMoveStep ==
    ASSUME ProfileInv, NEW t \in Txns, NEW j \in JobIds, NEW actor \in Actors, NEW to \in JobStatus,
           BeginMove(t, j, actor, to)
    PROVE  ProfileInv'
  <1>1. PICK what : what = [job |-> j, actor |-> actor, to |-> to]
    OBVIOUS
  <1>2. PICK from : from = committed[Job(j)].status
    OBVIOUS
  <1>3. /\ Begin(t, "move", what, {Job(j)})
        /\ committed[Job(j)] # NoRow
        /\ to \in DOMAIN Transitions[from] /\ Permitted(actor, from, to)
    BY <1>1, <1>2 DEF BeginMove
  <1>4. from \in JobStatus
    BY <1>2, <1>3 DEF ProfileInv, StoreInv, JobRow
  <1>5. Consent => Told(j, to) \subseteq notices \cup {NewsOf(what)}
    <2> SUFFICES ASSUME Consent PROVE Told(j, to) \subseteq notices \cup {NewsOf(what)}
      OBVIOUS
    <2>1. actor \in {"client", "worker"}
      BY EngagementsAssumption DEF Consent
    <2>2. Told(j, to) \subseteq Told(j, from) \cup {NewsOf([job |-> j, actor |-> actor, to |-> to])}
      BY <1>3, <1>4, <2>1, MovesAreTold
    <2>3. Told(j, from) \subseteq notices
      BY <1>2, <1>3 DEF ProfileInv, JobOK
    <2> QED
      BY <1>1, <2>2, <2>3
  <1>6. RequestOK(t)'
    <2>1. /\ pc'[t] = "move" /\ req'[t] = what /\ outbox'[t] = {}
          /\ \A r \in Rows : owner'[r] # t
          /\ UNCHANGED <<committed, notices>>
      BY <1>3, BeginEffect
    <2>2. what \in [job : JobIds, actor : Actors, to : JobStatus] /\ what.job = j /\ what.to = to
      BY <1>1
    <2> QED
      BY <1>3, <1>5, <2>1, <2>2, RowKinds DEF RequestOK
  <1> QED
    BY <1>3, <1>6, BeginStep

LEMMA BeginReviewStep ==
    ASSUME ProfileInv, NEW t \in Txns, NEW j \in JobIds, NEW n \in Ratings, BeginReview(t, j, n)
    PROVE  ProfileInv'
  <1>1. PICK what : what = [job |-> j, rating |-> n]
    OBVIOUS
  <1>2. PICK rows : rows = {Job(j), Profile(committed[Job(j)].worker)} \cup {Review(i) : i \in JobIds}
    OBVIOUS
  <1>3. /\ Begin(t, "review", what, rows)
        /\ committed[Job(j)] # NoRow /\ committed[Job(j)].status = "COMPLETED"
    BY <1>1, <1>2 DEF BeginReview, Reviewable
  <1>4. Consent => Lived(j) \subseteq notices
    BY <1>3 DEF ProfileInv, JobOK, Told
  <1>5. committed[Job(j)] \in JobRow
    BY <1>3 DEF ProfileInv, StoreInv
  <1>6. RequestOK(t)'
    <2>1. /\ pc'[t] = "review" /\ req'[t] = what /\ outbox'[t] = {}
          /\ seen'[t][Job(j)] = committed[Job(j)]
          /\ \A r \in Rows : owner'[r] # t
          /\ UNCHANGED <<committed, notices>>
      BY <1>2, <1>3, BeginEffect, RowKinds
    <2>2. what \in [job : JobIds, rating : 1..5] /\ what.job = j
      BY <1>1, EngagementsAssumption
    <2> QED
      BY <1>3, <1>4, <1>5, <2>1, <2>2, RowKinds DEF RequestOK
  <1> QED
    BY <1>3, <1>6, BeginStep

LEMMA BeginProfileStep ==
    ASSUME ProfileInv, NEW t \in Txns, NEW w \in Writers, NEW text \in Headlines,
           BeginProfile(t, w, text)
    PROVE  ProfileInv'
  <1>1. PICK what : what = [worker |-> w, headline |-> text]
    OBVIOUS
  <1>2. Begin(t, "profile", what, {Profile(w)})
    BY <1>1 DEF BeginProfile
  <1>3. RequestOK(t)'
    <2>1. /\ pc'[t] = "profile" /\ req'[t] = what /\ outbox'[t] = {}
          /\ \A r \in Rows : owner'[r] # t
      BY <1>2, BeginEffect
    <2>2. what.worker \in Workers
      BY <1>1, ProfilesAssumption
    <2> QED
      BY <2>1, <2>2, RowKinds DEF RequestOK
  <1> QED
    BY <1>2, <1>3, BeginStep

\* A replacement that starts with its insertions has read no link.
LEMMA BeginSkillsStep ==
    ASSUME ProfileInv, NEW t \in Txns, NEW w \in Writers, NEW new \in SkillSets,
           BeginSkills(t, w, new)
    PROVE  ProfileInv'
  <1>1. PICK what : what = [worker |-> w, new |-> new]
    OBVIOUS
  <1>2. PICK r : r = SkillsOf(w)
    OBVIOUS
  <1>3. PICK next : next = IF committed[r] # {} THEN "unlink" ELSE Remaining(new)
    OBVIOUS
  <1>4. Begin(t, next, what, {r}) /\ (committed[r] # {} \/ new # {})
    BY <1>1, <1>2, <1>3 DEF BeginSkills
  <1>5. next = "unlink" \/ (next = "link" /\ committed[r] = {})
    BY <1>3, <1>4 DEF Remaining
  <1>6. RequestOK(t)'
    <2>1. r \in Rows /\ w \in Workers
      BY <1>2, ProfilesAssumption, RowKinds
    <2>2. /\ pc'[t] = next /\ req'[t] = what /\ outbox'[t] = {}
          /\ seen'[t][r] = committed[r]
          /\ \A x \in Rows : owner'[x] # t
      BY <1>4, <2>1, BeginEffect
    <2>3. SkillsOK(t)'
      BY <1>1, <1>2, <1>5, <2>1, <2>2 DEF SkillsOK
    <2> QED
      BY <1>5, <2>2, <2>3, RowKinds DEF RequestOK
  <1> QED
    BY <1>4, <1>5, <1>6, BeginStep

-----------------------------------------------------------------------------
(* The invariant. *)

LEMMA InitInv == Init => ProfileInv
  <1> SUFFICES ASSUME Init PROVE ProfileInv
    OBVIOUS
  <1>1. PICK deal \in [Past -> Clients \X Workers] : InitStore(InitialRows(deal))
    BY DEF Init
  <1>2. PICK rows : rows = InitialRows(deal)
    OBVIOUS
  <1>3. PICK text : text = CHOOSE h \in Headlines : TRUE
    OBVIOUS
  <1>4. /\ rows = [r \in Rows |-> rows[r]]
        /\ \A j \in JobIds : rows[Job(j)] = IF j \in Past
               THEN [client |-> deal[j][1], worker |-> deal[j][2], status |-> "COMPLETED"] ELSE NoRow
        /\ \A j \in JobIds : rows[Review(j)] = NoRow
        /\ \A w \in Workers : rows[Profile(w)] = [avg |-> 0, count |-> 0, headline |-> text]
    <2>1. /\ \A j \in JobIds : /\ Job(j) \in Rows /\ Job(j)[1] = "job" /\ Job(j)[2] = j
                               /\ Review(j) \in Rows /\ Review(j)[1] = "review"
          /\ \A w \in Workers : Profile(w) \in Rows /\ Profile(w)[1] = "profile"
      BY RowKinds DEF Job, Review, Profile
    <2> QED
      BY <1>2, <1>3, <2>1 DEF InitialRows
  <1>5. /\ StoreOK(Rows)
        /\ \A r \in Rows : db[r] = rows[r] /\ committed[r] = rows[r] /\ owner[r] = Nobody
    BY <1>1, <1>2, <1>4, InitEffect
  <1>6. \A j \in Past : [client |-> deal[j][1], worker |-> deal[j][2], status |-> "COMPLETED"] \in JobRow
    BY DEF JobRow, JobStatus
  <1>7. StoreInv
    <2>1. \A j \in JobIds : /\ db[Job(j)] \in JobRow \cup {NoRow}
                            /\ committed[Job(j)] \in JobRow \cup {NoRow}
      BY <1>4, <1>5, <1>6, RowKinds
    <2>2. \A w \in Workers : FiguresAndText(db[Profile(w)]) /\ FiguresAndText(committed[Profile(w)])
      BY <1>4, <1>5, RowKinds DEF FiguresAndText
    <2> QED
      BY <1>5, <2>1, <2>2 DEF StoreInv, StoreOK
  <1>8. SlotsOK
    BY DEF Init, SlotsOK, NothingSeen
  <1>9. notices = UNION {Lived(j) : j \in Past}
    BY DEF Init
  <1>10. ASSUME NEW j \in JobIds PROVE JobOK(j)
    <2>1. /\ db[Job(j)] = rows[Job(j)] /\ committed[Job(j)] = rows[Job(j)]
          /\ owner[Job(j)] = Nobody /\ owner[Review(j)] = Nobody
          /\ db[Review(j)] = NoRow /\ committed[Review(j)] = NoRow
      BY <1>4, <1>5, RowKinds
    <2>2. committed[Job(j)] # NoRow => committed[Job(j)].status = "COMPLETED" /\ j \in Past
      <3>1. PICK asked : asked = [client |-> deal[j][1], worker |-> deal[j][2], status |-> "COMPLETED"]
        OBVIOUS
      <3>2. committed[Job(j)] = IF j \in Past THEN asked ELSE NoRow
        BY <1>4, <2>1, <3>1
      <3> QED
        BY <3>1, <3>2
    <2>3. committed[Job(j)] # NoRow => Told(j, committed[Job(j)].status) \subseteq notices
      BY <1>9, <2>2 DEF Told
    <2>4. ReviewNews(j) \notin notices
      BY <1>9, NewsKinds
    <2> QED
      BY <2>1, <2>3, <2>4, NobodyIsNoTxn DEF JobOK
  <1>11. ASSUME NEW t \in Txns PROVE RequestOK(t)
    <2>1. pc[t] = "idle" /\ outbox[t] = {}
      BY DEF Init
    <2>2. \A r \in Rows : owner[r] # t
      BY <1>5, NobodyIsNoTxn
    <2> QED
      BY <2>1, <2>2, RowKinds DEF RequestOK
  <1> QED
    BY <1>7, <1>8, <1>10, <1>11 DEF ProfileInv

LEMMA Inductive == ProfileInv /\ [ProfileNext]_vars => ProfileInv'
  <1> SUFFICES ASSUME ProfileInv, [ProfileNext]_vars PROVE ProfileInv'
    OBVIOUS
  <1>1. CASE UNCHANGED vars
    <2>1. UNCHANGED <<db, committed, owner, pc, req, seen, outbox, notices>>
      BY <1>1 DEF vars
    <2>2. StoreInv' /\ SlotsOK'
      BY <2>1 DEF ProfileInv, StoreInv, SlotsOK, FiguresAndText, UnlockedIsCommitted
    <2>3. \A j \in JobIds : JobOK(j)'
      BY <2>1 DEF ProfileInv, JobOK
    <2>4. ASSUME NEW t \in Txns PROVE RequestOK(t)'
      <3>1. RequestOK(t)
        BY DEF ProfileInv
      <3>2. SkillsOK(t) <=> SkillsOK(t)'
        BY <2>1 DEF SkillsOK
      <3> QED
        BY <2>1, <3>1, <3>2 DEF RequestOK
    <2> QED
      BY <2>2, <2>3, <2>4 DEF ProfileInv
  <1>2. ASSUME NEW t \in Txns, Arrive(t) PROVE ProfileInv'
    BY <1>2, BeginHireStep, BeginMoveStep, BeginReviewStep DEF Arrive
  <1>3. ASSUME NEW t \in Txns, Step(t) PROVE ProfileInv'
    BY <1>3, HireStep, MoveStep, InsertReviewStep, RollbackStep, RateStep, CommitStep
    DEF Step, RefuseReview
  <1>4. ASSUME NEW t \in Txns, Abort(t) PROVE ProfileInv'
    BY <1>4, RollbackStep DEF Abort
  <1>5. ASSUME NEW t \in Txns, ProfileArrive(t) PROVE ProfileInv'
    BY <1>5, BeginProfileStep, BeginSkillsStep DEF ProfileArrive
  <1>6. ASSUME NEW t \in Txns, ProfileStep(t) PROVE ProfileInv'
    BY <1>6, EditProfileStep, UnlinkStep, LinkStep, RollbackStep DEF ProfileStep, RefuseLink
  <1> QED
    BY <1>1, <1>2, <1>3, <1>4, <1>5, <1>6 DEF ProfileNext, Next

\* Rows, sessions, locks and notifications fit together in every reachable state.
THEOREM EngagementInvariance == ProfileSpec => []ProfileInv
  BY InitInv, Inductive, PTL DEF ProfileSpec

\* Nobody is reviewed for work the two did not agree on, start and finish.
THEOREM NoUnearnedReview == ProfileSpec => []ReviewedByConsent
  <1>1. ProfileInv => ReviewedByConsent
    <2> SUFFICES ASSUME ProfileInv, Consent, NEW j \in JobIds, committed[Review(j)] # NoRow
                 PROVE  Lived(j) \subseteq notices
      BY DEF ReviewedByConsent, Consent
    <2>1. JobOK(j) /\ Review(j) \in Rows
      BY RowKinds DEF ProfileInv
    <2>2. db[Review(j)] # NoRow
      BY <2>1, NobodyIsNoTxn DEF JobOK, ProfileInv, StoreInv, UnlockedIsCommitted
    <2> QED
      BY <2>1, <2>2 DEF JobOK
  <1> QED
    BY <1>1, EngagementInvariance, PTL

-----------------------------------------------------------------------------
(* What steps may do. *)

\* Nothing is committed but by a commit.
LEMMA CommitsCommit ==
    ASSUME [ProfileNext]_vars PROVE UNCHANGED committed \/ \E t \in Txns : Commit(t)
  <1>1. CASE UNCHANGED vars
    BY <1>1 DEF vars
  <1>2. ASSUME NEW t \in Txns, Arrive(t) PROVE UNCHANGED committed
    BY <1>2 DEF Arrive, BeginHire, BeginMove, BeginReview, Begin
  <1>3. ASSUME NEW t \in Txns, Step(t) PROVE UNCHANGED committed \/ Commit(t)
    BY <1>3 DEF Step, Hire, Move, InsertReview, RefuseReview, Rate, WriteRows, Rollback, RollbackTxn
  <1>4. ASSUME NEW t \in Txns, Abort(t) PROVE UNCHANGED committed
    BY <1>4 DEF Abort, Rollback, RollbackTxn
  <1>5. ASSUME NEW t \in Txns, ProfileArrive(t) PROVE UNCHANGED committed
    BY <1>5 DEF ProfileArrive, BeginProfile, BeginSkills, Begin
  <1>6. ASSUME NEW t \in Txns, ProfileStep(t) PROVE UNCHANGED committed
    BY <1>6 DEF ProfileStep, EditProfile, Unlink, Link, RefuseLink, WriteRows, Rollback, RollbackTxn
  <1> QED
    BY <1>1, <1>2, <1>3, <1>4, <1>5, <1>6 DEF ProfileNext, Next

\* The one review of a job stays as it was written, and is there exactly if the
\* worker was told of it.
THEOREM ReviewsStand == ProfileSpec => ReviewIsFinal
  <1> DEFINE Final(j) ==
         /\ committed[Review(j)] # NoRow => committed'[Review(j)] = committed[Review(j)]
         /\ committed'[Review(j)] # NoRow <=> Addressed(Reviewed(j), "worker") \in notices'
  <1>1. ASSUME ProfileInv, ProfileInv', [ProfileNext]_vars, NEW j \in JobIds PROVE Final(j)
    <2>1. committed'[Review(j)] # NoRow <=> Addressed(Reviewed(j), "worker") \in notices'
      BY <1>1 DEF ProfileInv, JobOK, ReviewNews
    <2>2. committed[Review(j)] # NoRow => committed'[Review(j)] = committed[Review(j)]
      <3> SUFFICES ASSUME NEW t \in Txns, Commit(t), committed[Review(j)] # NoRow
                   PROVE  committed'[Review(j)] = committed[Review(j)]
        BY <1>1, CommitsCommit
      <3>1. owner[Review(j)] # t
        BY <1>1, NobodyIsNoTxn DEF ProfileInv, JobOK
      <3>2. \A r \in Rows : committed'[r] = IF owner[r] = t THEN db[r] ELSE committed[r]
        BY <1>1, StoreStored, CommitEffect DEF ProfileInv, Commit
      <3> QED
        BY <3>1, <3>2, RowKinds
    <2> QED
      BY <2>1, <2>2
  <1>2. ASSUME ProfileInv, ProfileInv', [ProfileNext]_vars
        PROVE  [\A j \in JobIds : Final(j)]_vars
    BY <1>1, <1>2
  <1> QED
    BY <1>2, EngagementInvariance, PTL DEF ProfileSpec, ReviewIsFinal

\* Which statement was the last of a request.
LEMMA LastStatement ==
    ASSUME [ProfileNext]_vars, ProfileInv, NEW t \in Txns,
           pc[t] \in {"profile", "rate", "unlink", "link"}, pc'[t] = "commit"
    PROVE  /\ pc[t] = "profile" => EditProfile(t)
           /\ pc[t] = "rate" => Rate(t)
           /\ pc[t] = "unlink" => Unlink(t)
           /\ pc[t] = "link" => Link(t)
  <1>1. pc = [u \in Txns |-> pc[u]]
    BY DEF ProfileInv, SlotsOK
  <1>2. CASE UNCHANGED vars
    BY <1>2 DEF vars
  <1>3. ASSUME NEW u \in Txns, NEW next, NEW what, NEW rows, Begin(u, next, what, rows) PROVE FALSE
    BY <1>1, <1>3 DEF Begin
  <1>4. ASSUME NEW u \in Txns, Arrive(u) \/ ProfileArrive(u) PROVE FALSE
    BY <1>3, <1>4 DEF Arrive, ProfileArrive, BeginHire, BeginMove, BeginReview, BeginProfile, BeginSkills
  <1>5. ASSUME NEW u \in Txns, Forget(u) PROVE FALSE
    BY <1>1, <1>5 DEF Forget
  <1>6. ASSUME NEW u \in Txns, Hire(u) \/ Move(u) \/ InsertReview(u) PROVE FALSE
    BY <1>1, <1>6 DEF Hire, Move, InsertReview, FinishTelling
  <1>7. ASSUME NEW u \in Txns, Rate(u) \/ EditProfile(u) \/ Unlink(u) \/ Link(u) PROVE u = t
    BY <1>1, <1>7 DEF Rate, EditProfile, Unlink, Link, FinishTelling, FinishQuietly
  <1>8. ASSUME NEW u \in Txns, Commit(u) \/ Rollback(u) PROVE FALSE
    BY <1>5, <1>8 DEF Commit, Rollback
  <1>9. \E u \in Txns : Rate(u) \/ EditProfile(u) \/ Unlink(u) \/ Link(u)
    BY <1>2, <1>4, <1>6, <1>8
    DEF ProfileNext, Next, Step, ProfileStep, Abort, RefuseReview, RefuseLink
  <1>10. Rate(t) \/ EditProfile(t) \/ Unlink(t) \/ Link(t)
    BY <1>7, <1>9
  <1> QED
    BY <1>10 DEF Rate, EditProfile, Unlink, Link

\* Figures and headline of a profile are written by different requests, and neither
\* takes the other's back.
THEOREM ProfilesAreShared == ProfileSpec => EditsKeepFigures
  <1> DEFINE Kept(t, w) ==
         LET old == db[Profile(w)]
             new == db'[Profile(w)]
         IN  /\ pc[t] = "profile" /\ pc'[t] = "commit" => FiguresIn(new) = FiguresIn(old)
             /\ pc[t] = "rate" /\ pc'[t] = "commit" => new.headline = old.headline
  <1>1. ASSUME ProfileInv, [ProfileNext]_vars, NEW t \in Txns, NEW w \in Workers PROVE Kept(t, w)
    <2>1. Profile(w) \in Rows /\ FiguresAndText(db[Profile(w)])
      BY <1>1, RowKinds DEF ProfileInv, StoreInv
    <2>2. ASSUME EditProfile(t) PROVE FiguresIn(db'[Profile(w)]) = FiguresIn(db[Profile(w)])
      <3>1. db'[Profile(w)] \in {db[Profile(w)], Reworded(t, db[Profile(w)])}
        BY <1>1, <2>1, <2>2 DEF EditProfile, WriteRows, ProfileInv, StoreInv
      <3>2. FiguresIn(Reworded(t, db[Profile(w)])) = FiguresIn(db[Profile(w)])
        BY <2>1 DEF FiguresIn, FiguresAndText, Reworded
      <3> QED
        BY <3>1, <3>2
    <2>3. ASSUME Rate(t) PROVE db'[Profile(w)].headline = db[Profile(w)].headline
      <3>1. PICK row : row = db[Profile(w)]
        OBVIOUS
      <3>2. \/ db'[Profile(w)] = row
            \/ \E avg, count : db'[Profile(w)] = [row EXCEPT !.avg = avg, !.count = count]
        BY <1>1, <2>1, <2>3, <3>1 DEF Rate, WriteRows, ProfileInv, StoreInv
      <3> QED
        BY <2>1, <3>1, <3>2 DEF FiguresAndText
    <2> QED
      BY <1>1, <2>2, <2>3, LastStatement
  <1>2. ASSUME ProfileInv, [ProfileNext]_vars PROVE [\A t \in Txns, w \in Workers : Kept(t, w)]_vars
    BY <1>1, <1>2
  <1> QED
    BY <1>2, EngagementInvariance, PTL DEF ProfileSpec, EditsKeepFigures

\* A skill set that was not replaced since it was read is replaced as a whole.
THEOREM SkillsAreReplaced == ProfileSpec => FreshSkillsAreWhole
  <1> DEFINE Whole(t) ==
         LET r == SkillsOf(req[t].worker)
         IN  /\ pc[t] \in {"unlink", "link"} /\ pc'[t] = "commit"
             /\ committed[r] = seen[t][r]
             => db'[r] = req[t].new
  <1>1. ASSUME ProfileInv, [ProfileNext]_vars, NEW t \in Txns PROVE Whole(t)
    <2>1. PICK r : r = SkillsOf(req[t].worker)
      OBVIOUS
    <2> SUFFICES ASSUME pc[t] \in {"unlink", "link"}, pc'[t] = "commit", committed[r] = seen[t][r]
                 PROVE  db'[r] = req[t].new
      BY <2>1
    <2>2. SkillsOK(t) /\ r \in Rows
      BY <1>1, <2>1, RowKinds DEF ProfileInv, RequestOK, SkillsOK
    <2>3. owner[r] = Nobody => db[r] = committed[r]
      BY <1>1, <2>2 DEF ProfileInv, StoreInv, UnlockedIsCommitted
    <2>4. CASE pc[t] = "unlink"
      <3>1. Unlink(t)
        BY <1>1, <2>4, LastStatement
      <3>2. /\ db'[r] = db[r] \ seen[t][r]
            /\ owner[r] \in {t, Nobody}
        BY <1>1, <2>1, <2>2, <3>1 DEF Unlink, WriteRows, Grantable, LinksRead, ProfileInv, StoreInv
      <3>3. req[t].new = {}
        BY <1>1, <3>1 DEF Unlink, ProfileInv, SlotsOK
      <3> QED
        BY <2>1, <2>2, <2>3, <2>4, <3>2, <3>3 DEF SkillsOK
    <2>5. CASE pc[t] = "link"
      <3>1. Link(t)
        BY <1>1, <2>5, LastStatement
      <3>2. /\ db'[r] = db[r] \cup req[t].new
            /\ owner[r] \in {t, Nobody}
        BY <1>1, <2>1, <2>2, <3>1 DEF Link, WriteRows, Grantable, ProfileInv, StoreInv
      <3>3. db[r] = {}
        BY <2>1, <2>2, <2>3, <2>5, <3>2 DEF SkillsOK
      <3> QED
        BY <3>2, <3>3
    <2> QED
      BY <2>4, <2>5
  <1>2. ASSUME ProfileInv, [ProfileNext]_vars PROVE [\A t \in Txns : Whole(t)]_vars
    BY <1>1, <1>2
  <1> QED
    BY <1>2, EngagementInvariance, PTL DEF ProfileSpec, FreshSkillsAreWhole

-----------------------------------------------------------------------------
(* Figures. *)

\* The mean of ratings up to five stars is at most five, rounded too.
LEMMA RoundedRange ==
    ASSUME NEW sum \in Nat, NEW n \in Nat \ {0}, sum <= 5 * n PROVE Hundredths(sum, n) \in 0..500
  <1>1. PICK all : all = 100 * sum
    OBVIOUS
  <1>2. all \in Nat /\ all <= 500 * n
    BY <1>1
  <1>3. PICK q \in Int, r \in 0..(n - 1) : all \div n = q /\ all % n = r /\ all = n * q + r
    BY <1>2
  <1>4. q >= 0
    BY <1>2, <1>3
  <1>5. q < 500 \/ (q = 500 /\ r = 0)
    <2>1. CASE q >= 501
      <3>1. n * q >= n * 501
        BY <1>3, <2>1
      <3> QED
        BY <1>2, <1>3, <3>1
    <2>2. CASE q = 500
      BY <1>2, <1>3, <2>2
    <2> QED
      BY <1>3, <2>1, <2>2
  <1>6. Hundredths(sum, n) \in {q, q + 1} /\ (r = 0 => Hundredths(sum, n) = q)
    <2>1. Hundredths(sum, n) = IF 2 * r > n \/ (2 * r = n /\ q % 2 = 1) THEN q + 1 ELSE q
      BY <1>1, <1>3 DEF Hundredths
    <2> QED
      BY <1>3, <2>1
  <1> QED
    BY <1>3, <1>4, <1>5, <1>6

LEMMA ReviewsAreFinite ==
    ASSUME NEW jobs \in SUBSET JobIds
    PROVE  IsFiniteSet(jobs) /\ Cardinality(jobs) \in Nat /\ (Cardinality(jobs) = 0 <=> jobs = {})
  BY EngagementsAssumption, FS_Subset, FS_CardinalityType, FS_EmptySet

LEMMA FiguresTyped ==
    ASSUME NEW view, NEW w, NEW jobs \in SUBSET JobIds, \A i \in jobs : view[Review(i)] \in ReviewRow
    PROVE  /\ FiguresOf(view, w, jobs) = [avg |-> FiguresOf(view, w, jobs).avg, count |-> Cardinality(jobs)]
           /\ FiguresOf(view, w, jobs).avg \in 0..500
           /\ FiguresOf(view, w, jobs).count = Cardinality(jobs)
           /\ Cardinality(jobs) \in Nat
  <1>1. PICK f : f = [i \in jobs |-> view[Review(i)].rating]
    OBVIOUS
  <1>2. f \in [jobs -> 0..5]
    BY <1>1 DEF ReviewRow
  <1>3. IsFiniteSet(jobs) /\ Cardinality(jobs) \in Nat /\ (Cardinality(jobs) = 0 <=> jobs = {})
    BY ReviewsAreFinite
  <1>4. SumFunction(f) \in Nat /\ SumFunction(f) <= 5 * Cardinality(jobs)
    BY <1>2, <1>3, SumAtMost
  <1>5. jobs # {} => Hundredths(SumFunction(f), Cardinality(jobs)) \in 0..500
    BY <1>3, <1>4, RoundedRange
  <1> QED
    BY <1>1, <1>3, <1>5 DEF FiguresOf

\* Figures depend on nothing but the ratings they are made of.
LEMMA SameFigures ==
    ASSUME NEW a, NEW b, NEW w, NEW jobs, \A i \in jobs : a[Review(i)] = b[Review(i)]
    PROVE  FiguresOf(a, w, jobs) = FiguresOf(b, w, jobs)
  <1>1. [i \in jobs |-> a[Review(i)].rating] = [i \in jobs |-> b[Review(i)].rating]
    OBVIOUS
  <1> QED
    BY <1>1 DEF FiguresOf

LEMMA SameEarned ==
    ASSUME NEW a, NEW b, NEW w, ReviewsOf(a, w) = ReviewsOf(b, w),
           \A i \in ReviewsOf(a, w) : a[Review(i)] = b[Review(i)],
           FiguresIn(a[Profile(w)]) = FiguresIn(b[Profile(w)]), EarnedIn(a, w)
    PROVE  EarnedIn(b, w)
  <1>1. a[Profile(w)].avg = b[Profile(w)].avg /\ a[Profile(w)].count = b[Profile(w)].count
    BY DEF FiguresIn
  <1>2. PICK some \in SUBSET ReviewsOf(a, w) : a[Profile(w)].avg = FiguresOf(a, w, some).avg
    BY DEF EarnedIn
  <1>3. FiguresOf(a, w, some) = FiguresOf(b, w, some)
    BY SameFigures
  <1> QED
    BY <1>1, <1>2, <1>3 DEF EarnedIn

-----------------------------------------------------------------------------
(* Types. *)

LEMMA TypedKinds ==
    ASSUME NEW v
    PROVE  /\ \A j : Typed(Job(j), v) <=> v \in JobRow \cup {NoRow}
           /\ \A j : Typed(Review(j), v) <=> v \in ReviewRow \cup {NoRow}
           /\ \A w : Typed(Profile(w), v) <=> v \in ProfileRow
           /\ \A w : Typed(SkillsOf(w), v) <=> v \in SUBSET Skills
  BY DEF Typed, Job, Review, Profile, SkillsOf

Steps == {"idle", "hire", "move", "review", "rate", "profile", "unlink", "link", "commit"}

\* What a session holds of every row has the row's type, or is nothing.
ViewTyped(view) == \A r \in Rows : view[r] = NoRow \/ Typed(r, view[r])

\* One slot moves on, and rows keep their types.
LEMMA TypeStep ==
    ASSUME ProfileInv', TypeInv, NEW t \in Txns, pc'[t] \in Steps, ViewTyped(seen'[t]), AsksTyped(t)',
           \A u \in Txns \ {t} : pc'[u] = pc[u] /\ req'[u] = req[u] /\ seen'[u] = seen[u],
           \A r \in Rows : Typed(r, db'[r]) /\ Typed(r, committed'[r])
    PROVE  TypeInv'
  <1>1. DOMAIN db' = Rows /\ DOMAIN committed' = Rows /\ owner' \in [Rows -> Txns \cup {Nobody}]
    BY DEF ProfileInv, StoreInv
  <1>2. \A u \in Txns : /\ pc'[u] \in Steps
                        /\ AsksTyped(u)'
                        /\ \A r \in Rows : seen'[u][r] = NoRow \/ Typed(r, seen'[u][r])
    BY DEF TypeInv, EngagementTypeOK, AsksTyped, Steps, ViewTyped
  <1>3. pc' \in [Txns -> Steps]
    BY <1>2 DEF ProfileInv, SlotsOK
  <1>4. \A r \in Rows : Typed(r, db[r])' /\ Typed(r, committed[r])'
    BY DEF Typed
  <1>5. \A u \in Txns : \A r \in Rows : seen'[u][r] = NoRow \/ Typed(r, seen[u][r])'
    BY <1>2 DEF Typed
  <1>6. EngagementTypeOK'
    BY <1>1, <1>3, <1>4, <1>5 DEF EngagementTypeOK, Steps
  <1> QED
    BY <1>2, <1>6 DEF TypeInv

LEMMA TypedBegin ==
    ASSUME ProfileInv, ProfileInv', TypeInv, NEW t \in Txns, NEW next \in Steps, NEW what, NEW rows,
           Begin(t, next, what, rows), AsksTyped(t)'
    PROVE  TypeInv'
  <1>1. /\ pc'[t] = next
        /\ \A r \in Rows : seen'[t][r] = IF r \in rows THEN committed[r] ELSE NoRow
        /\ UNCHANGED <<db, committed, owner, notices>>
    BY BeginEffect
  <1>2. \A u \in Txns \ {t} : pc'[u] = pc[u] /\ req'[u] = req[u] /\ seen'[u] = seen[u]
    BY DEF Begin, ProfileInv, SlotsOK
  <1>3. ViewTyped(seen'[t])
    BY <1>1 DEF ViewTyped, TypeInv, EngagementTypeOK
  <1>4. \A r \in Rows : Typed(r, db'[r]) /\ Typed(r, committed'[r])
    BY <1>1 DEF TypeInv, EngagementTypeOK
  <1> QED
    BY <1>1, <1>2, <1>3, <1>4, TypeStep

LEMMA TypedWrite ==
    ASSUME ProfileInv, ProfileInv', TypeInv, NEW t \in Txns, NEW new, WriteRows(t, new),
           NEW next \in Steps, NEW what, NEW view, IsView(view), NEW news,
           Advances(t, next, what, view, news), ViewTyped(view), AsksTyped(t)',
           \A r \in Rows : r \in DOMAIN new => Typed(r, new[r])
    PROVE  TypeInv'
  <1>1. /\ pc'[t] = next /\ seen'[t] = view
        /\ \A u \in Txns \ {t} : /\ pc'[u] = pc[u] /\ req'[u] = req[u] /\ seen'[u] = seen[u]
                                 /\ outbox'[u] = outbox[u]
    BY SlotsAdvance DEF ProfileInv
  <1>2. /\ \A r \in Rows : db'[r] = IF r \in DOMAIN new THEN new[r] ELSE db[r]
        /\ committed' = committed
    BY StoreStored, WriteEffect DEF ProfileInv
  <1>3. \A r \in Rows : Typed(r, db'[r]) /\ Typed(r, committed'[r])
    BY <1>2 DEF TypeInv, EngagementTypeOK
  <1> QED
    BY <1>1, <1>3, TypeStep

LEMMA NothingTyped == IsView(NothingSeen) /\ ViewTyped(NothingSeen)
  BY DEF IsView, ViewTyped, NothingSeen

\* The last statement of a handler.
LEMMA TypedFinish ==
    ASSUME ProfileInv, ProfileInv', TypeInv, NEW t \in Txns, NEW new, WriteRows(t, new),
           NEW news, FinishTelling(t, news) \/ FinishQuietly(t),
           \A r \in Rows : r \in DOMAIN new => Typed(r, new[r])
    PROVE  TypeInv'
  <1>1. PICK all : Advances(t, "commit", NoRow, NothingSeen, all)
    BY FinishAdvances
  <1>2. AsksTyped(t)'
    BY <1>1, NothingTyped, SlotsAdvance DEF AsksTyped, ProfileInv
  <1> QED
    BY <1>1, <1>2, NothingTyped, TypedWrite DEF Steps

LEMMA TypedEnd ==
    ASSUME ProfileInv, ProfileInv', TypeInv, NEW t \in Txns, Commit(t) \/ Rollback(t)
    PROVE  TypeInv'
  <1>1. /\ pc'[t] = "idle"
        /\ \A u \in Txns \ {t} : /\ pc'[u] = pc[u] /\ req'[u] = req[u] /\ seen'[u] = seen[u]
                                 /\ outbox'[u] = outbox[u]
    BY ForgetAdvances DEF Commit, Rollback
  <1>2. seen'[t] = NothingSeen
    BY DEF Commit, Rollback, Forget, ProfileInv, SlotsOK
  <1>3. \A r \in Rows : db'[r] \in {db[r], committed[r]} /\ committed'[r] \in {db[r], committed[r]}
    BY StoreStored, CommitEffect, RollbackEffect DEF ProfileInv, Commit, Rollback
  <1>4. \A r \in Rows : Typed(r, db'[r]) /\ Typed(r, committed'[r])
    BY <1>3 DEF TypeInv, EngagementTypeOK
  <1>5. AsksTyped(t)'
    BY <1>1 DEF AsksTyped
  <1> QED
    BY <1>1, <1>2, <1>4, <1>5, NothingTyped, TypeStep DEF Steps

\* The slot that comes to the aggregate has seen its own review.
LEMMA ReviewsTyped ==
    ASSUME NEW view, ViewTyped(view), NEW w
    PROVE  /\ ReviewsOf(view, w) \in SUBSET JobIds
           /\ \A i \in ReviewsOf(view, w) : view[Review(i)] \in ReviewRow
  BY RowKinds, TypedKinds DEF ReviewsOf, ViewTyped

LEMMA RateTyped ==
    ASSUME ProfileInv, ProfileInv', TypeInv, NEW t \in Txns, Rate(t) PROVE TypeInv'
  <1>1. PICK w : w = seen[t][Job(req[t].job)].worker
    OBVIOUS
  <1>2. w \in Workers
    BY <1>1 DEF ProfileInv, RequestOK, Rate, JobRow
  <1>3. PICK figures : figures = Figures(t, w)
    OBVIOUS
  <1>4. figures.avg \in 0..500 /\ figures.count \in Nat
    <2>1. ViewTyped(seen[t])
      BY DEF ViewTyped, TypeInv, EngagementTypeOK
    <2> QED
      <3>1. PICK jobs : jobs = ReviewsOf(seen[t], w)
        OBVIOUS
      <3>2. jobs \in SUBSET JobIds /\ \A i \in jobs : seen[t][Review(i)] \in ReviewRow
        BY <2>1, <3>1, ReviewsTyped
      <3>3. figures = FiguresOf(seen[t], w, jobs)
        BY <1>3, <3>1 DEF Figures
      <3> QED
        BY <3>2, <3>3, FiguresTyped
  <1>5. PICK old : old = seen[t][Profile(w)]
    OBVIOUS
  <1>6. PICK row : row = [db[Profile(w)] EXCEPT
                              !.avg = IF figures.avg = old.avg THEN @ ELSE figures.avg,
                              !.count = IF figures.count = old.count THEN @ ELSE figures.count]
    OBVIOUS
  <1>7. row \in ProfileRow
    <2>1. db[Profile(w)] \in ProfileRow
      BY <1>2, RowKinds, TypedKinds DEF TypeInv, EngagementTypeOK
    <2> QED
      BY <1>4, <1>6, <2>1 DEF ProfileRow
  <1>8. PICK new : new = [x \in {Profile(w)} |-> row]
    OBVIOUS
  <1>9. WriteRows(t, new)
    <2>1. new = [x \in {Profile(w)} |->
                [db[x] EXCEPT !.avg = IF figures.avg = old.avg THEN @ ELSE figures.avg,
                              !.count = IF figures.count = old.count THEN @ ELSE figures.count]]
      BY <1>6, <1>8
    <2> QED
      BY <1>1, <1>3, <1>5, <2>1 DEF Rate
  <1>10. \A r \in Rows : r \in DOMAIN new => Typed(r, new[r])
    BY <1>7, <1>8, TypedKinds
  <1> QED
    BY <1>9, <1>10, TypedFinish DEF Rate

LEMMA EditProfileTyped ==
    ASSUME ProfileInv, ProfileInv', TypeInv, NEW t \in Txns, EditProfile(t) PROVE TypeInv'
  <1>1. PICK w : w = req[t].worker
    OBVIOUS
  <1>2. PICK row : row = Reworded(t, db[Profile(w)])
    OBVIOUS
  <1>3. row \in ProfileRow
    <2>1. w \in Workers /\ req[t].headline \in Headlines
      BY <1>1 DEF ProfileInv, RequestOK, TypeInv, AsksTyped, EditProfile
    <2>2. db[Profile(w)] \in ProfileRow
      BY <2>1, RowKinds, TypedKinds DEF TypeInv, EngagementTypeOK
    <2> QED
      BY <1>2, <2>1, <2>2 DEF ProfileRow, Reworded
  <1>4. PICK new : new = [x \in {Profile(w)} |-> row]
    OBVIOUS
  <1>5. WriteRows(t, new)
    <2>1. new = [x \in {Profile(w)} |-> Reworded(t, db[x])]
      BY <1>2, <1>4
    <2> QED
      BY <1>1, <2>1 DEF EditProfile
  <1>6. \A r \in Rows : r \in DOMAIN new => Typed(r, new[r])
    BY <1>3, <1>4, TypedKinds
  <1> QED
    BY <1>5, <1>6, TypedFinish DEF EditProfile

LEMMA HireTyped ==
    ASSUME ProfileInv, ProfileInv', TypeInv, NEW t \in Txns, Hire(t) PROVE TypeInv'
  <1>1. PICK row : row = [client |-> req[t].client, worker |-> req[t].worker, status |-> "PENDING"]
    OBVIOUS
  <1>2. row \in JobRow
    BY <1>1 DEF ProfileInv, RequestOK, Hire, JobRow, JobStatus
  <1>3. PICK j, news : WriteRows(t, [r \in {Job(j)} |-> row]) /\ FinishTelling(t, news)
    BY <1>1 DEF Hire
  <1>4. PICK new : new = [r \in {Job(j)} |-> row]
    OBVIOUS
  <1>5. \A r \in Rows : r \in DOMAIN new => Typed(r, new[r])
    BY <1>2, <1>4, TypedKinds
  <1> QED
    BY <1>3, <1>4, <1>5, TypedFinish

LEMMA MoveTyped ==
    ASSUME ProfileInv, ProfileInv', TypeInv, NEW t \in Txns, Move(t) PROVE TypeInv'
  <1>1. PICK r : r = Job(req[t].job)
    OBVIOUS
  <1>2. PICK row : row = [db[r] EXCEPT !.status = req[t].to]
    OBVIOUS
  <1>3. row \in JobRow
    <2>1. /\ req[t] \in [job : JobIds, actor : Actors, to : JobStatus]
          /\ committed[Job(req[t].job)] # NoRow
      BY DEF ProfileInv, RequestOK, Move
    <2>2. db[r] \in JobRow
      BY <1>1, <2>1 DEF ProfileInv, JobOK, StoreInv
    <2> QED
      BY <1>2, <2>1, <2>2 DEF JobRow
  <1>4. PICK new : new = [x \in {r} |-> row]
    OBVIOUS
  <1>5. WriteRows(t, new)
    <2>1. new = [x \in {r} |-> [db[x] EXCEPT !.status = req[t].to]]
      BY <1>2, <1>4
    <2> QED
      BY <1>1, <2>1 DEF Move
  <1>6. \A x \in Rows : x \in DOMAIN new => Typed(x, new[x])
    BY <1>1, <1>3, <1>4, TypedKinds
  <1>7. PICK news : FinishTelling(t, news)
    BY DEF Move
  <1> QED
    BY <1>5, <1>6, <1>7, TypedFinish

LEMMA InsertReviewTyped ==
    ASSUME ProfileInv, ProfileInv', TypeInv, NEW t \in Txns, InsertReview(t) PROVE TypeInv'
  <1>1. PICK j : j = req[t].job
    OBVIOUS
  <1>2. j \in JobIds /\ req[t].rating \in 1..5 /\ seen[t][Job(j)] \in JobRow
    BY <1>1 DEF ProfileInv, RequestOK, InsertReview
  <1>3. PICK row : row = [worker |-> seen[t][Job(j)].worker, rating |-> req[t].rating]
    OBVIOUS
  <1>4. row \in ReviewRow
    BY <1>2, <1>3 DEF ReviewRow, JobRow
  <1>5. PICK new : new = [r \in {Job(j), Review(j)} |-> IF r = Review(j) THEN row ELSE db[r]]
    OBVIOUS
  <1>6. WriteRows(t, new)
    BY <1>1, <1>3, <1>5 DEF InsertReview
  <1>7. \A r \in Rows : r \in DOMAIN new => Typed(r, new[r])
    BY <1>4, <1>5, RowKinds, TypedKinds DEF TypeInv, EngagementTypeOK
  <1>8. PICK view : view = [seen[t] EXCEPT ![Review(j)] = row]
    OBVIOUS
  <1>9. IsView(view)
    <2>1. seen[t] = [r \in Rows |-> seen[t][r]]
      BY DEF ProfileInv, SlotsOK
    <2> QED
      BY <1>8, <2>1 DEF IsView
  <1>10. ViewTyped(view)
    <2>1. \A r \in Rows : view[r] = IF r = Review(j) THEN row ELSE seen[t][r]
      BY <1>8 DEF ProfileInv, SlotsOK
    <2> QED
      BY <1>4, <2>1, TypedKinds DEF ViewTyped, TypeInv, EngagementTypeOK
  <1>11. Advances(t, "rate", req[t], view, outbox[t])
    BY <1>1, <1>3, <1>8 DEF InsertReview, Advances, ProfileInv, SlotsOK
  <1>12. AsksTyped(t)'
    BY <1>9, <1>11, SlotsAdvance DEF AsksTyped, ProfileInv
  <1> QED
    BY <1>6, <1>7, <1>9, <1>10, <1>11, <1>12, TypedWrite DEF Steps

LEMMA UnlinkTyped ==
    ASSUME ProfileInv, ProfileInv', TypeInv, NEW t \in Txns, Unlink(t) PROVE TypeInv'
  <1>1. PICK r : r = SkillsOf(req[t].worker)
    OBVIOUS
  <1>2. r \in Rows /\ db[r] \in SUBSET Skills
    <2>1. req[t].worker \in Workers
      BY DEF ProfileInv, RequestOK, SkillsOK, Unlink
    <2>2. r \in Rows /\ Typed(r, db[r])
      BY <1>1, <2>1, RowKinds DEF TypeInv, EngagementTypeOK
    <2>3. db[r] \in SUBSET Skills
      BY <1>1, <2>2, TypedKinds
    <2> QED
      BY <2>2, <2>3
  <1>3. PICK new : new = [x \in {r} |-> db[x] \ LinksRead(t)]
    OBVIOUS
  <1>4. WriteRows(t, new)
    BY <1>1, <1>3 DEF Unlink
  <1>5. \A x \in Rows : x \in DOMAIN new => Typed(x, new[x])
    BY <1>1, <1>2, <1>3, TypedKinds
  <1>6. CASE req[t].new = {}
    BY <1>4, <1>5, <1>6, TypedFinish DEF Unlink
  <1>7. CASE req[t].new # {}
    <2>1. Advances(t, "link", req[t], seen[t], outbox[t]) /\ IsView(seen[t])
      BY <1>7 DEF Unlink, Advances, IsView, ProfileInv, SlotsOK
    <2>2. ViewTyped(seen[t])
      BY DEF ViewTyped, TypeInv, EngagementTypeOK
    <2>3. pc'[t] = "link" /\ req'[t] = req[t]
      BY <2>1, SlotsAdvance DEF ProfileInv
    <2>4. AsksTyped(t)'
      BY <2>3 DEF AsksTyped, TypeInv, Unlink
    <2> QED
      BY <1>4, <1>5, <2>1, <2>2, <2>4, TypedWrite DEF Steps
  <1> QED
    BY <1>6, <1>7

LEMMA LinkTyped ==
    ASSUME ProfileInv, ProfileInv', TypeInv, NEW t \in Txns, Link(t) PROVE TypeInv'
  <1>1. PICK r : r = SkillsOf(req[t].worker)
    OBVIOUS
  <1>2. r \in Rows /\ db[r] \cup req[t].new \in SUBSET Skills
    <2>1. req[t].worker \in Workers /\ req[t].new \subseteq Skills
      BY DEF ProfileInv, RequestOK, SkillsOK, Link, TypeInv, AsksTyped
    <2>2. r \in Rows /\ Typed(r, db[r])
      BY <1>1, <2>1, RowKinds DEF TypeInv, EngagementTypeOK
    <2>3. db[r] \in SUBSET Skills
      BY <1>1, <2>2, TypedKinds
    <2> QED
      BY <2>1, <2>2, <2>3
  <1>3. PICK new : new = [x \in {r} |-> db[x] \cup req[t].new]
    OBVIOUS
  <1>4. WriteRows(t, new)
    BY <1>1, <1>3 DEF Link
  <1>5. \A x \in Rows : x \in DOMAIN new => Typed(x, new[x])
    BY <1>1, <1>2, <1>3, TypedKinds
  <1> QED
    BY <1>4, <1>5, TypedFinish DEF Link

LEMMA ArriveTyped ==
    ASSUME ProfileInv, ProfileInv', TypeInv, NEW t \in Txns, Arrive(t) \/ ProfileArrive(t)
    PROVE  TypeInv'
  <1>1. ASSUME NEW what, NEW rows, NEW next \in {"hire", "move", "review"}, Begin(t, next, what, rows)
        PROVE  TypeInv'
    <2>1. pc'[t] = next
      BY <1>1, BeginEffect
    <2>2. AsksTyped(t)'
      BY <2>1 DEF AsksTyped
    <2> QED
      BY <1>1, <2>2, TypedBegin DEF Steps
  <1>2. ASSUME NEW w \in Writers, NEW text \in Headlines, BeginProfile(t, w, text) PROVE TypeInv'
    <2>1. PICK what : what = [worker |-> w, headline |-> text]
      OBVIOUS
    <2>2. Begin(t, "profile", what, {Profile(w)})
      BY <1>2, <2>1 DEF BeginProfile
    <2>3. pc'[t] = "profile" /\ req'[t] = what
      BY <2>2, BeginEffect
    <2>4. AsksTyped(t)'
      BY <2>1, <2>3 DEF AsksTyped
    <2> QED
      BY <2>2, <2>4, TypedBegin DEF Steps
  <1>3. ASSUME NEW w \in Writers, NEW new \in SkillSets, BeginSkills(t, w, new) PROVE TypeInv'
    <2>1. PICK what : what = [worker |-> w, new |-> new]
      OBVIOUS
    <2>2. PICK next \in {"unlink", "link", "commit"} : Begin(t, next, what, {SkillsOf(w)})
      BY <1>3, <2>1 DEF BeginSkills, Remaining
    <2>3. pc'[t] = next /\ req'[t] = what
      BY <2>2, BeginEffect
    <2>4. AsksTyped(t)'
      BY <2>1, <2>3, ProfilesAssumption DEF AsksTyped
    <2> QED
      BY <2>2, <2>4, TypedBegin DEF Steps
  <1>4. CASE Arrive(t)
    BY <1>1, <1>4 DEF Arrive, BeginHire, BeginMove, BeginReview
  <1>5. CASE ProfileArrive(t)
    BY <1>2, <1>3, <1>5 DEF ProfileArrive
  <1> QED
    BY <1>4, <1>5

LEMMA InitTyped == ASSUME Init PROVE TypeInv
  <1>1. PICK deal \in [Past -> Clients \X Workers] : InitStore(InitialRows(deal))
    BY DEF Init
  <1>2. PICK rows : rows = InitialRows(deal)
    OBVIOUS
  <1>3. \A r \in Rows : Typed(r, rows[r])
    <2>1. [avg |-> 0, count |-> 0, headline |-> CHOOSE h \in Headlines : TRUE] \in ProfileRow
      BY EngagementsAssumption DEF ProfileRow
    <2>2. \A j \in Past : [client |-> deal[j][1], worker |-> deal[j][2], status |-> "COMPLETED"] \in JobRow
      BY DEF JobRow, JobStatus
    <2>3. ASSUME NEW j \in JobIds PROVE Typed(Job(j), rows[Job(j)])
      <3>1. rows[Job(j)] = IF j \in Past
                THEN [client |-> deal[j][1], worker |-> deal[j][2], status |-> "COMPLETED"] ELSE NoRow
        BY <1>2, RowKinds DEF InitialRows, Job
      <3> QED
        BY <2>2, <3>1, TypedKinds
    <2>4. ASSUME NEW j \in JobIds PROVE Typed(Review(j), rows[Review(j)])
      <3>1. rows[Review(j)] = NoRow
        BY <1>2, RowKinds DEF InitialRows, Review
      <3> QED
        BY <3>1, TypedKinds
    <2>5. ASSUME NEW w \in Workers PROVE Typed(Profile(w), rows[Profile(w)])
      <3>1. rows[Profile(w)] = [avg |-> 0, count |-> 0, headline |-> CHOOSE h \in Headlines : TRUE]
        BY <1>2, RowKinds DEF InitialRows, Profile
      <3> QED
        BY <2>1, <3>1, TypedKinds
    <2>6. ASSUME NEW w \in Workers PROVE Typed(SkillsOf(w), rows[SkillsOf(w)])
      <3>1. rows[SkillsOf(w)] = {}
        BY <1>2, RowKinds DEF InitialRows, SkillsOf
      <3> QED
        BY <3>1, TypedKinds
    <2> QED
      BY <2>3, <2>4, <2>5, <2>6 DEF Rows
  <1>4. rows = [r \in Rows |-> rows[r]]
    BY <1>2 DEF InitialRows
  <1>5. \A r \in Rows : Typed(r, db[r]) /\ Typed(r, committed[r])
    BY <1>1, <1>2, <1>3, <1>4, InitEffect
  <1>6. pc \in [Txns -> Steps] /\ \A t \in Txns : pc[t] = "idle" /\ seen[t] = NothingSeen
    BY DEF Init, Steps
  <1>7. \A t \in Txns : \A r \in Rows : seen[t][r] = NoRow
    BY <1>6 DEF NothingSeen
  <1>8. DOMAIN db = Rows /\ DOMAIN committed = Rows /\ owner \in [Rows -> Txns \cup {Nobody}]
    BY InitInv DEF ProfileInv, StoreInv
  <1>9. EngagementTypeOK
    BY <1>5, <1>6, <1>7, <1>8 DEF EngagementTypeOK, Steps
  <1> QED
    BY <1>6, <1>9 DEF TypeInv, AsksTyped

LEMMA TypeInductive ==
    ASSUME ProfileInv, ProfileInv', TypeInv, [ProfileNext]_vars PROVE TypeInv'
  <1>1. CASE UNCHANGED vars
    BY <1>1 DEF vars, TypeInv, EngagementTypeOK, AsksTyped, Typed
  <1>2. ASSUME NEW t \in Txns, Step(t) PROVE TypeInv'
    BY <1>2, HireTyped, MoveTyped, InsertReviewTyped, RateTyped, TypedEnd DEF Step, RefuseReview
  <1>3. ASSUME NEW t \in Txns, ProfileStep(t) PROVE TypeInv'
    BY <1>3, EditProfileTyped, UnlinkTyped, LinkTyped, TypedEnd DEF ProfileStep, RefuseLink
  <1> QED
    BY <1>1, <1>2, <1>3, ArriveTyped, TypedEnd DEF ProfileNext, Next, Abort

\* Rows and sessions have their types; average and number of reviews stay within
\* the ranges of their columns, whatever was aggregated.
THEOREM EngagementsTyped == ProfileSpec => []EngagementTypeOK
  <1>1. Init => ProfileInv /\ TypeInv
    BY InitInv, InitTyped
  <1>2. (ProfileInv /\ TypeInv) /\ [ProfileNext]_vars => (ProfileInv /\ TypeInv)'
    BY Inductive, TypeInductive
  <1>3. ProfileInv /\ TypeInv => EngagementTypeOK
    BY DEF TypeInv
  <1> QED
    BY <1>1, <1>2, <1>3, PTL DEF ProfileSpec

-----------------------------------------------------------------------------
(* Ratings. *)

\* The rest of what is known whenever ratings are looked at.
Known == ProfileInv /\ TypeInv

\* The other slots stand still.
OthersStand(t) == \A u \in Txns \ {t} : pc'[u] = pc[u] /\ req'[u] = req[u] /\ seen'[u] = seen[u]

\* A review that is committed is held by nobody, and one that is held is not committed.
LEMMA ReviewsHeld ==
    ASSUME ProfileInv, NEW j \in JobIds
    PROVE  /\ Review(j) \in Rows
           /\ committed[Review(j)] # NoRow => owner[Review(j)] = Nobody /\ db[Review(j)] = committed[Review(j)]
           /\ owner[Review(j)] # Nobody => db[Review(j)] # NoRow /\ committed[Review(j)] = NoRow
  BY RowKinds DEF ProfileInv, JobOK, StoreInv, UnlockedIsCommitted

LEMMA LeftRows ==
    ASSUME NEW t \in Txns
    PROVE  /\ \A r \in Rows : Left(t)[r] = IF owner[r] = t THEN db[r] ELSE committed[r]
           /\ \A r \in Rows : Left(t)'[r] = IF owner'[r] = t THEN db'[r] ELSE committed'[r]
  BY DEF Left

\* A step that commits nothing leaves the others what they would leave.
LEMMA OthersHold ==
    ASSUME Known, NEW t \in Txns, Others(Rows, t), OthersStand(t), committed' = committed,
           NEW u \in Txns \ {t}, HolderOK(u)
    PROVE  HolderOK(u)'
  <1>1. \A r \in Rows : /\ owner'[r] = u <=> owner[r] = u
                        /\ owner[r] = u => db'[r] = db[r]
    BY NobodyIsNoTxn DEF Others
  <1>2. Left(u)' = Left(u)
    BY <1>1 DEF Left
  <1>3. pc'[u] = pc[u]
    BY DEF OthersStand
  <1>4. ASSUME NEW w \in Workers, owner'[Profile(w)] = u
        PROVE  /\ pc'[u] = "commit"
               /\ EarnedIn(Left(u), w)'
               /\ FiguresIn(db'[Profile(w)]) # FiguresIn(committed'[Profile(w)]) =>
                     \E j \in JobIds : owner'[Review(j)] = u /\ db'[Review(j)].worker = w
    <2>1. owner[Profile(w)] = u /\ db'[Profile(w)] = db[Profile(w)]
      BY <1>1, <1>4, RowKinds
    <2>2. EarnedIn(Left(u), w)'
      BY <1>2, <2>1 DEF HolderOK
    <2> QED
      BY <1>1, <1>3, <2>1, <2>2, RowKinds DEF HolderOK
  <1>5. ASSUME NEW j \in JobIds, owner'[Review(j)] = u, pc'[u] = "commit"
        PROVE  db'[Review(j)].worker \in Workers /\ owner'[Profile(db'[Review(j)].worker)] = u
    BY <1>1, <1>3, <1>5, RowKinds DEF HolderOK
  <1> QED
    BY <1>4, <1>5 DEF HolderOK, FiguresIn

LEMMA OthersReview ==
    ASSUME Known, NEW t \in Txns, Others(Rows, t), OthersStand(t), committed' = committed,
           NEW u \in Txns \ {t}, ReviewerOK(u)
    PROVE  ReviewerOK(u)'
  <1>1. pc'[u] = pc[u] /\ req'[u] = req[u] /\ seen'[u] = seen[u]
    BY DEF OthersStand
  <1>2. pc[u] = "rate" => db'[Review(req[u].job)] = db[Review(req[u].job)]
    <2> SUFFICES ASSUME pc[u] = "rate" PROVE db'[Review(req[u].job)] = db[Review(req[u].job)]
      OBVIOUS
    <2>1. req[u].job \in JobIds /\ owner[Review(req[u].job)] = u
      BY DEF Known, ProfileInv, RequestOK
    <2> QED
      BY <2>1, RowKinds, NobodyIsNoTxn DEF Others
  <1>3. \A w : ReviewsOf(committed, w)' = ReviewsOf(committed, w) /\ ReviewsOf(seen[u], w)' = ReviewsOf(seen[u], w)
    BY <1>1 DEF ReviewsOf
  <1>4. \A w : FiguresIn(committed[Profile(w)])' = FiguresIn(committed[Profile(w)])
               /\ FiguresIn(seen[u][Profile(w)])' = FiguresIn(seen[u][Profile(w)])
    BY <1>1 DEF FiguresIn
  <1> QED
    BY <1>1, <1>2, <1>3, <1>4 DEF ReviewerOK

\* A step that commits nothing and keeps what its own slot owes.
LEMMA RatingStep ==
    ASSUME Known, RatingInv, NEW t \in Txns, Others(Rows, t), OthersStand(t), committed' = committed,
           HolderOK(t)', ReviewerOK(t)'
    PROVE  RatingInv'
  <1>1. RatingIsEarned'
    BY DEF RatingInv, RatingIsEarned
  <1>2. ASSUME NEW u \in Txns \ {t} PROVE HolderOK(u)' /\ ReviewerOK(u)'
    BY OthersHold, OthersReview DEF RatingInv
  <1> QED
    BY <1>1, <1>2 DEF RatingInv

\* Requests hold profiles when they are done, and reviews once they have inserted them.
LEMMA EmptyHanded ==
    ASSUME Known, RatingInv, NEW t \in Txns, pc[t] # "commit"
    PROVE  /\ \A w \in Workers : owner[Profile(w)] # t
           /\ pc[t] # "rate" => \A j \in JobIds : owner[Review(j)] # t
  BY DEF RatingInv, HolderOK, Known, ProfileInv, RequestOK

LEMMA BeginRating ==
    ASSUME Known, RatingInv, NEW t \in Txns, NEW next, NEW what, NEW rows, Begin(t, next, what, rows),
           ReviewerOK(t)'
    PROVE  RatingInv'
  <1>1. /\ \A r \in Rows : owner'[r] # t
        /\ UNCHANGED <<db, committed, owner, notices>>
    BY BeginEffect DEF Known
  <1>2. OthersStand(t)
    BY DEF OthersStand, Begin, Known, ProfileInv, SlotsOK
  <1>3. Others(Rows, t)
    BY <1>1, StoreStored, IdleEffect DEF Known, ProfileInv
  <1>4. HolderOK(t)'
    BY <1>1, RowKinds DEF HolderOK
  <1> QED
    BY <1>1, <1>2, <1>3, <1>4, RatingStep

\* What a write of t leaves.
LEMMA WriteLeaves ==
    ASSUME Known, NEW t \in Txns, NEW new, WriteRows(t, new),
           NEW next, NEW what, NEW view, IsView(view), NEW news, Advances(t, next, what, view, news)
    PROVE  /\ Others(Rows, t) /\ OthersStand(t)
           /\ Written(t, new, next, what, view, news)
  <1>1. /\ pc'[t] = next /\ req'[t] = what /\ seen'[t] = view /\ outbox'[t] = news
        /\ \A u \in Txns \ {t} : /\ pc'[u] = pc[u] /\ req'[u] = req[u] /\ seen'[u] = seen[u]
                                 /\ outbox'[u] = outbox[u]
    BY SlotsAdvance DEF Known, ProfileInv
  <1> QED
    BY <1>1, StoreStored, WriteEffect DEF Known, ProfileInv, Written, OthersStand

\* A request that writes neither profiles nor reviews.
LEMMA ElsewhereRating ==
    ASSUME Known, RatingInv, NEW t \in Txns, pc[t] \notin {"rate", "commit"}, NEW new, WriteRows(t, new),
           NEW next, next \notin {"review", "rate"}, NEW what, NEW view, IsView(view), NEW news,
           Advances(t, next, what, view, news),
           \A w \in Workers : Profile(w) \notin DOMAIN new,
           \A j \in JobIds : Review(j) \notin DOMAIN new
    PROVE  RatingInv'
  <1>1. Others(Rows, t) /\ OthersStand(t) /\ Written(t, new, next, what, view, news)
    BY WriteLeaves
  <1>2. /\ \A w \in Workers : owner'[Profile(w)] # t
        /\ \A j \in JobIds : owner'[Review(j)] # t
    BY <1>1, EmptyHanded, RowKinds DEF Written
  <1>3. HolderOK(t)'
    BY <1>2 DEF HolderOK
  <1>4. ReviewerOK(t)'
    BY <1>1 DEF ReviewerOK, Written
  <1> QED
    BY <1>1, <1>3, <1>4, RatingStep DEF Written

LEMMA ElsewhereFinish ==
    ASSUME Known, RatingInv, NEW t \in Txns, pc[t] \notin {"rate", "commit"}, NEW new, WriteRows(t, new),
           NEW news, FinishTelling(t, news) \/ FinishQuietly(t),
           \A w \in Workers : Profile(w) \notin DOMAIN new,
           \A j \in JobIds : Review(j) \notin DOMAIN new
    PROVE  RatingInv'
  <1>1. PICK all : Advances(t, "commit", NoRow, NothingSeen, all)
    BY FinishAdvances DEF Known
  <1> QED
    BY <1>1, NothingTyped, ElsewhereRating

LEMMA BeginReviewRating ==
    ASSUME Known, RatingInv, NEW t \in Txns, NEW j \in JobIds, NEW n \in Ratings, BeginReview(t, j, n)
    PROVE  RatingInv'
  <1>1. PICK w : w = committed[Job(j)].worker
    OBVIOUS
  <1>2. PICK rows : rows = {Job(j), Profile(w)} \cup {Review(i) : i \in JobIds}
    OBVIOUS
  <1>3. PICK what : what = [job |-> j, rating |-> n]
    OBVIOUS
  <1>4. Begin(t, "review", what, rows) /\ committed[Job(j)] # NoRow
    BY <1>1, <1>2, <1>3 DEF BeginReview
  <1>5. w \in Workers
    BY <1>1, <1>4 DEF Known, ProfileInv, StoreInv, JobRow
  <1>6. PICK view : view = seen'[t]
    OBVIOUS
  <1>7. /\ pc'[t] = "review" /\ req'[t].job = j
        /\ committed' = committed
        /\ view[Job(j)] = committed[Job(j)]
        /\ view[Profile(w)] = committed[Profile(w)]
        /\ \A i \in JobIds : view[Review(i)] = committed[Review(i)]
    BY <1>2, <1>3, <1>4, <1>5, <1>6, BeginEffect, RowKinds DEF Known
  <1>8. committed[Profile(w)] \in ProfileRow
    BY <1>5, RowKinds, TypedKinds DEF Known, TypeInv, EngagementTypeOK
  <1>9. committed[Profile(w)].count # 0 => ReviewsOf(committed, w) # {}
    BY <1>5 DEF RatingInv, RatingIsEarned, EarnedIn
  <1>10. ReviewerOK(t)'
    BY <1>1, <1>6, <1>7, <1>8, <1>9 DEF ReviewerOK
  <1> QED
    BY <1>4, <1>10, BeginRating

LEMMA InsertReviewRating ==
    ASSUME Known, RatingInv, NEW t \in Txns, InsertReview(t) PROVE RatingInv'
  <1>1. PICK j : j = req[t].job
    OBVIOUS
  <1>2. PICK w : w = seen[t][Job(j)].worker
    OBVIOUS
  <1>3. pc[t] = "review" /\ j \in JobIds /\ seen[t][Job(j)] \in JobRow /\ db[Review(j)] = NoRow
    BY <1>1 DEF Known, ProfileInv, RequestOK, InsertReview, Duplicate
  <1>4. w \in Workers /\ committed[Review(j)] = NoRow
    BY <1>2, <1>3, ReviewsHeld DEF JobRow, Known
  <1>5. PICK row : row = [worker |-> w, rating |-> req[t].rating]
    OBVIOUS
  <1>6. row # NoRow /\ row.worker = w
    <2>1. row \in ReviewRow
      BY <1>1, <1>3, <1>4, <1>5 DEF ReviewRow, Known, ProfileInv, RequestOK
    <2> QED
      BY <1>5, <2>1, NoRowIsNoValue
  <1>7. PICK new : new = [r \in {Job(j), Review(j)} |-> IF r = Review(j) THEN row ELSE db[r]]
    OBVIOUS
  <1>8. WriteRows(t, new)
    BY <1>1, <1>2, <1>5, <1>7 DEF InsertReview
  <1>9. PICK old : old = seen[t]
    OBVIOUS
  <1>10. PICK view : view = [old EXCEPT ![Review(j)] = row]
    OBVIOUS
  <1>11. IsView(view) /\ \A r \in Rows : view[r] = IF r = Review(j) THEN row ELSE old[r]
    <2>1. old = [r \in Rows |-> old[r]]
      BY <1>9 DEF Known, ProfileInv, SlotsOK
    <2> QED
      BY <1>10, <2>1 DEF IsView
  <1>12. Advances(t, "rate", req[t], view, outbox[t])
    BY <1>1, <1>2, <1>5, <1>9, <1>10 DEF InsertReview, Advances, Known, ProfileInv, SlotsOK
  <1>13. Others(Rows, t) /\ OthersStand(t) /\ Written(t, new, "rate", req[t], view, outbox[t])
    BY <1>8, <1>11, <1>12, WriteLeaves
  <1>14. HolderOK(t)'
    <2>1. \A u \in Workers : owner'[Profile(u)] # t
      BY <1>3, <1>7, <1>13, EmptyHanded, RowKinds DEF Written
    <2> QED
      BY <1>13, <2>1 DEF HolderOK, Written
  <1>15. /\ pc'[t] = "rate" /\ req'[t].job = j /\ seen'[t] = view /\ committed' = committed
         /\ db'[Review(j)] = row
         /\ view[Review(j)] = row /\ view[Job(j)] = old[Job(j)] /\ view[Profile(w)] = old[Profile(w)]
         /\ \A i \in JobIds \ {j} : view[Review(i)] = old[Review(i)]
    <2>1. pc'[t] = "rate" /\ req'[t].job = j /\ seen'[t] = view /\ committed' = committed
      BY <1>1, <1>13 DEF Written
    <2>2. db'[Review(j)] = row
      BY <1>3, <1>7, <1>13, RowKinds DEF Written
    <2>3. /\ view[Review(j)] = row /\ view[Job(j)] = old[Job(j)] /\ view[Profile(w)] = old[Profile(w)]
          /\ \A i \in JobIds \ {j} : view[Review(i)] = old[Review(i)]
      BY <1>3, <1>4, <1>11, RowKinds
    <2> QED
      BY <2>1, <2>2, <2>3
  <1>16. /\ \A i \in JobIds : old[Review(i)] # NoRow => old[Review(i)] = committed[Review(i)]
         /\ old[Profile(w)] \in ProfileRow
         /\ old[Profile(w)].count # 0 => ReviewsOf(committed, w) # {}
         /\ \/ FiguresIn(committed[Profile(w)]) = FiguresIn(old[Profile(w)])
            \/ ~(ReviewsOf(committed, w) \subseteq ReviewsOf(old, w))
    BY <1>1, <1>2, <1>3, <1>9 DEF RatingInv, ReviewerOK
  <1>17. ReviewsOf(committed, w) \subseteq ReviewsOf(view, w) => ReviewsOf(committed, w) \subseteq ReviewsOf(old, w)
    BY <1>4, <1>15 DEF ReviewsOf
  <1>18. ReviewerOK(t)'
    BY <1>2, <1>6, <1>9, <1>15, <1>16, <1>17 DEF ReviewerOK
  <1> QED
    BY <1>13, <1>14, <1>18, RatingStep DEF Written

\* An edit of the headline leaves the figures.
LEMMA EditProfileRating ==
    ASSUME Known, RatingInv, NEW t \in Txns, EditProfile(t) PROVE RatingInv'
  <1>1. PICK w : w = req[t].worker
    OBVIOUS
  <1>2. pc[t] = "profile" /\ w \in Workers
    BY <1>1 DEF Known, ProfileInv, RequestOK, EditProfile
  <1>3. PICK row : row = Reworded(t, db[Profile(w)])
    OBVIOUS
  <1>4. FiguresIn(row) = FiguresIn(db[Profile(w)])
    <2>1. FiguresAndText(db[Profile(w)])
      BY <1>2 DEF Known, ProfileInv, StoreInv
    <2> QED
      BY <1>3, <2>1 DEF FiguresIn, FiguresAndText, Reworded
  <1>5. PICK new : new = [x \in {Profile(w)} |-> row]
    OBVIOUS
  <1>6. WriteRows(t, new)
    <2>1. new = [x \in {Profile(w)} |-> Reworded(t, db[x])]
      BY <1>3, <1>5
    <2> QED
      BY <1>1, <2>1 DEF EditProfile
  <1>7. PICK all : Advances(t, "commit", NoRow, NothingSeen, all)
    BY FinishAdvances DEF EditProfile, Known
  <1>8. Others(Rows, t) /\ OthersStand(t) /\ Written(t, new, "commit", NoRow, NothingSeen, all)
    BY <1>6, <1>7, NothingTyped, WriteLeaves
  <1>9. /\ \A u \in Workers : owner'[Profile(u)] = t <=> u = w
        /\ \A j \in JobIds : owner'[Review(j)] # t
        /\ db'[Profile(w)] = row
    BY <1>2, <1>5, <1>8, EmptyHanded, RowKinds DEF Written
  <1>10. db[Profile(w)] = committed[Profile(w)]
    <2>1. owner[Profile(w)] = Nobody /\ Profile(w) \in Rows
      BY <1>2, <1>5, <1>8, EmptyHanded, RowKinds DEF Written
    <2> QED
      BY <2>1 DEF Known, ProfileInv, StoreInv, UnlockedIsCommitted
  <1>11. PICK left : left = Left(t)'
    OBVIOUS
  <1>12. /\ left[Profile(w)] = row
         /\ \A j \in JobIds : left[Review(j)] = committed[Review(j)]
    BY <1>2, <1>8, <1>9, <1>11, LeftRows, RowKinds DEF Written
  <1>13. EarnedIn(left, w)
    <2>1. ReviewsOf(left, w) = ReviewsOf(committed, w) /\ ReviewsOf(left, w) \subseteq JobIds
      BY <1>12 DEF ReviewsOf
    <2>2. EarnedIn(committed, w)
      BY <1>2 DEF RatingInv, RatingIsEarned
    <2> QED
      BY <1>4, <1>10, <1>12, <2>1, <2>2, SameEarned
  <1>14. HolderOK(t)'
    BY <1>4, <1>8, <1>9, <1>10, <1>11, <1>13 DEF HolderOK, Written, FiguresIn
  <1>15. ReviewerOK(t)'
    BY <1>8 DEF ReviewerOK, Written
  <1> QED
    BY <1>8, <1>14, <1>15, RatingStep DEF Written

\* The columns of a profile that the figures of a review leave.
Columns(row, new, old) ==
    [row EXCEPT !.avg = IF new.avg = old.avg THEN @ ELSE new.avg,
                !.count = IF new.count = old.count THEN @ ELSE new.count]

LEMMA ColumnsAre ==
    ASSUME NEW row \in ProfileRow, NEW new, NEW old
    PROVE  /\ Columns(row, new, old).avg = IF new.avg = old.avg THEN row.avg ELSE new.avg
           /\ Columns(row, new, old).count = IF new.count = old.count THEN row.count ELSE new.count
  BY DEF Columns, ProfileRow

\* What is known when the figures are written: the profile is nobody's, and the
\* reviews that were seen are there once the request commits.
WritesFigures(t, j, w, view) ==
    /\ pc[t] = "rate" /\ j \in JobIds /\ w \in Workers
    /\ owner[Profile(w)] = Nobody /\ db[Profile(w)] = committed[Profile(w)]
    /\ db[Profile(w)] \in ProfileRow /\ view[Profile(w)] \in ProfileRow
    /\ Others(Rows, t) /\ OthersStand(t) /\ committed' = committed
    /\ pc'[t] = "commit"
    /\ db'[Profile(w)] = Columns(db[Profile(w)], FiguresOf(view, w, ReviewsOf(view, w)), view[Profile(w)])
    /\ \A u \in Workers : owner'[Profile(u)] = t <=> u = w
    /\ \A i \in JobIds : /\ owner'[Review(i)] = t <=> i = j
                         /\ db'[Review(i)] = db[Review(i)]

LEMMA RateWrites ==
    ASSUME Known, RatingInv, NEW t \in Txns, Rate(t),
           NEW j, j = req[t].job, NEW w, w = seen[t][Job(j)].worker,
           NEW view, view = seen[t]
    PROVE  WritesFigures(t, j, w, view)
  <1>1. pc[t] = "rate" /\ j \in JobIds /\ seen[t][Job(j)] \in JobRow /\ req[t].job = j
    BY DEF Known, ProfileInv, RequestOK, Rate
  <1>2. w \in Workers
    BY <1>1 DEF JobRow
  <1>3. PICK row : row = Columns(db[Profile(w)], Figures(t, w), view[Profile(w)])
    OBVIOUS
  <1>4. PICK new : new = [x \in {Profile(w)} |-> row]
    OBVIOUS
  <1>5. WriteRows(t, new)
    <2>1. new = [x \in {Profile(w)} |-> Columns(db[x], Figures(t, w), view[Profile(w)])]
      BY <1>3, <1>4
    <2>2. WriteRows(t, [x \in {Profile(w)} |-> Columns(db[x], Figures(t, w), view[Profile(w)])])
      BY DEF Rate, Columns
    <2> QED
      BY <2>1, <2>2
  <1>6. PICK all : Advances(t, "commit", NoRow, NothingSeen, all)
    BY FinishAdvances DEF Rate, Known
  <1>7. Others(Rows, t) /\ OthersStand(t) /\ Written(t, new, "commit", NoRow, NothingSeen, all)
    BY <1>5, <1>6, NothingTyped, WriteLeaves
  <1>8. /\ \A u \in Workers : owner'[Profile(u)] = t <=> u = w
        /\ db'[Profile(w)] = row
        /\ owner[Profile(w)] = Nobody
    BY <1>1, <1>2, <1>4, <1>7, EmptyHanded, RowKinds DEF Written
  <1>9. \A i \in JobIds : /\ owner'[Review(i)] = t <=> i = j
                          /\ db'[Review(i)] = db[Review(i)]
    <2>1. \A i \in JobIds : owner[Review(i)] = t <=> i = j
      BY <1>1 DEF Known, ProfileInv, RequestOK
    <2> QED
      BY <1>4, <1>7, <2>1, RowKinds DEF Written
  <1>10. db[Profile(w)] = committed[Profile(w)]
    BY <1>2, <1>8, RowKinds DEF Known, ProfileInv, StoreInv, UnlockedIsCommitted
  <1>11. db[Profile(w)] \in ProfileRow
    BY <1>2, RowKinds, TypedKinds DEF Known, TypeInv, EngagementTypeOK
  <1>12. view[Profile(w)] \in ProfileRow
    BY <1>1 DEF RatingInv, ReviewerOK
  <1>13. Figures(t, w) = FiguresOf(view, w, ReviewsOf(view, w))
    BY DEF Figures
  <1>14. pc'[t] = "commit" /\ committed' = committed
    BY <1>7 DEF Written
  <1> QED
    BY <1>1, <1>2, <1>3, <1>7, <1>8, <1>9, <1>10, <1>11, <1>12, <1>13, <1>14 DEF WritesFigures

\* What the request has seen, and what it is about to leave.
Sees(j, w, view, left) ==
    /\ ReviewsOf(committed, w) \subseteq ReviewsOf(left, w)
    /\ \A i \in ReviewsOf(committed, w) : left[Review(i)] = committed[Review(i)]
    /\ ReviewsOf(view, w) \subseteq ReviewsOf(left, w)
    /\ \A i \in ReviewsOf(view, w) : left[Review(i)] = view[Review(i)]
    /\ j \in ReviewsOf(view, w)
    /\ ReviewsOf(left, w) \subseteq JobIds
    /\ db'[Review(j)].worker = w

LEMMA RateSees ==
    ASSUME Known, RatingInv, NEW t \in Txns, Rate(t),
           NEW j, j = req[t].job, NEW w, w = seen[t][Job(j)].worker,
           NEW view, view = seen[t], NEW left, left = Left(t)'
    PROVE  Sees(j, w, view, left)
  <1>1. /\ pc[t] = "rate" /\ j \in JobIds /\ committed' = committed
        /\ \A i \in JobIds : /\ owner'[Review(i)] = t <=> i = j
                             /\ db'[Review(i)] = db[Review(i)]
    BY RateWrites DEF WritesFigures
  <1>2. \A i \in JobIds : left[Review(i)] = IF i = j THEN db[Review(i)] ELSE committed[Review(i)]
    BY <1>1, LeftRows, RowKinds
  <1>3. committed[Review(j)] # NoRow => db[Review(j)] = committed[Review(j)]
    BY <1>1, ReviewsHeld DEF Known
  <1>4. /\ \A i \in JobIds : view[Review(i)] # NoRow =>
               view[Review(i)] = IF i = j THEN db[Review(i)] ELSE committed[Review(i)]
        /\ view[Review(j)] # NoRow /\ view[Review(j)].worker = w
    BY <1>1 DEF RatingInv, ReviewerOK
  <1> QED
    BY <1>1, <1>2, <1>3, <1>4 DEF Sees, ReviewsOf

LEMMA RateEarns ==
    ASSUME Known, RatingInv, NEW t \in Txns, Rate(t),
           NEW w, w = seen[t][Job(req[t].job)].worker
    PROVE  EarnedIn(Left(t)', w)
  <1>1. PICK j : j = req[t].job
    OBVIOUS
  <1>2. PICK view : view = seen[t]
    OBVIOUS
  <1>3. PICK left : left = Left(t)'
    OBVIOUS
  <1>4. PICK old : old = ReviewsOf(committed, w)
    OBVIOUS
  <1>5. PICK all : all = ReviewsOf(left, w)
    OBVIOUS
  <1>6. PICK some : some = ReviewsOf(view, w)
    OBVIOUS
  <1>7. /\ old \subseteq all /\ some \subseteq all /\ all \subseteq JobIds /\ j \in some
        /\ \A i \in old : left[Review(i)] = committed[Review(i)]
        /\ \A i \in some : left[Review(i)] = view[Review(i)]
    <2>1. Sees(j, w, view, left)
      BY <1>1, <1>2, <1>3, RateSees
    <2> QED
      BY <1>4, <1>5, <1>6, <2>1 DEF Sees
  <1>8. PICK row : row = db[Profile(w)]
    OBVIOUS
  <1>9. PICK figures : figures = FiguresOf(view, w, some)
    OBVIOUS
  <1>10. /\ w \in Workers /\ row \in ProfileRow /\ row = committed[Profile(w)]
         /\ view[Profile(w)] \in ProfileRow
         /\ left[Profile(w)] = Columns(row, figures, view[Profile(w)])
    <2>1. WritesFigures(t, j, w, view)
      BY <1>1, <1>2, RateWrites
    <2>2. /\ w \in Workers /\ row \in ProfileRow /\ row = committed[Profile(w)]
          /\ view[Profile(w)] \in ProfileRow
          /\ owner'[Profile(w)] = t /\ db'[Profile(w)] = Columns(row, figures, view[Profile(w)])
      BY <1>6, <1>8, <1>9, <2>1 DEF WritesFigures
    <2>3. left[Profile(w)] = db'[Profile(w)]
      BY <1>3, <2>2, LeftRows, RowKinds
    <2> QED
      BY <2>2, <2>3
  <1>11. /\ row.count <= Cardinality(old)
         /\ row.count = 0 <=> old = {}
         /\ \E few \in SUBSET old : row.avg = FiguresOf(committed, w, few).avg
    BY <1>4, <1>10 DEF RatingInv, RatingIsEarned, EarnedIn
  <1>12. figures.count = Cardinality(some)
    BY <1>9 DEF FiguresOf
  <1>13. figures.avg = FiguresOf(left, w, some).avg
    BY <1>7, <1>9, SameFigures
  <1>14. \E few \in SUBSET all : row.avg = FiguresOf(left, w, few).avg
    BY <1>7, <1>11, SameFigures
  <1>15. /\ Cardinality(some) \in Nat \ {0} /\ Cardinality(all) \in Nat /\ Cardinality(old) \in Nat
         /\ Cardinality(some) <= Cardinality(all) /\ Cardinality(old) <= Cardinality(all)
    <2>1. IsFiniteSet(all) /\ some \in SUBSET JobIds /\ old \in SUBSET JobIds /\ some # {}
      BY <1>7, ReviewsAreFinite
    <2> QED
      BY <1>7, <2>1, ReviewsAreFinite, FS_Subset
  <1>16. view[Profile(w)].count # 0 => old # {}
    <2>1. pc[t] = "rate"
      BY DEF Rate
    <2> QED
      BY <1>2, <1>4, <2>1 DEF RatingInv, ReviewerOK
  <1>17. /\ left[Profile(w)].avg = IF figures.avg = view[Profile(w)].avg THEN row.avg ELSE figures.avg
         /\ left[Profile(w)].count = IF figures.count = view[Profile(w)].count THEN row.count ELSE figures.count
    <2>1. PICK shown : shown = view[Profile(w)]
      OBVIOUS
    <2>2. PICK next : next = Columns(row, figures, shown)
      OBVIOUS
    <2>3. /\ next.avg = IF figures.avg = shown.avg THEN row.avg ELSE figures.avg
          /\ next.count = IF figures.count = shown.count THEN row.count ELSE figures.count
      <3>1. row \in ProfileRow
        BY <1>10
      <3> QED
        BY <2>2, <3>1, ColumnsAre
    <2>4. left[Profile(w)] = next
      BY <1>10, <2>1, <2>2
    <2> QED
      BY <2>1, <2>3, <2>4
  <1>18. left[Profile(w)].count <= Cardinality(all) /\ left[Profile(w)].count # 0
    <2>1. row.count \in Nat
      BY <1>10 DEF ProfileRow
    <2>2. CASE figures.count = view[Profile(w)].count
      <3>1. left[Profile(w)].count = row.count /\ view[Profile(w)].count # 0
        BY <1>12, <1>15, <1>17, <2>2
      <3>2. old # {}
        BY <1>16, <3>1
      <3> QED
        BY <1>11, <1>15, <2>1, <3>1, <3>2
    <2>3. CASE figures.count # view[Profile(w)].count
      BY <1>12, <1>15, <1>17, <2>3
    <2> QED
      BY <2>2, <2>3
  <1>19. \E few \in SUBSET all : left[Profile(w)].avg = FiguresOf(left, w, few).avg
    BY <1>7, <1>13, <1>14, <1>17
  <1>20. EarnedIn(left, w)
    BY <1>5, <1>7, <1>18, <1>19 DEF EarnedIn
  <1> QED
    BY <1>3, <1>20

LEMMA RateRating ==
    ASSUME Known, RatingInv, NEW t \in Txns, Rate(t) PROVE RatingInv'
  <1>1. PICK j : j = req[t].job
    OBVIOUS
  <1>2. PICK w : w = seen[t][Job(j)].worker
    OBVIOUS
  <1>3. PICK view : view = seen[t]
    OBVIOUS
  <1>4. /\ j \in JobIds /\ w \in Workers
        /\ Others(Rows, t) /\ OthersStand(t) /\ committed' = committed
        /\ pc'[t] = "commit"
        /\ \A u \in Workers : owner'[Profile(u)] = t <=> u = w
        /\ \A i \in JobIds : owner'[Review(i)] = t <=> i = j
    <2>1. WritesFigures(t, j, w, view)
      BY <1>1, <1>2, <1>3, RateWrites
    <2> QED
      BY <2>1 DEF WritesFigures
  <1>5. db'[Review(j)].worker = w
    <2>1. Sees(j, w, view, Left(t)')
      BY <1>1, <1>2, <1>3, RateSees
    <2> QED
      BY <2>1 DEF Sees
  <1>6. EarnedIn(Left(t)', w)
    BY <1>1, <1>2, RateEarns
  <1>7. HolderOK(t)'
    BY <1>4, <1>5, <1>6 DEF HolderOK, FiguresIn
  <1>8. ReviewerOK(t)'
    BY <1>4 DEF ReviewerOK
  <1> QED
    BY <1>4, <1>7, <1>8, RatingStep

\* A commit leaves the store it was said to leave.
LEMMA CommitLeaves ==
    ASSUME Known, NEW t \in Txns, Commit(t)
    PROVE  /\ pc[t] = "commit" /\ pc'[t] = "idle" /\ OthersStand(t)
           /\ db' = db
           /\ \A r \in Rows : committed'[r] = IF owner[r] = t THEN db[r] ELSE committed[r]
           /\ \A r \in Rows : owner'[r] = IF owner[r] = t THEN Nobody ELSE owner[r]
           /\ \A r \in Rows : owner'[r] # t
           /\ committed' = Left(t)
  <1>1. /\ StoreOK(Rows)'
        /\ db' = db
        /\ \A r \in Rows : committed'[r] = IF owner[r] = t THEN db[r] ELSE committed[r]
        /\ \A r \in Rows : owner'[r] = IF owner[r] = t THEN Nobody ELSE owner[r]
        /\ \A r \in Rows : owner'[r] # t
    BY StoreStored, CommitEffect DEF Known, ProfileInv, Commit
  <1>2. committed' = Left(t)
    BY <1>1 DEF StoreOK, Left
  <1>3. pc'[t] = "idle" /\ OthersStand(t)
    BY ForgetAdvances DEF Known, Commit, OthersStand
  <1> QED
    BY <1>1, <1>2, <1>3 DEF Commit

\* It adds reviews of a worker only together with the profile.
LEMMA CommitAdds ==
    ASSUME Known, RatingInv, NEW t \in Txns, Commit(t), NEW w \in Workers, owner[Profile(w)] # t
    PROVE  /\ committed'[Profile(w)] = committed[Profile(w)]
           /\ \A i \in JobIds : owner[Review(i)] = t =>
                 /\ committed[Review(i)] = NoRow
                 /\ committed'[Review(i)] = db[Review(i)]
                 /\ db[Review(i)].worker # w
           /\ \A i \in JobIds : owner[Review(i)] # t => committed'[Review(i)] = committed[Review(i)]
           /\ ReviewsOf(committed', w) = ReviewsOf(committed, w)
           /\ \A i \in ReviewsOf(committed, w) : committed'[Review(i)] = committed[Review(i)]
  <1>1. committed'[Profile(w)] = committed[Profile(w)]
    BY CommitLeaves, RowKinds
  <1>2. ASSUME NEW i \in JobIds, owner[Review(i)] = t
        PROVE  /\ committed[Review(i)] = NoRow /\ committed'[Review(i)] = db[Review(i)]
               /\ db[Review(i)].worker # w
    <2>1. pc[t] = "commit" /\ committed'[Review(i)] = db[Review(i)]
      BY <1>2, CommitLeaves, RowKinds
    <2>2. committed[Review(i)] = NoRow
      BY <1>2, ReviewsHeld, NobodyIsNoTxn DEF Known
    <2>3. owner[Profile(db[Review(i)].worker)] = t
      BY <1>2, <2>1 DEF RatingInv, HolderOK
    <2> QED
      BY <2>1, <2>2, <2>3
  <1>3. \A i \in JobIds : owner[Review(i)] # t => committed'[Review(i)] = committed[Review(i)]
    BY CommitLeaves, RowKinds
  <1>4. \A i \in JobIds : i \in ReviewsOf(committed', w) <=> i \in ReviewsOf(committed, w)
    BY <1>2, <1>3 DEF ReviewsOf
  <1> QED
    BY <1>1, <1>2, <1>3, <1>4 DEF ReviewsOf

\* Committed reviews stay, and what is added was held.
LEMMA CommitGrows ==
    ASSUME Known, NEW t \in Txns, Commit(t)
    PROVE  \A i \in JobIds : committed[Review(i)] # NoRow => committed'[Review(i)] = committed[Review(i)]
  <1> SUFFICES ASSUME NEW i \in JobIds, committed[Review(i)] # NoRow
               PROVE  committed'[Review(i)] = committed[Review(i)]
    OBVIOUS
  <1>1. Review(i) \in Rows /\ owner[Review(i)] # t
    BY ReviewsHeld, NobodyIsNoTxn DEF Known
  <1> QED
    BY <1>1, CommitLeaves

LEMMA CommitEarns ==
    ASSUME Known, RatingInv, NEW t \in Txns, Commit(t) PROVE RatingIsEarned'
  <1> SUFFICES ASSUME NEW w \in Workers PROVE EarnedIn(committed', w)
    BY DEF RatingIsEarned
  <1>1. CASE owner[Profile(w)] = t
    <2>1. EarnedIn(Left(t), w)
      BY <1>1 DEF RatingInv, HolderOK
    <2> QED
      BY <2>1, CommitLeaves
  <1>2. CASE owner[Profile(w)] # t
    <2>1. /\ committed'[Profile(w)] = committed[Profile(w)]
          /\ ReviewsOf(committed', w) = ReviewsOf(committed, w)
          /\ \A i \in ReviewsOf(committed, w) : committed'[Review(i)] = committed[Review(i)]
      BY <1>2, CommitAdds
    <2>2. EarnedIn(committed, w)
      BY DEF RatingInv, RatingIsEarned
    <2> QED
      BY <2>1, <2>2, SameEarned
  <1> QED
    BY <1>1, <1>2

LEMMA CommitHolders ==
    ASSUME Known, RatingInv, NEW t \in Txns, Commit(t), NEW u \in Txns \ {t} PROVE HolderOK(u)'
  <1>1. /\ pc'[u] = pc[u] /\ db' = db
        /\ \A r \in Rows : owner'[r] = u <=> owner[r] = u
    BY CommitLeaves, NobodyIsNoTxn DEF OthersStand
  <1>2. ASSUME NEW w \in Workers, owner'[Profile(w)] = u
        PROVE  /\ pc'[u] = "commit"
               /\ EarnedIn(Left(u)', w)
               /\ FiguresIn(db'[Profile(w)]) # FiguresIn(committed'[Profile(w)]) =>
                     \E j \in JobIds : owner'[Review(j)] = u /\ db'[Review(j)].worker = w
    <2>1. owner[Profile(w)] = u /\ owner[Profile(w)] # t
      BY <1>1, <1>2, RowKinds
    <2>2. /\ pc[u] = "commit"
          /\ EarnedIn(Left(u), w)
          /\ FiguresIn(db[Profile(w)]) # FiguresIn(committed[Profile(w)]) =>
                \E j \in JobIds : owner[Review(j)] = u /\ db[Review(j)].worker = w
      BY <2>1 DEF RatingInv, HolderOK
    <2>3. PICK now : now = Left(u)
      OBVIOUS
    <2>4. PICK later : later = Left(u)'
      OBVIOUS
    <2>5. later[Profile(w)] = now[Profile(w)]
      BY <1>1, <2>1, <2>3, <2>4, LeftRows, RowKinds
    <2>6. ASSUME NEW i \in JobIds
          PROVE  /\ now[Review(i)] = IF owner[Review(i)] = u THEN db[Review(i)] ELSE committed[Review(i)]
                 /\ later[Review(i)] = IF owner[Review(i)] = u THEN db[Review(i)] ELSE committed'[Review(i)]
                 /\ owner[Review(i)] = t => /\ committed[Review(i)] = NoRow
                                            /\ committed'[Review(i)].worker # w
                 /\ owner[Review(i)] # t => committed'[Review(i)] = committed[Review(i)]
      BY <1>1, <2>1, <2>3, <2>4, LeftRows, RowKinds, CommitAdds
    <2>7. \A i \in JobIds : i \in ReviewsOf(later, w) <=> i \in ReviewsOf(now, w)
      BY <2>6 DEF ReviewsOf
    <2>8. \A i \in ReviewsOf(now, w) : now[Review(i)] = later[Review(i)]
      BY <2>6 DEF ReviewsOf
    <2>9. ReviewsOf(now, w) = ReviewsOf(later, w)
      BY <2>7 DEF ReviewsOf
    <2>10. EarnedIn(later, w)
      BY <2>2, <2>3, <2>5, <2>8, <2>9, SameEarned
    <2>11. committed'[Profile(w)] = committed[Profile(w)]
      BY <2>1, CommitAdds
    <2> QED
      BY <1>1, <2>2, <2>4, <2>10, <2>11, RowKinds
  <1>3. ASSUME NEW j \in JobIds, owner'[Review(j)] = u, pc'[u] = "commit"
        PROVE  db'[Review(j)].worker \in Workers /\ owner'[Profile(db'[Review(j)].worker)] = u
    <2>1. PICK w : w = db[Review(j)].worker
      OBVIOUS
    <2>2. owner[Review(j)] = u /\ pc[u] = "commit"
      BY <1>1, <1>3, RowKinds
    <2>3. w \in Workers /\ owner[Profile(w)] = u
      BY <2>1, <2>2 DEF RatingInv, HolderOK
    <2>4. owner'[Profile(w)] = u
      BY <1>1, <2>3, RowKinds
    <2> QED
      BY <1>1, <2>1, <2>3, <2>4
  <1> QED
    BY <1>2, <1>3 DEF HolderOK, FiguresIn

LEMMA CommitReviewers ==
    ASSUME Known, RatingInv, NEW t \in Txns, Commit(t), NEW u \in Txns \ {t} PROVE ReviewerOK(u)'
  <1>1. pc'[u] = pc[u] /\ req'[u] = req[u] /\ seen'[u] = seen[u] /\ db' = db
    BY CommitLeaves DEF OthersStand
  <1> SUFFICES ASSUME pc[u] \in {"review", "rate"} PROVE ReviewerOK(u)'
    BY <1>1 DEF ReviewerOK
  <1>2. PICK view : view = seen[u]
    OBVIOUS
  <1>3. PICK j : j = req[u].job
    OBVIOUS
  <1>4. PICK w : w = view[Job(j)].worker
    OBVIOUS
  <1>5. /\ w \in Workers
        /\ pc[u] = "rate" => owner[Review(j)] = u
    BY <1>2, <1>3, <1>4 DEF Known, ProfileInv, RequestOK, JobRow
  <1>6. /\ \A i \in JobIds : view[Review(i)] # NoRow =>
               view[Review(i)] = IF pc[u] = "rate" /\ i = j THEN db[Review(i)] ELSE committed[Review(i)]
        /\ pc[u] = "rate" => view[Review(j)] # NoRow /\ view[Review(j)].worker = w
        /\ view[Profile(w)] \in ProfileRow
        /\ view[Profile(w)].count # 0 => ReviewsOf(committed, w) # {}
        /\ \/ FiguresIn(committed[Profile(w)]) = FiguresIn(view[Profile(w)])
           \/ ~(ReviewsOf(committed, w) \subseteq ReviewsOf(view, w))
    BY <1>2, <1>3, <1>4 DEF RatingInv, ReviewerOK
  <1>7. \A i \in JobIds : committed[Review(i)] # NoRow => committed'[Review(i)] = committed[Review(i)]
    BY CommitGrows
  <1>8. ReviewsOf(committed, w) \subseteq ReviewsOf(committed', w)
    BY <1>7 DEF ReviewsOf
  <1>9. \/ FiguresIn(committed'[Profile(w)]) = FiguresIn(view[Profile(w)])
        \/ ~(ReviewsOf(committed', w) \subseteq ReviewsOf(view, w))
    <2>1. CASE FiguresIn(committed'[Profile(w)]) = FiguresIn(committed[Profile(w)])
      BY <1>6, <1>8, <2>1
    <2>2. CASE FiguresIn(committed'[Profile(w)]) # FiguresIn(committed[Profile(w)])
      <3>1. owner[Profile(w)] = t /\ committed'[Profile(w)] = db[Profile(w)]
        BY <1>5, <2>2, CommitLeaves, RowKinds
      <3>2. PICK i \in JobIds : owner[Review(i)] = t /\ db[Review(i)].worker = w
        BY <1>5, <2>2, <3>1 DEF RatingInv, HolderOK
      <3>3. committed'[Review(i)] = db[Review(i)] /\ db[Review(i)] # NoRow /\ committed[Review(i)] = NoRow
        BY <3>2, CommitLeaves, ReviewsHeld, NobodyIsNoTxn DEF Known
      <3>4. i \in ReviewsOf(committed', w)
        BY <3>2, <3>3 DEF ReviewsOf
      <3>5. view[Review(i)] = NoRow
        BY <1>5, <1>6, <3>2, <3>3
      <3> QED
        BY <3>4, <3>5 DEF ReviewsOf
    <2> QED
      BY <2>1, <2>2
  <1>10. \A i \in JobIds : view[Review(i)] # NoRow =>
             view[Review(i)] = IF pc[u] = "rate" /\ i = j THEN db[Review(i)] ELSE committed'[Review(i)]
    BY <1>6, <1>7
  <1>11. view[Profile(w)].count # 0 => ReviewsOf(committed', w) # {}
    BY <1>6, <1>8
  <1> QED
    BY <1>1, <1>2, <1>3, <1>4, <1>6, <1>9, <1>10, <1>11 DEF ReviewerOK

LEMMA CommitRating ==
    ASSUME Known, RatingInv, NEW t \in Txns, Commit(t) PROVE RatingInv'
  <1>1. HolderOK(t)' /\ ReviewerOK(t)'
    BY CommitLeaves, RowKinds DEF HolderOK, ReviewerOK
  <1> QED
    BY <1>1, CommitEarns, CommitHolders, CommitReviewers DEF RatingInv

LEMMA RollbackRating ==
    ASSUME Known, RatingInv, NEW t \in Txns, Rollback(t) PROVE RatingInv'
  <1>1. /\ Others(Rows, t) /\ committed' = committed
        /\ \A r \in Rows : owner'[r] # t
    BY StoreStored, RollbackEffect DEF Known, ProfileInv, Rollback
  <1>2. pc'[t] = "idle" /\ OthersStand(t)
    BY ForgetAdvances DEF Known, Rollback, OthersStand
  <1>3. HolderOK(t)' /\ ReviewerOK(t)'
    BY <1>1, <1>2, RowKinds DEF HolderOK, ReviewerOK
  <1> QED
    BY <1>1, <1>2, <1>3, RatingStep

LEMMA ArriveRating ==
    ASSUME Known, RatingInv, NEW t \in Txns, Arrive(t) \/ ProfileArrive(t) PROVE RatingInv'
  <1>1. ASSUME NEW next, next \notin {"review", "rate"}, NEW what, NEW rows, Begin(t, next, what, rows)
        PROVE  RatingInv'
    <2>1. pc'[t] = next
      BY <1>1, BeginEffect DEF Known
    <2>2. ReviewerOK(t)'
      BY <1>1, <2>1 DEF ReviewerOK
    <2> QED
      BY <1>1, <2>2, BeginRating
  <1>2. CASE Arrive(t)
    BY <1>1, <1>2, BeginReviewRating DEF Arrive, BeginHire, BeginMove
  <1>3. CASE ProfileArrive(t)
    <2>1. ASSUME NEW w, NEW text, BeginProfile(t, w, text) PROVE RatingInv'
      BY <1>1, <2>1 DEF BeginProfile
    <2>2. ASSUME NEW w, NEW new, BeginSkills(t, w, new) PROVE RatingInv'
      <3>1. PICK next \in {"unlink", "link", "commit"} :
                Begin(t, next, [worker |-> w, new |-> new], {SkillsOf(w)})
        BY <2>2 DEF BeginSkills, Remaining
      <3> QED
        BY <1>1, <3>1
    <2> QED
      BY <1>3, <2>1, <2>2 DEF ProfileArrive
  <1> QED
    BY <1>2, <1>3

LEMMA JobsRating ==
    ASSUME Known, RatingInv, NEW t \in Txns, Hire(t) \/ Move(t) PROVE RatingInv'
  <1>1. PICK j, row, news : WriteRows(t, [r \in {Job(j)} |-> row[r]]) /\ FinishTelling(t, news)
    <2>1. CASE Hire(t)
      <3>1. PICK new : new = [client |-> req[t].client, worker |-> req[t].worker, status |-> "PENDING"]
        OBVIOUS
      <3>2. PICK j, news : WriteRows(t, [r \in {Job(j)} |-> new]) /\ FinishTelling(t, news)
        BY <2>1, <3>1 DEF Hire
      <3>3. PICK row : row = [r \in {Job(j)} |-> new]
        OBVIOUS
      <3>4. [r \in {Job(j)} |-> row[r]] = [r \in {Job(j)} |-> new]
        BY <3>3
      <3> QED
        BY <3>2, <3>4
    <2>2. CASE Move(t)
      <3>1. PICK all : all = [r \in {Job(req[t].job)} |-> [db[r] EXCEPT !.status = req[t].to]]
        OBVIOUS
      <3>2. WriteRows(t, all) /\ \E news : FinishTelling(t, news)
        BY <2>2, <3>1 DEF Move
      <3>3. all = [r \in {Job(req[t].job)} |-> all[r]]
        BY <3>1
      <3> QED
        BY <3>2, <3>3
    <2> QED
      BY <2>1, <2>2
  <1>2. PICK new : new = [r \in {Job(j)} |-> row[r]]
    OBVIOUS
  <1>3. /\ \A w \in Workers : Profile(w) \notin DOMAIN new
        /\ \A i \in JobIds : Review(i) \notin DOMAIN new
    BY <1>2 DEF Job, Profile, Review
  <1>4. pc[t] \notin {"rate", "commit"}
    BY DEF Hire, Move
  <1> QED
    BY <1>1, <1>2, <1>3, <1>4, ElsewhereFinish

LEMMA SkillsRating ==
    ASSUME Known, RatingInv, NEW t \in Txns, Unlink(t) \/ Link(t) PROVE RatingInv'
  <1>1. PICK r : r = SkillsOf(req[t].worker)
    OBVIOUS
  <1>2. ASSUME NEW new, DOMAIN new = {r}
        PROVE  /\ \A w \in Workers : Profile(w) \notin DOMAIN new
               /\ \A i \in JobIds : Review(i) \notin DOMAIN new
    BY <1>1, <1>2 DEF SkillsOf, Profile, Review
  <1>3. pc[t] \notin {"rate", "commit"}
    BY DEF Unlink, Link
  <1>4. CASE Link(t)
    <2>1. PICK new : new = [x \in {r} |-> db[x] \cup req[t].new]
      OBVIOUS
    <2>2. WriteRows(t, new) /\ DOMAIN new = {r} /\ FinishQuietly(t)
      BY <1>1, <1>4, <2>1 DEF Link
    <2> QED
      BY <1>2, <1>3, <2>2, ElsewhereFinish
  <1>5. CASE Unlink(t)
    <2>1. PICK new : new = [x \in {r} |-> db[x] \ LinksRead(t)]
      OBVIOUS
    <2>2. WriteRows(t, new) /\ DOMAIN new = {r}
      BY <1>1, <1>5, <2>1 DEF Unlink
    <2>3. CASE req[t].new = {}
      BY <1>2, <1>3, <1>5, <2>2, <2>3, ElsewhereFinish DEF Unlink
    <2>4. CASE req[t].new # {}
      <3>1. Advances(t, "link", req[t], seen[t], outbox[t]) /\ IsView(seen[t])
        BY <1>5, <2>4 DEF Unlink, Advances, IsView, Known, ProfileInv, SlotsOK
      <3> QED
        BY <1>2, <1>3, <2>2, <3>1, ElsewhereRating
    <2> QED
      BY <2>3, <2>4
  <1> QED
    BY <1>4, <1>5

LEMMA InitRating == ASSUME Init PROVE RatingInv
  <1>1. PICK deal \in [Past -> Clients \X Workers] : InitStore(InitialRows(deal))
    BY DEF Init
  <1>2. PICK rows : rows = InitialRows(deal)
    OBVIOUS
  <1>3. rows = [r \in Rows |-> rows[r]]
    BY <1>2 DEF InitialRows
  <1>4. /\ \A r \in Rows : committed[r] = rows[r] /\ owner[r] = Nobody
        /\ \A t \in Txns : pc[t] = "idle"
    BY <1>1, <1>2, <1>3, InitEffect DEF Init
  <1>5. ASSUME NEW w \in Workers PROVE EarnedIn(committed, w)
    <2>1. \A j \in JobIds : committed[Review(j)] = NoRow
      BY <1>2, <1>4, RowKinds DEF InitialRows, Review
    <2>2. committed[Profile(w)] = [avg |-> 0, count |-> 0, headline |-> CHOOSE h \in Headlines : TRUE]
      BY <1>2, <1>4, RowKinds DEF InitialRows, Profile
    <2>3. ReviewsOf(committed, w) = {}
      BY <2>1 DEF ReviewsOf
    <2>4. FiguresOf(committed, w, {}).avg = 0
      BY DEF FiguresOf
    <2>5. Cardinality({}) = 0
      BY FS_EmptySet
    <2>6. committed[Profile(w)].avg = 0 /\ committed[Profile(w)].count = 0
      BY <2>2
    <2> QED
      BY <2>3, <2>4, <2>5, <2>6 DEF EarnedIn
  <1>6. \A t \in Txns : HolderOK(t) /\ ReviewerOK(t)
    BY <1>4, RowKinds, NobodyIsNoTxn DEF HolderOK, ReviewerOK
  <1> QED
    BY <1>5, <1>6 DEF RatingInv, RatingIsEarned

LEMMA RatingInductive ==
    ASSUME Known, RatingInv, [ProfileNext]_vars PROVE RatingInv'
  <1>1. CASE UNCHANGED vars
    <2>1. /\ db' = db /\ committed' = committed /\ owner' = owner
          /\ pc' = pc /\ req' = req /\ seen' = seen
      BY <1>1 DEF vars
    <2>2. RatingIsEarned'
      BY <2>1 DEF RatingInv, RatingIsEarned
    <2>3. ASSUME NEW t \in Txns PROVE HolderOK(t)'
      <3>1. Left(t)' = Left(t)
        BY <2>1 DEF Left
      <3>2. HolderOK(t)
        BY DEF RatingInv
      <3> QED
        BY <2>1, <3>1, <3>2 DEF HolderOK, FiguresIn
    <2>4. ASSUME NEW t \in Txns PROVE ReviewerOK(t)'
      BY <2>1 DEF RatingInv, ReviewerOK, ReviewsOf, FiguresIn
    <2> QED
      BY <2>2, <2>3, <2>4 DEF RatingInv
  <1>2. ASSUME NEW t \in Txns, Step(t) PROVE RatingInv'
    BY <1>2, JobsRating, InsertReviewRating, RateRating, CommitRating, RollbackRating DEF Step, RefuseReview
  <1>3. ASSUME NEW t \in Txns, ProfileStep(t) PROVE RatingInv'
    BY <1>3, EditProfileRating, SkillsRating, RollbackRating DEF ProfileStep, RefuseLink
  <1> QED
    BY <1>1, <1>2, <1>3, ArriveRating, RollbackRating DEF ProfileNext, Next, Abort

LEMMA EverythingKnown == ProfileSpec => [](Known /\ RatingInv)
  <1>1. Init => Known /\ RatingInv
    BY InitInv, InitTyped, InitRating DEF Known
  <1>2. (Known /\ RatingInv) /\ [ProfileNext]_vars => (Known /\ RatingInv)'
    BY Inductive, TypeInductive, RatingInductive DEF Known
  <1> QED
    BY <1>1, <1>2, PTL DEF ProfileSpec

\* However reviews overlap, a profile shows the mean of reviews its worker has
\* got, counts no more of them than there are, and some as soon as there are any.
THEOREM RatingsAreEarned == ProfileSpec => []RatingIsEarned
  <1>1. Known /\ RatingInv => RatingIsEarned
    BY DEF RatingInv
  <1> QED
    BY <1>1, EverythingKnown, PTL

\* The figures a review leaves are those of the reviews it saw, if it saw the
\* latest of the worker.
LEMMA FreshRate ==
    ASSUME Known, RatingInv, NEW t \in Txns, Rate(t), NEW w, w = seen[t][Job(req[t].job)].worker,
           ReviewsOf(db, w) = ReviewsOf(seen[t], w)
    PROVE  FiguresIn(db'[Profile(w)]) = FiguresOf(db, w, ReviewsOf(db, w))
  <1>1. PICK j : j = req[t].job
    OBVIOUS
  <1>2. PICK view : view = seen[t]
    OBVIOUS
  <1>3. PICK all : all = ReviewsOf(db, w)
    OBVIOUS
  <1>4. PICK row : row = db[Profile(w)]
    OBVIOUS
  <1>5. PICK figures : figures = FiguresOf(view, w, all)
    OBVIOUS
  <1>6. /\ pc[t] = "rate" /\ j \in JobIds /\ w \in Workers
        /\ row \in ProfileRow /\ row = committed[Profile(w)] /\ view[Profile(w)] \in ProfileRow
        /\ db'[Profile(w)] = Columns(row, figures, view[Profile(w)])
    <2>1. WritesFigures(t, j, w, view)
      BY <1>1, <1>2, RateWrites
    <2>2. ReviewsOf(view, w) = all
      BY <1>2, <1>3
    <2> QED
      BY <1>4, <1>5, <2>1, <2>2 DEF WritesFigures
  <1>7. /\ \A i \in JobIds : view[Review(i)] # NoRow =>
               view[Review(i)] = IF i = j THEN db[Review(i)] ELSE committed[Review(i)]
        /\ \/ FiguresIn(committed[Profile(w)]) = FiguresIn(view[Profile(w)])
           \/ ~(ReviewsOf(committed, w) \subseteq ReviewsOf(view, w))
    BY <1>1, <1>2, <1>6 DEF RatingInv, ReviewerOK
  <1>8. \A i \in JobIds : committed[Review(i)] # NoRow => db[Review(i)] = committed[Review(i)]
    BY ReviewsHeld DEF Known
  <1>9. ReviewsOf(committed, w) \subseteq all
    BY <1>3, <1>8 DEF ReviewsOf
  <1>10. FiguresIn(row) = FiguresIn(view[Profile(w)])
    BY <1>2, <1>3, <1>6, <1>7, <1>9
  <1>11. \A i \in all : view[Review(i)] = db[Review(i)]
    BY <1>2, <1>3, <1>7, <1>8 DEF ReviewsOf
  <1>12. figures = FiguresOf(db, w, all)
    BY <1>5, <1>11, SameFigures
  <1>13. all \in SUBSET JobIds /\ \A i \in all : db[Review(i)] \in ReviewRow
    BY <1>3, RowKinds, TypedKinds DEF ReviewsOf, Known, TypeInv, EngagementTypeOK
  <1>14. figures = [avg |-> figures.avg, count |-> figures.count]
    <2>1. PICK f : f = FiguresOf(db, w, all)
      OBVIOUS
    <2>2. f = [avg |-> f.avg, count |-> Cardinality(all)] /\ f.count = Cardinality(all)
      BY <1>13, <2>1, FiguresTyped
    <2> QED
      BY <1>12, <2>1, <2>2
  <1>15. row.avg = view[Profile(w)].avg /\ row.count = view[Profile(w)].count
    BY <1>10 DEF FiguresIn
  <1>16. db'[Profile(w)].avg = figures.avg /\ db'[Profile(w)].count = figures.count
    <2>1. PICK shown : shown = view[Profile(w)]
      OBVIOUS
    <2>2. PICK next : next = Columns(row, figures, shown)
      OBVIOUS
    <2>3. /\ next.avg = IF figures.avg = shown.avg THEN row.avg ELSE figures.avg
          /\ next.count = IF figures.count = shown.count THEN row.count ELSE figures.count
      <3>1. row \in ProfileRow
        BY <1>6
      <3> QED
        BY <2>2, <3>1, ColumnsAre
    <2>4. db'[Profile(w)] = next
      BY <1>6, <2>1, <2>2
    <2> QED
      BY <1>15, <2>1, <2>3, <2>4
  <1> QED
    BY <1>3, <1>12, <1>14, <1>16 DEF FiguresIn

\* A request that saw all the reviews of a worker leaves the profile with their
\* number and their mean, whatever others had left there.
THEOREM FreshRatingsAreRight == ProfileSpec => FreshRatingIsRight
  <1>1. ASSUME Known /\ RatingInv, [ProfileNext]_vars, NEW t \in Txns, pc[t] = "rate", pc'[t] = "commit"
        PROVE  Rate(t)
    BY <1>1, LastStatement DEF Known
  <1>2. ASSUME Known /\ RatingInv, [ProfileNext]_vars, NEW t \in Txns, NEW w \in Workers,
               pc[t] = "rate", pc'[t] = "commit", seen[t][Job(req[t].job)].worker = w,
               ReviewsOf(db, w) = ReviewsOf(seen[t], w)
        PROVE  FiguresIn(db'[Profile(w)]) = FiguresOf(db, w, ReviewsOf(db, w))
    BY <1>1, <1>2, FreshRate
  <1>3. Known /\ RatingInv /\ [ProfileNext]_vars =>
            [\A t \in Txns, w \in Workers :
                LET all == ReviewsOf(db, w)
                IN  /\ pc[t] = "rate" /\ pc'[t] = "commit"
                    /\ seen[t][Job(req[t].job)].worker = w
                    /\ all = ReviewsOf(seen[t], w)
                    => FiguresIn(db'[Profile(w)]) = FiguresOf(db, w, all)]_vars
    BY <1>2
  <1> QED
    BY <1>3, EverythingKnown, PTL DEF ProfileSpec, FreshRatingIsRight
=============================================================================
