\* Two reviews of one worker overlap.
SPECIFICATION Spec
CONSTANTS
    t1 = t1  t2 = t2
    ann = ann  wim = wim  yaw = yaw
    Nobody = Nobody  NoRow = NoRow
    Txns = {t1, t2}
    Clients = {ann}
    Workers = {wim, yaw}
    JobIds = {1, 2, 3}
    Past = {1, 2}
    Actors = {"client", "worker"}
    Ratings = {2, 5}
    Headlines = {"plain"}
    Skills = {}
    Writers = {}
    SkillSets = {}
INVARIANT RatingMatchesReviews
\* Jobs are finite: when all are closed and reviewed, nothing is left to do.
CHECK_DEADLOCK FALSE
