\* Two slots, two jobs to review and one to be lived: moves overwrite each other, reviews overlap.
SPECIFICATION ProfileSpec
CONSTANTS
    t1 = t1  t2 = t2
    ann = ann  wim = wim  yaw = yaw
    Nobody = Nobody  NoRow = NoRow
    Txns = {t1, t2}
    Clients = {ann}
    Workers = {wim}
    JobIds = {1, 2, 3}
    Past = {1, 2}
    Actors = {"client", "worker"}
    Ratings = {2, 5}
    Headlines = {"plain", "proud"}
    Skills = {"masonry", "tiling"}
    Writers = {wim}
    SkillSets <- MCSkillSets
SYMMETRY Slots
INVARIANTS EngagementTypeOK ReviewedByConsent RatingIsEarned
PROPERTIES ReviewIsFinal FreshRatingIsRight EditsKeepFigures FreshSkillsAreWhole
\* Jobs are finite: when all are closed and reviewed, nothing is left to do.
CHECK_DEADLOCK FALSE
